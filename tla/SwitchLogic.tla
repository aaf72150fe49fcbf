---------------------------- MODULE SwitchLogic ----------------------------
(***************************************************************************)
(* adapters/api/switch_logic_websocket.py: the CBTC switch-logic sessions  *)
(* at /ws/cbtc.                                                            *)
(*                                                                         *)
(* A session greets with the cab it speaks for; one session per cab is     *)
(* admitted, subscribes to the snapshot feed and then reacts to whichever  *)
(* comes first, a cbtc-out message of its client or a snapshot.  An action *)
(* is a stretch of a handler, or of one of its two helper tasks, between   *)
(* two awaits.                                                             *)
(*                                                                         *)
(* The simulation core appears as what SimulationCore shows of it: it      *)
(* applies commands in order, publishes to every subscriber's bounded      *)
(* queue after each change and at any other time, and answers the task     *)
(* that waits.  A snapshot is the state of the subscriber's own box.       *)
(***************************************************************************)
EXTENDS Naturals, Sequences, FiniteSets

CONSTANTS
  Peers,              \* web sockets
  Boxes,              \* the cabs with a fitted switch box
  Greetings,          \* what a hello may carry: cabs, or something unusable
  Updates,            \* box states other clients, resets and the STCS write
  SubscriberMaxsize,  \* capacity of a subscriber queue
  MaxCommands         \* bound: commands waiting at the core

Positions == {"c2", "auto", "cbtc"}
BoxState == [position : Positions, c2 : BOOLEAN, cbtc : BOOLEAN]

Nobody == "nobody"

ASSUME SwitchLogicAssumption ==
  /\ Nobody \notin Peers
  /\ Updates \subseteq BoxState /\ Updates # {}
  /\ SubscriberMaxsize \in Nat \ {0} /\ MaxCommands \in Nat

VARIABLES
  box,            \* the core: state of each switch box, ...
  commands,       \* ... commands waiting to be applied, ...
  subscribers,    \* ... and registered queues, ...
  inbox,          \* ... with their contents
  connectedCabs,  \* app.state.switch_logic_connected_cabs
  pc,             \* where each handler is suspended
  cab,            \* local variables of the handlers: cab_id, empty for None, ...
  lastInputs,     \* ... last_inputs, ...
  text,           \* ... the result of receive_task, empty while it runs, ...
  held,           \* ... the result of snapshot_task, empty while it runs, ...
  done,           \* ... and whether snapshot_task was in the set wait() returned
  told            \* history: the inputs each client was last sent

coreVars == <<box, commands, subscribers, inbox>>
vars == <<coreVars, connectedCabs, pc, cab, lastInputs, text, held, done, told>>

Messages == {"authorized", "not authorized", "malformed", "disconnect"}
Exchanging == {"waiting", "submitting", "answered", "sending"}
Admitted == Exchanging \cup {"greeting", "leaving"}

\* _cbtc_inputs.
CbtcInputs(b) ==
  [active |-> b.position = "cbtc" \/ (b.position = "auto" /\ b.cbtc /\ ~b.c2), c2 |-> b.c2]
InputStates == [active : BOOLEAN, c2 : BOOLEAN]

-----------------------------------------------------------------------------
(* The core.                                                               *)

\* Mutation: nothing makes room.
OfferUnbounded(queue, snapshot) == Append(queue, snapshot)

Offer(queue, snapshot) ==
  Append(IF Len(queue) >= SubscriberMaxsize THEN Tail(queue) ELSE queue, snapshot)

Publish(boxes) ==
  inbox' = [p \in Peers |-> IF p \in subscribers
                            THEN Offer(inbox[p], boxes[CHOOSE c \in cab[p] : TRUE]) ELSE inbox[p]]

\* The head of the command queue is applied and its submitter answered.
ApplyCommand ==
  /\ commands # <<>>
  /\ LET command == Head(commands)
     IN  /\ box' = [box EXCEPT ![command.cab].cbtc = command.authorized]
         /\ pc' = [p \in Peers |-> IF p = command.by THEN "answered" ELSE pc[p]]
  /\ commands' = Tail(commands)
  /\ Publish(box')
  /\ UNCHANGED <<subscribers, connectedCabs, cab, lastInputs, text, held, done, told>>

\* Any other change of the world, or a fixed step: with its snapshot.
OtherChange(c) ==
  /\ \E b \in Updates \cup {box[c]} : box' = [box EXCEPT ![c] = b]
  /\ Publish(box')
  /\ UNCHANGED <<commands, subscribers, connectedCabs, pc, cab, lastInputs, text, held, done, told>>

-----------------------------------------------------------------------------
(* The handler of one socket.                                              *)

Connect(p) ==
  /\ pc[p] = "closed"
  /\ pc' = [pc EXCEPT ![p] = "hello"]
  /\ UNCHANGED <<coreVars, connectedCabs, cab, lastInputs, text, held, done, told>>

\* The socket is closed before its session was admitted.
Refuse(p) ==
  /\ pc' = [pc EXCEPT ![p] = "closed"]
  /\ UNCHANGED <<coreVars, connectedCabs, cab, lastInputs, text, held, done, told>>

Admit(p, c) ==
  /\ connectedCabs' = connectedCabs \cup {c}
  /\ subscribers' = subscribers \cup {p}
  /\ cab' = [cab EXCEPT ![p] = {c}]
  /\ lastInputs' = [lastInputs EXCEPT ![p] = CbtcInputs(box[c])]
  /\ pc' = [pc EXCEPT ![p] = "greeting"]
  /\ UNCHANGED <<box, commands, inbox, text, held, done, told>>

\* Mutation: a second client of a cab ends like an admitted one, and gives up
\* the slot it never had.
HelloLeaves(p, c) ==
  /\ pc[p] = "hello"
  /\ IF c \in Boxes \ connectedCabs THEN Admit(p, c)
     ELSE IF c \notin Boxes THEN Refuse(p)
     ELSE /\ cab' = [cab EXCEPT ![p] = {c}]
          /\ pc' = [pc EXCEPT ![p] = "leaving"]
          /\ UNCHANGED <<coreVars, connectedCabs, lastInputs, text, held, done, told>>

\* The hello arrives: malformed, for a cab without a box, for a cab that has a
\* client, or admitted.  Nothing is awaited between the checks, the entry in
\* the shared set and the subscription, whose first snapshot is taken at once.
Hello(p, c) ==
  /\ pc[p] = "hello"
  /\ IF c \in Boxes \ connectedCabs THEN Admit(p, c) ELSE Refuse(p)

\* The client disconnects before its hello.
HangUp(p) == pc[p] = "hello" /\ Refuse(p)

\* hello_ack and the first cbtc-in are sent; the helper tasks are created.
Greeted(p) ==
  /\ pc[p] = "greeting"
  /\ pc' = [pc EXCEPT ![p] = "waiting"]
  /\ told' = [told EXCEPT ![p] = lastInputs[p]]
  /\ UNCHANGED <<coreVars, connectedCabs, cab, lastInputs, text, held, done>>

\* receive_task ends with a message or the end of the socket.
ReceiveText(p, m) ==
  /\ pc[p] \in Exchanging /\ text[p] = {}
  /\ text' = [text EXCEPT ![p] = {m}]
  /\ UNCHANGED <<coreVars, connectedCabs, pc, cab, lastInputs, held, done, told>>

\* snapshot_task ends with the oldest snapshot of the queue.
TakeSnapshot(p) ==
  /\ pc[p] \in Exchanging /\ held[p] = {} /\ inbox[p] # <<>>
  /\ held' = [held EXCEPT ![p] = {Head(inbox[p])}]
  /\ inbox' = [inbox EXCEPT ![p] = Tail(@)]
  /\ UNCHANGED <<box, commands, subscribers, connectedCabs, pc, cab, lastInputs, text, done, told>>

\* The second half of the loop: compare the held snapshot with what the client
\* knows, and report a difference.
React(p) ==
  /\ \E b \in held[p] :
       /\ lastInputs' = [lastInputs EXCEPT ![p] = CbtcInputs(b)]
       /\ pc' = [pc EXCEPT ![p] = IF CbtcInputs(b) # lastInputs[p] THEN "sending" ELSE "waiting"]
  /\ held' = [held EXCEPT ![p] = {}]

\* asyncio.wait returns with a message: malformed ones and the end of the
\* socket end the exchange, the rest is submitted to the core.
WakeOnText(p) ==
  /\ pc[p] = "waiting"
  /\ \/ text[p] \cap {"malformed", "disconnect"} # {}
        /\ pc' = [pc EXCEPT ![p] = "leaving"]
        /\ UNCHANGED <<commands, done>>
     \/ text[p] \cap {"authorized", "not authorized"} # {}
        /\ Len(commands) < MaxCommands
        /\ commands' = Append(commands, [by |-> p, cab |-> CHOOSE c \in cab[p] : TRUE,
                                         authorized |-> text[p] = {"authorized"}])
        /\ pc' = [pc EXCEPT ![p] = "submitting"]
        /\ done' = [done EXCEPT ![p] = held[p] # {}]
  /\ UNCHANGED <<box, subscribers, inbox, connectedCabs, cab, lastInputs, text, held, told>>

\* ... or with a snapshot only.
WakeOnSnapshot(p) ==
  /\ pc[p] = "waiting" /\ text[p] = {} /\ held[p] # {}
  /\ React(p)
  /\ UNCHANGED <<coreVars, connectedCabs, cab, text, done, told>>

\* Mutation: both helper tasks are started afresh after a command.
AfterSubmitForgets(p) ==
  /\ pc[p] = "answered"
  /\ text' = [text EXCEPT ![p] = {}]
  /\ held' = [held EXCEPT ![p] = {}]
  /\ pc' = [pc EXCEPT ![p] = "waiting"]
  /\ UNCHANGED <<coreVars, connectedCabs, cab, lastInputs, done, told>>

\* Mutation: a handled message ends the iteration.
AfterSubmitContinues(p) ==
  /\ pc[p] = "answered"
  /\ text' = [text EXCEPT ![p] = {}]
  /\ pc' = [pc EXCEPT ![p] = "waiting"]
  /\ UNCHANGED <<coreVars, connectedCabs, cab, lastInputs, held, done, told>>

\* The command was applied (a fitted box takes every boolean); a snapshot that
\* was there when wait() returned is looked at in the same iteration.
AfterSubmit(p) ==
  /\ pc[p] = "answered"
  /\ text' = [text EXCEPT ![p] = {}]
  /\ IF done[p] THEN React(p)
     ELSE pc' = [pc EXCEPT ![p] = "waiting"] /\ UNCHANGED <<lastInputs, held>>
  /\ UNCHANGED <<coreVars, connectedCabs, cab, done, told>>

\* A cbtc-in is sent.
Sent(p) ==
  /\ pc[p] = "sending"
  /\ pc' = [pc EXCEPT ![p] = "waiting"]
  /\ told' = [told EXCEPT ![p] = lastInputs[p]]
  /\ UNCHANGED <<coreVars, connectedCabs, cab, lastInputs, text, held, done>>

\* A send fails, or the handler is cancelled; its command stays queued.
Fail(p) ==
  /\ pc[p] \in Exchanging \cup {"greeting"}
  /\ pc' = [pc EXCEPT ![p] = "leaving"]
  /\ commands' = [i \in DOMAIN commands |->
                    IF commands[i].by = p THEN [commands[i] EXCEPT !.by = Nobody] ELSE commands[i]]
  /\ UNCHANGED <<box, subscribers, inbox, connectedCabs, cab, lastInputs, text, held, done, told>>

\* The finally clauses, once the helper tasks are gone.
Leave(p) ==
  /\ pc[p] = "leaving"
  /\ pc' = [pc EXCEPT ![p] = "closed"]
  /\ subscribers' = subscribers \ {p}
  /\ inbox' = [inbox EXCEPT ![p] = <<>>]
  /\ connectedCabs' = connectedCabs \ cab[p]
  /\ cab' = [cab EXCEPT ![p] = {}]
  /\ text' = [text EXCEPT ![p] = {}]
  /\ held' = [held EXCEPT ![p] = {}]
  /\ done' = [done EXCEPT ![p] = FALSE]
  /\ UNCHANGED <<box, commands, lastInputs, told>>

Handler(p) == Greeted(p) \/ WakeOnText(p) \/ WakeOnSnapshot(p) \/ AfterSubmit(p) \/ Sent(p)
              \/ Leave(p)

-----------------------------------------------------------------------------
Init ==
  /\ box = [c \in Boxes |-> [position |-> "c2", c2 |-> FALSE, cbtc |-> FALSE]]
  /\ commands = <<>> /\ subscribers = {} /\ connectedCabs = {}
  /\ inbox = [p \in Peers |-> <<>>]
  /\ pc = [p \in Peers |-> "closed"]
  /\ cab = [p \in Peers |-> {}]
  /\ lastInputs = [p \in Peers |-> [active |-> FALSE, c2 |-> FALSE]]
  /\ told = lastInputs
  /\ text = [p \in Peers |-> {}]
  /\ held = [p \in Peers |-> {}]
  /\ done = [p \in Peers |-> FALSE]

Next ==
  \/ ApplyCommand
  \/ \E c \in Boxes : OtherChange(c)
  \/ \E p \in Peers :
       \/ Connect(p) \/ HangUp(p) \/ Handler(p) \/ TakeSnapshot(p) \/ Fail(p)
       \/ \E c \in Greetings : Hello(p, c)
       \/ \E m \in Messages : ReceiveText(p, m)

Spec == Init /\ [][Next]_vars

\* The event loop runs every ready task, run_loop among them.  Clients need
\* not send anything, and nothing need go wrong.
FairSpec ==
  /\ Spec
  /\ WF_vars(ApplyCommand)
  /\ \A p \in Peers : WF_vars(Handler(p)) /\ WF_vars(TakeSnapshot(p))

-----------------------------------------------------------------------------
(* Properties.                                                             *)

TypeOK ==
  /\ box \in [Boxes -> BoxState]
  /\ commands \in Seq([by : Peers \cup {Nobody}, cab : Boxes, authorized : BOOLEAN])
  /\ subscribers \subseteq Peers /\ connectedCabs \subseteq Boxes
  /\ \A p \in Peers : inbox[p] \in Seq(BoxState) /\ Len(inbox[p]) <= SubscriberMaxsize
  /\ pc \in [Peers -> Admitted \cup {"closed", "hello"}]
  /\ \A p \in Peers : /\ cab[p] \subseteq Boxes /\ Cardinality(cab[p]) <= 1
                      /\ text[p] \subseteq Messages /\ Cardinality(text[p]) <= 1
                      /\ held[p] \subseteq BoxState /\ Cardinality(held[p]) <= 1
  /\ {lastInputs, told} \subseteq [Peers -> InputStates]
  /\ done \in [Peers -> BOOLEAN]

\* One client per cab, and nothing leaks: the shared set and the registered
\* queues are exactly those of the sessions in force, at every await and
\* however a session or a refused greeting ends.
SlotsMatchSessions ==
  LET sessions == {p \in Peers : pc[p] \in Admitted}
  IN  /\ subscribers = sessions
      /\ connectedCabs = UNION {cab[p] : p \in sessions}
      /\ \A p \in Peers : cab[p] # {} <=> p \in sessions
      /\ \A p, q \in sessions : p # q => cab[p] \cap cab[q] = {}

\* What the session of a cab has on its way to the client ends with the present
\* inputs: a snapshot may be dropped, skipped or overtaken by a command of the
\* client itself, but never so that the last change goes unreported.
OnItsWay(p) ==
  IF inbox[p] # <<>> THEN {CbtcInputs(inbox[p][Len(inbox[p])])}
  ELSE IF held[p] # {} THEN {CbtcInputs(b) : b \in held[p]} ELSE {lastInputs[p]}
NothingMissed ==
  \A p \in Peers : pc[p] \in Exchanging \cup {"greeting"}
                     => OnItsWay(p) = {CbtcInputs(box[c]) : c \in cab[p]}

\* docs/web-api.md:489-490, "The server sends another complete cbtc-in whenever
\* either input changes": once the box is left alone, a client that stays
\* connected ends up with the present inputs, however many messages it keeps
\* sending and however fast snapshots are published.
BoxLeftAlone == <>[][UNCHANGED box]_vars
ChangesReported ==
  BoxLeftAlone =>
    \A p \in Peers : <>[](pc[p] \in Exchanging)
                       => <>[](\A c \in cab[p] : told[p] = CbtcInputs(box[c]))
=============================================================================
