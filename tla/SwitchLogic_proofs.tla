------------------------- MODULE SwitchLogic_proofs -------------------------
(***************************************************************************)
(* That the CBTC sessions never share a cab and never leak a slot or a     *)
(* queue, for any number of sockets, cabs and queued commands.             *)
(*                                                                         *)
(* SlotsMatchSessions alone is not inductive: the core resumes whichever   *)
(* handler submitted the command it has applied, so the proof needs that   *)
(* such a handler is still waiting for just that command.                  *)
(***************************************************************************)
EXTENDS SwitchLogic, FiniteSetTheorems, TLAPS

Command == [by : Peers \cup {Nobody}, cab : Boxes, authorized : BOOLEAN]

\* A queued command belongs to a handler that waits for it, or to nobody; no
\* handler has two.
CommandsAwaited ==
  /\ \A i \in 1..Len(commands) : commands[i].by \in Peers => pc[commands[i].by] = "submitting"
  /\ \A i, j \in 1..Len(commands) :
        i # j /\ commands[i].by \in Peers => commands[i].by # commands[j].by

SlotInv ==
  /\ pc \in [Peers -> Admitted \cup {"closed", "hello"}]
  /\ cab \in [Peers -> SUBSET Boxes]
  /\ commands \in Seq(Command)
  /\ CommandsAwaited
  /\ SlotsMatchSessions

\* No socket is connected at first.
LEMMA SlotInvInit == Init => SlotInv
BY DEF Init, SlotInv, CommandsAwaited, SlotsMatchSessions, Admitted, Exchanging

\* A handler that moves on within a session, or outside of one, keeps the books.
LEMMA SameSessions ==
  ASSUME SlotsMatchSessions, UNCHANGED <<subscribers, connectedCabs, cab>>,
         \A p \in Peers : pc'[p] \in Admitted <=> pc[p] \in Admitted
  PROVE  SlotsMatchSessions'
<1>1. {p \in Peers : pc'[p] \in Admitted} = {p \in Peers : pc[p] \in Admitted}
  OBVIOUS
<1> QED
  BY <1>1 DEF SlotsMatchSessions

\* The command at the head resumes the handler it belongs to and no other.
LEMMA ApplyCommandSlots == SlotInv /\ ApplyCommand => SlotInv'
<1> SUFFICES ASSUME SlotInv, ApplyCommand PROVE SlotInv'
  OBVIOUS
<1> DEFINE author == Head(commands).by
<1>1. /\ commands # <<>> /\ commands \in Seq(Command)
      /\ Head(commands) = commands[1] /\ 1 \in 1..Len(commands)
      /\ commands' = Tail(commands) /\ commands' \in Seq(Command)
      /\ Len(commands') = Len(commands) - 1
      /\ \A i \in 1..Len(commands') : commands'[i] = commands[i + 1] /\ i + 1 \in 1..Len(commands)
  BY DEF SlotInv, ApplyCommand
<1>2. /\ pc' = [p \in Peers |-> IF p = author THEN "answered" ELSE pc[p]]
      /\ UNCHANGED <<subscribers, connectedCabs, cab>>
  BY DEF ApplyCommand
<1>3. author \in Peers => pc[author] = "submitting"
  BY <1>1 DEF SlotInv, CommandsAwaited
<1>4. pc' \in [Peers -> Admitted \cup {"closed", "hello"}]
  BY <1>2 DEF SlotInv, Admitted, Exchanging
<1>5. SlotsMatchSessions'
  <2>1. \A p \in Peers : pc'[p] \in Admitted <=> pc[p] \in Admitted
    BY <1>2, <1>3 DEF Admitted, Exchanging
  <2> QED
    BY <2>1, <1>2, SameSessions DEF SlotInv
<1>6. CommandsAwaited'
  <2>1. ASSUME NEW i \in 1..Len(commands'), commands'[i].by \in Peers
        PROVE  pc'[commands'[i].by] = "submitting"
    <3>1. commands'[i] = commands[i + 1] /\ i + 1 \in 1..Len(commands) /\ i + 1 # 1
      BY <1>1
    <3>2. commands[i + 1].by # author
      BY <3>1, <2>1, <1>1 DEF SlotInv, CommandsAwaited
    <3>3. pc[commands[i + 1].by] = "submitting"
      BY <3>1, <2>1 DEF SlotInv, CommandsAwaited
    <3> QED
      BY <3>1, <3>2, <3>3, <2>1, <1>2
  <2>2. ASSUME NEW i \in 1..Len(commands'), NEW j \in 1..Len(commands'), i # j,
               commands'[i].by \in Peers
        PROVE  commands'[i].by # commands'[j].by
    <3>1. /\ commands'[i] = commands[i + 1] /\ i + 1 \in 1..Len(commands)
          /\ commands'[j] = commands[j + 1] /\ j + 1 \in 1..Len(commands)
          /\ i + 1 # j + 1
      BY <1>1, <2>2
    <3> QED
      BY <3>1, <2>2 DEF SlotInv, CommandsAwaited
  <2> QED
    BY <2>1, <2>2 DEF CommandsAwaited
<1> QED
  BY <1>1, <1>2, <1>4, <1>5, <1>6 DEF SlotInv

\* A handler that is not submitting, or whose command nobody awaits any more,
\* may move on without touching the queue's books.
LEMMA MoveSlots ==
  ASSUME SlotInv, NEW p \in Peers, pc[p] # "submitting", UNCHANGED commands,
         NEW q \in Admitted \cup {"closed", "hello"}, pc' = [pc EXCEPT ![p] = q]
  PROVE  CommandsAwaited' /\ pc' \in [Peers -> Admitted \cup {"closed", "hello"}]
<1>1. \A r \in Peers : r # p => pc'[r] = pc[r]
  BY DEF SlotInv
<1> QED
  BY <1>1 DEF SlotInv, CommandsAwaited

\* Submitting adds a command of a handler that had none.
LEMMA SubmitSlots ==
  ASSUME SlotInv, NEW p \in Peers, WakeOnText(p)
  PROVE  SlotInv'
<1>1. pc[p] = "waiting" /\ UNCHANGED <<subscribers, connectedCabs, cab>>
  BY DEF WakeOnText
<1>2. CASE pc' = [pc EXCEPT ![p] = "leaving"] /\ UNCHANGED commands
  <2>1. CommandsAwaited' /\ pc' \in [Peers -> Admitted \cup {"closed", "hello"}]
    BY <1>1, <1>2, MoveSlots DEF Admitted, Exchanging
  <2>2. \A r \in Peers : pc'[r] \in Admitted <=> pc[r] \in Admitted
    BY <1>1, <1>2 DEF Admitted, Exchanging, SlotInv
  <2> QED
    BY <2>1, <2>2, <1>1, <1>2, SameSessions DEF SlotInv
<1>3. CASE /\ pc' = [pc EXCEPT ![p] = "submitting"]
           /\ commands' = Append(commands, [by |-> p, cab |-> CHOOSE c \in cab[p] : TRUE,
                                            authorized |-> text[p] = {"authorized"}])
  <2> DEFINE new == [by |-> p, cab |-> CHOOSE c \in cab[p] : TRUE,
                     authorized |-> text[p] = {"authorized"}]
  <2>1. new \in Command
    <3>1. cab[p] # {} /\ cab[p] \subseteq Boxes
      BY <1>1 DEF SlotInv, SlotsMatchSessions, Admitted, Exchanging
    <3>2. (CHOOSE c \in cab[p] : TRUE) \in Boxes
      BY <3>1
    <3>3. (text[p] = {"authorized"}) \in BOOLEAN
      OBVIOUS
    <3> QED
      BY <3>2, <3>3 DEF Command
  <2> HIDE DEF new
  <2>2. /\ commands' = Append(commands, new) /\ commands \in Seq(Command)
        /\ commands' \in Seq(Command) /\ Len(commands') = Len(commands) + 1
        /\ commands'[Len(commands) + 1] = new /\ new.by = p
        /\ \A i \in 1..Len(commands) : commands'[i] = commands[i]
    <3>1. commands' = Append(commands, new) /\ new.by = p
      BY <1>3 DEF new
    <3>2. commands \in Seq(Command)
      BY DEF SlotInv
    <3> QED
      BY <3>1, <3>2, <2>1
  <2>3. \A i \in 1..Len(commands) : commands[i].by # p
    BY <1>1 DEF SlotInv, CommandsAwaited
  <2>4. pc'[p] = "submitting" /\ \A r \in Peers : r # p => pc'[r] = pc[r]
    BY <1>3 DEF SlotInv
  <2>5. pc' \in [Peers -> Admitted \cup {"closed", "hello"}]
    BY <1>3 DEF SlotInv, Admitted, Exchanging
  <2>6. \A i \in 1..Len(commands') : i = Len(commands) + 1 \/ i \in 1..Len(commands)
    BY <2>2
  <2>7. ASSUME NEW i \in 1..Len(commands'), commands'[i].by \in Peers
        PROVE  pc'[commands'[i].by] = "submitting"
    <3>1. CASE i = Len(commands) + 1
      BY <3>1, <2>2, <2>4
    <3>2. CASE i \in 1..Len(commands)
      BY <3>2, <2>7, <2>2, <2>3, <2>4 DEF SlotInv, CommandsAwaited
    <3> QED
      BY <3>1, <3>2, <2>6
  <2>8. ASSUME NEW i \in 1..Len(commands'), NEW j \in 1..Len(commands'), i # j,
               commands'[i].by \in Peers
        PROVE  commands'[i].by # commands'[j].by
    <3>1. CASE i \in 1..Len(commands) /\ j \in 1..Len(commands)
      BY <3>1, <2>8, <2>2 DEF SlotInv, CommandsAwaited
    <3>2. CASE i = Len(commands) + 1 /\ j \in 1..Len(commands)
      BY <3>2, <2>2, <2>3
    <3>3. CASE i \in 1..Len(commands) /\ j = Len(commands) + 1
      BY <3>3, <2>2, <2>3
    <3> QED
      BY <3>1, <3>2, <3>3, <2>6, <2>8
  <2>9. \A r \in Peers : pc'[r] \in Admitted <=> pc[r] \in Admitted
    BY <2>4, <1>1 DEF Admitted, Exchanging
  <2>10. CommandsAwaited'
    BY <2>7, <2>8 DEF CommandsAwaited
  <2> QED
    BY <2>2, <2>5, <2>9, <2>10, <1>1, SameSessions DEF SlotInv
<1> QED
  BY <1>2, <1>3 DEF WakeOnText

\* A handler that fails disowns its command.
LEMMA FailSlots ==
  ASSUME SlotInv, NEW p \in Peers, Fail(p)
  PROVE  SlotInv'
<1>1. /\ pc[p] \in Admitted /\ UNCHANGED <<subscribers, connectedCabs, cab>>
      /\ pc' = [pc EXCEPT ![p] = "leaving"]
      /\ pc' \in [Peers -> Admitted \cup {"closed", "hello"}]
      /\ \A r \in Peers : r # p => pc'[r] = pc[r]
  BY DEF Fail, SlotInv, Admitted, Exchanging
<1>2. /\ commands \in Seq(Command)
      /\ commands' = [i \in 1..Len(commands) |->
                        IF commands[i].by = p THEN [commands[i] EXCEPT !.by = Nobody]
                                              ELSE commands[i]]
  <2>1. commands \in Seq(Command) /\ DOMAIN commands = 1..Len(commands)
    BY DEF SlotInv
  <2> QED
    BY <2>1 DEF Fail
<1>3. \A i \in 1..Len(commands) : commands[i] \in Command
  BY <1>2
<1>4. commands' \in Seq(Command) /\ Len(commands') = Len(commands)
  <2>1. \A i \in 1..Len(commands) : [commands[i] EXCEPT !.by = Nobody] \in Command
    BY <1>3 DEF Command
  <2>2. Len(commands) \in Nat /\ commands' \in [1..Len(commands) -> Command]
    BY <1>2, <1>3, <2>1
  <2> QED
    BY <1>2, <2>2
<1>5. \A i \in 1..Len(commands) :
        commands'[i].by = IF commands[i].by = p THEN Nobody ELSE commands[i].by
  BY <1>2, <1>3 DEF Command
<1>6. Nobody \notin Peers
  BY SwitchLogicAssumption
<1>7. CommandsAwaited'
  <2>1. ASSUME NEW i \in 1..Len(commands), commands'[i].by \in Peers
        PROVE  commands[i].by \in Peers \ {p} /\ commands'[i].by = commands[i].by
    BY <1>5, <1>6, <2>1
  <2>2. ASSUME NEW i \in 1..Len(commands'), commands'[i].by \in Peers
        PROVE  pc'[commands'[i].by] = "submitting"
    BY <1>1, <1>4, <2>1, <2>2 DEF SlotInv, CommandsAwaited
  <2>3. ASSUME NEW i \in 1..Len(commands'), NEW j \in 1..Len(commands'),
               i # j, commands'[i].by \in Peers
        PROVE  commands'[i].by # commands'[j].by
    BY <1>4, <1>5, <1>6, <2>1, <2>3 DEF SlotInv, CommandsAwaited
  <2> QED
    BY <2>2, <2>3 DEF CommandsAwaited
<1>8. \A r \in Peers : pc'[r] \in Admitted <=> pc[r] \in Admitted
  BY <1>1 DEF SlotInv, Admitted, Exchanging
<1> QED
  BY <1>1, <1>4, <1>7, <1>8, SameSessions DEF SlotInv

\* Admission takes a slot that is free.
LEMMA HelloSlots ==
  ASSUME SlotInv, NEW p \in Peers, NEW c, Hello(p, c)
  PROVE  SlotInv'
<1>1. pc[p] = "hello" /\ cab[p] = {} /\ p \notin subscribers
  BY DEF Hello, SlotInv, SlotsMatchSessions, Admitted, Exchanging
<1>2. CASE Refuse(p)
  <2>1. CommandsAwaited' /\ pc' \in [Peers -> Admitted \cup {"closed", "hello"}]
    BY <1>1, <1>2, MoveSlots DEF Refuse, coreVars
  <2>2. \A r \in Peers : pc'[r] \in Admitted <=> pc[r] \in Admitted
    BY <1>1, <1>2 DEF Refuse, Admitted, Exchanging, SlotInv
  <2> QED
    BY <2>1, <2>2, <1>2, SameSessions DEF SlotInv, Refuse, coreVars
<1>3. CASE c \in Boxes \ connectedCabs /\ Admit(p, c)
  <2>1. CommandsAwaited' /\ pc' \in [Peers -> Admitted \cup {"closed", "hello"}]
    BY <1>1, <1>3, MoveSlots DEF Admit, Admitted
  <2>2. /\ cab' = [cab EXCEPT ![p] = {c}] /\ cab' \in [Peers -> SUBSET Boxes]
        /\ cab'[p] = {c} /\ pc'[p] \in Admitted /\ pc[p] \notin Admitted
        /\ \A r \in Peers : r # p => cab'[r] = cab[r] /\ pc'[r] = pc[r]
        /\ connectedCabs' = connectedCabs \cup {c} /\ subscribers' = subscribers \cup {p}
    BY <1>1, <1>3 DEF Admit, SlotInv, Admitted, Exchanging
  <2> DEFINE old == {r \in Peers : pc[r] \in Admitted}
             new == {r \in Peers : pc'[r] \in Admitted}
  <2>3. new = old \cup {p} /\ p \notin old
    BY <2>2
  <2>4. UNION {cab'[r] : r \in new} = (UNION {cab[r] : r \in old}) \cup {c}
    BY <2>2, <2>3
  <2>5. \A r \in old : c \notin cab[r]
    BY <1>3 DEF SlotInv, SlotsMatchSessions
  <2>6. SlotsMatchSessions'
    <3>1. subscribers' = new /\ connectedCabs' = UNION {cab'[r] : r \in new}
      BY <2>2, <2>3, <2>4 DEF SlotInv, SlotsMatchSessions
    <3>2. \A r \in Peers : cab'[r] # {} <=> r \in new
      BY <2>2, <2>3 DEF SlotInv, SlotsMatchSessions
    <3>3. \A r, s \in new : r # s => cab'[r] \cap cab'[s] = {}
      BY <2>2, <2>3, <2>5 DEF SlotInv, SlotsMatchSessions
    <3> QED
      BY <3>1, <3>2, <3>3 DEF SlotsMatchSessions
  <2> QED
    BY <2>1, <2>2, <2>6, <1>3 DEF SlotInv, Admit
<1> QED
  BY <1>2, <1>3 DEF Hello

\* The end of a session gives back its slot and its queue, and no other's.
LEMMA LeaveSlots ==
  ASSUME SlotInv, NEW p \in Peers, Leave(p)
  PROVE  SlotInv'
<1>1. pc[p] = "leaving" /\ UNCHANGED commands
  BY DEF Leave
<1>2. CommandsAwaited' /\ pc' \in [Peers -> Admitted \cup {"closed", "hello"}]
  BY <1>1, MoveSlots DEF Leave
<1>3. /\ cab' \in [Peers -> SUBSET Boxes] /\ cab'[p] = {} /\ pc'[p] \notin Admitted
      /\ pc[p] \in Admitted
      /\ \A r \in Peers : r # p => cab'[r] = cab[r] /\ pc'[r] = pc[r]
      /\ connectedCabs' = connectedCabs \ cab[p] /\ subscribers' = subscribers \ {p}
  BY <1>1 DEF Leave, SlotInv, Admitted, Exchanging
<1> DEFINE old == {r \in Peers : pc[r] \in Admitted}
           new == {r \in Peers : pc'[r] \in Admitted}
<1>4. new = old \ {p} /\ p \in old
  BY <1>3
<1>5. \A r \in new : cab'[r] = cab[r] /\ cab[r] \cap cab[p] = {}
  BY <1>3, <1>4 DEF SlotInv, SlotsMatchSessions
<1>6. UNION {cab'[r] : r \in new} = (UNION {cab[r] : r \in old}) \ cab[p]
  BY <1>4, <1>5
<1>7. SlotsMatchSessions'
  <2>1. subscribers' = new /\ connectedCabs' = UNION {cab'[r] : r \in new}
    BY <1>3, <1>4, <1>6 DEF SlotInv, SlotsMatchSessions
  <2>2. \A r \in Peers : cab'[r] # {} <=> r \in new
    BY <1>3, <1>4 DEF SlotInv, SlotsMatchSessions
  <2>3. \A r, s \in new : r # s => cab'[r] \cap cab'[s] = {}
    BY <1>3, <1>4, <1>5 DEF SlotInv, SlotsMatchSessions
  <2> QED
    BY <2>1, <2>2, <2>3 DEF SlotsMatchSessions
<1> QED
  BY <1>1, <1>2, <1>3, <1>7 DEF SlotInv

\* The remaining steps of a handler stay within its session.
LEMMA HandlerSlots ==
  ASSUME SlotInv, NEW p \in Peers,
         \/ Connect(p) \/ HangUp(p) \/ Greeted(p) \/ WakeOnSnapshot(p) \/ AfterSubmit(p) \/ Sent(p)
  PROVE  SlotInv'
<1>1. UNCHANGED <<commands, subscribers, connectedCabs, cab>>
  BY DEF Connect, HangUp, Refuse, Greeted, WakeOnSnapshot, AfterSubmit, Sent, coreVars
<1>2. PICK q \in Admitted \cup {"closed", "hello"} :
        /\ pc' = [pc EXCEPT ![p] = q] /\ pc[p] # "submitting"
        /\ q \in Admitted <=> pc[p] \in Admitted
  BY DEF Connect, HangUp, Refuse, Greeted, WakeOnSnapshot, AfterSubmit, Sent, React,
         Admitted, Exchanging
<1>3. CommandsAwaited' /\ pc' \in [Peers -> Admitted \cup {"closed", "hello"}]
  BY <1>1, <1>2, MoveSlots
<1>4. \A r \in Peers : pc'[r] \in Admitted <=> pc[r] \in Admitted
  BY <1>2 DEF SlotInv
<1> QED
  BY <1>1, <1>3, <1>4, SameSessions DEF SlotInv

\* Every step keeps the books.
LEMMA SlotInvStep == SlotInv /\ [Next]_vars => SlotInv'
<1> SUFFICES ASSUME SlotInv, [Next]_vars PROVE SlotInv'
  OBVIOUS
<1>1. CASE UNCHANGED <<pc, cab, commands, subscribers, connectedCabs>>
  BY <1>1 DEF SlotInv, CommandsAwaited, SlotsMatchSessions
<1>2. ASSUME NEW c \in Boxes, OtherChange(c) PROVE SlotInv'
  BY <1>1, <1>2 DEF OtherChange
<1>3. ASSUME NEW p \in Peers, TakeSnapshot(p) \/ \E m \in Messages : ReceiveText(p, m)
      PROVE  SlotInv'
  BY <1>1, <1>3 DEF TakeSnapshot, ReceiveText, coreVars
<1>4. ASSUME NEW p \in Peers, Connect(p) \/ HangUp(p) \/ Handler(p) PROVE SlotInv'
  BY <1>4, HandlerSlots, SubmitSlots, LeaveSlots DEF Handler
<1>5. CASE UNCHANGED vars
  BY <1>1, <1>5 DEF vars, coreVars
<1> QED
  BY <1>2, <1>3, <1>4, <1>5, ApplyCommandSlots, FailSlots, HelloSlots DEF Next

\* One client per cab, and no session ever leaks its slot or its queue.
THEOREM SlotsAreExact == Spec => []SlotsMatchSessions
<1>1. SlotInv => SlotsMatchSessions
  BY DEF SlotInv
<1> QED
  BY <1>1, SlotInvInit, SlotInvStep, PTL DEF Spec

-----------------------------------------------------------------------------
(* What flows to the clients.                                              *)

AtMostOne(S) == \A x, y \in S : x = y

FlowTypes ==
  /\ box \in [Boxes -> BoxState]
  /\ inbox \in [Peers -> Seq(BoxState)]
  /\ text \in [Peers -> SUBSET Messages] /\ held \in [Peers -> SUBSET BoxState]
  /\ lastInputs \in [Peers -> InputStates] /\ told \in [Peers -> InputStates]
  /\ done \in [Peers -> BOOLEAN]

FlowBounds ==
  \A p \in Peers : /\ Len(inbox[p]) <= SubscriberMaxsize
                    /\ AtMostOne(cab[p]) /\ AtMostOne(text[p]) /\ AtMostOne(held[p])

\* A socket without a session has no snapshots: those of an earlier session are
\* not taken for what the next one sends.
IdleFlow == \A p \in Peers : pc[p] \notin Admitted => inbox[p] = <<>> /\ held[p] = {}

FlowInv == FlowTypes /\ FlowBounds /\ IdleFlow /\ NothingMissed

\* What cbtc-in reports of a box is a state of the two inputs.
LEMMA InputsType == ASSUME NEW b \in BoxState PROVE CbtcInputs(b) \in InputStates
<1>1. b.position \in Positions /\ b.c2 \in BOOLEAN /\ b.cbtc \in BOOLEAN
  BY DEF BoxState
<1>2. (b.position = "cbtc" \/ (b.position = "auto" /\ b.cbtc /\ ~b.c2)) \in BOOLEAN
  OBVIOUS
<1> QED BY <1>1, <1>2 DEF CbtcInputs, InputStates

\* A full queue makes room for the new snapshot, which is then its last.
LEMMA OfferLast ==
  ASSUME NEW queue \in Seq(BoxState), Len(queue) <= SubscriberMaxsize, NEW b \in BoxState
  PROVE  /\ Offer(queue, b) \in Seq(BoxState) /\ Offer(queue, b) # <<>>
         /\ Len(Offer(queue, b)) <= SubscriberMaxsize
         /\ Offer(queue, b)[Len(Offer(queue, b))] = b
<1> DEFINE room == IF Len(queue) >= SubscriberMaxsize THEN Tail(queue) ELSE queue
<1>1. room \in Seq(BoxState) /\ Len(room) + 1 <= SubscriberMaxsize
  BY SwitchLogicAssumption
<1> HIDE DEF room
<1>2. /\ Append(room, b) \in Seq(BoxState) /\ Append(room, b) # <<>>
      /\ Len(Append(room, b)) = Len(room) + 1 /\ Append(room, b)[Len(room) + 1] = b
  BY <1>1
<1> QED BY <1>1, <1>2 DEF Offer, room

\* Taking the oldest snapshot leaves the others, the newest among them.
LEMMA TakeFact ==
  ASSUME NEW queue \in Seq(BoxState), queue # <<>>
  PROVE  /\ Head(queue) \in BoxState /\ Tail(queue) \in Seq(BoxState)
         /\ Len(Tail(queue)) <= Len(queue)
         /\ IF Tail(queue) = <<>> THEN queue[Len(queue)] = Head(queue)
            ELSE Tail(queue)[Len(Tail(queue))] = queue[Len(queue)]
<1>1. /\ Head(queue) = queue[1] /\ Tail(queue) \in Seq(BoxState) /\ Len(queue) \in Nat \ {0}
      /\ Len(Tail(queue)) = Len(queue) - 1 /\ 1 \in 1..Len(queue)
      /\ \A i \in 1..Len(Tail(queue)) : Tail(queue)[i] = queue[i + 1]
  OBVIOUS
<1>2. Head(queue) \in BoxState
  BY <1>1
<1>3. Tail(queue) = <<>> => queue[Len(queue)] = Head(queue)
  BY <1>1
<1>4. Tail(queue) # <<>> => Tail(queue)[Len(Tail(queue))] = queue[Len(queue)]
  <2>1. SUFFICES ASSUME Tail(queue) # <<>> PROVE Tail(queue)[Len(Tail(queue))] = queue[Len(queue)]
    OBVIOUS
  <2>2. Len(Tail(queue)) \in 1..Len(Tail(queue))
    BY <1>1, <2>1
  <2> QED BY <1>1, <2>2
<1> QED BY <1>1, <1>2, <1>3, <1>4

\* Nothing is on its way at the start.
LEMMA FlowInvInit == Init => FlowInv
<1> SUFFICES ASSUME Init PROVE FlowInv
  OBVIOUS
<1>1. FlowTypes
  BY DEF Init, FlowTypes, BoxState, Positions, InputStates
<1>2. FlowBounds /\ IdleFlow
  BY SwitchLogicAssumption DEF Init, FlowBounds, IdleFlow, AtMostOne
<1>3. NothingMissed
  BY DEF Init, NothingMissed, Exchanging
<1> QED BY <1>1, <1>2, <1>3 DEF FlowInv

-----------------------------------------------------------------------------
\* A session speaks for exactly one cab.
LEMMA CabOfSession ==
  ASSUME SlotInv, FlowInv, NEW p \in Peers, pc[p] \in Admitted
  PROVE  \E c \in Boxes : cab[p] = {c}
<1>1. cab[p] # {} /\ cab[p] \subseteq Boxes /\ AtMostOne(cab[p])
  BY DEF SlotInv, SlotsMatchSessions, FlowInv, FlowBounds
<1> QED BY <1>1 DEF AtMostOne

\* Steps of a handler that leave the snapshots and what they are compared with alone.
LEMMA SameFlow ==
  ASSUME FlowInv, UNCHANGED <<box, inbox, cab, held, lastInputs>>,
         text' \in [Peers -> SUBSET Messages], \A q \in Peers : AtMostOne(text'[q]),
         told' \in [Peers -> InputStates], done' \in [Peers -> BOOLEAN],
         \A q \in Peers : /\ pc'[q] \in Exchanging \cup {"greeting"}
                                => pc[q] \in Exchanging \cup {"greeting"}
                          /\ pc[q] \in Admitted => pc'[q] \in Admitted
  PROVE  FlowInv'
<1>1. FlowTypes' /\ FlowBounds' /\ IdleFlow'
  BY DEF FlowInv, FlowTypes, FlowBounds, IdleFlow
<1>2. NothingMissed'
  BY DEF FlowInv, NothingMissed, OnItsWay
<1> QED BY <1>1, <1>2 DEF FlowInv

\* A publication reaches every session, as the newest snapshot of its queue.
LEMMA PublishFlow ==
  ASSUME SlotInv, FlowInv, box' \in [Boxes -> BoxState], Publish(box'),
         UNCHANGED <<subscribers, cab, held, lastInputs, text, told, done>>,
         \A q \in Peers : pc'[q] \in Admitted <=> pc[q] \in Admitted
  PROVE  FlowInv'
<1>1. ASSUME NEW p \in Peers, p \in subscribers
      PROVE  /\ inbox'[p] \in Seq(BoxState) /\ Len(inbox'[p]) <= SubscriberMaxsize
             /\ inbox'[p] # <<>>
             /\ \A c \in cab[p] : inbox'[p][Len(inbox'[p])] = box'[c]
  <2>1. pc[p] \in Admitted
    BY <1>1 DEF SlotInv, SlotsMatchSessions
  <2>2. PICK c \in Boxes : cab[p] = {c}
    BY <2>1, CabOfSession
  <2>3. inbox'[p] = Offer(inbox[p], box'[c])
    BY <1>1, <2>2 DEF Publish
  <2>4. inbox[p] \in Seq(BoxState) /\ Len(inbox[p]) <= SubscriberMaxsize /\ box'[c] \in BoxState
    BY DEF FlowInv, FlowTypes, FlowBounds
  <2> QED BY <2>2, <2>3, <2>4, OfferLast
<1>2. \A p \in Peers : p \notin subscribers => inbox'[p] = inbox[p]
  BY DEF Publish
<1>3. FlowTypes'
  <2>1. inbox' \in [Peers -> Seq(BoxState)]
    BY <1>1 DEF Publish, FlowInv, FlowTypes
  <2> QED BY <2>1 DEF FlowInv, FlowTypes
<1>4. FlowBounds'
  BY <1>1, <1>2 DEF FlowInv, FlowBounds
<1>5. IdleFlow'
  BY <1>2 DEF FlowInv, IdleFlow, SlotInv, SlotsMatchSessions
<1>6. NothingMissed'
  <2>1. SUFFICES ASSUME NEW p \in Peers, pc'[p] \in Exchanging \cup {"greeting"}
                 PROVE  OnItsWay(p)' = {CbtcInputs(box'[d]) : d \in cab'[p]}
    BY DEF NothingMissed
  <2>2. pc[p] \in Admitted /\ p \in subscribers
    BY <2>1 DEF Admitted, SlotInv, SlotsMatchSessions
  <2>3. PICK c \in Boxes : cab[p] = {c}
    BY <2>2, CabOfSession
  <2>4. inbox'[p] # <<>> /\ inbox'[p][Len(inbox'[p])] = box'[c]
    BY <1>1, <2>2, <2>3
  <2> QED BY <2>3, <2>4 DEF OnItsWay
<1> QED BY <1>3, <1>4, <1>5, <1>6 DEF FlowInv

\* The core applies a session's command and publishes the box.
LEMMA ApplyCommandFlow == SlotInv /\ FlowInv /\ ApplyCommand => FlowInv'
<1> SUFFICES ASSUME SlotInv, FlowInv, ApplyCommand PROVE FlowInv'
  OBVIOUS
<1> DEFINE command == Head(commands)
<1>1. command \in Command /\ command = commands[1] /\ 1 \in 1..Len(commands)
  BY DEF ApplyCommand, SlotInv
<1>2. box' \in [Boxes -> BoxState]
  <2>1. box' = [box EXCEPT ![command.cab].cbtc = command.authorized]
    BY DEF ApplyCommand
  <2>2. command.authorized \in BOOLEAN /\ box \in [Boxes -> BoxState]
    BY <1>1 DEF Command, FlowInv, FlowTypes
  <2> QED BY <2>1, <2>2 DEF BoxState
<1>3. \A q \in Peers : pc'[q] \in Admitted <=> pc[q] \in Admitted
  <2>1. \A q \in Peers : pc'[q] = IF q = command.by THEN "answered" ELSE pc[q]
    BY DEF ApplyCommand
  <2>2. command.by \in Peers => pc[command.by] = "submitting"
    BY <1>1 DEF SlotInv, CommandsAwaited
  <2> QED BY <2>1, <2>2 DEF Admitted, Exchanging
<1> QED BY <1>2, <1>3, PublishFlow DEF ApplyCommand

\* Somebody else moves a box: the change enters every subscriber's queue.
LEMMA OtherChangeFlow ==
  ASSUME SlotInv, FlowInv, NEW c \in Boxes, OtherChange(c)
  PROVE  FlowInv'
<1>1. box' \in [Boxes -> BoxState]
  BY SwitchLogicAssumption DEF OtherChange, FlowInv, FlowTypes
<1> QED BY <1>1, PublishFlow DEF OtherChange

\* A handler that compares the held snapshot remembers its inputs in its place.
LEMMA ReactFlow ==
  ASSUME SlotInv, FlowInv, NEW p \in Peers, React(p), pc[p] \in Exchanging,
         UNCHANGED <<box, inbox, cab, told, done>>,
         text' \in [Peers -> SUBSET Messages], \A q \in Peers : AtMostOne(text'[q])
  PROVE  FlowInv'
<1>1. PICK b \in held[p] : /\ lastInputs' = [lastInputs EXCEPT ![p] = CbtcInputs(b)]
                           /\ \E q \in Exchanging : pc' = [pc EXCEPT ![p] = q]
  BY DEF React, Exchanging
<1>2. /\ held' = [held EXCEPT ![p] = {}] /\ held \in [Peers -> SUBSET BoxState]
      /\ held[p] = {b}
  BY <1>1 DEF React, FlowInv, FlowTypes, FlowBounds, AtMostOne
<1>3. CbtcInputs(b) \in InputStates
  BY <1>2, InputsType
<1>4. FlowTypes'
  BY <1>1, <1>2, <1>3 DEF FlowInv, FlowTypes
<1>5. FlowBounds'
  BY <1>2 DEF FlowInv, FlowBounds, AtMostOne
<1>6. pc'[p] \in Exchanging /\ \A q \in Peers : q # p => pc'[q] = pc[q]
  BY <1>1 DEF SlotInv
<1>7. IdleFlow'
  BY <1>2, <1>6 DEF FlowInv, IdleFlow, Admitted
<1>8. NothingMissed'
  <2>1. ASSUME NEW q \in Peers, q # p PROVE OnItsWay(q)' = OnItsWay(q)
    BY <1>1, <1>2, <2>1 DEF OnItsWay, FlowInv, FlowTypes
  <2>2. OnItsWay(p)' = OnItsWay(p)
    <3>1. CASE inbox[p] # <<>>
      BY <3>1 DEF OnItsWay
    <3>2. CASE inbox[p] = <<>>
      <4>1. OnItsWay(p) = {CbtcInputs(b)}
        BY <1>2, <3>2 DEF OnItsWay
      <4>2. lastInputs'[p] = CbtcInputs(b) /\ held'[p] = {}
        BY <1>1, <1>2 DEF FlowInv, FlowTypes
      <4> QED BY <3>2, <4>1, <4>2 DEF OnItsWay
    <3> QED BY <3>1, <3>2
  <2> QED BY <2>1, <2>2, <1>6 DEF FlowInv, NothingMissed
<1> QED BY <1>4, <1>5, <1>7, <1>8 DEF FlowInv

\* The oldest snapshot moves from the queue to the handler.
LEMMA TakeSnapshotFlow ==
  ASSUME SlotInv, FlowInv, NEW p \in Peers, TakeSnapshot(p)
  PROVE  FlowInv'
<1> DEFINE b == Head(inbox[p])
<1>1. /\ held[p] = {} /\ inbox[p] # <<>> /\ inbox[p] \in Seq(BoxState) /\ pc[p] \in Admitted
      /\ held' = [held EXCEPT ![p] = {b}] /\ inbox' = [inbox EXCEPT ![p] = Tail(inbox[p])]
      /\ UNCHANGED <<box, pc, cab, lastInputs, text, done, told>>
  BY DEF TakeSnapshot, FlowInv, FlowTypes, Admitted
<1>2. /\ b \in BoxState /\ Tail(inbox[p]) \in Seq(BoxState)
      /\ Len(Tail(inbox[p])) <= Len(inbox[p])
      /\ IF Tail(inbox[p]) = <<>> THEN inbox[p][Len(inbox[p])] = b
         ELSE Tail(inbox[p])[Len(Tail(inbox[p]))] = inbox[p][Len(inbox[p])]
  BY <1>1, TakeFact
<1> HIDE DEF b
<1>3. FlowTypes'
  BY <1>1, <1>2 DEF FlowInv, FlowTypes
<1>4. FlowBounds'
  <2>1. Len(inbox'[p]) <= SubscriberMaxsize
    <3>1. Len(inbox[p]) <= SubscriberMaxsize /\ inbox'[p] = Tail(inbox[p])
      BY <1>1 DEF FlowInv, FlowBounds, FlowTypes
    <3> QED BY <1>1, <1>2, <3>1, SwitchLogicAssumption
  <2>2. AtMostOne(held'[p])
    BY <1>1 DEF FlowInv, FlowTypes, AtMostOne
  <2>3. \A q \in Peers : q # p => inbox'[q] = inbox[q] /\ held'[q] = held[q]
    BY <1>1 DEF FlowInv, FlowTypes
  <2> QED BY <1>1, <2>1, <2>2, <2>3 DEF FlowInv, FlowBounds
<1>5. IdleFlow'
  BY <1>1 DEF FlowInv, IdleFlow
<1>6. NothingMissed'
  <2>1. ASSUME NEW q \in Peers, q # p PROVE OnItsWay(q)' = OnItsWay(q)
    BY <1>1, <2>1 DEF OnItsWay, FlowInv, FlowTypes
  <2>2. OnItsWay(p)' = OnItsWay(p)
    <3>1. inbox'[p] = Tail(inbox[p]) /\ held'[p] = {b}
      BY <1>1 DEF FlowInv, FlowTypes
    <3> QED BY <1>1, <1>2, <3>1 DEF OnItsWay
  <2> QED BY <1>1, <2>1, <2>2 DEF FlowInv, NothingMissed
<1> QED BY <1>3, <1>4, <1>5, <1>6 DEF FlowInv

\* A session begins with the inputs of the snapshot taken as it is admitted.
LEMMA HelloFlow ==
  ASSUME SlotInv, FlowInv, NEW p \in Peers, NEW c, Hello(p, c)
  PROVE  FlowInv'
<1>1. pc[p] = "hello" /\ pc[p] \notin Admitted
  BY DEF Hello, Admitted, Exchanging
<1>2. CASE Refuse(p)
  <2>1. /\ UNCHANGED <<box, inbox, cab, held, lastInputs, text, told, done>>
        /\ pc' = [pc EXCEPT ![p] = "closed"]
    BY <1>2 DEF Refuse, coreVars
  <2>2. \A q \in Peers : /\ pc'[q] \in Exchanging \cup {"greeting"}
                              => pc[q] \in Exchanging \cup {"greeting"}
                         /\ pc[q] \in Admitted => pc'[q] \in Admitted
    BY <1>1, <2>1 DEF SlotInv, Exchanging
  <2>3. /\ text' \in [Peers -> SUBSET Messages] /\ told' \in [Peers -> InputStates]
        /\ done' \in [Peers -> BOOLEAN] /\ \A q \in Peers : AtMostOne(text'[q])
    BY <2>1 DEF FlowInv, FlowTypes, FlowBounds
  <2> QED BY <2>1, <2>2, <2>3, SameFlow
<1>3. CASE c \in Boxes /\ Admit(p, c)
  <2>1. /\ cab' = [cab EXCEPT ![p] = {c}] /\ pc' = [pc EXCEPT ![p] = "greeting"]
        /\ lastInputs' = [lastInputs EXCEPT ![p] = CbtcInputs(box[c])]
        /\ UNCHANGED <<box, inbox, held, text, done, told>>
    BY <1>3 DEF Admit
  <2>2. CbtcInputs(box[c]) \in InputStates
    BY <1>3, InputsType DEF FlowInv, FlowTypes
  <2>3. FlowTypes'
    BY <2>1, <2>2 DEF FlowInv, FlowTypes
  <2>4. FlowBounds'
    BY <2>1 DEF SlotInv, FlowInv, FlowBounds, AtMostOne
  <2>5. pc'[p] \in Admitted /\ \A q \in Peers : q # p => pc'[q] = pc[q] /\ cab'[q] = cab[q]
    BY <2>1 DEF SlotInv, Admitted
  <2>6. IdleFlow'
    BY <2>1, <2>5 DEF FlowInv, IdleFlow
  <2>7. NothingMissed'
    <3>1. ASSUME NEW q \in Peers, q # p
          PROVE  OnItsWay(q)' = OnItsWay(q) /\ cab'[q] = cab[q] /\ pc'[q] = pc[q]
      BY <2>1, <2>5, <3>1 DEF OnItsWay, FlowInv, FlowTypes
    <3>2. OnItsWay(p)' = {CbtcInputs(box'[d]) : d \in cab'[p]}
      <4>1. inbox[p] = <<>> /\ held[p] = {}
        BY <1>1 DEF FlowInv, IdleFlow
      <4>2. lastInputs'[p] = CbtcInputs(box[c]) /\ cab'[p] = {c}
        BY <2>1 DEF SlotInv, FlowInv, FlowTypes
      <4> QED BY <2>1, <4>1, <4>2 DEF OnItsWay
    <3> QED BY <2>1, <3>1, <3>2 DEF FlowInv, NothingMissed
  <2> QED BY <2>3, <2>4, <2>6, <2>7 DEF FlowInv
<1> QED BY <1>2, <1>3 DEF Hello

\* The end of a session empties its queue and its helper tasks.
LEMMA LeaveFlow ==
  ASSUME SlotInv, FlowInv, NEW p \in Peers, Leave(p)
  PROVE  FlowInv'
<1>1. /\ pc' = [pc EXCEPT ![p] = "closed"] /\ inbox' = [inbox EXCEPT ![p] = <<>>]
      /\ cab' = [cab EXCEPT ![p] = {}] /\ text' = [text EXCEPT ![p] = {}]
      /\ held' = [held EXCEPT ![p] = {}] /\ done' = [done EXCEPT ![p] = FALSE]
      /\ UNCHANGED <<box, lastInputs, told>>
  BY DEF Leave
<1>2. FlowTypes'
  BY <1>1 DEF FlowInv, FlowTypes
<1>3. \A q \in Peers : q # p => /\ pc'[q] = pc[q] /\ inbox'[q] = inbox[q] /\ cab'[q] = cab[q]
                                /\ text'[q] = text[q] /\ held'[q] = held[q]
  BY <1>1 DEF SlotInv, FlowInv, FlowTypes
<1>4. /\ pc'[p] = "closed" /\ inbox'[p] = <<>> /\ cab'[p] = {} /\ text'[p] = {}
      /\ held'[p] = {}
  BY <1>1 DEF SlotInv, FlowInv, FlowTypes
<1>5. FlowBounds'
  BY <1>3, <1>4, SwitchLogicAssumption DEF FlowInv, FlowBounds, AtMostOne
<1>6. IdleFlow'
  BY <1>3, <1>4 DEF FlowInv, IdleFlow
<1>7. NothingMissed'
  BY <1>1, <1>3, <1>4 DEF FlowInv, NothingMissed, OnItsWay, Exchanging
<1> QED BY <1>2, <1>5, <1>6, <1>7 DEF FlowInv

\* The remaining steps of a handler and of receive_task look at no snapshot.
LEMMA QuietFlow ==
  ASSUME SlotInv, FlowInv, NEW p \in Peers,
         \/ Connect(p) \/ HangUp(p) \/ Greeted(p) \/ WakeOnText(p) \/ Sent(p) \/ Fail(p)
         \/ \E m \in Messages : ReceiveText(p, m)
  PROVE  FlowInv'
<1>1. UNCHANGED <<box, inbox, cab, held, lastInputs>>
  BY DEF Connect, HangUp, Refuse, Greeted, WakeOnText, Sent, Fail, ReceiveText, coreVars
<1>2. text' \in [Peers -> SUBSET Messages] /\ \A q \in Peers : AtMostOne(text'[q])
  <2>1. CASE UNCHANGED text
    BY <2>1 DEF FlowInv, FlowTypes, FlowBounds
  <2>2. ASSUME NEW m \in Messages, text' = [text EXCEPT ![p] = {m}]
        PROVE  text' \in [Peers -> SUBSET Messages] /\ \A q \in Peers : AtMostOne(text'[q])
    BY <2>2 DEF FlowInv, FlowTypes, FlowBounds, AtMostOne
  <2> QED
    BY <2>1, <2>2 DEF Connect, HangUp, Refuse, Greeted, WakeOnText, Sent, Fail, ReceiveText
<1>3. told' \in [Peers -> InputStates] /\ done' \in [Peers -> BOOLEAN]
  <2>1. \/ UNCHANGED told
        \/ told' = [told EXCEPT ![p] = lastInputs[p]]
    BY DEF Connect, HangUp, Refuse, Greeted, WakeOnText, Sent, Fail, ReceiveText
  <2>2. UNCHANGED done \/ done' = [done EXCEPT ![p] = held[p] # {}]
    BY DEF Connect, HangUp, Refuse, Greeted, WakeOnText, Sent, Fail, ReceiveText
  <2>3. (held[p] # {}) \in BOOLEAN
    OBVIOUS
  <2> QED BY <2>1, <2>2, <2>3 DEF FlowInv, FlowTypes
<1>4. PICK q \in {"closed", "hello", "leaving", "waiting", "submitting"} \cup {pc[p]} :
        /\ pc' = [pc EXCEPT ![p] = q]
        /\ q \in Exchanging => pc[p] \in Exchanging \cup {"greeting"}
        /\ pc[p] \in Admitted => q \in Admitted
  BY DEF SlotInv, Connect, HangUp, Refuse, Greeted, WakeOnText, Sent, Fail, ReceiveText,
         Exchanging, Admitted
<1>5. \A r \in Peers : /\ pc'[r] \in Exchanging \cup {"greeting"}
                            => pc[r] \in Exchanging \cup {"greeting"}
                       /\ pc[r] \in Admitted => pc'[r] \in Admitted
  BY <1>4 DEF SlotInv
<1> QED BY <1>1, <1>2, <1>3, <1>5, SameFlow

\* A session whose command was answered goes on in its turn.
LEMMA AfterSubmitFlow ==
  ASSUME SlotInv, FlowInv, NEW p \in Peers, AfterSubmit(p)
  PROVE  FlowInv'
<1>1. /\ pc[p] = "answered" /\ text' = [text EXCEPT ![p] = {}]
      /\ UNCHANGED <<box, inbox, cab, told, done>>
  BY DEF AfterSubmit, coreVars
<1>2. text' \in [Peers -> SUBSET Messages] /\ \A q \in Peers : AtMostOne(text'[q])
  BY <1>1 DEF FlowInv, FlowTypes, FlowBounds, AtMostOne
<1>3. CASE React(p)
  BY <1>1, <1>2, <1>3, ReactFlow DEF Exchanging
<1>4. CASE pc' = [pc EXCEPT ![p] = "waiting"] /\ UNCHANGED <<lastInputs, held>>
  <2>1. \A r \in Peers : /\ pc'[r] \in Exchanging \cup {"greeting"}
                              => pc[r] \in Exchanging \cup {"greeting"}
                         /\ pc[r] \in Admitted => pc'[r] \in Admitted
    BY <1>1, <1>4 DEF SlotInv, Exchanging, Admitted
  <2>2. told' \in [Peers -> InputStates] /\ done' \in [Peers -> BOOLEAN]
    BY <1>1 DEF FlowInv, FlowTypes
  <2> QED BY <1>1, <1>2, <1>4, <2>1, <2>2, SameFlow
<1> QED BY <1>3, <1>4 DEF AfterSubmit

\* Every step keeps the last change of a box on its way to its client.
LEMMA FlowInvStep == SlotInv /\ FlowInv /\ [Next]_vars => FlowInv'
<1> SUFFICES ASSUME SlotInv, FlowInv, [Next]_vars PROVE FlowInv'
  OBVIOUS
<1>1. ASSUME NEW p \in Peers, WakeOnSnapshot(p) PROVE FlowInv'
  <2>1. React(p) /\ pc[p] \in Exchanging /\ UNCHANGED <<box, inbox, cab, text, told, done>>
    BY <1>1 DEF WakeOnSnapshot, Exchanging, coreVars
  <2>2. text' \in [Peers -> SUBSET Messages] /\ \A q \in Peers : AtMostOne(text'[q])
    BY <2>1 DEF FlowInv, FlowTypes, FlowBounds
  <2> QED BY <2>1, <2>2, ReactFlow
<1>2. ASSUME NEW p \in Peers, Handler(p) PROVE FlowInv'
  BY <1>1, <1>2, QuietFlow, AfterSubmitFlow, LeaveFlow DEF Handler
<1>3. ASSUME NEW p \in Peers, Connect(p) \/ HangUp(p) \/ TakeSnapshot(p) \/ Fail(p) PROVE FlowInv'
  BY <1>3, QuietFlow, TakeSnapshotFlow
<1>4. ASSUME NEW p \in Peers, NEW m \in Messages, ReceiveText(p, m) PROVE FlowInv'
  BY <1>4, QuietFlow
<1>5. CASE UNCHANGED vars
  <2>1. UNCHANGED <<box, inbox, cab, held, lastInputs, pc, text, told, done>>
    BY <1>5 DEF vars, coreVars
  <2>2. /\ text' \in [Peers -> SUBSET Messages] /\ told' \in [Peers -> InputStates]
        /\ done' \in [Peers -> BOOLEAN] /\ \A q \in Peers : AtMostOne(text'[q])
    BY <2>1 DEF FlowInv, FlowTypes, FlowBounds
  <2> QED BY <2>1, <2>2, SameFlow
<1>6. ASSUME NEW p \in Peers, NEW c \in Greetings, Hello(p, c) PROVE FlowInv'
  BY <1>6, HelloFlow
<1>7. CASE ApplyCommand \/ \E c \in Boxes : OtherChange(c)
  BY <1>7, ApplyCommandFlow, OtherChangeFlow
<1> QED BY <1>2, <1>3, <1>4, <1>5, <1>6, <1>7 DEF Next

\* A set with at most one element has a cardinality of at most one.
LEMMA SmallSet == ASSUME NEW S, AtMostOne(S) PROVE Cardinality(S) <= 1
<1>1. CASE S = {}
  BY <1>1, FS_EmptySet
<1>2. ASSUME NEW x \in S PROVE Cardinality(S) <= 1
  <2>1. S = {x}
    BY <1>2 DEF AtMostOne
  <2>2. Cardinality({x}) = 1
    BY FS_Singleton
  <2> QED BY <2>1, <2>2
<1> QED BY <1>1, <1>2

\* For any number of sockets and cabs and any queue size, the last change of the
\* inputs of a cab is on its way to its client: no snapshot that a full queue
\* drops, a handler skips or a command overtakes is ever the one that matters.
THEOREM LastChangeOnItsWay == Spec => []NothingMissed
<1>1. FlowInv => NothingMissed
  BY DEF FlowInv
<1> QED
  BY <1>1, SlotInvInit, SlotInvStep, FlowInvInit, FlowInvStep, PTL DEF Spec

\* Every variable has its type; queues stay within their bound and the optional
\* locals of a handler hold at most one value.
THEOREM SwitchTypes == Spec => []TypeOK
<1>1. SlotInv /\ FlowInv => TypeOK
  <2> SUFFICES ASSUME SlotInv, FlowInv PROVE TypeOK
    OBVIOUS
  <2>1. subscribers \subseteq Peers /\ connectedCabs \subseteq Boxes
    BY DEF SlotInv, SlotsMatchSessions
  <2>2. \A p \in Peers : /\ cab[p] \subseteq Boxes /\ Cardinality(cab[p]) <= 1
                         /\ text[p] \subseteq Messages /\ Cardinality(text[p]) <= 1
                         /\ held[p] \subseteq BoxState /\ Cardinality(held[p]) <= 1
    BY SmallSet DEF SlotInv, FlowInv, FlowTypes, FlowBounds
  <2>3. \A p \in Peers : inbox[p] \in Seq(BoxState) /\ Len(inbox[p]) <= SubscriberMaxsize
    BY DEF FlowInv, FlowTypes, FlowBounds
  <2> QED BY <2>1, <2>2, <2>3 DEF TypeOK, SlotInv, Command, FlowInv, FlowTypes
<1> QED
  BY <1>1, SlotInvInit, SlotInvStep, FlowInvInit, FlowInvStep, PTL DEF Spec
=============================================================================
