----------------------------- MODULE AtpManager -----------------------------
(***************************************************************************)
(* adapters/atp/manager.py and connection.py: the TCP listeners of the ATP *)
(* channel, one session task and one publisher task per accepted peer, and *)
(* their shutdown, ordered by bootstrap.py.                                *)
(*                                                                         *)
(* An action is a stretch of start(), stop(), a session or a publisher     *)
(* between two awaits.  Tasks that are answered by the core resume in the  *)
(* order in which they were answered, as asyncio runs its callbacks.  The  *)
(* core appears as its queue of commands, the doors they move and the      *)
(* registered snapshot queues; what flows through those is SnapshotFeed's  *)
(* subject.                                                                *)
(***************************************************************************)
EXTENDS Integers, FiniteSets, SequencesExt

CONSTANTS
  Peers,        \* TCP connections; one that has ended may be opened again
  Endpoints,    \* configured listening addresses
  Cabs,         \* cabs of the train
  StcsCabs,     \* cabs with an STCS unit
  Messages,     \* atp_command messages that pass validation
  MaxResets     \* bound: resets that other clients ask for

DoorStates == {"open", "close"}

\* One atp_command: a cab and up to three optional actions.  What the lever and
\* the signal string hold makes no difference here.
MessageType ==
  [cab : Nat \ {0}, drive : BOOLEAN, door : SUBSET DoorStates, signal : BOOLEAN]

\* Whoever is not a peer, and no endpoint.
Other == "other"

ASSUME AtpAssumption ==
  /\ IsFiniteSet(Peers) /\ Other \notin Peers /\ Other \notin Endpoints
  /\ StcsCabs \subseteq Cabs /\ Cabs \subseteq Nat
  /\ Messages \subseteq {m \in MessageType : /\ Cardinality(m.door) <= 1
                                             /\ m.drive \/ m.door # {} \/ m.signal}
  /\ MaxResets \in Nat

VARIABLES
  phase,         \* where start() and stop() are
  failing,       \* whether stop() was called because start() failed
  waits,         \* whether Server.wait_closed() waits for open connections
  servers,       \* _servers
  listening,     \* _listening
  clients,       \* _clients, ...
  queues,        \* ... the keys of _queues, ...
  publishers,    \* ... the keys of _publisher_tasks, ...
  sessionTasks,  \* ... _session_tasks and ...
  activePeers,   \* ... _active_peers_by_endpoint
  pc,            \* where each session is suspended
  endpoint,      \* local variables of the sessions: endpoint ...
  todo,          \* ... and the rest of commands, the one under way included
  cancelled,     \* sessions with a pending cancellation
  publishing,    \* peers whose publisher task runs
  transport,     \* our end of each connection
  peer,          \* the other end
  commands,      \* the core: its command queue, ...
  doors,         \* ... the doors, ...
  subscribers,   \* ... the registered snapshot queues, ...
  coreRunning,   \* ... and whether run_loop is running
  woken,         \* answered sessions in the order of their wake-up, with the result
  applied,       \* history: targets of the last message's commands, as applied
  refused,       \* history: how many of them the core refused
  reported,      \* history: how many errors were sent for them
  split,         \* history: a reset or a cancellation came between two doors
  resets         \* how often others asked for a reset

managerVars == <<phase, failing, waits, servers, listening>>
books == <<clients, queues, publishers, sessionTasks, activePeers>>
sessionVars == <<pc, endpoint, todo, cancelled, publishing>>
wireVars == <<transport, peer>>
coreVars == <<commands, doors, subscribers, coreRunning, resets>>
history == <<applied, refused, reported, split>>
vars == <<managerVars, books, sessionVars, wireVars, coreVars, woken, history>>

Registered == {"reading", "submitting", "unwinding"}

-----------------------------------------------------------------------------
(* Commands.                                                               *)

\* Mutation: the doors are closed in the opposite order.
CommandsOfEitherWay(m) ==
  LET part(target, value) == [target |-> target, cab |-> m.cab, value |-> value]
      twoDoors(d) == IF d = "open" THEN <<part("left", d), part("right", d)>>
                                   ELSE <<part("right", d), part("left", d)>>
  IN  (IF m.drive THEN <<part("drive", "")>> ELSE <<>>)
      \o (IF m.door = {} THEN <<>> ELSE twoDoors(CHOOSE d \in m.door : TRUE))
      \o (IF m.signal THEN <<part("signal", "")>> ELSE <<>>)

\* The core commands of a message, in the order they are submitted.
CommandsOf(m) ==
  LET part(target, value) == [target |-> target, cab |-> m.cab, value |-> value]
      twoDoors(d) == <<part("left", d), part("right", d)>>
  IN  (IF m.drive THEN <<part("drive", "")>> ELSE <<>>)
      \o (IF m.door = {} THEN <<>> ELSE twoDoors(CHOOSE d \in m.door : TRUE))
      \o (IF m.signal THEN <<part("signal", "")>> ELSE <<>>)

\* parse_atp_command has checked the values.  What the train may still refuse is
\* the lever of a cab it does not have ...
LeverAccepted(c) == c.cab \in Cabs

\* ... and the signal of a cab without an STCS unit.  A string shorter or longer
\* than the unit's table is taken as far as both reach.
SignalAccepted(c) == c.cab \in StcsCabs

\* The train has the two doors of the standard fit; they belong to no cab.
Accepted(c) ==
  /\ c.target = "drive" => LeverAccepted(c)
  /\ c.target = "signal" => SignalAccepted(c)

\* The door commands of p's message are not both applied yet, but the first is.
BetweenDoors(p) ==
  \E i \in DOMAIN applied[p] : /\ applied[p][i] = "left"
                               /\ ~\E j \in DOMAIN applied[p] : applied[p][j] = "right"

\* The core applies the head of its queue and resolves its future, if a session
\* still waits for it.
Apply ==
  /\ coreRunning /\ commands # <<>>
  /\ LET c == Head(commands)
         by == c.by
     IN  /\ commands' = Tail(commands)
         /\ doors' = IF c.target = "reset" THEN [d \in {"left", "right"} |-> "close"]
                     ELSE IF c.target \in DOMAIN doors THEN [doors EXCEPT ![c.target] = c.value]
                     ELSE doors
         /\ IF by \in Peers /\ pc[by] = "submitting"
            THEN /\ woken' = Append(woken, [by |-> by, ok |-> Accepted(c)])
                 /\ applied' = [applied EXCEPT ![by] = Append(@, c.target)]
                 /\ refused' = [refused EXCEPT ![by] = IF Accepted(c) THEN @ ELSE @ + 1]
            ELSE UNCHANGED <<woken, applied, refused>>
         /\ split' = (split \/ (c.target = "reset" /\ \E p \in Peers : BetweenDoors(p)))
  /\ UNCHANGED <<managerVars, books, sessionVars, wireVars, subscribers, coreRunning, resets,
                 reported>>

\* Another client resets the simulation.
AskReset ==
  /\ coreRunning /\ resets < MaxResets
  /\ resets' = resets + 1
  /\ commands' = Append(commands, [by |-> Other, target |-> "reset", cab |-> 0, value |-> ""])
  /\ UNCHANGED <<managerVars, books, sessionVars, wireVars, doors, subscribers, coreRunning,
                 woken, history>>

-----------------------------------------------------------------------------
(* Sessions.                                                               *)

Submit(p, rest) ==
  /\ pc' = [pc EXCEPT ![p] = "submitting"]
  /\ todo' = [todo EXCEPT ![p] = rest]
  /\ commands' = Append(commands, [by |-> p, target |-> Head(rest).target,
                                   cab |-> Head(rest).cab, value |-> Head(rest).value])

\* _accept and the session up to its first readline().  A stop() that closes
\* the listeners yields to the loop often enough for every accepted session to
\* have come this far before it is cancelled.
Accept(p, e) ==
  /\ phase \in {"starting", "ready"} /\ e \in servers
  /\ pc[p] = "none" /\ transport[p] = "none"
  /\ transport' = [transport EXCEPT ![p] = "open"]
  /\ peer' = [peer EXCEPT ![p] = "attentive"]
  /\ pc' = [pc EXCEPT ![p] = "reading"]
  /\ endpoint' = [endpoint EXCEPT ![p] = e]
  /\ sessionTasks' = sessionTasks \cup {p}
  /\ clients' = clients \cup {p}
  /\ activePeers' = [activePeers EXCEPT ![e] = @ + 1]
  /\ subscribers' = subscribers \cup {p}
  /\ queues' = queues \cup {p}
  /\ publishers' = publishers \cup {p}
  /\ publishing' = publishing \cup {p}
  /\ applied' = [applied EXCEPT ![p] = <<>>]
  /\ refused' = [refused EXCEPT ![p] = 0]
  /\ reported' = [reported EXCEPT ![p] = 0]
  /\ UNCHANGED <<managerVars, todo, cancelled, commands, doors, coreRunning, resets, woken, split>>

\* A valid atp_command arrives.  Any other line is answered with an error, or
\* only logged, and leaves the session reading: a stuttering step.
Receive(p, m) ==
  /\ pc[p] = "reading" /\ ~cancelled[p] /\ transport[p] = "open" /\ peer[p] # "left"
  /\ Submit(p, CommandsOf(m))
  /\ applied' = [applied EXCEPT ![p] = <<>>]
  /\ refused' = [refused EXCEPT ![p] = 0]
  /\ reported' = [reported EXCEPT ![p] = 0]
  /\ UNCHANGED <<managerVars, books, endpoint, cancelled, publishing, wireVars, doors,
                 subscribers, coreRunning, resets, woken, split>>

\* Mutation: a refused command ends its message.
ResumeStopsAtRefusal(p) ==
  /\ pc[p] = "submitting" /\ ~cancelled[p]
  /\ woken # <<>> /\ Head(woken).by = p
  /\ woken' = Tail(woken)
  /\ reported' = [reported EXCEPT ![p] =
                    IF ~Head(woken).ok /\ transport[p] = "open" THEN @ + 1 ELSE @]
  /\ IF Tail(todo[p]) = <<>> \/ ~Head(woken).ok
     THEN /\ pc' = [pc EXCEPT ![p] = "reading"]
          /\ todo' = [todo EXCEPT ![p] = <<>>]
          /\ UNCHANGED commands
     ELSE Submit(p, Tail(todo[p]))
  /\ UNCHANGED <<managerVars, books, endpoint, cancelled, publishing, wireVars, doors,
                 subscribers, coreRunning, resets, applied, refused, split>>

\* submit_command returns: a refusal is reported while the connection is open,
\* and the next command of the message follows.
Resume(p) ==
  /\ pc[p] = "submitting" /\ ~cancelled[p]
  /\ woken # <<>> /\ Head(woken).by = p
  /\ woken' = Tail(woken)
  /\ reported' = [reported EXCEPT ![p] =
                    IF ~Head(woken).ok /\ transport[p] = "open" THEN @ + 1 ELSE @]
  /\ IF Tail(todo[p]) = <<>>
     THEN /\ pc' = [pc EXCEPT ![p] = "reading"]
          /\ todo' = [todo EXCEPT ![p] = <<>>]
          /\ UNCHANGED commands
     ELSE Submit(p, Tail(todo[p]))
  /\ UNCHANGED <<managerVars, books, endpoint, cancelled, publishing, wireVars, doors,
                 subscribers, coreRunning, resets, applied, refused, split>>

\* The session enters its finally clause: the publisher is asked to end.
Unwind(p) ==
  /\ pc' = [pc EXCEPT ![p] = "unwinding"]
  /\ todo' = [todo EXCEPT ![p] = <<>>]
  /\ UNCHANGED <<managerVars, books, endpoint, publishing, wireVars, coreVars, applied, refused,
                 reported>>

\* readline() ends: the peer closed, the connection broke, or a line is too long.
ReadEnds(p) ==
  /\ pc[p] = "reading" /\ ~cancelled[p]
  /\ Unwind(p)
  /\ UNCHANGED <<cancelled, woken, split>>

\* The cancellation is raised where the session is suspended; an answer that is
\* already there is lost, and so are the commands not yet submitted.
Cancelled(p) ==
  /\ pc[p] \in {"reading", "submitting"} /\ cancelled[p]
  /\ Unwind(p)
  /\ cancelled' = [cancelled EXCEPT ![p] = FALSE]
  /\ \/ \E i \in DOMAIN woken : woken[i].by = p /\ woken' = RemoveAt(woken, i)
     \/ (\A i \in DOMAIN woken : woken[i].by # p) /\ UNCHANGED woken
  /\ split' = (split \/ \E i \in DOMAIN todo[p] : todo[p][i].target = "right")

\* Mutation: a session awaits its publisher without cancelling it.
PublisherOutlives(p) ==
  /\ p \in publishing /\ cancelled[p]
  /\ publishing' = publishing \ {p}
  /\ UNCHANGED <<managerVars, books, pc, endpoint, todo, cancelled, wireVars, coreVars, woken,
                 history>>

\* The publisher task ends, cancelled by its session or by stop().
PublisherEnds(p) ==
  /\ p \in publishing /\ (pc[p] = "unwinding" \/ cancelled[p])
  /\ publishing' = publishing \ {p}
  /\ UNCHANGED <<managerVars, books, pc, endpoint, todo, cancelled, wireVars, coreVars, woken,
                 history>>

\* Mutation: the core keeps the queue of a session that has ended.
CleanUpKeepsQueue(p) ==
  /\ pc[p] = "unwinding" /\ p \notin publishing
  /\ publishers' = publishers \ {p}
  /\ queues' = queues \ {p}
  /\ activePeers' = [activePeers EXCEPT ![endpoint[p]] = @ - 1]
  /\ clients' = clients \ {p}
  /\ transport' = [transport EXCEPT ![p] = IF @ = "open" THEN "closing" ELSE @]
  /\ pc' = [pc EXCEPT ![p] = "closing"]
  /\ cancelled' = [cancelled EXCEPT ![p] = FALSE]
  /\ UNCHANGED <<managerVars, sessionTasks, endpoint, todo, publishing, peer, commands, doors,
                 subscribers, coreRunning, resets, woken, history>>

\* The publisher is gone: everything that was registered is withdrawn and the
\* transport closed.  A cancellation that arrived meanwhile was suppressed.
CleanUp(p) ==
  /\ pc[p] = "unwinding" /\ p \notin publishing
  /\ publishers' = publishers \ {p}
  /\ queues' = queues \ {p}
  /\ subscribers' = subscribers \ {p}
  /\ activePeers' = [activePeers EXCEPT ![endpoint[p]] = @ - 1]
  /\ clients' = clients \ {p}
  /\ transport' = [transport EXCEPT ![p] = IF @ = "open" THEN "closing" ELSE @]
  /\ pc' = [pc EXCEPT ![p] = "closing"]
  /\ cancelled' = [cancelled EXCEPT ![p] = FALSE]
  /\ UNCHANGED <<managerVars, sessionTasks, endpoint, todo, publishing, peer, commands, doors,
                 coreRunning, resets, woken, history>>

\* writer.wait_closed() returns once the transport is gone, or is cancelled.
SessionEnds(p) ==
  /\ pc[p] = "closing" /\ (transport[p] = "none" \/ cancelled[p])
  /\ pc' = [pc EXCEPT ![p] = "none"]
  /\ cancelled' = [cancelled EXCEPT ![p] = FALSE]
  /\ sessionTasks' = sessionTasks \ {p}
  /\ endpoint' = [endpoint EXCEPT ![p] = Other]
  /\ applied' = [applied EXCEPT ![p] = <<>>]
  /\ refused' = [refused EXCEPT ![p] = 0]
  /\ reported' = [reported EXCEPT ![p] = 0]
  /\ UNCHANGED <<managerVars, clients, queues, publishers, activePeers, todo,
                 publishing, wireVars, coreVars, woken, split>>

Session(p) ==
  \/ Resume(p) \/ Cancelled(p) \/ CleanUp(p) \/ SessionEnds(p)
  \/ ReadEnds(p) /\ (peer[p] = "left" \/ transport[p] # "open")

-----------------------------------------------------------------------------
(* The connections.                                                        *)

\* The peer stops reading its stream while some of it is unsent, reads on, or
\* closes its end.
PeerActs(p, to) ==
  /\ transport[p] # "none" /\ peer[p] # "left"
  /\ peer' = [peer EXCEPT ![p] = to]
  /\ UNCHANGED <<managerVars, books, sessionVars, transport, coreVars, woken, history>>

\* The transport is gone: it was closed and its buffer is sent, or the peer is
\* gone (a peer that only closed its own direction leaves it open).
TransportLost(p) ==
  /\ \/ transport[p] = "closing" /\ peer[p] # "stalled"
     \/ transport[p] = "open" /\ peer[p] = "left"
  /\ transport' = [transport EXCEPT ![p] = "none"]
  /\ peer' = [peer EXCEPT ![p] = "left"]
  /\ UNCHANGED <<managerVars, books, sessionVars, coreVars, woken, history>>

-----------------------------------------------------------------------------
(* start(), stop() and the lifespan of the application.                    *)

OpenServer(e) ==
  /\ phase = "starting" /\ e \notin servers
  /\ servers' = servers \cup {e}
  /\ UNCHANGED <<phase, failing, waits, listening, books, sessionVars, wireVars, coreVars,
                 woken, history>>

Started ==
  /\ phase = "starting" /\ servers = Endpoints
  /\ phase' = "ready"
  /\ listening' = (servers # {})
  /\ UNCHANGED <<failing, waits, servers, books, sessionVars, wireVars, coreVars, woken, history>>

\* stop() closes the listening sockets, at shutdown or because one of the
\* servers could not be started.
Stop ==
  /\ \/ phase = "ready" /\ UNCHANGED failing
     \/ phase = "starting" /\ servers # Endpoints /\ failing' = TRUE
  /\ phase' = "closing servers"
  /\ UNCHANGED <<waits, servers, listening, books, sessionVars, wireVars, coreVars, woken, history>>

\* Mutation: the sessions are awaited and not ended.
ServersClosedOnly ==
  /\ phase = "closing servers"
  /\ waits => \A p \in Peers : transport[p] = "none"
  /\ phase' = "ending sessions"
  /\ servers' = {}
  /\ UNCHANGED <<failing, waits, listening, books, sessionVars, wireVars, coreVars, woken, history>>

\* wait_closed() returns for every server: at once before Python 3.12, since
\* then when the connections they accepted are gone.  The clients are closed
\* and all tasks cancelled.
ServersClosed ==
  /\ phase = "closing servers"
  /\ waits => \A p \in Peers : transport[p] = "none"
  /\ phase' = "ending sessions"
  /\ servers' = {}
  /\ transport' = [p \in Peers |-> IF p \in clients /\ transport[p] = "open"
                                   THEN "closing" ELSE transport[p]]
  /\ cancelled' = [p \in Peers |-> p \in sessionTasks]
  /\ UNCHANGED <<failing, waits, listening, books, pc, endpoint, todo, publishing, peer,
                 coreVars, woken, history>>

\* Mutation: the tasks are cancelled but not awaited.
StopDoesNotWait ==
  /\ phase = "ending sessions"
  /\ phase' = IF failing THEN "failed" ELSE "stopped"
  /\ subscribers' = subscribers \ queues
  /\ clients' = {} /\ queues' = {} /\ publishers' = {} /\ sessionTasks' = {}
  /\ activePeers' = [e \in Endpoints |-> 0]
  /\ listening' = FALSE
  /\ UNCHANGED <<failing, waits, servers, sessionVars, wireVars, commands, doors, coreRunning,
                 resets, woken, history>>

\* All cancelled tasks have ended: whatever is left is cleared.
Stopped ==
  /\ phase = "ending sessions" /\ sessionTasks = {} /\ publishing = {}
  /\ phase' = IF failing THEN "failed" ELSE "stopped"
  /\ subscribers' = subscribers \ queues
  /\ clients' = {} /\ queues' = {} /\ publishers' = {} /\ sessionTasks' = {}
  /\ activePeers' = [e \in Endpoints |-> 0]
  /\ listening' = FALSE
  /\ UNCHANGED <<failing, waits, servers, sessionVars, wireVars, commands, doors, coreRunning,
                 resets, woken, history>>

\* The lifespan ends the core after the adapter.
StopCore ==
  /\ phase = "stopped" /\ coreRunning
  /\ coreRunning' = FALSE
  /\ UNCHANGED <<managerVars, books, sessionVars, wireVars, commands, doors, subscribers, resets,
                 woken, history>>

Init ==
  /\ phase = "starting" /\ failing = FALSE /\ waits \in BOOLEAN
  /\ servers = {} /\ listening = FALSE
  /\ clients = {} /\ queues = {} /\ publishers = {} /\ sessionTasks = {}
  /\ activePeers = [e \in Endpoints |-> 0]
  /\ pc = [p \in Peers |-> "none"]
  /\ endpoint = [p \in Peers |-> Other]
  /\ todo = [p \in Peers |-> <<>>]
  /\ cancelled = [p \in Peers |-> FALSE]
  /\ publishing = {}
  /\ transport = [p \in Peers |-> "none"]
  /\ peer = [p \in Peers |-> "left"]
  /\ commands = <<>> /\ doors = [d \in {"left", "right"} |-> "close"]
  /\ subscribers = {} /\ coreRunning = TRUE /\ resets = 0
  /\ woken = <<>>
  /\ applied = [p \in Peers |-> <<>>]
  /\ refused = [p \in Peers |-> 0]
  /\ reported = [p \in Peers |-> 0]
  /\ split = FALSE

Next ==
  \/ Apply \/ AskReset
  \/ \E p \in Peers :
       \/ \E e \in Endpoints : Accept(p, e)
       \/ \E m \in Messages : Receive(p, m)
       \/ Resume(p) \/ ReadEnds(p) \/ Cancelled(p) \/ PublisherEnds(p)
       \/ CleanUp(p) \/ SessionEnds(p)
       \/ \E to \in {"attentive", "stalled", "left"} : PeerActs(p, to)
       \/ TransportLost(p)
  \/ \E e \in Endpoints : OpenServer(e)
  \/ Started \/ Stop \/ ServersClosed \/ Stopped \/ StopCore

Spec == Init /\ [][Next]_vars

\* What the event loop and the operating system do by themselves: tasks that
\* can run do, and a closed connection ends although its peer reads the finite
\* rest only now and then.  Peers need not do anything.
FairSpec ==
  /\ Spec
  /\ WF_vars(Apply) /\ WF_vars(ServersClosed) /\ WF_vars(Stopped)
  /\ \A p \in Peers : /\ WF_vars(Session(p))
                      /\ WF_vars(PublisherEnds(p))
                      /\ SF_vars(TransportLost(p))

-----------------------------------------------------------------------------
(* Properties.                                                             *)

Targets == {"drive", "left", "right", "signal", "reset"}
Command == [target : Targets, cab : Nat, value : DoorStates \cup {""}]

TypeOK ==
  /\ phase \in {"starting", "ready", "closing servers", "ending sessions", "stopped", "failed"}
  /\ failing \in BOOLEAN /\ waits \in BOOLEAN /\ listening \in BOOLEAN
  /\ servers \subseteq Endpoints
  /\ clients \subseteq Peers /\ queues \subseteq Peers /\ publishers \subseteq Peers
  /\ sessionTasks \subseteq Peers /\ publishing \subseteq Peers /\ subscribers \subseteq Peers
  /\ activePeers \in [Endpoints -> Nat]
  /\ pc \in [Peers -> Registered \cup {"none", "closing"}]
  /\ endpoint \in [Peers -> Endpoints \cup {Other}]
  /\ todo \in [Peers -> Seq(Command)]
  /\ cancelled \in [Peers -> BOOLEAN]
  /\ transport \in [Peers -> {"none", "open", "closing"}]
  /\ peer \in [Peers -> {"attentive", "stalled", "left"}]
  /\ \A i \in DOMAIN commands : commands[i].by \in Peers \cup {Other}
  /\ doors \in [{"left", "right"} -> DoorStates]
  /\ coreRunning \in BOOLEAN /\ resets \in Nat /\ split \in BOOLEAN
  /\ woken \in Seq([by : Peers, ok : BOOLEAN])
  /\ applied \in [Peers -> Seq(Targets)]
  /\ refused \in [Peers -> Nat] /\ reported \in [Peers -> Nat]

\* The peers of S that were accepted at e.
PeersAt(S, at, e) == {p \in S : at[p] = e}

\* At every await of any task, the client list, the queues, the publisher
\* tasks, the peer counts of /atp/status and the core's subscribers agree on
\* which sessions exist (_serve_peer, stop).
BooksMatchSessions ==
  /\ clients = {p \in Peers : pc[p] \in Registered}
  /\ queues = clients /\ publishers = clients /\ subscribers = clients
  /\ sessionTasks = {p \in Peers : pc[p] # "none"}
  /\ \A e \in Endpoints : activePeers[e] = Cardinality(PeersAt(clients, endpoint, e))

\* When stop() has returned, after a failed start too, no task of the adapter
\* is left that could still use the core or the books; in particular the core
\* is not stopped under a session that waits for an answer (bootstrap.py).
NothingLeftBehind ==
  phase \in {"stopped", "failed"} \/ ~coreRunning =>
    /\ \A p \in Peers : pc[p] = "none" /\ p \notin publishing /\ p \notin subscribers
    /\ servers = {}

\* A session that reads the next line has had every command of its last message
\* applied, once and in their order, and has sent one error for each refusal if
\* the connection stayed open (_handle_atp_command).
MessagesCarriedOut ==
  \A p \in Peers : pc[p] = "reading" /\ applied[p] # <<>> =>
    /\ \E m \in Messages : /\ Len(applied[p]) = Len(CommandsOf(m))
                           /\ \A i \in DOMAIN applied[p] : applied[p][i] = CommandsOf(m)[i].target
    /\ transport[p] = "open" => reported[p] = refused[p]

\* The two doors are commanded one after the other, and messages of several
\* peers interleave.  Still, whenever no message is under way both doors have
\* the state of the same message, unless a reset or the end of the session came
\* between its two commands.
DoorsAgree ==
  (\A p \in Peers : todo[p] = <<>>) /\ ~split => doors["left"] = doors["right"]

\* A connected peer holds up stop(): a server waits for its connection before
\* anyone closes it, or it does not read what is still in the buffer.
Held ==
  \/ waits /\ phase = "closing servers" /\ \E p \in Peers : transport[p] = "open" /\ peer[p] # "left"
  \/ \E p \in Peers : transport[p] = "closing" /\ peer[p] = "stalled"

\* stop() ends unless a peer holds it up from some time on for ever.
StopEnds ==
  []<>~Held => (phase = "closing servers" ~> phase \in {"stopped", "failed"})

\* A peer that has left disappears from the books, whatever its session was
\* doing (a reconnected peer is not counted twice for ever).
LeftIsForgotten == \A p \in Peers : p \in clients /\ peer[p] = "left" ~> p \notin clients

=============================================================================
