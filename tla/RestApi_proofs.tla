--------------------------- MODULE RestApi_proofs ----------------------------
(***************************************************************************)
(* Safety of the REST handlers for every set of clients and requests.      *)
(*                                                                         *)
(* The composition implements the core (RestImplementsCore), so what is    *)
(* proved of SimulationCore holds of it.  What a handler may conclude from *)
(* its await is the invariant Awaits: the queue holds the command of the   *)
(* request under the number the handler waits for, and once the handler is *)
(* answered something has been published since it asked and an ok stands   *)
(* for a command the train accepted.                                       *)
(*                                                                         *)
(* What a frame holds is counted: WidthOf is the bits of a sequence of     *)
(* fields, it adds up under concatenation, and so does everything that     *)
(* FlattenSeq joins (FlattenAdds).                                         *)
(*                                                                         *)
(* What a reader finds in a frame follows the same counting: fields that a *)
(* frame Holds at a position are found one behind the other (HoldsConcat,  *)
(* HoldsParts), one coded field reads as its value (FieldValue), and items,*)
(* packets and the telegram read back part by part.                        *)
(***************************************************************************)
EXTENDS RestApi, SimulationCore_proofs, NaturalsInduction, WellFoundedInduction

\* A handler is awaiting exactly while its task waits for the core or is to resume.
HandlerTypes ==
  \A k \in Clients :
    /\ http[k].status \in {"none", "awaiting", "answered"}
    /\ http[k].status = "awaiting" <=> client[k].status # "idle"

\* What was submitted for a handler that is awaiting.
Submitted(k) ==
  /\ http[k].request \in Requests
  /\ http[k].request.route # "read" /\ ~RefusedAtEdge(http[k].request)
  /\ http[k].data = IF http[k].request.route = "equipment" THEN FrameOf(http[k].request) ELSE {}
  /\ http[k].asked \in Nat /\ http[k].asked <= latestSnapshot.id

\* An accepted command is one that nobody refuses, and the core does not refuse what
\* the train accepts.
NotRefused(c) == c.kind = "control" => c.accepted
Granted(c) == c.kind = "control" /\ c.accepted
Verdict(ok, c) == (ok => NotRefused(c)) /\ (Granted(c) => ok)

Awaits ==
  \A k \in Clients : http[k].status = "awaiting" =>
    /\ Submitted(k)
    /\ client[k].status = "waiting" =>
         \A i \in 1..Len(commandQueue) :
           commandQueue[i].sequence = client[k].sequence =>
             commandQueue[i].command = CommandOf(http[k].request)
    /\ client[k].status = "answered" =>
         /\ latestSnapshot.id > http[k].asked
         /\ Verdict(client[k].ok, CommandOf(http[k].request))

\* What an answer to an equipment request says of the frame of its telegram.
FrameReported(k) ==
  /\ http[k].request \in Requests
  /\ http[k].frame \in {{}, FrameOf(http[k].request)}
  /\ http[k].frame # {} => Addressed(http[k].request)
  /\ ~RefusedAtEdge(http[k].request) /\ Granted(CommandOf(http[k].request)) =>
       http[k].frame = FrameOf(http[k].request)

FramesReported ==
  \A k \in Clients :
    http[k].status = "answered" /\ http[k].request.route = "equipment" => FrameReported(k)

RestInv ==
  /\ DOMAIN http = Clients /\ HandlerTypes /\ Awaits
  /\ AnswersAreFresh /\ EncodedMeansDelivered /\ FramesReported

(***************************************************************************)
(* The composition implements the core.                                    *)
(***************************************************************************)

\* Every step of the handlers is a step of the core, or leaves it alone.
LEMMA RestStep == [RestNext]_restVars => [Next]_vars
<1> SUFFICES ASSUME [RestNext]_restVars PROVE [Next]_vars
  OBVIOUS
<1>1. ASSUME NEW k \in Clients, NEW r \in Requests, Arrive(k, r) PROVE [Next]_vars
  <2>1. CASE Read(k, r) \/ RefuseAtEdge(k, r)
    BY <2>1 DEF Read, RefuseAtEdge
  <2>2. CASE SubmitRequest(k, r)
    <3>1. Submit(k, CommandOf(r)) /\ CommandOf(r) \in Commands
      BY <2>2, RestAssumption DEF SubmitRequest
    <3> QED
      BY <3>1 DEF Next
  <2> QED
    BY <1>1, <2>1, <2>2 DEF Arrive
<1>2. ASSUME NEW k \in Clients, Respond(k) PROVE [Next]_vars
  BY <1>2 DEF Respond, Next
<1>3. CASE RunLoop \/ Elapse
  BY <1>3 DEF Next
<1>4. CASE UNCHANGED restVars
  BY <1>4 DEF restVars
<1> QED
  BY <1>1, <1>2, <1>3, <1>4 DEF RestNext

\* Handlers drive the core as its clients may: whatever holds of every behaviour
\* of SimulationCore holds while requests are served.
THEOREM RestImplementsCore == RestSpec => Spec
<1>1. RestInit => Init
  BY DEF RestInit
<1>2. QED
  BY <1>1, RestStep, PTL DEF RestSpec, Spec

\* The facts about the core that the handlers rest on.
CoreInv == TaskInv /\ ClockInv /\ FeedInv

\* The core's invariants hold below the handlers.
LEMMA CoreHolds == RestSpec => []CoreInv
BY RestImplementsCore, TaskInvariance, ClockInvariance, FeedInvariance, PTL DEF CoreInv

(***************************************************************************)
(* What the core's steps do to a handler that waits.                       *)
(***************************************************************************)

\* Handling a command publishes; nothing the loop or the clock does goes back.
LEMMA PublicationsAdvance ==
  ASSUME CoreInv, CoreInv', RunLoop \/ Elapse
  PROVE  /\ latestSnapshot.id \in Nat /\ latestSnapshot'.id \in Nat
         /\ latestSnapshot'.id >= latestSnapshot.id
         /\ \/ HandleCommand /\ latestSnapshot'.id > latestSnapshot.id
            \/ UNCHANGED <<client, commandQueue>>
<1>1. latestSnapshot.id \in Nat /\ latestSnapshot'.id \in Nat
  BY DEF CoreInv, FeedInv, FeedTypeOK, Snapshots
<1>2. TaskTypeOK /\ ClockInv /\ ClockTypeOK' /\ FeedInv
  BY DEF CoreInv, TaskInv, ClockInv
<1>3. CASE HandleCommand
  BY <1>1, <1>2, <1>3, HandleFeed
<1>4. CASE StartLoop
  <2>1. latestSnapshot' = [latestSnapshot EXCEPT !.id = @ + 1] /\ UNCHANGED <<client, commandQueue>>
    BY <1>4 DEF StartLoop, Publish, taskVars
  <2>2. latestSnapshot'.id = latestSnapshot.id + 1
    BY <1>2, <2>1 DEF FeedInv, FeedTypeOK, Snapshots
  <2> QED
    BY <1>1, <2>1, <2>2
<1>5. CASE TickWallClock
  <2>1. UNCHANGED <<client, commandQueue>>
    BY <1>5 DEF TickWallClock, taskVars
  <2>2. latestSnapshot'.id >= latestSnapshot.id
    BY <1>1, <1>2, <1>5, TickFeed DEF feedVars
  <2> QED
    BY <1>1, <2>1, <2>2
<1>6. CASE UNCHANGED <<feedVars, taskVars>>
  BY <1>1, <1>6 DEF feedVars, taskVars
<1> QED
  BY <1>3, <1>4, <1>5, <1>6 DEF RunLoop, HandleNext, CommandArrives, TickTimeout, RecheckQueue,
     Elapse

\* Handling the head of the queue answers the handler that waits for its number,
\* with the verdict on the command of its request, and leaves the rest in place.
LEMMA HandleAnswers ==
  ASSUME CoreInv, RestInv, HandleCommand, NEW k \in Clients, http[k].status = "awaiting"
  PROVE  /\ client'[k].status # "idle"
         /\ client'[k].status = "waiting" =>
              /\ client[k].status = "waiting" /\ client'[k].sequence = client[k].sequence
              /\ \A i \in 1..Len(commandQueue') :
                   commandQueue'[i].sequence = client'[k].sequence =>
                     commandQueue'[i].command = CommandOf(http[k].request)
         /\ client'[k].status = "answered" =>
              Verdict(client'[k].ok, CommandOf(http[k].request))
<1> DEFINE first == Head(commandQueue)
           n == first.sequence
           ok == Accepted(first.command)
<1>1. /\ commandQueue # <<>> /\ commandQueue' = Tail(commandQueue)
      /\ client' = [j \in Clients |->
                     IF client[j].status = "waiting" /\ client[j].sequence = n
                     THEN [client[j] EXCEPT !.status = "answered", !.ok = ok]
                     ELSE client[j]]
  BY DEF HandleCommand, Resolve
<1>2. commandQueue \in Seq([sequence : Nat, command : Commands])
  BY DEF CoreInv, TaskInv, TaskTypeOK
<1>3. /\ 1 \in 1..Len(commandQueue) /\ first = commandQueue[1]
      /\ \A i \in 1..Len(commandQueue') :
           i + 1 \in 1..Len(commandQueue) /\ commandQueue'[i] = commandQueue[i + 1]
  <2>1. /\ Len(commandQueue') = Len(commandQueue) - 1
        /\ Len(commandQueue) \in Nat \ {0}
        /\ \A i \in 1..Len(commandQueue') : commandQueue'[i] = commandQueue[i + 1]
    BY <1>1, <1>2, HeadTailProperties, EmptySeq
  <2>2. commandQueue # <<>>
    BY <1>1
  <2>3. first = commandQueue[1]
    BY <1>2, <2>2, HeadTailProperties
  <2> QED
    BY <2>1, <2>3
<1>4. /\ client[k].status # "idle"
      /\ client[k] \in [status : {"idle", "waiting", "answered"}, sequence : Nat, ok : BOOLEAN]
  BY DEF RestInv, HandlerTypes, CoreInv, TaskInv, TaskTypeOK
<1>5. client[k].status = "waiting" =>
        \A i \in 1..Len(commandQueue) :
          commandQueue[i].sequence = client[k].sequence =>
            commandQueue[i].command = CommandOf(http[k].request)
  BY DEF RestInv, Awaits
<1>6. Verdict(ok, first.command)
  BY DEF Accepted, NotRefused, Granted, Verdict
<1> HIDE DEF ok, n, first
<1>7. CASE client[k].status = "waiting" /\ client[k].sequence = n
  <2>1. first.command = CommandOf(http[k].request)
    BY <1>3, <1>5, <1>7 DEF n
  <2>2. client'[k] = [client[k] EXCEPT !.status = "answered", !.ok = ok]
    BY <1>1, <1>7
  <2>3. client'[k].status = "answered" /\ client'[k].ok = ok
    BY <1>4, <2>2
  <2> QED
    BY <1>6, <2>1, <2>3, Zenon
<1>8. CASE ~(client[k].status = "waiting" /\ client[k].sequence = n)
  <2>1. client'[k] = client[k]
    BY <1>1, <1>8
  <2>2. client[k].status = "answered" =>
          Verdict(client[k].ok, CommandOf(http[k].request))
    BY DEF RestInv, Awaits
  <2>3. client[k].status = "waiting" =>
          \A i \in 1..Len(commandQueue') :
            commandQueue'[i].sequence = client[k].sequence =>
              commandQueue'[i].command = CommandOf(http[k].request)
    BY <1>3, <1>5
  <2> QED
    BY <1>4, <2>1, <2>2, <2>3, Zenon
<1> QED
  BY <1>7, <1>8

(***************************************************************************)
(* The invariant.                                                          *)
(***************************************************************************)

\* No handler runs at the start.
LEMMA RestInvInit == RestInit => RestInv
<1> SUFFICES ASSUME RestInit PROVE RestInv
  OBVIOUS
<1>1. DOMAIN http = Clients /\ \A k \in Clients : http[k].status = "none"
  BY DEF RestInit, NoRequest
<1>2. \A k \in Clients : client[k].status = "idle"
  BY DEF RestInit, Init
<1> QED
  BY <1>1, <1>2 DEF RestInv, HandlerTypes, Awaits, AnswersAreFresh, EncodedMeansDelivered,
     FramesReported

\* The part of the invariant that is about one handler.
HandlerInv(k) ==
  /\ http[k].status \in {"none", "awaiting", "answered"}
  /\ http[k].status = "awaiting" <=> client[k].status # "idle"
  /\ http[k].status = "awaiting" =>
       /\ Submitted(k)
       /\ client[k].status = "waiting" =>
            \A i \in 1..Len(commandQueue) :
              commandQueue[i].sequence = client[k].sequence =>
                commandQueue[i].command = CommandOf(http[k].request)
       /\ client[k].status = "answered" =>
            /\ latestSnapshot.id > http[k].asked
            /\ Verdict(client[k].ok, CommandOf(http[k].request))
  /\ http[k].status = "answered" =>
       /\ \A snapshot \in http[k].snapshot :
            /\ snapshot.id >= http[k].asked
            /\ http[k].submitted => snapshot.id > http[k].asked
       /\ http[k].frame # {} =>
            /\ http[k].submitted
            /\ http[k].request.type = "btm" /\ "known" \in http[k].request.train
       /\ http[k].request.route = "equipment" => FrameReported(k)

\* The invariant says the same of each handler, whatever the others do.
LEMMA HandlerByHandler == RestInv <=> DOMAIN http = Clients /\ \A k \in Clients : HandlerInv(k)
BY DEF RestInv, HandlerTypes, Awaits, AnswersAreFresh, EncodedMeansDelivered, FramesReported,
     HandlerInv

\* An answered handler keeps its answer.
LEMMA KeepsAnswer ==
  ASSUME NEW k \in Clients, HandlerInv(k), http[k].status # "awaiting",
         http'[k] = http[k], client'[k].status = client[k].status
  PROVE  HandlerInv(k)'
BY DEF HandlerInv, FrameReported

\* A handler that waits is not disturbed by what leaves its future and the queued
\* commands alone, and what is published later is only fresher.
LEMMA KeepsWaiting ==
  ASSUME NEW k \in Clients, HandlerInv(k), http[k].status = "awaiting",
         http'[k] = http[k], client'[k].status # "idle",
         latestSnapshot.id \in Nat, latestSnapshot'.id \in Nat,
         latestSnapshot'.id >= latestSnapshot.id,
         client'[k].status = "waiting" =>
           \A i \in 1..Len(commandQueue') :
             commandQueue'[i].sequence = client'[k].sequence =>
               commandQueue'[i].command = CommandOf(http[k].request),
         client'[k].status = "answered" =>
           /\ client[k].status = "answered" \/ latestSnapshot'.id > latestSnapshot.id
           /\ Verdict(client'[k].ok, CommandOf(http[k].request))
  PROVE  HandlerInv(k)'
<1>1. Submitted(k)
  BY DEF HandlerInv
<1>2. Submitted(k)'
  BY <1>1 DEF Submitted
<1>3. client'[k].status = "answered" => latestSnapshot'.id > http'[k].asked
  <2>1. client[k].status = "answered" => latestSnapshot.id > http[k].asked
    BY DEF HandlerInv
  <2> QED
    BY <1>1, <2>1 DEF Submitted
<1> QED
  BY <1>2, <1>3, Zenon DEF HandlerInv

\* A telegram that was submitted and accepted was addressed to a BTM that takes it.
LEMMA AcceptedTelegram ==
  ASSUME NEW k \in Clients, Submitted(k), http[k].data # {},
         NotRefused(CommandOf(http[k].request))
  PROVE  Addressed(http[k].request)
<1> DEFINE r == http[k].request
<1>1. r.route = "equipment" /\ http[k].data = FrameOf(r)
  BY DEF Submitted
<1>2. r.telegram # {}
  BY <1>1 DEF FrameOf
<1>3. /\ "known" \in r.train => r.type \in {"btm", "missing"}
      /\ r.data = {}
  BY <1>1, <1>2 DEF Submitted, RefusedAtEdge
<1>4. /\ CommandOf(r).kind = "control"
      /\ CommandOf(r).accepted => "known" \in r.train /\ (BtmAccepts(r) \/ DoorAccepts(r))
  BY <1>1 DEF CommandOf
<1>5. "known" \in r.train /\ (BtmAccepts(r) \/ DoorAccepts(r))
  BY <1>4 DEF NotRefused
<1> QED
  BY <1>3, <1>5 DEF BtmAccepts, DoorAccepts, Addressed

\* Every handler keeps its part of the invariant.
LEMMA RestInvStep == CoreInv /\ CoreInv' /\ RestInv /\ [RestNext]_restVars => RestInv'
<1> SUFFICES ASSUME CoreInv, CoreInv', RestInv, [RestNext]_restVars PROVE RestInv'
  OBVIOUS
<1>0. /\ DOMAIN http = Clients /\ \A j \in Clients : HandlerInv(j)
      /\ latestSnapshot.id \in Nat
      /\ client \in [Clients -> [status : {"idle", "waiting", "answered"},
                                 sequence : Nat, ok : BOOLEAN]]
      /\ commandQueue \in Seq([sequence : Nat, command : Commands])
      /\ sequence \in Nat /\ Len(commandQueue) \in Nat
  BY HandlerByHandler DEF CoreInv, FeedInv, FeedTypeOK, Snapshots, TaskInv, TaskTypeOK
<1> SUFFICES DOMAIN http' = Clients /\ \A j \in Clients : HandlerInv(j)'
  BY DEF RestInv, HandlerTypes, Awaits, AnswersAreFresh, EncodedMeansDelivered, FramesReported,
     HandlerInv
<1> DEFINE Goal == DOMAIN http' = Clients /\ \A j \in Clients : HandlerInv(j)'
<1>1. ASSUME NEW k \in Clients, NEW answer, http' = [http EXCEPT ![k] = answer],
             \A j \in Clients \ {k} : client'[j] = client[j],
             latestSnapshot' = latestSnapshot,
             \A j \in Clients \ {k} : client[j].status = "waiting" =>
               \A i \in 1..Len(commandQueue') :
                 commandQueue'[i].sequence = client[j].sequence =>
                   i \in 1..Len(commandQueue) /\ commandQueue'[i] = commandQueue[i],
             HandlerInv(k)'
      PROVE  Goal
  <2>1. DOMAIN http' = Clients
    BY <1>0, <1>1
  <2>2. ASSUME NEW j \in Clients \ {k} PROVE HandlerInv(j)'
    <3>1. HandlerInv(j) /\ http'[j] = http[j] /\ client'[j] = client[j]
      BY <1>0, <1>1
    <3>2. CASE http[j].status # "awaiting"
      BY <3>1, <3>2, KeepsAnswer
    <3>3. CASE http[j].status = "awaiting"
      <4>1. client[j].status # "idle"
        BY <3>1, <3>3 DEF HandlerInv
      <4>2. client[j].status = "waiting" =>
              \A i \in 1..Len(commandQueue') :
                commandQueue'[i].sequence = client[j].sequence =>
                  commandQueue'[i].command = CommandOf(http[j].request)
        BY <1>1, <3>1, <3>3 DEF HandlerInv
      <4>3. client[j].status = "answered" =>
              Verdict(client[j].ok, CommandOf(http[j].request))
        BY <3>1, <3>3, Zenon DEF HandlerInv
      <4>4. latestSnapshot'.id \in Nat /\ latestSnapshot'.id >= latestSnapshot.id
        BY <1>0, <1>1
      <4>5. client'[j].status = "answered" =>
              /\ client[j].status = "answered" \/ latestSnapshot'.id > latestSnapshot.id
              /\ Verdict(client'[j].ok, CommandOf(http[j].request))
        BY <3>1, <4>3, Zenon
      <4> QED
        BY <1>0, <3>1, <3>3, <4>1, <4>2, <4>4, <4>5, KeepsWaiting
    <3> QED
      BY <3>2, <3>3
  <2> QED
    BY <1>1, <2>1, <2>2
<1>2. ASSUME NEW k \in Clients, NEW r \in Requests, Arrive(k, r) PROVE Goal
  <2>1. ASSUME NEW code, UNCHANGED vars, http[k].status # "awaiting",
               r.route = "equipment" => RefusedAtEdge(r),
               http' = [http EXCEPT ![k] = Answer(r, code, latestSnapshot.id, FALSE, {})]
        PROVE  Goal
    <3>1. /\ http'[k].status = "answered" /\ http'[k].asked = latestSnapshot.id
          /\ http'[k].submitted = FALSE /\ http'[k].frame = {}
          /\ http'[k].snapshot \subseteq {latestSnapshot}
      BY <1>0, <2>1 DEF Answer
    <3>2. client[k].status = "idle"
      BY <1>0, <2>1 DEF HandlerInv
    <3>3. UNCHANGED <<client, latestSnapshot, commandQueue>>
      BY <2>1 DEF vars, taskVars, feedVars
    <3>4. \A snapshot \in http'[k].snapshot : snapshot.id >= http'[k].asked
      BY <1>0, <3>1
    <3>6. http'[k].request = r
      BY <1>0, <2>1 DEF Answer
    <3>7. http'[k].request.route = "equipment" => FrameReported(k)'
      <4> SUFFICES ASSUME r.route = "equipment" PROVE FrameReported(k)'
        BY <3>6
      <4>1. RefusedAtEdge(r)
        BY <2>1
      <4> QED
        BY <3>1, <3>6, <4>1, Zenon DEF FrameReported
    <3>5. HandlerInv(k)'
      BY <3>1, <3>2, <3>3, <3>4, <3>7, Zenon DEF HandlerInv
    <3> QED
      BY <1>1, <2>1, <3>3, <3>5
  <2>4. http[k].status # "awaiting"
    BY <1>2 DEF Arrive
  <2>2. CASE Read(k, r) \/ RefuseAtEdge(k, r)
    <3>1. CASE Read(k, r)
      BY <2>1, <2>4, <3>1 DEF Read
    <3>2. CASE RefuseAtEdge(k, r)
      BY <2>1, <2>4, <3>2, Zenon DEF RefuseAtEdge
    <3> QED
      BY <2>2, <3>1, <3>2
  <2>3. CASE SubmitRequest(k, r)
    <3> DEFINE c == CommandOf(r)
               e == [sequence |-> sequence, command |-> c]
    <3>1. /\ r.route # "read" /\ ~RefusedAtEdge(r) /\ c \in Commands
          /\ commandQueue' = Append(commandQueue, e)
          /\ client' = [client EXCEPT ![k] = [status |-> "waiting", sequence |-> sequence,
                                             ok |-> FALSE]]
          /\ latestSnapshot' = latestSnapshot
      BY <2>3, RestAssumption DEF SubmitRequest, Submit, feedVars
    <3>2. /\ http' = [http EXCEPT ![k] = http'[k]]
          /\ http'[k].status = "awaiting" /\ http'[k].request = r
          /\ http'[k].asked = latestSnapshot.id
          /\ http'[k].data = IF r.route = "equipment" THEN FrameOf(r) ELSE {}
      BY <1>0, <2>3 DEF SubmitRequest
    <3>3. /\ Len(commandQueue') = Len(commandQueue) + 1
          /\ \A i \in 1..Len(commandQueue) : commandQueue'[i] = commandQueue[i]
          /\ commandQueue'[Len(commandQueue) + 1] = e
      BY <1>0, <3>1, AppendProperties
    <3>4. /\ \A i \in 1..Len(commandQueue) : commandQueue[i].sequence # sequence
          /\ \A j \in Clients : client[j].status = "waiting" => client[j].sequence # sequence
      <4>1. FuturesMatchQueue
        BY Zenon DEF CoreInv, TaskInv
      <4>2. sequence \in Nat /\ Len(commandQueue) \in Nat
        BY <1>0
      <4>3. \A i \in 1..Len(commandQueue) : commandQueue[i].sequence # sequence
        BY <4>1, <4>2 DEF FuturesMatchQueue
      <4>4. \A j \in Clients : client[j].status = "waiting" =>
              client[j].sequence \in (sequence - Len(commandQueue)) .. (sequence - 1)
        BY <4>1, Zenon DEF FuturesMatchQueue
      <4>5. sequence \notin (sequence - Len(commandQueue)) .. (sequence - 1)
        BY <4>2
      <4> QED
        BY <4>3, <4>4, <4>5, Zenon
    <3>5. \A i \in 1..Len(commandQueue') :
            i \in 1..Len(commandQueue) \/ i = Len(commandQueue) + 1
      BY <1>0, <3>3
    <3>6. \A i \in 1..Len(commandQueue') :
            commandQueue'[i].sequence = sequence => commandQueue'[i].command = c
      BY <3>3, <3>4, <3>5
    <3>7. client'[k].status = "waiting" /\ client'[k].sequence = sequence
      BY <1>0, <3>1
    <3>8. Submitted(k)'
      BY <1>0, <3>1, <3>2 DEF Submitted
    <3>9. HandlerInv(k)'
      BY <3>2, <3>6, <3>7, <3>8, Zenon DEF HandlerInv
    <3>10. \A j \in Clients \ {k} : client[j].status = "waiting" =>
             \A i \in 1..Len(commandQueue') :
               commandQueue'[i].sequence = client[j].sequence =>
                 i \in 1..Len(commandQueue) /\ commandQueue'[i] = commandQueue[i]
      BY <3>3, <3>4, <3>5
    <3>11. \A j \in Clients \ {k} : client'[j] = client[j]
      BY <1>0, <3>1
    <3> QED
      BY <1>1, <3>1, <3>2, <3>9, <3>10, <3>11
  <2> QED
    BY <1>2, <2>2, <2>3 DEF Arrive
<1>3. ASSUME NEW k \in Clients, Respond(k) PROVE Goal
  <2> DEFINE code == IF client[k].ok THEN 200 ELSE 400
             answer == Answer(http[k].request, code, http[k].asked, TRUE, http[k].data)
  <2>1. /\ client[k].status = "answered"
        /\ client' = [client EXCEPT ![k].status = "idle"]
        /\ UNCHANGED <<latestSnapshot, commandQueue>>
        /\ http' = [http EXCEPT ![k] = answer]
    BY <1>3 DEF Respond, ResumeClient, feedVars
  <2>2. http[k].status = "awaiting" /\ Submitted(k) /\ latestSnapshot.id > http[k].asked
    BY <1>0, <2>1 DEF HandlerInv
  <2>3. Verdict(client[k].ok, CommandOf(http[k].request))
    BY <1>0, <2>1, <2>2, Zenon DEF HandlerInv
  <2>4. /\ http'[k].status = "answered" /\ http'[k].asked = http[k].asked
        /\ http'[k].submitted /\ http'[k].request = http[k].request
        /\ http'[k].snapshot \subseteq {latestSnapshot}
        /\ http'[k].frame = IF code = 200 THEN http[k].data ELSE {}
    BY <1>0, <2>1 DEF Answer
  <2>5. client'[k].status = "idle" /\ \A j \in Clients \ {k} : client'[j] = client[j]
    BY <1>0, <2>1
  <2>6. \A snapshot \in http'[k].snapshot :
          snapshot.id >= http'[k].asked /\ snapshot.id > http'[k].asked
    BY <1>0, <2>2, <2>4 DEF Submitted
  <2>10. ASSUME http'[k].frame # {} PROVE Addressed(http'[k].request)
    <3>1. code = 200 /\ http[k].data # {}
      BY <2>4, <2>10
    <3>2. client[k].ok
      BY <3>1
    <3>3. Addressed(http[k].request)
      BY <2>2, <2>3, <3>1, <3>2, AcceptedTelegram DEF Verdict
    <3> QED
      BY <2>4, <3>3
  <2>7. ASSUME http'[k].frame # {}
        PROVE  http'[k].request.type = "btm" /\ "known" \in http'[k].request.train
    BY <2>7, <2>10 DEF Addressed
  <2>9. http'[k].request.route = "equipment" => FrameReported(k)'
    <3> SUFFICES ASSUME http[k].request.route = "equipment" PROVE FrameReported(k)'
      BY <2>4
    <3>1. http[k].request \in Requests /\ http[k].data = FrameOf(http[k].request)
      BY <2>2 DEF Submitted
    <3>2. Granted(CommandOf(http[k].request)) => client[k].ok
      BY <2>3 DEF Verdict
    <3> QED
      BY <2>4, <2>10, <3>1, <3>2 DEF FrameReported
  <2>8. HandlerInv(k)'
    <3>1. /\ http'[k].status \in {"none", "awaiting", "answered"}
          /\ http'[k].status # "awaiting" /\ client'[k].status = "idle" /\ http'[k].submitted
      BY <2>4, <2>5
    <3> QED
      BY <2>6, <2>7, <2>9, <3>1, Zenon DEF HandlerInv
  <2> QED
    BY <1>1, <2>1, <2>5, <2>8
<1>4. ASSUME RunLoop \/ Elapse, http' = http PROVE Goal
  <2>1. ASSUME NEW k \in Clients PROVE HandlerInv(k)'
    <3>1. HandlerInv(k) /\ http'[k] = http[k]
      BY <1>0, <1>4
    <3>2. /\ latestSnapshot'.id \in Nat /\ latestSnapshot'.id >= latestSnapshot.id
          /\ \/ HandleCommand /\ latestSnapshot'.id > latestSnapshot.id
             \/ UNCHANGED <<client, commandQueue>>
      BY <1>4, PublicationsAdvance
    <3>3. CASE http[k].status = "awaiting" /\ HandleCommand /\ latestSnapshot'.id > latestSnapshot.id
      <4>1. /\ client'[k].status # "idle"
            /\ client'[k].status = "waiting" =>
                 \A i \in 1..Len(commandQueue') :
                   commandQueue'[i].sequence = client'[k].sequence =>
                     commandQueue'[i].command = CommandOf(http[k].request)
            /\ client'[k].status = "answered" =>
                 Verdict(client'[k].ok, CommandOf(http[k].request))
        BY <3>3, HandleAnswers
      <4> QED
        BY <1>0, <3>1, <3>2, <3>3, <4>1, KeepsWaiting
    <3>4. CASE http[k].status = "awaiting" /\ UNCHANGED <<client, commandQueue>>
      <4>1. /\ client[k].status # "idle"
            /\ client[k].status = "waiting" =>
                 \A i \in 1..Len(commandQueue) :
                   commandQueue[i].sequence = client[k].sequence =>
                     commandQueue[i].command = CommandOf(http[k].request)
            /\ client[k].status = "answered" =>
                 Verdict(client[k].ok, CommandOf(http[k].request))
        BY <3>1, <3>4, Zenon DEF HandlerInv
      <4> QED
        BY <1>0, <3>1, <3>2, <3>4, <4>1, KeepsWaiting
    <3>5. CASE http[k].status # "awaiting"
      <4>1. client[k].status = "idle"
        BY <1>0, <3>1, <3>5 DEF HandlerInv
      <4>2. client'[k].status = client[k].status
        <5>1. CASE HandleCommand
          BY <4>1, <5>1 DEF HandleCommand, Resolve
        <5> QED
          BY <3>2, <5>1
      <4> QED
        BY <3>1, <3>5, <4>2, KeepsAnswer
    <3> QED
      BY <3>2, <3>3, <3>4, <3>5
  <2> QED
    BY <1>0, <1>4, <2>1
<1>5. CASE UNCHANGED restVars
  <2>1. UNCHANGED <<http, client, commandQueue, latestSnapshot>>
    BY <1>5 DEF restVars, vars, taskVars, feedVars
  <2> QED
    BY <1>0, <2>1 DEF HandlerInv, Submitted, FrameReported
<1> QED
  BY <1>2, <1>3, <1>4, <1>5 DEF RestNext

\* Between the awaits of routes.py every handler knows the request, the frame and the
\* future it will answer from: the inductive invariant of the REST adapter.
THEOREM RestInvariance == RestSpec => []RestInv
BY CoreHolds, RestInvInit, RestInvStep, PTL DEF RestSpec

\* A successful answer is never older than its request, and the answer to a command
\* shows what the command published.
THEOREM FreshAnswers == RestSpec => []AnswersAreFresh
<1>1. RestInv => AnswersAreFresh
  BY DEF RestInv
<1> QED
  BY <1>1, RestInvariance, PTL

\* An answer with an encoded telegram means that a BTM of the train took it.
THEOREM TelegramsDelivered == RestSpec => []EncodedMeansDelivered
<1>1. RestInv => EncodedMeansDelivered
  BY DEF RestInv
<1> QED
  BY <1>1, RestInvariance, PTL

(***************************************************************************)
(* Sums of numbers.                                                        *)
(***************************************************************************)

\* Induction over the positions of a sequence, with a set for the hypothesis.
LEMMA UpTo ==
  ASSUME NEW n \in Nat, NEW S, 0 \in S, \A i \in 1..n : i - 1 \in S => i \in S
  PROVE  \A i \in 0..n : i \in S
<1> DEFINE Missing == {k \in 0..n : k \notin S}
<1>1. CASE Missing = {}
  BY <1>1
<1>2. CASE Missing # {}
  <2>1. PICK m \in Missing : \A k \in Missing : ~ (<<k, m>> \in OpToRel(<, Nat))
    <3>1. Missing \subseteq Nat
      OBVIOUS
    <3> HIDE DEF Missing
    <3> QED
      BY <1>2, <3>1, NatLessThanWellFounded, WFMin
  <2>2. m \in 1..n /\ m - 1 \in 0..n /\ m - 1 \in Nat /\ m \in Nat /\ m - 1 < m /\ m \notin S
    <3>1. m \in 0..n /\ m \notin S
      BY <2>1
    <3>2. m # 0
      BY <3>1
    <3> QED
      BY <3>1, <3>2
  <2>3. <<m - 1, m>> \in OpToRel(<, Nat)
    BY <2>2, Zenon DEF OpToRel
  <2>4. m - 1 \notin Missing
    <3> HIDE DEF Missing
    <3> QED
      BY <2>1, <2>3
  <2> QED
    BY <2>2, <2>4
<1> QED
  BY <1>1, <1>2

\* g holds the sums of the first numbers of a sequence.
Sums(g, numbers, n) ==
  /\ g \in [0..n -> Int] /\ g[0] = 0
  /\ \A i \in 1..n : g[i] = g[i - 1] + numbers[i]

\* The sums of a longer sequence extend those of a shorter one.
LEMMA SumsExist ==
  ASSUME NEW numbers \in Seq(Int)
  PROVE  \E g : Sums(g, numbers, Len(numbers))
<1> DEFINE n == Len(numbers)
           S == {k \in 0..n : \E g : Sums(g, numbers, k)}
<1>1. n \in Nat
  OBVIOUS
<1>2. 0 \in S
  <2>1. Sums([i \in 0..0 |-> 0], numbers, 0)
    BY DEF Sums
  <2> QED
    BY <2>1
<1>3. ASSUME NEW m \in 1..n, m - 1 \in S PROVE m \in S
  <2>1. PICK f : Sums(f, numbers, m - 1)
    BY <1>3
  <2> DEFINE g == [i \in 0..m |-> IF i = m THEN f[m - 1] + numbers[m] ELSE f[i]]
  <2>2. g[m] = g[m - 1] + numbers[m] /\ g[0] = 0
    BY <2>1 DEF Sums
  <2>3. \A i \in 1..(m - 1) : g[i] = g[i - 1] + numbers[i]
    BY <2>1 DEF Sums
  <2>4. g \in [0..m -> Int]
    BY <2>1 DEF Sums
  <2>5. \A i \in 1..m : i = m \/ i \in 1..(m - 1)
    OBVIOUS
  <2> HIDE DEF g
  <2>6. Sums(g, numbers, m)
    BY <2>2, <2>3, <2>4, <2>5 DEF Sums
  <2> QED
    BY <2>6
<1> HIDE DEF S
<1>4. n \in S
  <2> HIDE DEF n
  <2>1. \A i \in 0..n : i \in S
    BY <1>1, <1>2, <1>3, UpTo
  <2> QED
    BY <1>1, <2>1
<1> QED
  BY <1>4 DEF S

\* The total of a sequence is the last of its sums.
LEMMA TotalFact ==
  ASSUME NEW numbers \in Seq(Int)
  PROVE  \E g : Sums(g, numbers, Len(numbers)) /\ T!Total(numbers) = g[Len(numbers)]
<1> DEFINE n == Len(numbers)
           sum == CHOOSE sum : sum = [i \in 0..n |-> IF i = 0 THEN 0 ELSE sum[i - 1] + numbers[i]]
           S == {i \in 0..n : sum[i] \in Int}
<1>1. n \in Nat
  OBVIOUS
<1>2. sum = [i \in 0..n |-> IF i = 0 THEN 0 ELSE sum[i - 1] + numbers[i]]
  <2>1. PICK g : Sums(g, numbers, n)
    BY SumsExist
  <2>2. g = [i \in 0..n |-> IF i = 0 THEN 0 ELSE g[i - 1] + numbers[i]]
    BY <1>1, <2>1 DEF Sums
  <2> HIDE DEF n
  <2> QED
    BY <2>2, Zenon
<1>3. T!Total(numbers) = sum[n]
  BY Zenon DEF T!Total
<1> HIDE DEF sum
<1>4. DOMAIN sum = 0..n /\ sum[0] = 0 /\ \A i \in 1..n : sum[i] = sum[i - 1] + numbers[i]
  BY <1>1, <1>2
<1>5. \A i \in 0..n : i \in S
  <2>1. 0 \in S /\ \A i \in 1..n : i - 1 \in S => i \in S
    BY <1>1, <1>4
  <2> HIDE DEF S, n
  <2> QED
    BY <1>1, <2>1, UpTo
<1>6. sum \in [0..n -> Int]
  BY <1>2, <1>5
<1>7. Sums(sum, numbers, n)
  BY <1>4, <1>6 DEF Sums
<1> QED
  BY <1>3, <1>7

\* A total is a number, and the total of a concatenation is that of its parts.
LEMMA TotalConcat ==
  ASSUME NEW a \in Seq(Int), NEW b \in Seq(Int)
  PROVE  T!Total(a) \in Int /\ T!Total(a \o b) = T!Total(a) + T!Total(b)
<1> DEFINE m == Len(a)
           n == Len(b)
           c == a \o b
<1>1. /\ c \in Seq(Int) /\ m \in Nat /\ n \in Nat /\ Len(c) = m + n
      /\ \A i \in 1..m : c[i] = a[i]
      /\ \A i \in 1..n : c[m + i] = b[i]
  OBVIOUS
<1>2. PICK ga : Sums(ga, a, m) /\ T!Total(a) = ga[m]
  BY TotalFact
<1>3. PICK gb : Sums(gb, b, n) /\ T!Total(b) = gb[n]
  BY TotalFact
<1>4. PICK g : Sums(g, c, m + n) /\ T!Total(c) = g[m + n]
  BY <1>1, TotalFact
<1> HIDE DEF m, n, c
<1> DEFINE S == {i \in 0..m : g[i] = ga[i]}
           R == {i \in 0..n : g[m + i] = ga[m] + gb[i]}
<1>5. \A i \in 0..m : i \in S
  <2>1. 0 \in S
    BY <1>1, <1>2, <1>4 DEF Sums
  <2>2. ASSUME NEW i \in 1..m, i - 1 \in S PROVE i \in S
    <3>1. i \in 1..(m + n) /\ i \in 0..m
      BY <1>1
    <3>2. g[i] = g[i - 1] + a[i] /\ ga[i] = ga[i - 1] + a[i]
      BY <1>1, <1>2, <1>4, <3>1 DEF Sums
    <3> QED
      BY <2>2, <3>1, <3>2
  <2> HIDE DEF S
  <2> QED
    BY <1>1, <2>1, <2>2, UpTo
<1>6. \A i \in 0..n : i \in R
  <2>1. 0 \in R
    <3>1. g[m] = ga[m] /\ ga[m] \in Int /\ gb[0] = 0
      BY <1>1, <1>2, <1>3, <1>5 DEF Sums
    <3> QED
      BY <1>1, <3>1
  <2>2. ASSUME NEW i \in 1..n, i - 1 \in R PROVE i \in R
    <3>1. m + i \in 1..(m + n) /\ i \in 0..n /\ m + i - 1 = m + (i - 1)
      BY <1>1
    <3>2. gb[i] = gb[i - 1] + b[i]
      BY <1>3 DEF Sums
    <3>7. g[m + i] = g[(m + i) - 1] + c[m + i]
      BY <1>4, <3>1 DEF Sums
    <3>3. c[m + i] = b[i]
      BY <1>1
    <3>4. b[i] \in Int /\ ga[m] \in Int /\ gb[i - 1] \in Int
      <4>1. b[i] \in Int
        BY DEF n
      <4>2. m \in 0..m /\ i - 1 \in 0..n
        BY <1>1
      <4> QED
        BY <1>2, <1>3, <4>1, <4>2 DEF Sums
    <3>5. g[m + (i - 1)] = ga[m] + gb[i - 1]
      BY <2>2
    <3>8. g[(m + i) - 1] = ga[m] + gb[i - 1]
      <4>1. (m + i) - 1 = m + (i - 1)
        BY <1>1
      <4> QED
        BY <3>5, <4>1, Zenon
    <3>6. g[m + i] = ga[m] + gb[i]
      BY <3>2, <3>3, <3>4, <3>7, <3>8
    <3> QED
      BY <3>1, <3>6
  <2> HIDE DEF R
  <2> QED
    BY <1>1, <2>1, <2>2, UpTo
<1>7. n \in R /\ ga[m] \in Int
  BY <1>1, <1>2, <1>6 DEF Sums
<1> QED
  BY <1>2, <1>3, <1>4, <1>7 DEF c

\* The total of one number.
LEMMA TotalOne ==
  ASSUME NEW k \in Int
  PROVE  T!Total(<<k>>) = k
<1>1. <<k>> \in Seq(Int) /\ Len(<<k>>) = 1 /\ <<k>>[1] = k
  OBVIOUS
<1>2. PICK g : Sums(g, <<k>>, 1) /\ T!Total(<<k>>) = g[1]
  BY <1>1, TotalFact
<1>3. g[1] = g[0] + k /\ g[0] = 0
  BY <1>1, <1>2 DEF Sums
<1> QED
  BY <1>2, <1>3

(***************************************************************************)
(* Sequences of sequences.                                                 *)
(***************************************************************************)

\* f holds the concatenations of the first sequences of seqs.
Joins(f, seqs, n, S) ==
  /\ f \in [0..n -> Seq(S)] /\ f[0] = <<>>
  /\ \A i \in 1..n : f[i] = f[i - 1] \o seqs[i]

\* The concatenations of any sequences exist.
LEMMA JoinsExist ==
  ASSUME NEW S, NEW seqs \in Seq(Seq(S))
  PROVE  \E f : Joins(f, seqs, Len(seqs), S)
<1> DEFINE n == Len(seqs)
           K == {k \in 0..n : \E f : Joins(f, seqs, k, S)}
<1>1. n \in Nat
  OBVIOUS
<1>2. 0 \in K
  <2>1. Joins([i \in 0..0 |-> <<>>], seqs, 0, S)
    BY DEF Joins
  <2> QED
    BY <2>1
<1>3. ASSUME NEW m \in 1..n, m - 1 \in K PROVE m \in K
  <2>1. PICK f : Joins(f, seqs, m - 1, S)
    BY <1>3
  <2> DEFINE joined == f[m - 1] \o seqs[m]
             g == [i \in 0..m |-> IF i = m THEN joined ELSE f[i]]
  <2>2. joined \in Seq(S)
    <3>1. seqs[m] \in Seq(S)
      OBVIOUS
    <3>2. f[m - 1] \in Seq(S)
      BY <2>1 DEF Joins
    <3> QED
      BY <3>1, <3>2, ConcatProperties
  <2>3. g[m] = g[m - 1] \o seqs[m] /\ g[0] = <<>>
    <3>1. g[m] = joined
      <4> HIDE DEF joined
      <4> QED
        OBVIOUS
    <3>2. g[m - 1] = f[m - 1] /\ g[0] = f[0]
      OBVIOUS
    <3>3. f[0] = <<>>
      BY <2>1 DEF Joins
    <3> HIDE DEF g
    <3> QED
      BY <3>1, <3>2, <3>3
  <2>4. \A i \in 1..(m - 1) : g[i] = g[i - 1] \o seqs[i]
    <3>1. \A i \in 1..(m - 1) : f[i] = f[i - 1] \o seqs[i]
      BY <2>1 DEF Joins
    <3>2. \A i \in 1..(m - 1) : g[i] = f[i] /\ g[i - 1] = f[i - 1]
      OBVIOUS
    <3> HIDE DEF g
    <3> QED
      BY <3>1, <3>2
  <2>5. g \in [0..m -> Seq(S)]
    <3>1. \A i \in 0..m : i = m \/ i \in 0..(m - 1)
      OBVIOUS
    <3>2. \A i \in 0..(m - 1) : f[i] \in Seq(S)
      BY <2>1 DEF Joins
    <3> HIDE DEF joined
    <3> QED
      BY <2>2, <3>1, <3>2
  <2>6. \A i \in 1..m : i = m \/ i \in 1..(m - 1)
    OBVIOUS
  <2> HIDE DEF g, joined
  <2>7. Joins(g, seqs, m, S)
    BY <2>3, <2>4, <2>5, <2>6, Zenon DEF Joins
  <2> QED
    BY <2>7
<1> HIDE DEF K
<1>4. n \in K
  <2> HIDE DEF n
  <2>1. \A i \in 0..n : i \in K
    BY <1>1, <1>2, <1>3, UpTo
  <2> QED
    BY <1>1, <2>1
<1> QED
  BY <1>4 DEF K

\* Flattening leaves the concatenation of all the sequences.
LEMMA FlattenFact ==
  ASSUME NEW S, NEW seqs \in Seq(Seq(S))
  PROVE  \E f : Joins(f, seqs, Len(seqs), S) /\ T!FlattenSeq(seqs) = f[Len(seqs)]
<1> DEFINE n == Len(seqs)
           flatten == CHOOSE flatten : flatten = [i \in 1..n |-> IF i = 1 THEN seqs[i]
                                                               ELSE flatten[i - 1] \o seqs[i]]
<1>1. n \in Nat /\ \A i \in 1..n : seqs[i] \in Seq(S)
  OBVIOUS
<1>2. T!FlattenSeq(seqs) = IF n = 0 THEN seqs ELSE flatten[n]
  BY Zenon DEF T!FlattenSeq
<1>3. PICK f : Joins(f, seqs, n, S)
  BY JoinsExist
<1>4. n = 0 => T!FlattenSeq(seqs) = f[0]
  <2>1. n = 0 => seqs = <<>>
    OBVIOUS
  <2> HIDE DEF n, flatten
  <2> QED
    BY <1>2, <1>3, <2>1 DEF Joins
<1> DEFINE g == [i \in 1..n |-> f[i]]
<1> HIDE DEF n
<1>5. \A i \in 1..n : f[i] = IF i = 1 THEN seqs[i] ELSE f[i - 1] \o seqs[i]
  <2> SUFFICES ASSUME NEW i \in 1..n
               PROVE  f[i] = IF i = 1 THEN seqs[i] ELSE f[i - 1] \o seqs[i]
    OBVIOUS
  <2>1. f[i] = f[i - 1] \o seqs[i] /\ f[0] = <<>> /\ seqs[i] \in Seq(S)
    BY <1>1, <1>3 DEF Joins
  <2>2. <<>> \o seqs[i] = seqs[i]
    BY <2>1, ConcatEmptySeq
  <2>3. i = 1 => i - 1 = 0
    OBVIOUS
  <2> QED
    BY <2>1, <2>2, <2>3, Zenon
<1>6. flatten = [i \in 1..n |-> IF i = 1 THEN seqs[i] ELSE flatten[i - 1] \o seqs[i]]
  <2>1. \A i \in 1..n : i # 1 => i - 1 \in 1..n
    BY <1>1
  <2>2. g = [i \in 1..n |-> IF i = 1 THEN seqs[i] ELSE g[i - 1] \o seqs[i]]
    BY <1>5, <2>1, Zenon
  <2> HIDE DEF g
  <2> QED
    BY <2>2, Zenon
<1> HIDE DEF flatten
<1> DEFINE K == {i \in 0..n : i # 0 => flatten[i] = f[i]}
<1>7. \A i \in 0..n : i \in K
  <2>1. 0 \in K
    BY <1>1
  <2>2. ASSUME NEW i \in 1..n, i - 1 \in K PROVE i \in K
    <3>1. flatten[i] = IF i = 1 THEN seqs[i] ELSE flatten[i - 1] \o seqs[i]
      BY <1>6, Zenon
    <3>2. i # 1 => i - 1 # 0
      OBVIOUS
    <3>3. flatten[i] = f[i]
      BY <1>5, <2>2, <3>1, <3>2, Zenon
    <3>4. i \in 0..n
      BY <1>1
    <3> QED
      BY <3>3, <3>4
  <2> HIDE DEF K
  <2> QED
    BY <1>1, <2>1, <2>2, UpTo
<1>8. T!FlattenSeq(seqs) = f[n]
  <2>1. n \in 0..n
    BY <1>1
  <2>2. n # 0 => flatten[n] = f[n]
    BY <1>7, <2>1
  <2> HIDE DEF K
  <2> QED
    BY <1>2, <1>4, <2>2, Zenon
<1> QED
  BY <1>3, <1>8 DEF n

\* A measure of sequences that adds up under concatenation, like their length.
Additive(measure, S) ==
  /\ measure \in [Seq(S) -> Int]
  /\ measure[<<>>] = 0
  /\ \A a, b \in Seq(S) : measure[a \o b] = measure[a] + measure[b]

Measures(measure, seqs) == [i \in DOMAIN seqs |-> measure[seqs[i]]]

\* The concatenations of the first sequences measure the sums of their measures.
LEMMA JoinsAdd ==
  ASSUME NEW S, NEW seqs \in Seq(Seq(S)), NEW measure, Additive(measure, S),
         NEW f, Joins(f, seqs, Len(seqs), S)
  PROVE  /\ Measures(measure, seqs) \in Seq(Int) /\ Len(Measures(measure, seqs)) = Len(seqs)
         /\ \A g : Sums(g, Measures(measure, seqs), Len(seqs)) =>
              \A i \in 0..Len(seqs) : measure[f[i]] = g[i]
<1> DEFINE n == Len(seqs)
           sizes == Measures(measure, seqs)
<1>1. n \in Nat /\ DOMAIN seqs = 1..n /\ \A i \in 1..n : seqs[i] \in Seq(S)
  OBVIOUS
<1>2. sizes \in Seq(Int) /\ Len(sizes) = n /\ \A i \in 1..n : sizes[i] = measure[seqs[i]]
  <2> HIDE DEF n
  <2>1. \A i \in 1..n : measure[seqs[i]] \in Int
    BY <1>1 DEF Additive
  <2>2. sizes = [i \in 1..n |-> measure[seqs[i]]]
    BY <1>1 DEF Measures
  <2>3. sizes \in [1..n -> Int]
    BY <2>1, <2>2
  <2> HIDE DEF sizes
  <2> QED
    BY <1>1, <2>2, <2>3
<1>3. Joins(f, seqs, n, S)
  OBVIOUS
<1> HIDE DEF n, sizes
<1>4. ASSUME NEW g, Sums(g, sizes, n) PROVE \A i \in 0..n : measure[f[i]] = g[i]
  <2> DEFINE K == {i \in 0..n : measure[f[i]] = g[i]}
  <2>1. 0 \in K
    BY <1>1, <1>3, <1>4 DEF Joins, Sums, Additive
  <2>2. ASSUME NEW i \in 1..n, i - 1 \in K PROVE i \in K
    <3>1. i - 1 \in 0..n /\ i \in 0..n
      BY <1>1
    <3>2. g[i] = g[i - 1] + measure[seqs[i]]
      BY <1>2, <1>4 DEF Sums
    <3>3. f[i] = f[i - 1] \o seqs[i] /\ f[i - 1] \in Seq(S) /\ seqs[i] \in Seq(S)
      BY <1>1, <1>3, <3>1 DEF Joins
    <3>4. measure[f[i]] = measure[f[i - 1]] + measure[seqs[i]]
      BY <3>3 DEF Additive
    <3>5. measure[f[i - 1]] = g[i - 1]
      BY <2>2
    <3> QED
      BY <3>1, <3>2, <3>4, <3>5
  <2> HIDE DEF K
  <2>3. \A i \in 0..n : i \in K
    BY <1>1, <2>1, <2>2, UpTo
  <2> QED
    BY <2>3 DEF K
<1> QED
  BY <1>2, <1>4, Zenon DEF n, sizes

\* Writing sequences one behind the other adds up their measures.
LEMMA FlattenAdds ==
  ASSUME NEW S, NEW seqs \in Seq(Seq(S))
  PROVE  /\ T!FlattenSeq(seqs) \in Seq(S)
         /\ \A measure : Additive(measure, S) =>
              measure[T!FlattenSeq(seqs)] = T!Total(Measures(measure, seqs))
<1> DEFINE n == Len(seqs)
<1>1. n \in Nat /\ n \in 0..n
  OBVIOUS
<1>2. PICK f : Joins(f, seqs, n, S) /\ T!FlattenSeq(seqs) = f[n]
  BY FlattenFact
<1>3. T!FlattenSeq(seqs) \in Seq(S)
  <2> HIDE DEF n
  <2> QED
    BY <1>1, <1>2 DEF Joins
<1>4. ASSUME NEW measure, Additive(measure, S)
      PROVE  measure[T!FlattenSeq(seqs)] = T!Total(Measures(measure, seqs))
  <2> DEFINE sizes == Measures(measure, seqs)
  <2>1. /\ sizes \in Seq(Int) /\ Len(sizes) = n
        /\ \A g : Sums(g, sizes, n) => \A i \in 0..n : measure[f[i]] = g[i]
    BY <1>2, <1>4, JoinsAdd
  <2> HIDE DEF sizes
  <2>2. PICK g : Sums(g, sizes, n) /\ T!Total(sizes) = g[n]
    BY <2>1, TotalFact
  <2> HIDE DEF n
  <2>3. measure[f[n]] = g[n]
    BY <1>1, <2>1, <2>2
  <2> QED
    BY <1>2, <2>2, <2>3 DEF sizes
<1> QED
  BY <1>3, <1>4

\* Flattening a concatenation concatenates what both parts flatten to.
LEMMA FlattenConcat ==
  ASSUME NEW S, NEW a \in Seq(Seq(S)), NEW b \in Seq(Seq(S)), a \o b \in Seq(Seq(S))
  PROVE  T!FlattenSeq(a \o b) = T!FlattenSeq(a) \o T!FlattenSeq(b)
<1> DEFINE R == Seq(S)
           m == Len(a)
           n == Len(b)
           c == a \o b
<1> HIDE DEF R
<1>1. a \in Seq(R) /\ b \in Seq(R)
  BY DEF R
<1>2. /\ m \in Nat /\ n \in Nat /\ Len(c) = m + n
      /\ \A i \in 1..m : c[i] = a[i]
      /\ \A i \in 1..n : c[m + i] = b[i] /\ b[i] \in R
  <2>1. \A i \in 1..n : b[i] \in R
    BY <1>1
  <2>2. \A i \in 1..n : m + i \in 1..(m + n) /\ ~(m + i <= m) /\ (m + i) - m = i
    BY <1>1
  <2>3. /\ m \in Nat /\ n \in Nat /\ Len(c) = m + n
        /\ \A i \in 1..(m + n) : c[i] = IF i <= m THEN a[i] ELSE b[i - m]
    BY <1>1, ConcatProperties
  <2> HIDE DEF m, n, c
  <2> QED
    BY <2>1, <2>2, <2>3
<1>3. PICK fa : Joins(fa, a, m, S) /\ T!FlattenSeq(a) = fa[m]
  BY FlattenFact
<1>4. PICK fb : Joins(fb, b, n, S) /\ T!FlattenSeq(b) = fb[n]
  BY FlattenFact
<1>5. PICK f : Joins(f, c, m + n, S) /\ T!FlattenSeq(c) = f[m + n]
  BY <1>2, FlattenFact
<1> HIDE DEF m, n, c
<1> DEFINE K == {i \in 0..m : f[i] = fa[i]}
           L == {i \in 0..n : f[m + i] = fa[m] \o fb[i]}
<1>6. \A i \in 0..m : i \in K
  <2>1. 0 \in K
    BY <1>2, <1>3, <1>5 DEF Joins
  <2>2. ASSUME NEW i \in 1..m, i - 1 \in K PROVE i \in K
    <3>1. i \in 1..(m + n) /\ i \in 0..m /\ i - 1 \in 0..m
      BY <1>2
    <3>2. f[i] = f[i - 1] \o c[i] /\ fa[i] = fa[i - 1] \o a[i] /\ c[i] = a[i]
      BY <1>2, <1>3, <1>5, <3>1, Zenon DEF Joins
    <3>3. f[i - 1] = fa[i - 1]
      BY <2>2
    <3>4. f[i] = fa[i]
      BY <3>2, <3>3, Zenon
    <3> QED
      BY <3>1, <3>4
  <2> HIDE DEF K
  <2> QED
    BY <1>2, <2>1, <2>2, UpTo
<1>7. fa[m] \in Seq(S) /\ f[m] = fa[m]
  <2>1. m \in 0..m
    BY <1>2
  <2>2. f[m] = fa[m]
    BY <1>6, <2>1
  <2> QED
    BY <1>3, <2>1, <2>2 DEF Joins
<1>8. \A i \in 0..n : i \in L
  <2>1. 0 \in L
    <3>1. fb[0] = <<>> /\ m + 0 = m /\ 0 \in 0..n
      BY <1>2, <1>4 DEF Joins
    <3>2. fa[m] \o <<>> = fa[m]
      BY <1>7, ConcatEmptySeq
    <3> QED
      BY <1>7, <3>1, <3>2, Zenon
  <2>2. ASSUME NEW i \in 1..n, i - 1 \in L PROVE i \in L
    <3>1. m + i \in 1..(m + n) /\ i \in 0..n /\ i - 1 \in 0..n /\ (m + i) - 1 = m + (i - 1)
      BY <1>2
    <3>2. f[m + i] = f[(m + i) - 1] \o c[m + i] /\ fb[i] = fb[i - 1] \o b[i]
      BY <1>4, <1>5, <3>1, Zenon DEF Joins
    <3>3. f[(m + i) - 1] = fa[m] \o fb[i - 1]
      <4>1. f[m + (i - 1)] = fa[m] \o fb[i - 1]
        BY <2>2
      <4> QED
        BY <3>1, <4>1, Zenon
    <3>4. c[m + i] = b[i] /\ b[i] \in Seq(S)
      BY <1>2 DEF R
    <3>5. fb[i - 1] \in Seq(S)
      BY <1>4, <3>1 DEF Joins
    <3>6. (fa[m] \o fb[i - 1]) \o b[i] = fa[m] \o (fb[i - 1] \o b[i])
      <4> DEFINE x == fa[m]
                 y == fb[i - 1]
                 z == b[i]
      <4>1. x \in Seq(S) /\ y \in Seq(S) /\ z \in Seq(S)
        BY <1>7, <3>4, <3>5, Zenon
      <4> HIDE DEF x, y, z
      <4>2. (x \o y) \o z = x \o (y \o z)
        BY <4>1, ConcatAssociative, SMTT(30)
      <4> QED
        BY <4>2 DEF x, y, z
    <3>7. f[m + i] = fa[m] \o fb[i]
      BY <3>2, <3>3, <3>4, <3>6, Zenon
    <3> QED
      BY <3>1, <3>7
  <2> HIDE DEF L
  <2> QED
    BY <1>2, <2>1, <2>2, UpTo
<1>9. n \in L
  <2>1. n \in 0..n
    BY <1>2
  <2> HIDE DEF L
  <2> QED
    BY <1>8, <2>1
<1>10. f[m + n] = fa[m] \o fb[n]
  BY <1>9
<1> QED
  BY <1>3, <1>4, <1>5, <1>10, Zenon DEF c

(***************************************************************************)
(* The bits of a telegram.                                                 *)
(***************************************************************************)

\* What is written: a coded value and its width.
CodedFields == Int \X Nat
Widths(fields) == [i \in DOMAIN fields |-> fields[i][2]]

\* The bits that a sequence of fields takes.
WidthOf == [fields \in Seq(CodedFields) |-> T!Total(Widths(fields))]

\* The widths of fields are numbers, one for each.
LEMMA WidthsFact ==
  ASSUME NEW fields \in Seq(CodedFields)
  PROVE  /\ Widths(fields) \in Seq(Int) /\ Len(Widths(fields)) = Len(fields)
         /\ \A i \in 1..Len(fields) : Widths(fields)[i] = fields[i][2] /\ fields[i][2] \in Nat
<1>1. \A i \in 1..Len(fields) : fields[i] \in CodedFields
  OBVIOUS
<1>2. \A i \in 1..Len(fields) : fields[i][2] \in Nat
  BY <1>1 DEF CodedFields
<1>3. Widths(fields) = [i \in 1..Len(fields) |-> fields[i][2]]
  BY DEF Widths
<1> QED
  BY <1>2, <1>3

\* Fields one behind the other take the bits of both.
LEMMA WidthsAdd == Additive(WidthOf, CodedFields)
<1>1. WidthOf \in [Seq(CodedFields) -> Int]
  <2>1. ASSUME NEW fields \in Seq(CodedFields) PROVE T!Total(Widths(fields)) \in Int
    BY WidthsFact, TotalConcat
  <2> QED
    BY <2>1 DEF WidthOf
<1>2. WidthOf[<<>>] = 0
  <2>1. <<>> \in Seq(CodedFields) /\ Widths(<<>>) \in Seq(Int) /\ Len(Widths(<<>>)) = 0
    <3>1. <<>> \in Seq(CodedFields) /\ Len(<<>>) = 0
      OBVIOUS
    <3> QED
      BY <3>1, WidthsFact
  <2>2. PICK g : Sums(g, Widths(<<>>), 0) /\ T!Total(Widths(<<>>)) = g[0]
    BY <2>1, TotalFact
  <2> QED
    BY <2>1, <2>2 DEF Sums, WidthOf
<1>3. ASSUME NEW a \in Seq(CodedFields), NEW b \in Seq(CodedFields)
      PROVE  WidthOf[a \o b] = WidthOf[a] + WidthOf[b]
  <2>1. a \o b \in Seq(CodedFields) /\ Len(a \o b) = Len(a) + Len(b)
        /\ \A i \in 1..(Len(a) + Len(b)) :
             (a \o b)[i] = IF i <= Len(a) THEN a[i] ELSE b[i - Len(a)]
    OBVIOUS
  <2>2. /\ Widths(a) \in Seq(Int) /\ Len(Widths(a)) = Len(a)
        /\ Widths(b) \in Seq(Int) /\ Len(Widths(b)) = Len(b)
        /\ \A i \in 1..Len(a) : Widths(a)[i] = a[i][2]
        /\ \A i \in 1..Len(b) : Widths(b)[i] = b[i][2]
    BY WidthsFact
  <2>3. Widths(a \o b) = Widths(a) \o Widths(b)
    <3> DEFINE left == Widths(a \o b)
               right == Widths(a) \o Widths(b)
               n == Len(a) + Len(b)
    <3>1. /\ left \in Seq(Int) /\ Len(left) = n
          /\ \A i \in 1..n : left[i] = (a \o b)[i][2]
      BY <2>1, WidthsFact
    <3>2. /\ right \in Seq(Int) /\ Len(right) = n
          /\ \A i \in 1..n : right[i] = IF i <= Len(a) THEN Widths(a)[i]
                                         ELSE Widths(b)[i - Len(a)]
      <4> DEFINE u == Widths(a)
                 v == Widths(b)
      <4>1. u \in Seq(Int) /\ v \in Seq(Int) /\ Len(u) = Len(a) /\ Len(v) = Len(b)
        BY <2>2
      <4> HIDE DEF u, v
      <4>2. /\ u \o v \in Seq(Int) /\ Len(u \o v) = n
            /\ \A i \in 1..n : (u \o v)[i] = IF i <= Len(a) THEN u[i] ELSE v[i - Len(a)]
        <5>1. /\ u \o v \in Seq(Int) /\ Len(u \o v) = Len(u) + Len(v)
              /\ \A i \in 1..(Len(u) + Len(v)) :
                   (u \o v)[i] = IF i <= Len(u) THEN u[i] ELSE v[i - Len(u)]
          BY <4>1, ConcatProperties, Zenon
        <5> QED
          BY <4>1, <5>1, Zenon
      <4> QED
        BY <4>2 DEF u, v
    <3>3. ASSUME NEW i \in 1..n PROVE left[i] = right[i]
      <4>0. left[i] = (a \o b)[i][2]
        BY <3>1
      <4>1. CASE i <= Len(a)
        <5>1. i \in 1..Len(a)
          BY <4>1
        <5>2. right[i] = Widths(a)[i] /\ (a \o b)[i] = a[i]
          BY <2>1, <3>2, <4>1
        <5> QED
          BY <2>2, <4>0, <5>1, <5>2, Zenon
      <4>2. CASE ~(i <= Len(a))
        <5>1. i - Len(a) \in 1..Len(b)
          BY <4>2
        <5>2. right[i] = Widths(b)[i - Len(a)] /\ (a \o b)[i] = b[i - Len(a)]
          BY <2>1, <3>2, <4>2
        <5> QED
          BY <2>2, <4>0, <5>1, <5>2, Zenon
      <4> QED
        BY <4>1, <4>2
    <3> HIDE DEF left, right
    <3>4. left = right
      BY <3>1, <3>2, <3>3
    <3> QED
      BY <3>4 DEF left, right
  <2>4. T!Total(Widths(a) \o Widths(b)) = T!Total(Widths(a)) + T!Total(Widths(b))
    BY <2>2, TotalConcat
  <2> QED
    BY <2>1, <2>3, <2>4 DEF WidthOf
<1> QED
  BY <1>1, <1>2, <1>3 DEF Additive

\* One field takes its width.
LEMMA WidthOne ==
  ASSUME NEW v \in Int, NEW w \in Nat
  PROVE  <<<<v, w>>>> \in Seq(CodedFields) /\ WidthOf[<<<<v, w>>>>] = w
<1>1. <<v, w>> \in CodedFields
  BY DEF CodedFields
<1>2. <<<<v, w>>>> \in Seq(CodedFields)
  BY <1>1
<1>3. Widths(<<<<v, w>>>>) = <<w>>
  BY DEF Widths
<1>4. T!Total(<<w>>) = w
  BY TotalOne
<1> QED
  BY <1>2, <1>3, <1>4 DEF WidthOf

\* The bits that fields are written as.
Bits == {T!BitsOf(field)[i] : field \in CodedFields, i \in Nat}
BitsOfEach(fields) == [i \in DOMAIN fields |-> T!BitsOf(fields[i])]

\* A field is written most significant bit first.
LEMMA FieldWritten ==
  ASSUME NEW field \in CodedFields
  PROVE  /\ T!BitsOf(field) \in Seq(Bits) /\ Len(T!BitsOf(field)) = field[2]
         /\ \A i \in 1..field[2] :
              T!BitsOf(field)[i] = (field[1] \div 2^(field[2] - i)) % 2
<1>1. field[2] \in Nat
  BY DEF CodedFields
<1>2. DOMAIN T!BitsOf(field) = 1..field[2]
  BY DEF T!BitsOf
<1>3. \A i \in 1..field[2] : T!BitsOf(field)[i] \in Bits
  BY DEF Bits
<1>4. T!BitsOf(field) = [i \in 1..field[2] |-> T!BitsOf(field)[i]]
  BY DEF T!BitsOf
<1>5. T!BitsOf(field) \in [1..field[2] -> Bits]
  BY <1>3, <1>4
<1>6. T!BitsOf(field) \in Seq(Bits) /\ Len(T!BitsOf(field)) = field[2]
  BY <1>1, <1>2, <1>5
<1>7. \A i \in 1..field[2] : T!BitsOf(field)[i] = (field[1] \div 2^(field[2] - i)) % 2
  BY Zenon DEF T!BitsOf
<1> QED
  BY <1>6, <1>7

\* Fields are written one after the other.
LEMMA EachWritten ==
  ASSUME NEW fields \in Seq(CodedFields)
  PROVE  /\ BitsOfEach(fields) \in Seq(Seq(Bits)) /\ Len(BitsOfEach(fields)) = Len(fields)
         /\ \A i \in 1..Len(fields) : BitsOfEach(fields)[i] = T!BitsOf(fields[i])
         /\ T!Written(fields) = T!FlattenSeq(BitsOfEach(fields))
<1>1. \A i \in 1..Len(fields) : fields[i] \in CodedFields
  OBVIOUS
<1>2. \A i \in 1..Len(fields) : T!BitsOf(fields[i]) \in Seq(Bits)
  BY <1>1, FieldWritten
<1>3. DOMAIN fields = 1..Len(fields) /\ Len(fields) \in Nat
  OBVIOUS
<1> DEFINE R == Seq(Bits)
<1> HIDE DEF R
<1>4. BitsOfEach(fields) = [i \in 1..Len(fields) |-> T!BitsOf(fields[i])]
  BY <1>3 DEF BitsOfEach
<1>5. BitsOfEach(fields) \in Seq(R) /\ Len(BitsOfEach(fields)) = Len(fields)
  BY <1>2, <1>3, <1>4 DEF R
<1>6. T!Written(fields) = T!FlattenSeq(BitsOfEach(fields))
  BY Zenon DEF T!Written, BitsOfEach
<1>7. \A i \in 1..Len(fields) : BitsOfEach(fields)[i] = T!BitsOf(fields[i])
  BY <1>4
<1> QED
  BY <1>5, <1>6, <1>7 DEF R

\* The writer leaves as many bits as the fields are wide.
LEMMA WrittenLength ==
  ASSUME NEW fields \in Seq(CodedFields)
  PROVE  T!Written(fields) \in Seq(Bits) /\ Len(T!Written(fields)) = WidthOf[fields]
<1> DEFINE seqs == BitsOfEach(fields)
           LenOf == [s \in Seq(Bits) |-> Len(s)]
<1>1. Additive(LenOf, Bits)
  BY DEF Additive
<1>2. /\ seqs \in Seq(Seq(Bits)) /\ T!Written(fields) = T!FlattenSeq(seqs)
      /\ Len(seqs) = Len(fields) /\ \A i \in 1..Len(fields) : seqs[i] = T!BitsOf(fields[i])
  BY EachWritten
<1>3. DOMAIN seqs = 1..Len(fields) /\ DOMAIN fields = 1..Len(fields)
  BY <1>2
<1> HIDE DEF seqs
<1>4. \A i \in 1..Len(fields) : LenOf[seqs[i]] = fields[i][2]
  <2>1. \A i \in 1..Len(fields) : fields[i] \in CodedFields
    OBVIOUS
  <2> QED
    BY <1>2, <2>1, FieldWritten
<1> HIDE DEF LenOf
<1>5. /\ T!FlattenSeq(seqs) \in Seq(Bits)
      /\ LenOf[T!FlattenSeq(seqs)] = T!Total(Measures(LenOf, seqs))
  BY <1>1, <1>2, FlattenAdds
<1>6. Measures(LenOf, seqs) = Widths(fields)
  BY <1>3, <1>4 DEF Measures, Widths
<1>7. LenOf[T!FlattenSeq(seqs)] = Len(T!FlattenSeq(seqs))
  BY <1>5 DEF LenOf
<1> QED
  BY <1>2, <1>5, <1>6, <1>7 DEF WidthOf

\* Fields one behind the other are written one behind the other.
LEMMA WrittenConcat ==
  ASSUME NEW a \in Seq(CodedFields), NEW b \in Seq(CodedFields)
  PROVE  T!Written(a \o b) = T!Written(a) \o T!Written(b)
<1> DEFINE m == Len(a)
           n == Len(b)
           R == Seq(Bits)
<1>1. /\ a \o b \in Seq(CodedFields) /\ Len(a \o b) = m + n /\ m \in Nat /\ n \in Nat
      /\ \A i \in 1..(m + n) : (a \o b)[i] = IF i <= m THEN a[i] ELSE b[i - m]
  BY ConcatProperties
<1> HIDE DEF m, n, R
<1>2. /\ BitsOfEach(a) \in Seq(R) /\ Len(BitsOfEach(a)) = m
      /\ \A i \in 1..m : BitsOfEach(a)[i] = T!BitsOf(a[i])
  BY EachWritten DEF m, R
<1>3. /\ BitsOfEach(b) \in Seq(R) /\ Len(BitsOfEach(b)) = n
      /\ \A i \in 1..n : BitsOfEach(b)[i] = T!BitsOf(b[i])
  BY EachWritten DEF n, R
<1>4. /\ BitsOfEach(a \o b) \in Seq(R) /\ Len(BitsOfEach(a \o b)) = m + n
      /\ \A i \in 1..(m + n) : BitsOfEach(a \o b)[i] = T!BitsOf((a \o b)[i])
  BY <1>1, EachWritten DEF R
<1> DEFINE x == BitsOfEach(a)
           y == BitsOfEach(b)
           z == BitsOfEach(a \o b)
<1> HIDE DEF x, y, z
<1>5. z = x \o y
  <2>1. x \o y \in Seq(R) /\ Len(x \o y) = m + n
        /\ \A i \in 1..(m + n) : (x \o y)[i] = IF i <= m THEN x[i] ELSE y[i - m]
    BY <1>2, <1>3, ConcatProperties DEF x, y
  <2>2. \A i \in 1..(m + n) : IF i <= m THEN i \in 1..m ELSE i - m \in 1..n
    BY <1>1
  <2>3. \A i \in 1..(m + n) : z[i] = (x \o y)[i]
    <3> SUFFICES ASSUME NEW i \in 1..(m + n) PROVE z[i] = (x \o y)[i]
      OBVIOUS
    <3>1. z[i] = T!BitsOf((a \o b)[i])
      BY <1>4 DEF z
    <3>2. CASE i <= m
      <4>1. (a \o b)[i] = a[i] /\ (x \o y)[i] = x[i] /\ x[i] = T!BitsOf(a[i])
        BY <1>1, <1>2, <2>1, <2>2, <3>2 DEF x
      <4> QED
        BY <3>1, <4>1
    <3>3. CASE ~(i <= m)
      <4>1. /\ (a \o b)[i] = b[i - m] /\ (x \o y)[i] = y[i - m]
            /\ y[i - m] = T!BitsOf(b[i - m])
        BY <1>1, <1>3, <2>1, <2>2, <3>3 DEF y
      <4> QED
        BY <3>1, <4>1
    <3> QED
      BY <3>2, <3>3
  <2>4. z \in Seq(R) /\ Len(z) = m + n
    BY <1>4 DEF z
  <2> DEFINE u == x \o y
  <2> HIDE DEF u
  <2>5. u \in Seq(R) /\ Len(u) = m + n /\ \A i \in 1..(m + n) : z[i] = u[i]
    BY <2>1, <2>3 DEF u
  <2>6. z = u
    BY <2>4, <2>5, SeqEqual
  <2> QED
    BY <2>6 DEF u
<1>6. T!FlattenSeq(x \o y) = T!FlattenSeq(x) \o T!FlattenSeq(y)
  BY <1>2, <1>3, <1>4, <1>5, FlattenConcat DEF x, y, z, R
<1> QED
  BY <1>1, <1>5, <1>6, EachWritten DEF x, y, z

\* One field is written as its bits.
LEMMA WrittenOne ==
  ASSUME NEW field \in CodedFields
  PROVE  <<field>> \in Seq(CodedFields) /\ T!Written(<<field>>) = T!BitsOf(field)
<1>1. <<field>> \in Seq(CodedFields) /\ Len(<<field>>) = 1 /\ <<field>>[1] = field
  OBVIOUS
<1> DEFINE one == <<field>>
           seqs == BitsOfEach(one)
<1> HIDE DEF one
<1>2. /\ seqs \in Seq(Seq(Bits)) /\ Len(seqs) = 1 /\ seqs[1] = T!BitsOf(field)
      /\ T!Written(one) = T!FlattenSeq(seqs)
  <2>1. one \in Seq(CodedFields) /\ Len(one) = 1 /\ one[1] = field
    BY <1>1 DEF one
  <2> QED
    BY <2>1, EachWritten
<1> HIDE DEF seqs
<1>3. PICK f : Joins(f, seqs, 1, Bits) /\ T!FlattenSeq(seqs) = f[1]
  BY <1>2, FlattenFact
<1>4. f[1] = f[0] \o seqs[1] /\ f[0] = <<>>
  <2>1. 1 \in 1..1 /\ 1 - 1 = 0
    OBVIOUS
  <2> QED
    BY <1>3, <2>1 DEF Joins
<1>5. T!BitsOf(field) \in Seq(Bits)
  BY FieldWritten
<1>6. <<>> \o T!BitsOf(field) = T!BitsOf(field)
  BY <1>5, ConcatEmptySeq
<1> QED
  BY <1>1, <1>2, <1>3, <1>4, <1>6 DEF one

\* Concatenated fields, and the bits they take.
LEMMA WidthConcat ==
  ASSUME NEW a \in Seq(CodedFields), NEW b \in Seq(CodedFields)
  PROVE  a \o b \in Seq(CodedFields) /\ WidthOf[a \o b] = WidthOf[a] + WidthOf[b]
         /\ WidthOf[a] \in Int
<1>1. a \o b \in Seq(CodedFields)
  BY ConcatProperties
<1> QED
  BY <1>1, WidthsAdd DEF Additive

\* What an accepted item holds.
Item(e) ==
  e.m_leveltr \in Int /\ e.nid_stm \in T!Optional(Int) /\ e.l_ackleveltr \in Int /\ T!NidStmAccepted(e)

\* An item takes 18 bits, and eight more with NID_STM.
LEMMA ItemWidth ==
  ASSUME NEW e, Item(e)
  PROVE  T!ItemFields(e) \in Seq(CodedFields) /\ WidthOf[T!ItemFields(e)] = T!ItemBits(e)
<1> DEFINE v == CHOOSE v \in e.nid_stm : TRUE
           level == <<<<e.m_leveltr, 3>>>>
           stm == IF e.m_leveltr = 1 THEN <<<<v, 8>>>> ELSE <<>>
           ack == <<<<e.l_ackleveltr, 15>>>>
<1>1. level \in Seq(CodedFields) /\ WidthOf[level] = 3
  BY WidthOne DEF Item
<1>2. ack \in Seq(CodedFields) /\ WidthOf[ack] = 15
  BY WidthOne DEF Item
<1>3. stm \in Seq(CodedFields) /\ WidthOf[stm] = IF e.m_leveltr = 1 THEN 8 ELSE 0
  <2>1. CASE e.m_leveltr = 1
    <3>1. e.nid_stm # {}
      BY <2>1 DEF Item, T!NidStmAccepted
    <3>2. v \in e.nid_stm
      BY <3>1
    <3>3. v \in Int
      BY <3>2 DEF Item, T!Optional
    <3> HIDE DEF v
    <3> QED
      BY <2>1, <3>3, WidthOne
  <2>2. CASE e.m_leveltr # 1
    <3>1. <<>> \in Seq(CodedFields) /\ WidthOf[<<>>] = 0
      BY WidthsAdd DEF Additive
    <3> QED
      BY <2>2, <3>1
  <2> QED
    BY <2>1, <2>2
<1>4. T!ItemFields(e) = level \o stm \o ack
  BY DEF T!ItemFields
<1> HIDE DEF v, level, stm, ack
<1>5. level \o stm \in Seq(CodedFields) /\ WidthOf[level \o stm] = WidthOf[level] + WidthOf[stm]
  BY <1>1, <1>3, WidthConcat
<1>6. /\ level \o stm \o ack \in Seq(CodedFields)
      /\ WidthOf[level \o stm \o ack] = WidthOf[level \o stm] + WidthOf[ack]
  BY <1>2, <1>5, WidthConcat
<1> QED
  BY <1>1, <1>2, <1>3, <1>4, <1>5, <1>6 DEF T!ItemBits

\* Fields of several parts take the sum of their bits.
LEMMA PartsWidth ==
  ASSUME NEW parts \in Seq(Seq(CodedFields))
  PROVE  /\ T!FlattenSeq(parts) \in Seq(CodedFields)
         /\ WidthOf[T!FlattenSeq(parts)] = T!Total([i \in DOMAIN parts |-> WidthOf[parts[i]]])
BY WidthsAdd, FlattenAdds DEF Measures

\* What a packet is written as: five fields, the main item, N_ITER and the items.
PacketStart(p) ==
  <<<<p.packet, 8>>, <<p.q_dir, 2>>, <<p.l_packet, 13>>, <<p.q_scale, 2>>, <<p.d_leveltr, 15>>>>
ItemParts(p) == [i \in DOMAIN p.transitions |-> T!ItemFields(p.transitions[i])]
ItemSizes(p) == [i \in DOMAIN p.transitions |-> T!ItemBits(p.transitions[i])]

\* What the fields of a packet hold.
LEMMA PacketTypes ==
  ASSUME NEW p \in T!PacketShape
  PROVE  /\ p.packet \in Int /\ p.q_dir \in Int /\ p.l_packet \in Int /\ p.q_scale \in Int
         /\ p.d_leveltr \in Int /\ p.n_iter \in Int /\ p.transitions \in Seq(T!ItemShape)
         /\ p.m_leveltr \in Int /\ p.nid_stm \in T!Optional(Int) /\ p.l_ackleveltr \in Int
BY DEF T!PacketShape

\* The first five fields, and where each of them begins.
LEMMA StartWidth ==
  ASSUME NEW p \in T!PacketShape
  PROVE  /\ PacketStart(p) \in Seq(CodedFields) /\ Len(PacketStart(p)) = 5
         /\ \E g : /\ Sums(g, Widths(PacketStart(p)), 5)
                   /\ g[0] = 0 /\ g[1] = 8 /\ g[2] = 10 /\ g[3] = 23 /\ g[4] = 25
                   /\ WidthOf[PacketStart(p)] = 40
<1> DEFINE start == PacketStart(p)
<1>1. start \in Seq(CodedFields) /\ Len(start) = 5
  <2> DEFINE C == CodedFields
             a == <<p.packet, 8>>
             b == <<p.q_dir, 2>>
             c == <<p.l_packet, 13>>
             d == <<p.q_scale, 2>>
             e == <<p.d_leveltr, 15>>
  <2>1. a \in C /\ b \in C /\ c \in C /\ d \in C /\ e \in C
    BY PacketTypes DEF CodedFields
  <2>2. start = <<a, b, c, d, e>>
    BY DEF PacketStart
  <2> HIDE DEF C, a, b, c, d, e, start
  <2>3. start \in Seq(C) /\ Len(start) = 5
    BY <2>1, <2>2
  <2> QED
    BY <2>3 DEF C
<1>2. /\ start[1][2] = 8 /\ start[2][2] = 2 /\ start[3][2] = 13 /\ start[4][2] = 2
      /\ start[5][2] = 15
  BY DEF PacketStart
<1> HIDE DEF start
<1>3. /\ Widths(start) \in Seq(Int) /\ Len(Widths(start)) = 5
      /\ \A i \in 1..5 : Widths(start)[i] = start[i][2]
  BY <1>1, WidthsFact
<1>4. PICK g : Sums(g, Widths(start), 5) /\ T!Total(Widths(start)) = g[5]
  BY <1>3, TotalFact
<1>5. /\ Widths(start)[1] = 8 /\ Widths(start)[2] = 2 /\ Widths(start)[3] = 13
      /\ Widths(start)[4] = 2 /\ Widths(start)[5] = 15
  BY <1>2, <1>3
<1>6. g[0] = 0 /\ g[1] = 8 /\ g[2] = 10 /\ g[3] = 23 /\ g[4] = 25 /\ g[5] = 40
  BY <1>4, <1>5 DEF Sums
<1>7. WidthOf[start] = 40
  BY <1>1, <1>4, <1>6 DEF WidthOf
<1> QED
  BY <1>1, <1>4, <1>6, <1>7 DEF start

\* An accepted packet and its items.
LEMMA PacketItems ==
  ASSUME NEW p \in T!PacketShape, T!PacketAccepted(p)
  PROVE  /\ Item(p) /\ T!ItemAccepted(p)
         /\ \A i \in DOMAIN p.transitions :
              Item(p.transitions[i]) /\ T!ItemAccepted(p.transitions[i])
<1>1. \A i \in DOMAIN p.transitions : p.transitions[i] \in T!ItemShape
  BY PacketTypes
<1>2. \A i \in DOMAIN p.transitions : T!ItemAccepted(p.transitions[i])
  BY DEF T!PacketAccepted
<1>3. \A i \in DOMAIN p.transitions : Item(p.transitions[i])
  BY <1>1, <1>2 DEF Item, T!ItemShape, T!ItemAccepted
<1> QED
  BY <1>2, <1>3, PacketTypes DEF Item, T!PacketAccepted, T!ItemAccepted

\* The parts of a packet, and the bits they take.
LEMMA PacketParts ==
  ASSUME NEW p \in T!PacketShape, T!PacketAccepted(p)
  PROVE  /\ T!ItemFields(p) \in Seq(CodedFields) /\ WidthOf[T!ItemFields(p)] = T!ItemBits(p)
         /\ T!ItemBits(p) \in Int
         /\ <<<<p.n_iter, 5>>>> \in Seq(CodedFields) /\ WidthOf[<<<<p.n_iter, 5>>>>] = 5
         /\ ItemParts(p) \in Seq(Seq(CodedFields)) /\ Len(ItemParts(p)) = Len(p.transitions)
         /\ Measures(WidthOf, ItemParts(p)) = ItemSizes(p)
         /\ T!FlattenSeq(ItemParts(p)) \in Seq(CodedFields)
         /\ WidthOf[T!FlattenSeq(ItemParts(p))] = T!Total(ItemSizes(p))
<1> DEFINE items == p.transitions
           parts == ItemParts(p)
<1>1. T!ItemFields(p) \in Seq(CodedFields) /\ WidthOf[T!ItemFields(p)] = T!ItemBits(p)
  BY PacketItems, ItemWidth
<1>2. T!ItemBits(p) \in Int
  BY DEF T!ItemBits
<1>3. <<<<p.n_iter, 5>>>> \in Seq(CodedFields) /\ WidthOf[<<<<p.n_iter, 5>>>>] = 5
  BY PacketTypes, WidthOne
<1>4. \A i \in DOMAIN items : /\ T!ItemFields(items[i]) \in Seq(CodedFields)
                              /\ WidthOf[T!ItemFields(items[i])] = T!ItemBits(items[i])
  BY PacketItems, ItemWidth
<1>5. DOMAIN items = 1..Len(items) /\ Len(items) \in Nat
  BY PacketTypes
<1> DEFINE R == Seq(CodedFields)
<1> HIDE DEF R, items
<1>6. parts \in Seq(R) /\ Len(parts) = Len(items)
  BY <1>4, <1>5 DEF ItemParts, R, items
<1>7. DOMAIN parts = DOMAIN items /\ \A i \in DOMAIN items : parts[i] = T!ItemFields(items[i])
  BY DEF ItemParts, items
<1> HIDE DEF parts
<1>8. Measures(WidthOf, parts) = ItemSizes(p)
  BY <1>4, <1>7 DEF Measures, ItemSizes, items
<1>9. /\ T!FlattenSeq(parts) \in Seq(CodedFields)
      /\ WidthOf[T!FlattenSeq(parts)] = T!Total(ItemSizes(p))
  BY <1>6, <1>8, PartsWidth DEF R, Measures
<1> QED
  BY <1>1, <1>2, <1>3, <1>6, <1>8, <1>9 DEF parts, R, items

\* A packet takes 23 bits up to L_PACKET and what the table says behind it.
LEMMA PacketWidth ==
  ASSUME NEW p \in T!PacketShape, T!PacketAccepted(p)
  PROVE  /\ T!PacketFields(p) \in Seq(CodedFields)
         /\ WidthOf[T!PacketFields(p)] = 23 + T!BitsBehindLPacket(p)
         /\ T!BitsBehindLPacket(p) \in Int
<1> DEFINE start == PacketStart(p)
           main == T!ItemFields(p)
           count == <<<<p.n_iter, 5>>>>
           items == T!FlattenSeq(ItemParts(p))
           sizes == ItemSizes(p)
<1>1. start \in Seq(CodedFields) /\ WidthOf[start] = 40
  BY StartWidth
<1>2. main \in Seq(CodedFields) /\ WidthOf[main] = T!ItemBits(p) /\ T!ItemBits(p) \in Int
  BY PacketParts
<1>3. count \in Seq(CodedFields) /\ WidthOf[count] = 5
  BY PacketParts
<1>4. items \in Seq(CodedFields) /\ WidthOf[items] = T!Total(sizes)
  BY PacketParts
<1>5. T!PacketFields(p) = start \o main \o count \o items
  BY DEF T!PacketFields, PacketStart, ItemParts
<1>6. T!BitsBehindLPacket(p) = 22 + T!ItemBits(p) + T!Total(sizes)
  BY DEF T!BitsBehindLPacket, ItemSizes
<1> HIDE DEF start, main, count, items, sizes
<1>7. T!Total(sizes) \in Int
  BY <1>4, WidthConcat
<1>8. start \o main \in Seq(CodedFields) /\ WidthOf[start \o main] = 40 + T!ItemBits(p)
  BY <1>1, <1>2, WidthConcat
<1>9. /\ start \o main \o count \in Seq(CodedFields)
      /\ WidthOf[start \o main \o count] = WidthOf[start \o main] + 5
  BY <1>3, <1>8, WidthConcat
<1>10. /\ start \o main \o count \o items \in Seq(CodedFields)
      /\ WidthOf[start \o main \o count \o items]
           = WidthOf[start \o main \o count] + T!Total(sizes)
  BY <1>4, <1>9, WidthConcat
<1> QED
  BY <1>2, <1>5, <1>6, <1>7, <1>8, <1>9, <1>10

\* The header takes 50 bits, and where each of its fields begins.
LEMMA HeaderWidth ==
  ASSUME NEW t \in T!TelegramShape
  PROVE  /\ T!HeaderFields(t) \in Seq(CodedFields) /\ Len(T!HeaderFields(t)) = 10
         /\ \E g : /\ Sums(g, Widths(T!HeaderFields(t)), 10)
                   /\ g[0] = 0 /\ g[1] = 1 /\ g[2] = 8 /\ g[3] = 9 /\ g[4] = 12
                   /\ g[5] = 15 /\ g[6] = 17 /\ g[7] = 25 /\ g[8] = 35 /\ g[9] = 49
                   /\ WidthOf[T!HeaderFields(t)] = 50
<1> DEFINE w == T!HeaderWidths
           fields == T!HeaderFields(t)
<1>1. /\ Len(w) = 10 /\ DOMAIN w = 1..10
      /\ w[1] = 1 /\ w[2] = 7 /\ w[3] = 1 /\ w[4] = 3 /\ w[5] = 3
      /\ w[6] = 2 /\ w[7] = 8 /\ w[8] = 10 /\ w[9] = 14 /\ w[10] = 1
  BY DEF T!HeaderWidths
<1>2. \A i \in 1..10 : w[i] \in Nat
  BY <1>1
<1>3. \A i \in 1..10 : t.header[i] \in Int
  BY <1>1 DEF T!TelegramShape
<1>4. fields = [i \in 1..10 |-> <<t.header[i], w[i]>>]
  BY <1>1 DEF T!HeaderFields
<1> HIDE DEF w, fields
<1>5. fields \in Seq(CodedFields) /\ Len(fields) = 10 /\ \A i \in 1..10 : fields[i][2] = w[i]
  BY <1>2, <1>3, <1>4 DEF CodedFields
<1>6. /\ Widths(fields) \in Seq(Int) /\ Len(Widths(fields)) = 10
      /\ \A i \in 1..10 : Widths(fields)[i] = w[i]
  BY <1>5, WidthsFact
<1>7. PICK g : Sums(g, Widths(fields), 10) /\ T!Total(Widths(fields)) = g[10]
  BY <1>6, TotalFact
<1>8. g[0] = 0 /\ \A i \in 1..10 : g[i] = g[i - 1] + w[i]
  BY <1>6, <1>7 DEF Sums
<1>9. g[1] = 1 /\ g[2] = 8 /\ g[3] = 9 /\ g[4] = 12 /\ g[5] = 15
  BY <1>1, <1>8
<1>10. g[6] = 17 /\ g[7] = 25 /\ g[8] = 35 /\ g[9] = 49 /\ g[10] = 50
  BY <1>1, <1>8, <1>9
<1>11. WidthOf[fields] = 50
  BY <1>5, <1>7, <1>10 DEF WidthOf
<1> QED
  BY <1>5, <1>7, <1>8, <1>9, <1>10, <1>11 DEF fields

\* What a telegram is written as: the header, the packets and the information end.
TelegramParts(t) == [i \in DOMAIN t.packets |-> T!PacketFields(t.packets[i])]
PacketSizes(t) == [i \in DOMAIN t.packets |-> 23 + T!BitsBehindLPacket(t.packets[i])]
End == <<<<255, 8>>>>

\* The packets of a telegram, and the bits they take.
LEMMA PacketsWidth ==
  ASSUME NEW t \in T!TelegramShape, T!Accepted(t)
  PROVE  /\ \A i \in 1..Len(t.packets) :
              t.packets[i] \in T!PacketShape /\ T!PacketAccepted(t.packets[i])
         /\ DOMAIN t.packets = 1..Len(t.packets) /\ Len(t.packets) \in Nat
         /\ TelegramParts(t) \in Seq(Seq(CodedFields)) /\ Len(TelegramParts(t)) = Len(t.packets)
         /\ Measures(WidthOf, TelegramParts(t)) = PacketSizes(t)
         /\ T!FlattenSeq(TelegramParts(t)) \in Seq(CodedFields)
         /\ WidthOf[T!FlattenSeq(TelegramParts(t))] = T!BitsOfPackets(t)
         /\ T!BitsOfPackets(t) \in Int
<1> DEFINE packets == t.packets
           parts == TelegramParts(t)
           n == Len(packets)
<1>1. packets \in Seq(T!PacketShape)
  BY DEF T!TelegramShape
<1>2. DOMAIN packets = 1..n /\ n \in Nat /\ \A i \in 1..n : packets[i] \in T!PacketShape
  BY <1>1
<1>3. \A i \in 1..n : T!PacketAccepted(packets[i])
  BY <1>2 DEF T!Accepted
<1>4. \A i \in 1..n :
        /\ T!PacketFields(packets[i]) \in Seq(CodedFields)
        /\ WidthOf[T!PacketFields(packets[i])] = 23 + T!BitsBehindLPacket(packets[i])
  BY <1>2, <1>3, PacketWidth
<1> DEFINE R == Seq(CodedFields)
<1> HIDE DEF R, packets, n
<1>5. parts \in Seq(R) /\ Len(parts) = n
  BY <1>2, <1>4 DEF TelegramParts, R, packets
<1>6. DOMAIN parts = 1..n /\ \A i \in 1..n : parts[i] = T!PacketFields(packets[i])
  BY <1>2 DEF TelegramParts, packets
<1> HIDE DEF parts
<1>7. Measures(WidthOf, parts) = PacketSizes(t)
  BY <1>2, <1>4, <1>6 DEF Measures, PacketSizes, packets
<1>8. T!FlattenSeq(parts) \in Seq(CodedFields)
      /\ WidthOf[T!FlattenSeq(parts)] = T!Total(PacketSizes(t))
  BY <1>5, <1>7, PartsWidth DEF R, Measures
<1>9. T!BitsOfPackets(t) = T!Total(PacketSizes(t))
  BY DEF T!BitsOfPackets, PacketSizes
<1>10. T!Total(PacketSizes(t)) \in Int
  BY <1>8, WidthConcat
<1> QED
  BY <1>2, <1>3, <1>5, <1>7, <1>8, <1>9, <1>10 DEF parts, R, packets, n

\* A telegram takes 50 bits, its packets and the information end.
LEMMA TelegramWidth ==
  ASSUME NEW t \in T!TelegramShape, T!Accepted(t)
  PROVE  /\ T!Fields(t) \in Seq(CodedFields)
         /\ T!BitsOfPackets(t) \in Int
         /\ WidthOf[T!Fields(t)] = 50 + T!BitsOfPackets(t) + 8
<1> DEFINE header == T!HeaderFields(t)
           packets == T!FlattenSeq(TelegramParts(t))
<1>1. /\ packets \in Seq(CodedFields) /\ WidthOf[packets] = T!BitsOfPackets(t)
      /\ T!BitsOfPackets(t) \in Int
  BY PacketsWidth
<1>2. header \in Seq(CodedFields) /\ WidthOf[header] = 50
  BY HeaderWidth
<1>3. End \in Seq(CodedFields) /\ WidthOf[End] = 8
  BY WidthOne DEF End
<1>4. T!Fields(t) = header \o packets \o End
  BY DEF T!Fields, T!EotValue, T!EotBits, TelegramParts, End
<1> HIDE DEF header, packets
<1>5. /\ header \o packets \in Seq(CodedFields)
      /\ WidthOf[header \o packets] = 50 + T!BitsOfPackets(t)
  BY <1>1, <1>2, WidthConcat
<1>6. /\ header \o packets \o End \in Seq(CodedFields)
      /\ WidthOf[header \o packets \o End] = WidthOf[header \o packets] + 8
  BY <1>3, <1>5, WidthConcat
<1> QED
  BY <1>1, <1>4, <1>5, <1>6

\* A telegram is encoded exactly if it is valid and its packets fit the user packet
\* area, in one frame of 104 bytes with zeros from bit 831 on.
LEMMA FrameFact ==
  ASSUME NEW t \in T!TelegramShape
  PROVE  /\ T!Accepted(t) =>
              (T!EncodeTelegram(t) # {} <=> T!BitsOfPackets(t) <= T!UserPacketAreaBits)
         /\ \A frame \in T!EncodeTelegram(t) :
              /\ Len(frame) = 8 * T!FrameBytes
              /\ \A i \in T!FrameBits + 1 .. 8 * T!FrameBytes : frame[i] = 0
<1> DEFINE bits == T!Written(T!Fields(t))
<1>1. T!EncodeTelegram(t) = IF T!Accepted(t) /\ T!Fits(bits) THEN {T!Padded(bits)} ELSE {}
  BY Zenon DEF T!EncodeTelegram
<1>2. CASE ~T!Accepted(t)
  BY <1>1, <1>2, Zenon
<1>3. CASE T!Accepted(t)
  <2>1. /\ T!Fields(t) \in Seq(CodedFields) /\ T!BitsOfPackets(t) \in Int
        /\ WidthOf[T!Fields(t)] = 50 + T!BitsOfPackets(t) + 8
    BY <1>3, TelegramWidth
  <2>2. bits \in Seq(Bits) /\ Len(bits) = WidthOf[T!Fields(t)]
    BY <2>1, WrittenLength
  <2> HIDE DEF bits
  <2>3. T!Fits(bits) <=> T!BitsOfPackets(t) <= T!UserPacketAreaBits
    BY <2>1, <2>2 DEF T!Fits, T!FrameBits, T!UserPacketAreaBits
  <2>4. ASSUME T!Fits(bits), NEW frame, frame = T!Padded(bits)
        PROVE  /\ Len(frame) = 8 * T!FrameBytes
               /\ \A i \in T!FrameBits + 1 .. 8 * T!FrameBytes : frame[i] = 0
    <3> DEFINE zeros == [i \in 1..(8 * 104 - Len(bits)) |-> 0]
    <3>1. Len(bits) \in Nat /\ Len(bits) <= 830
      BY <2>2, <2>4 DEF T!Fits, T!FrameBits
    <3>2. /\ zeros \in Seq({0}) /\ Len(zeros) = 832 - Len(bits)
          /\ \A i \in 1..(832 - Len(bits)) : zeros[i] = 0
      BY <3>1
    <3>3. frame = bits \o zeros
      BY <2>4 DEF T!Padded, T!FrameBytes
    <3> HIDE DEF zeros
    <3>4. bits \in Seq(Bits \cup {0}) /\ zeros \in Seq(Bits \cup {0})
      BY <2>2, <3>2, SeqMonotonic
    <3>5. /\ Len(frame) = Len(bits) + Len(zeros)
          /\ \A i \in 1..(Len(bits) + Len(zeros)) :
               frame[i] = IF i <= Len(bits) THEN bits[i] ELSE zeros[i - Len(bits)]
      BY <3>3, <3>4, ConcatProperties
    <3> QED
      BY <3>1, <3>2, <3>5 DEF T!FrameBytes, T!FrameBits
  <2> QED
    BY <1>1, <1>3, <2>3, <2>4, Zenon
<1> QED
  BY <1>2, <1>3

\* The frame of an answered request is the encoding of the telegram that was posted
\* if that was addressed to a BTM which takes it, and there is none otherwise.
LEMMA FrameOfPosted ==
  ASSUME RestInv, NEW k \in Clients, NEW t \in Posted(k)
  PROVE  /\ t \in T!TelegramShape
         /\ http[k].frame = IF Addressed(http[k].request) THEN T!EncodeTelegram(t) ELSE {}
<1> DEFINE r == http[k].request
<1>1. http[k].status = "answered" /\ r.route = "equipment" /\ t \in r.telegram
  BY Zenon DEF Posted
<1>2. FrameReported(k)
  BY <1>1 DEF RestInv, FramesReported
<1>3. r.telegram = {t} /\ t \in T!TelegramShape
  BY <1>1, <1>2, RestAssumption DEF FrameReported
<1>4. FrameOf(r) = T!EncodeTelegram(t)
  BY <1>3 DEF FrameOf
<1>5. ASSUME Addressed(r), T!EncodeTelegram(t) # {} PROVE http[k].frame = T!EncodeTelegram(t)
  <2>1. ~RefusedAtEdge(r)
    BY <1>4, <1>5 DEF RefusedAtEdge, Addressed
  <2>3. BtmAccepts(r)
    BY <1>1, <1>5 DEF BtmAccepts, Addressed
  <2>2. Granted(CommandOf(r))
    BY <1>1, <1>5, <2>3 DEF Granted, CommandOf, Addressed
  <2> QED
    BY <1>2, <1>4, <2>1, <2>2 DEF FrameReported
<1>6. http[k].frame = IF Addressed(r) THEN T!EncodeTelegram(t) ELSE {}
  <2>1. http[k].frame \in {{}, T!EncodeTelegram(t)} /\ (http[k].frame # {} => Addressed(r))
    BY <1>2, <1>4 DEF FrameReported
  <2> QED
    BY <1>5, <2>1
<1> QED
  BY <1>3, <1>6

\* A telegram is answered with its frame exactly if it is addressed to a BTM that takes
\* it, is valid and fits the user packet area, whatever requests are posted and whoever
\* else commands meanwhile; and a frame is 104 bytes with two zero bits at the end.
THEOREM FramesHoldWhatFits == RestSpec => []FrameHoldsWhatFits
<1>1. RestInv => FrameHoldsWhatFits
  <2> SUFFICES ASSUME RestInv, NEW k \in Clients, NEW t \in Posted(k)
               PROVE  /\ http[k].frame # {} <=>
                           /\ Addressed(http[k].request)
                           /\ T!Accepted(t)
                           /\ T!BitsOfPackets(t) <= T!UserPacketAreaBits
                      /\ \A frame \in http[k].frame :
                           /\ Len(frame) = 8 * T!FrameBytes
                           /\ \A i \in T!FrameBits + 1 .. 8 * T!FrameBytes : frame[i] = 0
    BY Zenon DEF FrameHoldsWhatFits
  <2>1. /\ t \in T!TelegramShape
        /\ http[k].frame = IF Addressed(http[k].request) THEN T!EncodeTelegram(t) ELSE {}
    BY FrameOfPosted
  <2>2. T!EncodeTelegram(t) # {} => T!Accepted(t)
    BY DEF T!EncodeTelegram
  <2> QED
    BY <2>1, <2>2, FrameFact
<1> QED
  BY <1>1, RestInvariance, PTL

(***************************************************************************)
(* Reading back what was written.                                          *)
(***************************************************************************)

\* The bits s stand in bits from a position on.
Carries(bits, at, s) == \A j \in 1..Len(s) : bits[at + j - 1] = s[j]

\* Powers of two, as far as fields are wide.
LEMMA Powers ==
  /\ 2^0 = 1 /\ 2^1 = 2 /\ 2^2 = 4 /\ 2^3 = 8 /\ 2^4 = 16 /\ 2^5 = 32 /\ 2^6 = 64
  /\ 2^7 = 128 /\ 2^8 = 256 /\ 2^9 = 512 /\ 2^10 = 1024 /\ 2^11 = 2048 /\ 2^12 = 4096
  /\ 2^13 = 8192 /\ 2^14 = 16384 /\ 2^15 = 32768
OBVIOUS

\* Each power is twice the one before.
LEMMA PowerDoubles ==
  ASSUME NEW k \in 0..14
  PROVE  2^k \in Nat \ {0} /\ 2^(k + 1) = 2 * 2^k
<1>1. CASE k = 0
  BY <1>1, Powers
<1>2. CASE k = 1
  BY <1>2, Powers
<1>3. CASE k = 2
  BY <1>3, Powers
<1>4. CASE k = 3
  BY <1>4, Powers
<1>5. CASE k = 4
  BY <1>5, Powers
<1>6. CASE k = 5
  BY <1>6, Powers
<1>7. CASE k = 6
  BY <1>7, Powers
<1>8. CASE k = 7
  BY <1>8, Powers
<1>9. CASE k = 8
  BY <1>9, Powers
<1>10. CASE k = 9
  BY <1>10, Powers
<1>11. CASE k = 10
  BY <1>11, Powers
<1>12. CASE k = 11
  BY <1>12, Powers
<1>13. CASE k = 12
  BY <1>13, Powers
<1>14. CASE k = 13
  BY <1>14, Powers
<1>15. CASE k = 14
  BY <1>15, Powers
<1> QED
  BY <1>1, <1>2, <1>3, <1>4, <1>5, <1>6, <1>7, <1>8, <1>9, <1>10, <1>11, <1>12, <1>13, <1>14, <1>15

\* The next bit of a number.
LEMMA Halving ==
  ASSUME NEW v \in Nat, NEW m \in Nat \ {0}
  PROVE  v \div m = 2 * (v \div (2 * m)) + ((v \div m) % 2)
<1> DEFINE q == v \div m
           h == v \div (2 * m)
<1>1. q \in Nat /\ m * q <= v /\ v < m * q + m
  OBVIOUS
<1>2. h \in Nat /\ (2 * m) * h <= v /\ v < (2 * m) * h + 2 * m
  OBVIOUS
<1>3. m * q < m * (2 * h + 2) /\ m * (2 * h) < m * (q + 1)
  BY <1>1, <1>2
<1>4. ASSUME NEW a \in Int, NEW b \in Int, m * a < m * b PROVE a < b
  <2> SUFFICES ASSUME b <= a PROVE FALSE
    BY <1>4
  <2>1. \E d \in Nat : a = b + d
    <3>1. a - b \in Nat /\ a = b + (a - b)
      OBVIOUS
    <3> QED
      BY <3>1
  <2> QED
    BY <1>4, <2>1
<1>5. q < 2 * h + 2 /\ 2 * h < q + 1
  <2> HIDE DEF q, h
  <2> QED
    BY <1>1, <1>2, <1>3, <1>4
<1>6. q = 2 * h \/ q = 2 * h + 1
  <2> HIDE DEF q, h
  <2> QED
    BY <1>1, <1>2, <1>5
<1>7. q = 2 * h + (q % 2)
  <2> HIDE DEF q, h
  <2> QED
    BY <1>1, <1>2, <1>6
<1> QED
  BY <1>7

\* A coded value is the number that its bits stand for.
LEMMA FieldValue ==
  ASSUME NEW bits, NEW at \in Int, NEW v \in Int, NEW w \in 1..15, T!Coded(v, w),
         Carries(bits, at, T!BitsOf(<<v, w>>))
  PROVE  T!Value(bits, at, w) = v
<1> DEFINE number == CHOOSE number : number = [i \in 0..w |->
                       IF i = 0 THEN 0 ELSE 2 * number[i - 1] + bits[at + i - 1]]
           f == [i \in 0..w |-> v \div 2^(w - i)]
           S == {i \in 0..w : number[i] = v \div 2^(w - i)}
<1>1. v \in Nat /\ v < 2^w /\ w \in Nat
  BY DEF T!Coded
<1>0. <<v, w>> \in CodedFields
  BY <1>1 DEF CodedFields
<1>2. \A i \in 1..w : bits[at + i - 1] = (v \div 2^(w - i)) % 2
  BY <1>1, <1>0, FieldWritten DEF Carries
<1>3. \A i \in 1..w : v \div 2^(w - i) = 2 * (v \div 2^(w - (i - 1))) + bits[at + i - 1]
  <2> SUFFICES ASSUME NEW i \in 1..w
               PROVE  v \div 2^(w - i) = 2 * (v \div 2^(w - (i - 1))) + bits[at + i - 1]
    OBVIOUS
  <2> DEFINE m == 2^(w - i)
  <2>1. w - i \in 0..14 /\ (w - i) + 1 = w - (i - 1)
    OBVIOUS
  <2>2. m \in Nat \ {0} /\ 2^(w - (i - 1)) = 2 * m
    BY <2>1, PowerDoubles
  <2>3. v \div m = 2 * (v \div (2 * m)) + ((v \div m) % 2)
    <3> HIDE DEF m
    <3> QED
      BY <1>1, <2>2, Halving
  <2>4. bits[at + i - 1] = (v \div m) % 2
    BY <1>2
  <2> HIDE DEF m
  <2> QED
    BY <2>2, <2>3, <2>4 DEF m
<1>4. v \div 2^(w - 0) = 0
  <2>1. w - 0 = w
    OBVIOUS
  <2>2. 2^w \in Nat \ {0}
    <3>1. w - 1 \in 0..14 /\ (w - 1) + 1 = w
      OBVIOUS
    <3>2. 2^w = 2 * 2^(w - 1) /\ 2^(w - 1) \in Nat \ {0}
      BY <3>1, PowerDoubles
    <3> QED
      BY <3>2
  <2>3. v \div 2^w = 0
    BY <1>1, <2>2
  <2> QED
    BY <2>1, <2>3
<1>5. number = [i \in 0..w |-> IF i = 0 THEN 0 ELSE 2 * number[i - 1] + bits[at + i - 1]]
  <2>1. f = [i \in 0..w |-> IF i = 0 THEN 0 ELSE 2 * f[i - 1] + bits[at + i - 1]]
    <3>1. ASSUME NEW i \in 0..w
          PROVE  f[i] = IF i = 0 THEN 0 ELSE 2 * f[i - 1] + bits[at + i - 1]
      <4>1. CASE i = 0
        BY <1>4, <4>1
      <4>2. CASE i # 0
        <5>1. i \in 1..w /\ i - 1 \in 0..w
          BY <1>1, <4>2
        <5>2. f[i] = v \div 2^(w - i) /\ f[i - 1] = v \div 2^(w - (i - 1))
          BY <5>1, Zenon
        <5> HIDE DEF f
        <5> QED
          BY <1>3, <4>2, <5>1, <5>2
      <4> QED
        BY <4>1, <4>2
    <3>2. f = [i \in 0..w |-> f[i]]
      OBVIOUS
    <3> HIDE DEF f
    <3> QED
      BY <3>1, <3>2, Zenon
  <2> HIDE DEF f
  <2> QED
    BY <2>1, Zenon
<1>6. T!Value(bits, at, w) = number[w]
  BY Zenon DEF T!Value
<1> HIDE DEF number
<1>7. \A i \in 0..w : i \in S
  <2>1. 0 \in S
    <3>1. number[0] = 0
      BY <1>1, <1>5
    <3> QED
      BY <1>1, <1>4, <3>1
  <2>2. ASSUME NEW i \in 1..w, i - 1 \in S PROVE i \in S
    <3>1. i \in 0..w /\ i # 0
      BY <1>1
    <3>2. number[i] = 2 * number[i - 1] + bits[at + i - 1]
      BY <1>5, <3>1, Zenon
    <3>3. number[i - 1] = v \div 2^(w - (i - 1))
      BY <2>2
    <3>4. number[i] = v \div 2^(w - i)
      BY <1>3, <3>2, <3>3, Zenon
    <3> QED
      BY <3>1, <3>4
  <2> HIDE DEF S
  <2> QED
    BY <1>1, <2>1, <2>2, UpTo
<1>8. number[w] = v \div 2^(w - w)
  <2>1. w \in 0..w
    BY <1>1
  <2> QED
    BY <1>7, <2>1
<1>9. 2^(w - w) = 1
  <2>1. w - w = 0
    OBVIOUS
  <2> QED
    BY <2>1, Powers
<1> QED
  BY <1>1, <1>6, <1>8, <1>9

\* The fields are written in bits from a position on.
Holds(bits, at, fields) == Carries(bits, at, T!Written(fields))

\* What is found at a position also finds its parts, the second behind the first.
Splits(H, measure, S) ==
  \A at \in Int : \A a, b \in Seq(S) :
    a \o b \in H[at] => a \in H[at] /\ b \in H[at + measure[a]]

\* The parts of a flattened sequence are found at the sums of their measures.
LEMMA FlattenSplits ==
  ASSUME NEW S, NEW seqs \in Seq(Seq(S)), NEW measure, Additive(measure, S),
         NEW H, Splits(H, measure, S), NEW at \in Int, T!FlattenSeq(seqs) \in H[at],
         NEW g, Sums(g, Measures(measure, seqs), Len(seqs))
  PROVE  \A i \in 1..Len(seqs) : seqs[i] \in H[at + g[i - 1]]
<1> DEFINE n == Len(seqs)
<1>1. n \in Nat /\ n \in 0..n /\ \A i \in 1..n : seqs[i] \in Seq(S)
  OBVIOUS
<1>2. PICK f : Joins(f, seqs, n, S) /\ T!FlattenSeq(seqs) = f[n]
  BY FlattenFact
<1>3. \A i \in 0..n : measure[f[i]] = g[i]
  BY <1>2, JoinsAdd
<1> HIDE DEF n
<1> DEFINE K == {k \in 0..n : f[n - k] \in H[at]}
<1>4. ASSUME NEW i \in 1..n, f[i] \in H[at]
      PROVE  f[i - 1] \in H[at] /\ seqs[i] \in H[at + g[i - 1]]
  <2>1. i - 1 \in 0..n
    BY <1>1
  <2>2. f[i] = f[i - 1] \o seqs[i] /\ f[i - 1] \in Seq(S) /\ seqs[i] \in Seq(S)
    BY <1>1, <1>2, <2>1 DEF Joins
  <2>3. f[i - 1] \in H[at] /\ seqs[i] \in H[at + measure[f[i - 1]]]
    BY <1>4, <2>2 DEF Splits
  <2> QED
    BY <1>3, <2>1, <2>3
<1>5. \A k \in 0..n : k \in K
  <2>1. 0 \in K
    <3>1. n - 0 = n /\ 0 \in 0..n
      BY <1>1
    <3> QED
      BY <1>2, <3>1
  <2>2. ASSUME NEW k \in 1..n, k - 1 \in K PROVE k \in K
    <3>1. n - (k - 1) \in 1..n /\ (n - (k - 1)) - 1 = n - k /\ k \in 0..n
      BY <1>1
    <3>2. f[n - (k - 1)] \in H[at]
      BY <2>2
    <3>3. f[(n - (k - 1)) - 1] \in H[at]
      BY <1>4, <3>1, <3>2
    <3> QED
      BY <3>1, <3>3
  <2> HIDE DEF K
  <2> QED
    BY <1>1, <2>1, <2>2, UpTo
<1>6. ASSUME NEW i \in 1..n PROVE f[i] \in H[at]
  <2>1. n - i \in 0..n /\ n - (n - i) = i
    BY <1>1
  <2>2. f[n - (n - i)] \in H[at]
    BY <1>5, <2>1
  <2> QED
    BY <2>1, <2>2
<1> QED
  BY <1>4, <1>6 DEF n

\* Bits at a position.
LEMMA CarriesConcat ==
  ASSUME NEW S, NEW a \in Seq(S), NEW b \in Seq(S), NEW bits, NEW at \in Int,
         Carries(bits, at, a \o b)
  PROVE  Carries(bits, at, a) /\ Carries(bits, at + Len(a), b)
<1> DEFINE m == Len(a)
           n == Len(b)
           c == a \o b
<1>1. /\ Len(c) = m + n /\ m \in Nat /\ n \in Nat
      /\ \A i \in 1..(m + n) : c[i] = IF i <= m THEN a[i] ELSE b[i - m]
  BY ConcatProperties
<1>2. \A j \in 1..Len(c) : bits[at + j - 1] = c[j]
  BY DEF Carries
<1> HIDE DEF m, n, c
<1>3. \A j \in 1..m : j \in 1..(m + n) /\ j <= m
  BY <1>1
<1>4. \A j \in 1..n : /\ m + j \in 1..(m + n) /\ ~(m + j <= m) /\ (m + j) - m = j
                      /\ at + (m + j) - 1 = (at + m) + j - 1
  BY <1>1
<1>5. \A j \in 1..m : bits[at + j - 1] = a[j]
  BY <1>1, <1>2, <1>3
<1>6. \A j \in 1..n : bits[(at + m) + j - 1] = b[j]
  <2> SUFFICES ASSUME NEW j \in 1..n PROVE bits[(at + m) + j - 1] = b[j]
    OBVIOUS
  <2>1. bits[at + (m + j) - 1] = c[m + j]
    BY <1>1, <1>2, <1>4
  <2>2. c[m + j] = b[j]
    BY <1>1, <1>4
  <2> QED
    BY <1>4, <2>1, <2>2
<1> QED
  BY <1>5, <1>6 DEF m, n, Carries

\* Fields at a position are found one behind the other.
LEMMA HoldsConcat ==
  ASSUME NEW a \in Seq(CodedFields), NEW b \in Seq(CodedFields), NEW bits, NEW at \in Int,
         Holds(bits, at, a \o b)
  PROVE  Holds(bits, at, a) /\ Holds(bits, at + WidthOf[a], b)
<1> DEFINE x == T!Written(a)
           y == T!Written(b)
<1>1. x \in Seq(Bits) /\ Len(x) = WidthOf[a] /\ y \in Seq(Bits)
  BY WrittenLength
<1>2. Carries(bits, at, x \o y)
  BY WrittenConcat DEF Holds
<1> HIDE DEF x, y
<1>3. Carries(bits, at, x) /\ Carries(bits, at + Len(x), y)
  BY <1>1, <1>2, CarriesConcat
<1> QED
  BY <1>1, <1>3 DEF x, y, Holds

\* The parts of flattened fields, each behind the widths of those before it.
LEMMA HoldsParts ==
  ASSUME NEW parts \in Seq(Seq(CodedFields)), NEW bits, NEW at \in Int,
         Holds(bits, at, T!FlattenSeq(parts)),
         NEW g, Sums(g, Measures(WidthOf, parts), Len(parts))
  PROVE  \A i \in 1..Len(parts) : Holds(bits, at + g[i - 1], parts[i])
<1> DEFINE H == [p \in Int |-> {fields \in Seq(CodedFields) : Holds(bits, p, fields)}]
<1>1. Splits(H, WidthOf, CodedFields)
  <2> SUFFICES ASSUME NEW p \in Int, NEW a \in Seq(CodedFields), NEW b \in Seq(CodedFields),
                      a \o b \in H[p]
               PROVE  a \in H[p] /\ b \in H[p + WidthOf[a]]
    BY DEF Splits
  <2>1. Holds(bits, p, a) /\ Holds(bits, p + WidthOf[a], b)
    BY HoldsConcat
  <2>2. p + WidthOf[a] \in Int
    BY WidthConcat
  <2> QED
    BY <2>1, <2>2
<1>2. T!FlattenSeq(parts) \in H[at]
  BY PartsWidth
<1>3. \A i \in 1..Len(parts) : at + g[i - 1] \in Int
  <2> DEFINE n == Len(parts)
  <2>1. n \in Nat
    OBVIOUS
  <2> HIDE DEF n
  <2>2. g \in [0..n -> Int]
    BY DEF n, Sums
  <2>3. \A i \in 1..n : at + g[i - 1] \in Int
    BY <2>1, <2>2
  <2> QED
    BY <2>3 DEF n
<1> HIDE DEF H
<1>4. \A i \in 1..Len(parts) : parts[i] \in H[at + g[i - 1]]
  BY <1>1, <1>2, WidthsAdd, FlattenSplits
<1> QED
  BY <1>3, <1>4, Zenon DEF H

\* Fields that hold what their widths can, and a reader that finds each value behind
\* the widths of the fields before it.
Fit(fields) ==
  \A i \in 1..Len(fields) : fields[i][2] \in 1..15 /\ T!Coded(fields[i][1], fields[i][2])
ReadsAs(bits, at, g, fields) ==
  \A i \in 1..Len(fields) : T!Value(bits, at + g[i - 1], fields[i][2]) = fields[i][1]

\* The values of coded fields are read where the fields before them end.
LEMMA FieldsRead ==
  ASSUME NEW fields \in Seq(CodedFields), NEW bits, NEW at \in Int, Holds(bits, at, fields),
         Fit(fields), NEW g, Sums(g, Widths(fields), Len(fields))
  PROVE  ReadsAs(bits, at, g, fields)
<1> DEFINE H == [p \in Int |-> {s \in Seq(Bits) : Carries(bits, p, s)}]
           LenOf == [s \in Seq(Bits) |-> Len(s)]
           seqs == BitsOfEach(fields)
           n == Len(fields)
<1>1. Additive(LenOf, Bits)
  BY DEF Additive
<1>2. /\ seqs \in Seq(Seq(Bits)) /\ Len(seqs) = n
      /\ \A i \in 1..n : seqs[i] = T!BitsOf(fields[i])
      /\ T!Written(fields) = T!FlattenSeq(seqs)
  BY EachWritten
<1>3. n \in Nat /\ \A i \in 1..n : fields[i] \in CodedFields
  OBVIOUS
<1>4. Splits(H, LenOf, Bits)
  <2> SUFFICES ASSUME NEW p \in Int, NEW a \in Seq(Bits), NEW b \in Seq(Bits), a \o b \in H[p]
               PROVE  a \in H[p] /\ b \in H[p + LenOf[a]]
    BY DEF Splits
  <2>1. Carries(bits, p, a) /\ Carries(bits, p + Len(a), b)
    BY CarriesConcat
  <2>2. p + Len(a) \in Int /\ LenOf[a] = Len(a)
    OBVIOUS
  <2> QED
    BY <2>1, <2>2
<1> HIDE DEF seqs, n
<1>5. T!FlattenSeq(seqs) \in H[at]
  BY <1>2, FlattenAdds DEF Holds
<1>6. \A i \in 1..n : T!BitsOf(fields[i]) \in Seq(Bits) /\ Len(T!BitsOf(fields[i])) = fields[i][2]
  BY <1>3, FieldWritten
<1>7. Measures(LenOf, seqs) = Widths(fields)
  <2>1. DOMAIN seqs = 1..n /\ DOMAIN fields = 1..n
    BY <1>2 DEF n
  <2>2. \A i \in 1..n : LenOf[seqs[i]] = fields[i][2]
    BY <1>2, <1>6
  <2> HIDE DEF LenOf
  <2> QED
    BY <2>1, <2>2 DEF Measures, Widths
<1> HIDE DEF H, LenOf
<1>8. \A i \in 1..n : seqs[i] \in H[at + g[i - 1]]
  <2>1. Sums(g, Measures(LenOf, seqs), Len(seqs))
    BY <1>2, <1>7 DEF n
  <2>2. \A i \in 1..Len(seqs) : seqs[i] \in H[at + g[i - 1]]
    BY <1>1, <1>2, <1>4, <1>5, <2>1, FlattenSplits
  <2> QED
    BY <1>2, <2>2
<1>9. \A i \in 1..n : at + g[i - 1] \in Int
  <2>1. g \in [0..n -> Int]
    BY DEF n, Sums
  <2> QED
    BY <1>3, <2>1
<1> SUFFICES ASSUME NEW i \in 1..n
             PROVE  T!Value(bits, at + g[i - 1], fields[i][2]) = fields[i][1]
  BY DEF n, ReadsAs
<1>10. Carries(bits, at + g[i - 1], T!BitsOf(fields[i]))
  BY <1>2, <1>8, <1>9, Zenon DEF H
<1> DEFINE v == fields[i][1]
           w == fields[i][2]
           q == at + g[i - 1]
<1>11. v \in Int /\ w \in 1..15 /\ T!Coded(v, w) /\ fields[i] = <<v, w>>
  BY <1>3 DEF n, CodedFields, Fit
<1>12. q \in Int /\ Carries(bits, q, T!BitsOf(<<v, w>>))
  BY <1>9, <1>10, <1>11
<1> HIDE DEF v, w, q
<1>13. T!Value(bits, q, w) = v
  BY <1>11, <1>12, FieldValue
<1> QED
  BY <1>13 DEF v, w, q

\* One coded field.
LEMMA FieldRead ==
  ASSUME NEW v \in Int, NEW w \in 1..15, T!Coded(v, w), NEW bits, NEW at \in Int,
         Holds(bits, at, <<<<v, w>>>>)
  PROVE  T!Value(bits, at, w) = v
<1>1. <<v, w>> \in CodedFields
  BY DEF CodedFields
<1>2. Carries(bits, at, T!BitsOf(<<v, w>>))
  BY <1>1, WrittenOne DEF Holds
<1> QED
  BY <1>2, FieldValue

\* An item is read as it was posted, and up to where it ends.
LEMMA ItemRead ==
  ASSUME NEW e, Item(e), T!ItemAccepted(e), NEW bits, NEW at \in Int,
         Holds(bits, at, T!ItemFields(e))
  PROVE  /\ T!ReadItem(bits, at).item = [m_leveltr |-> e.m_leveltr, nid_stm |-> e.nid_stm,
                                         l_ackleveltr |-> e.l_ackleveltr]
         /\ T!ReadItem(bits, at).next = at + T!ItemBits(e)
<1> DEFINE v == CHOOSE v \in e.nid_stm : TRUE
           level == <<<<e.m_leveltr, 3>>>>
           stm == IF e.m_leveltr = 1 THEN <<<<v, 8>>>> ELSE <<>>
           ack == <<<<e.l_ackleveltr, 15>>>>
           here == at + 3 + (IF e.m_leveltr = 1 THEN 8 ELSE 0)
<1>1. /\ e.m_leveltr \in Int /\ e.l_ackleveltr \in Int /\ e.nid_stm \in SUBSET Int
      /\ \A u, w \in e.nid_stm : u = w
      /\ T!Coded(e.m_leveltr, 3) /\ T!Coded(e.l_ackleveltr, 15)
      /\ IF e.m_leveltr = 1 THEN \E u \in e.nid_stm : T!Coded(u, 8) ELSE e.nid_stm = {}
  BY DEF Item, T!Optional, T!ItemAccepted, T!NidStmAccepted
<1>2. level \in Seq(CodedFields) /\ WidthOf[level] = 3
  BY <1>1, WidthOne
<1>3. ack \in Seq(CodedFields)
  BY <1>1, WidthOne
<1>4. e.m_leveltr = 1 => v \in Int /\ T!Coded(v, 8) /\ e.nid_stm = {v}
  <2> SUFFICES ASSUME e.m_leveltr = 1 PROVE v \in Int /\ T!Coded(v, 8) /\ e.nid_stm = {v}
    OBVIOUS
  <2>1. PICK u \in e.nid_stm : T!Coded(u, 8)
    BY <1>1
  <2>2. v \in e.nid_stm
    BY <2>1
  <2> HIDE DEF v
  <2>3. v = u
    BY <1>1, <2>1, <2>2
  <2>4. e.nid_stm = {v}
    BY <1>1, <2>2
  <2> QED
    BY <1>1, <2>1, <2>2, <2>3, <2>4
<1>5. stm \in Seq(CodedFields) /\ WidthOf[stm] = IF e.m_leveltr = 1 THEN 8 ELSE 0
  <2>1. CASE e.m_leveltr = 1
    <3>1. v \in Int
      BY <1>4, <2>1
    <3> HIDE DEF v
    <3> QED
      BY <2>1, <3>1, WidthOne
  <2>2. CASE e.m_leveltr # 1
    <3>1. <<>> \in Seq(CodedFields) /\ WidthOf[<<>>] = 0
      BY WidthsAdd DEF Additive
    <3> QED
      BY <2>2, <3>1
  <2> QED
    BY <2>1, <2>2
<1>6. Holds(bits, at, level \o stm \o ack)
  BY DEF T!ItemFields
<1>7. e.m_leveltr = 1 => stm = <<<<v, 8>>>>
  OBVIOUS
<1> HIDE DEF v, stm
<1>8. Holds(bits, at, level) /\ Holds(bits, at + 3, stm) /\ Holds(bits, here, ack)
  <2> HIDE DEF level, ack
  <2>1. level \o stm \in Seq(CodedFields) /\ WidthOf[level \o stm] = 3 + WidthOf[stm]
    BY <1>2, <1>5, WidthConcat
  <2>2. Holds(bits, at, level \o stm) /\ Holds(bits, at + (3 + WidthOf[stm]), ack)
    BY <1>3, <1>6, <2>1, HoldsConcat
  <2>3. Holds(bits, at, level) /\ Holds(bits, at + 3, stm)
    BY <1>2, <1>5, <2>2, HoldsConcat
  <2>4. at + (3 + WidthOf[stm]) = here
    BY <1>5
  <2> QED
    BY <2>2, <2>3, <2>4
<1>9. here \in Int /\ at + 3 \in Int /\ 3 \in 1..15 /\ 8 \in 1..15 /\ 15 \in 1..15
  OBVIOUS
<1> HIDE DEF here
<1>10. T!Value(bits, at, 3) = e.m_leveltr
  BY <1>1, <1>8, <1>9, FieldRead, Zenon
<1>11. e.m_leveltr = 1 => T!Value(bits, at + 3, 8) = v
  <2> SUFFICES ASSUME e.m_leveltr = 1 PROVE T!Value(bits, at + 3, 8) = v
    OBVIOUS
  <2>1. Holds(bits, at + 3, <<<<v, 8>>>>)
    BY <1>7, <1>8
  <2> QED
    BY <1>4, <1>9, <2>1, FieldRead, Zenon
<1>12. T!Value(bits, here, 15) = e.l_ackleveltr
  BY <1>1, <1>8, <1>9, FieldRead, Zenon
<1>13. e.nid_stm = IF e.m_leveltr = 1 THEN {T!Value(bits, at + 3, 8)} ELSE {}
  BY <1>1, <1>4, <1>11
<1>14. /\ T!ReadItem(bits, at).item = [m_leveltr |-> e.m_leveltr, nid_stm |-> e.nid_stm,
                                       l_ackleveltr |-> T!Value(bits, here, 15)]
       /\ T!ReadItem(bits, at).next = here + 15
  BY <1>10, <1>13, Zenon DEF T!ReadItem, here
<1>15. here + 15 = at + T!ItemBits(e)
  BY DEF here, T!ItemBits
<1> QED
  BY <1>12, <1>14, <1>15

\* Items are read one behind the other.
LEMMA ItemsRead ==
  ASSUME NEW items \in Seq(T!ItemShape), \A i \in 1..Len(items) : T!ItemAccepted(items[i]),
         NEW g, Sums(g, [i \in DOMAIN items |-> T!ItemBits(items[i])], Len(items)),
         NEW bits, NEW at \in Int,
         \A i \in 1..Len(items) : Holds(bits, at + g[i - 1], T!ItemFields(items[i]))
  PROVE  T!ReadItems(bits, at, Len(items)) = items
<1> DEFINE n == Len(items)
           starts == CHOOSE starts : starts = [i \in 0..n |->
                       IF i = 0 THEN at ELSE T!ReadItem(bits, starts[i - 1]).next]
           h == [i \in 0..n |-> at + g[i]]
<1>1. n \in Nat /\ DOMAIN items = 1..n /\ \A i \in 1..n : items[i] \in T!ItemShape
  OBVIOUS
<1>2. T!ReadItems(bits, at, n) = [i \in 1..n |-> T!ReadItem(bits, starts[i - 1]).item]
  BY Zenon DEF T!ReadItems
<1> HIDE DEF n
<1>3. /\ g \in [0..n -> Int] /\ g[0] = 0
      /\ \A i \in 1..n : g[i] = g[i - 1] + T!ItemBits(items[i])
  BY <1>1 DEF Sums, n
<1>4. ASSUME NEW i \in 1..n
      PROVE  /\ T!ReadItem(bits, at + g[i - 1]).item = items[i]
             /\ T!ReadItem(bits, at + g[i - 1]).next = at + g[i]
  <2>1. items[i] \in T!ItemShape /\ T!ItemAccepted(items[i])
    BY <1>1 DEF n
  <2>2. Item(items[i])
    BY <2>1 DEF Item, T!ItemShape, T!ItemAccepted
  <2>3. i - 1 \in 0..n
    BY <1>1
  <2>4. at + g[i - 1] \in Int /\ g[i - 1] \in Int
    BY <1>3, <2>3
  <2>5. Holds(bits, at + g[i - 1], T!ItemFields(items[i]))
    BY DEF n
  <2>6. /\ T!ReadItem(bits, at + g[i - 1]).item
             = [m_leveltr |-> items[i].m_leveltr, nid_stm |-> items[i].nid_stm,
                l_ackleveltr |-> items[i].l_ackleveltr]
        /\ T!ReadItem(bits, at + g[i - 1]).next = (at + g[i - 1]) + T!ItemBits(items[i])
    BY <2>1, <2>2, <2>4, <2>5, ItemRead
  <2>7. items[i] = [m_leveltr |-> items[i].m_leveltr, nid_stm |-> items[i].nid_stm,
                    l_ackleveltr |-> items[i].l_ackleveltr]
    BY <2>1 DEF T!ItemShape
  <2>8. (at + g[i - 1]) + T!ItemBits(items[i]) = at + g[i]
    <3>1. T!ItemBits(items[i]) \in Int
      BY DEF T!ItemBits
    <3> QED
      BY <1>3, <2>4, <3>1
  <2> QED
    BY <2>6, <2>7, <2>8, Zenon
<1>5. h[0] = at /\ \A i \in 1..n : h[i] = T!ReadItem(bits, h[i - 1]).next
  <2>1. at + 0 = at /\ 0 \in 0..n
    BY <1>1
  <2>2. \A i \in 1..n : i \in 0..n /\ i - 1 \in 0..n
    BY <1>1
  <2> QED
    BY <1>3, <1>4, <2>1, <2>2, Zenon
<1>6. starts = [i \in 0..n |-> IF i = 0 THEN at ELSE T!ReadItem(bits, starts[i - 1]).next]
  <2>1. \A i \in 0..n : i = 0 \/ i \in 1..n
    BY <1>1
  <2>2. h = [i \in 0..n |-> h[i]]
    OBVIOUS
  <2> HIDE DEF h
  <2>3. h = [i \in 0..n |-> IF i = 0 THEN at ELSE T!ReadItem(bits, h[i - 1]).next]
    BY <1>5, <2>1, <2>2, Zenon
  <2> QED
    BY <2>3, Zenon
<1> HIDE DEF starts
<1> DEFINE K == {i \in 0..n : starts[i] = at + g[i]}
<1>7. \A i \in 0..n : i \in K
  <2>1. 0 \in K
    <3>1. 0 \in 0..n /\ at + 0 = at
      BY <1>1
    <3>2. starts[0] = at
      BY <1>6, <3>1, Zenon
    <3> QED
      BY <1>3, <3>1, <3>2
  <2>2. ASSUME NEW i \in 1..n, i - 1 \in K PROVE i \in K
    <3>1. i \in 0..n /\ i # 0
      BY <1>1
    <3>2. starts[i] = T!ReadItem(bits, starts[i - 1]).next
      BY <1>6, <3>1, Zenon
    <3>3. starts[i] = at + g[i]
      BY <1>4, <2>2, <3>2
    <3> QED
      BY <3>1, <3>3
  <2> HIDE DEF K
  <2> QED
    BY <1>1, <2>1, <2>2, UpTo
<1>8. \A i \in 1..n : T!ReadItem(bits, starts[i - 1]).item = items[i]
  <2>1. \A i \in 1..n : i - 1 \in 0..n
    BY <1>1
  <2>2. \A i \in 1..n : starts[i - 1] = at + g[i - 1]
    BY <1>7, <2>1
  <2> QED
    BY <1>4, <2>2, Zenon
<1>9. items = [i \in 1..n |-> items[i]]
  BY <1>1
<1> QED
  BY <1>2, <1>8, <1>9, Zenon DEF n

\* The parts of a packet, each where the bits of those before it end.
LEMMA PacketHeld ==
  ASSUME NEW p \in T!PacketShape, T!PacketAccepted(p), NEW bits, NEW at \in Int,
         Holds(bits, at, T!PacketFields(p))
  PROVE  /\ Holds(bits, at, PacketStart(p)) /\ Holds(bits, at + 40, T!ItemFields(p))
         /\ Holds(bits, at + 40 + T!ItemBits(p), <<<<p.n_iter, 5>>>>)
         /\ Holds(bits, at + 40 + T!ItemBits(p) + 5, T!FlattenSeq(ItemParts(p)))
<1> DEFINE start == PacketStart(p)
           main == T!ItemFields(p)
           count == <<<<p.n_iter, 5>>>>
           items == T!FlattenSeq(ItemParts(p))
<1>1. start \in Seq(CodedFields) /\ WidthOf[start] = 40
  BY StartWidth
<1>2. main \in Seq(CodedFields) /\ WidthOf[main] = T!ItemBits(p) /\ T!ItemBits(p) \in Int
  BY PacketParts
<1>3. count \in Seq(CodedFields) /\ WidthOf[count] = 5
  BY PacketParts
<1>4. items \in Seq(CodedFields)
  BY PacketParts
<1>5. Holds(bits, at, start \o main \o count \o items)
  BY DEF T!PacketFields, PacketStart, ItemParts
<1> HIDE DEF start, main, count, items
<1>6. start \o main \in Seq(CodedFields) /\ WidthOf[start \o main] = 40 + T!ItemBits(p)
  BY <1>1, <1>2, WidthConcat
<1>7. /\ start \o main \o count \in Seq(CodedFields)
      /\ WidthOf[start \o main \o count] = (40 + T!ItemBits(p)) + 5
  BY <1>2, <1>3, <1>6, WidthConcat
<1>8. /\ Holds(bits, at, start \o main \o count)
      /\ Holds(bits, at + ((40 + T!ItemBits(p)) + 5), items)
  BY <1>4, <1>5, <1>7, HoldsConcat
<1>9. Holds(bits, at, start \o main) /\ Holds(bits, at + (40 + T!ItemBits(p)), count)
  BY <1>3, <1>6, <1>8, HoldsConcat
<1>10. Holds(bits, at, start) /\ Holds(bits, at + 40, main)
  BY <1>1, <1>2, <1>9, HoldsConcat
<1>11. /\ at + ((40 + T!ItemBits(p)) + 5) = at + 40 + T!ItemBits(p) + 5
      /\ at + (40 + T!ItemBits(p)) = at + 40 + T!ItemBits(p)
  BY <1>2
<1> QED
  BY <1>8, <1>9, <1>10, <1>11 DEF start, main, count, items

\* The first five fields of a packet are read as they were posted.
LEMMA StartRead ==
  ASSUME NEW p \in T!PacketShape, T!PacketAccepted(p), NEW bits, NEW at \in Int,
         Holds(bits, at, PacketStart(p))
  PROVE  /\ T!Value(bits, at, 8) = p.packet /\ T!Value(bits, at + 8, 2) = p.q_dir
         /\ T!Value(bits, at + 10, 13) = p.l_packet /\ T!Value(bits, at + 23, 2) = p.q_scale
         /\ T!Value(bits, at + 25, 15) = p.d_leveltr
<1> DEFINE start == PacketStart(p)
<1>1. /\ start[1] = <<p.packet, 8>> /\ start[2] = <<p.q_dir, 2>> /\ start[3] = <<p.l_packet, 13>>
      /\ start[4] = <<p.q_scale, 2>> /\ start[5] = <<p.d_leveltr, 15>>
  BY DEF PacketStart
<1>2. /\ T!Coded(p.packet, 8) /\ T!Coded(p.q_dir, 2) /\ T!Coded(p.l_packet, 13)
      /\ T!Coded(p.q_scale, 2) /\ T!Coded(p.d_leveltr, 15)
  <2>1. T!Coded(41, 8)
    BY Powers DEF T!Coded
  <2> QED
    BY <2>1 DEF T!PacketAccepted
<1>3. start \in Seq(CodedFields) /\ Len(start) = 5
  BY StartWidth
<1>4. PICK g : /\ Sums(g, Widths(start), 5)
               /\ g[0] = 0 /\ g[1] = 8 /\ g[2] = 10 /\ g[3] = 23 /\ g[4] = 25
  BY StartWidth
<1> HIDE DEF start
<1>5. \A i \in 1..5 : i = 1 \/ i = 2 \/ i = 3 \/ i = 4 \/ i = 5
  OBVIOUS
<1>6. \A i \in 1..5 : start[i][2] \in 1..15 /\ T!Coded(start[i][1], start[i][2])
  <2>1. 8 \in 1..15 /\ 2 \in 1..15 /\ 13 \in 1..15 /\ 15 \in 1..15
    OBVIOUS
  <2>2. /\ start[1][1] = p.packet /\ start[1][2] = 8 /\ start[2][1] = p.q_dir /\ start[2][2] = 2
        /\ start[3][1] = p.l_packet /\ start[3][2] = 13
        /\ start[4][1] = p.q_scale /\ start[4][2] = 2
        /\ start[5][1] = p.d_leveltr /\ start[5][2] = 15
    BY <1>1
  <2> QED
    BY <1>2, <1>5, <2>1, <2>2, Zenon
<1>7. \A i \in 1..5 : T!Value(bits, at + g[i - 1], start[i][2]) = start[i][1]
  <2>1. Holds(bits, at, start)
    BY DEF start
  <2>2. Sums(g, Widths(start), Len(start))
    BY <1>3, <1>4
  <2>3. Fit(start)
    BY <1>3, <1>6 DEF Fit
  <2>4. ReadsAs(bits, at, g, start)
    BY <1>3, <2>1, <2>2, <2>3, FieldsRead
  <2> QED
    BY <1>3, <2>4 DEF ReadsAs
<1>8. at + 0 = at
  OBVIOUS
<1>9. T!Value(bits, at + 0, 8) = p.packet
  <2>1. 1 \in 1..5 /\ 1 - 1 = 0
    OBVIOUS
  <2> QED
    BY <1>1, <1>4, <1>7, <2>1
<1>10. T!Value(bits, at + 8, 2) = p.q_dir
  <2>1. 2 \in 1..5 /\ 2 - 1 = 1
    OBVIOUS
  <2> QED
    BY <1>1, <1>4, <1>7, <2>1
<1>11. T!Value(bits, at + 10, 13) = p.l_packet
  <2>1. 3 \in 1..5 /\ 3 - 1 = 2
    OBVIOUS
  <2> QED
    BY <1>1, <1>4, <1>7, <2>1
<1>12. T!Value(bits, at + 23, 2) = p.q_scale
  <2>1. 4 \in 1..5 /\ 4 - 1 = 3
    OBVIOUS
  <2> QED
    BY <1>1, <1>4, <1>7, <2>1
<1>13. T!Value(bits, at + 25, 15) = p.d_leveltr
  <2>1. 5 \in 1..5 /\ 5 - 1 = 4
    OBVIOUS
  <2> QED
    BY <1>1, <1>4, <1>7, <2>1
<1> QED
  BY <1>8, <1>9, <1>10, <1>11, <1>12, <1>13

\* A packet whose N_ITER is the number of its items is read as it was posted.
LEMMA PacketRead ==
  ASSUME NEW p \in T!PacketShape, T!PacketAccepted(p), p.n_iter = Len(p.transitions),
         NEW bits, NEW at \in Int, Holds(bits, at, T!PacketFields(p))
  PROVE  T!ReadPacket(bits, at) = p
<1> DEFINE items == p.transitions
           n == Len(items)
           here == at + 40 + T!ItemBits(p)
           main == T!ReadItem(bits, at + 40)
<1>1. /\ Holds(bits, at, PacketStart(p)) /\ Holds(bits, at + 40, T!ItemFields(p))
      /\ Holds(bits, here, <<<<p.n_iter, 5>>>>)
      /\ Holds(bits, here + 5, T!FlattenSeq(ItemParts(p)))
  BY PacketHeld
<1>2. /\ T!ItemBits(p) \in Int /\ ItemParts(p) \in Seq(Seq(CodedFields))
      /\ Len(ItemParts(p)) = n /\ Measures(WidthOf, ItemParts(p)) = ItemSizes(p)
  BY PacketParts
<1>3. at + 40 \in Int /\ here \in Int /\ here + 5 \in Int
  BY <1>2
<1>4. /\ main.item = [m_leveltr |-> p.m_leveltr, nid_stm |-> p.nid_stm,
                      l_ackleveltr |-> p.l_ackleveltr]
      /\ main.next = here
  BY <1>1, <1>3, PacketItems, ItemRead
<1>5. T!Value(bits, here, 5) = n
  <2>1. 5 \in 1..15 /\ p.n_iter \in Int /\ T!Coded(p.n_iter, 5)
    BY PacketTypes DEF T!PacketAccepted
  <2> QED
    BY <1>1, <1>3, <2>1, FieldRead, Zenon
<1>6. items \in Seq(T!ItemShape) /\ DOMAIN items = 1..n
  BY PacketTypes
<1>7. PICK g : Sums(g, ItemSizes(p), n)
  <2>1. ItemSizes(p) \in Seq(Int) /\ Len(ItemSizes(p)) = n
    <3>1. \A i \in 1..n : T!ItemBits(items[i]) \in Int
      BY DEF T!ItemBits
    <3>2. ItemSizes(p) = [i \in 1..n |-> T!ItemBits(items[i])]
      BY <1>6 DEF ItemSizes
    <3>3. n \in Nat
      BY <1>6
    <3> HIDE DEF n, items
    <3> QED
      BY <3>1, <3>2, <3>3
  <2> QED
    BY <2>1, SumsExist
<1>8. \A i \in 1..n : Holds(bits, (here + 5) + g[i - 1], T!ItemFields(items[i]))
  <2>1. \A i \in 1..n : Holds(bits, (here + 5) + g[i - 1], ItemParts(p)[i])
    <3>1. Sums(g, Measures(WidthOf, ItemParts(p)), Len(ItemParts(p)))
      BY <1>2, <1>7
    <3> HIDE DEF here, n
    <3> QED
      BY <1>1, <1>2, <1>3, <3>1, HoldsParts
  <2>2. \A i \in 1..n : ItemParts(p)[i] = T!ItemFields(items[i])
    BY <1>6 DEF ItemParts
  <2> HIDE DEF here, n, items
  <2> QED
    BY <2>1, <2>2
<1>9. T!ReadItems(bits, here + 5, n) = items
  <2>1. \A i \in 1..n : T!ItemAccepted(items[i])
    BY <1>6, PacketItems
  <2>2. Sums(g, [i \in DOMAIN items |-> T!ItemBits(items[i])], n)
    BY <1>7 DEF ItemSizes
  <2> HIDE DEF here, items
  <2> QED
    BY <1>3, <1>6, <1>8, <2>1, <2>2, ItemsRead
<1>10. /\ T!Value(bits, at, 8) = p.packet /\ T!Value(bits, at + 8, 2) = p.q_dir
       /\ T!Value(bits, at + 10, 13) = p.l_packet /\ T!Value(bits, at + 23, 2) = p.q_scale
       /\ T!Value(bits, at + 25, 15) = p.d_leveltr
  BY <1>1, StartRead
<1>11. T!ReadPacket(bits, at) =
         [packet |-> T!Value(bits, at, 8), q_dir |-> T!Value(bits, at + 8, 2),
          l_packet |-> T!Value(bits, at + 10, 13), q_scale |-> T!Value(bits, at + 23, 2),
          d_leveltr |-> T!Value(bits, at + 25, 15), m_leveltr |-> main.item.m_leveltr,
          nid_stm |-> main.item.nid_stm, l_ackleveltr |-> main.item.l_ackleveltr,
          n_iter |-> T!Value(bits, main.next, 5),
          transitions |-> T!ReadItems(bits, main.next + 5, T!Value(bits, main.next, 5))]
  BY Zenon DEF T!ReadPacket
<1> HIDE DEF main, here
<1>12. /\ main.item.m_leveltr = p.m_leveltr /\ main.item.nid_stm = p.nid_stm
       /\ main.item.l_ackleveltr = p.l_ackleveltr
  BY <1>4
<1>13. /\ T!Value(bits, main.next, 5) = p.n_iter
       /\ T!ReadItems(bits, main.next + 5, T!Value(bits, main.next, 5)) = p.transitions
  BY <1>4, <1>5, <1>9, Zenon
<1>14. p = [packet |-> p.packet, q_dir |-> p.q_dir, l_packet |-> p.l_packet, q_scale |-> p.q_scale,
            d_leveltr |-> p.d_leveltr, m_leveltr |-> p.m_leveltr, nid_stm |-> p.nid_stm,
            l_ackleveltr |-> p.l_ackleveltr, n_iter |-> p.n_iter,
            transitions |-> p.transitions]
  BY DEF T!PacketShape
<1> QED
  BY <1>10, <1>11, <1>12, <1>13, <1>14, Zenon

\* The header is read as it was posted.
LEMMA HeaderRead ==
  ASSUME NEW t \in T!TelegramShape, T!Accepted(t), NEW bits, Holds(bits, 1, T!HeaderFields(t))
  PROVE  T!ReadHeader(bits) = t.header
<1> DEFINE w == T!HeaderWidths
           fields == T!HeaderFields(t)
           starts == CHOOSE starts : starts = [i \in DOMAIN w |->
                       IF i = 1 THEN 1 ELSE starts[i - 1] + w[i - 1]]
<1>1. /\ DOMAIN w = 1..10
      /\ w[1] = 1 /\ w[2] = 7 /\ w[3] = 1 /\ w[4] = 3 /\ w[5] = 3
      /\ w[6] = 2 /\ w[7] = 8 /\ w[8] = 10 /\ w[9] = 14 /\ w[10] = 1
  BY DEF T!HeaderWidths
<1>2. \A i \in 1..10 : w[i] \in 1..15
  BY <1>1
<1>3. /\ t.header = [i \in 1..10 |-> t.header[i]] /\ \A i \in 1..10 : T!Coded(t.header[i], w[i])
  BY <1>1 DEF T!TelegramShape, T!Accepted
<1>4. \A i \in 1..10 : fields[i] = <<t.header[i], w[i]>>
  BY <1>1 DEF T!HeaderFields
<1>5. fields \in Seq(CodedFields) /\ Len(fields) = 10
  BY HeaderWidth
<1>6. PICK g : Sums(g, Widths(fields), 10)
  BY HeaderWidth
<1>7. T!ReadHeader(bits) = [i \in DOMAIN w |-> T!Value(bits, starts[i], w[i])]
  BY Zenon DEF T!ReadHeader
<1>8. Holds(bits, 1, fields)
  OBVIOUS
<1> HIDE DEF w, fields
<1>9. \A i \in 1..10 : fields[i][1] = t.header[i] /\ fields[i][2] = w[i]
  BY <1>4
<1>10. \A i \in 1..10 : T!Value(bits, 1 + g[i - 1], fields[i][2]) = fields[i][1]
  <2>1. \A i \in 1..10 : fields[i][2] \in 1..15 /\ T!Coded(fields[i][1], fields[i][2])
    BY <1>2, <1>3, <1>9, Zenon
  <2>2. 1 \in Int
    OBVIOUS
  <2>3. Sums(g, Widths(fields), Len(fields))
    BY <1>5, <1>6
  <2>4. Fit(fields)
    BY <1>5, <2>1 DEF Fit
  <2>5. ReadsAs(bits, 1, g, fields)
    BY <1>5, <1>8, <2>2, <2>3, <2>4, FieldsRead
  <2> QED
    BY <1>5, <2>5 DEF ReadsAs
<1>11. g[0] = 0 /\ \A i \in 1..10 : g[i - 1] \in Int /\ g[i] = g[i - 1] + w[i]
  <2>1. \A i \in 1..10 : i - 1 \in 0..10
    OBVIOUS
  <2>2. \A i \in 1..10 : Widths(fields)[i] = w[i]
    BY <1>5, <1>9, WidthsFact
  <2> QED
    BY <1>6, <2>1, <2>2 DEF Sums
<1> DEFINE h == [i \in 1..10 |-> 1 + g[i - 1]]
<1>12. \A i \in 1..10 : h[i] = IF i = 1 THEN 1 ELSE h[i - 1] + w[i - 1]
  <2> SUFFICES ASSUME NEW i \in 1..10 PROVE h[i] = IF i = 1 THEN 1 ELSE h[i - 1] + w[i - 1]
    OBVIOUS
  <2>1. CASE i = 1
    BY <1>11, <2>1
  <2>2. CASE i # 1
    <3>1. i - 1 \in 1..10
      BY <2>2
    <3>2. h[i] = 1 + g[i - 1] /\ h[i - 1] = 1 + g[(i - 1) - 1]
      BY <3>1
    <3>3. g[i - 1] = g[(i - 1) - 1] + w[i - 1] /\ g[(i - 1) - 1] \in Int
      BY <1>11, <3>1
    <3>4. w[i - 1] \in Int
      BY <1>2, <3>1
    <3> HIDE DEF h
    <3> QED
      BY <2>2, <3>2, <3>3, <3>4
  <2> QED
    BY <2>1, <2>2
<1>13. starts = [i \in 1..10 |-> IF i = 1 THEN 1 ELSE starts[i - 1] + w[i - 1]]
  <2>1. h = [i \in 1..10 |-> h[i]]
    OBVIOUS
  <2> HIDE DEF h
  <2>2. h = [i \in 1..10 |-> IF i = 1 THEN 1 ELSE h[i - 1] + w[i - 1]]
    BY <1>12, <2>1, Zenon
  <2> QED
    BY <1>1, <2>2, Zenon
<1> HIDE DEF starts
<1> DEFINE K == {i \in 0..9 : starts[i + 1] = 1 + g[i]}
<1>14. \A i \in 0..9 : i \in K
  <2>1. 0 \in K
    <3>1. 0 + 1 \in 1..10 /\ 0 + 1 = 1 /\ 1 + 0 = 1 /\ 0 \in 0..9
      OBVIOUS
    <3>2. starts[0 + 1] = 1
      BY <1>13, <3>1, Zenon
    <3> QED
      BY <1>11, <3>1, <3>2
  <2>2. ASSUME NEW i \in 1..9, i - 1 \in K PROVE i \in K
    <3>1. /\ i + 1 \in 1..10 /\ i + 1 # 1 /\ (i + 1) - 1 = i /\ (i - 1) + 1 = i /\ i \in 1..10
          /\ i \in 0..9
      OBVIOUS
    <3>2. starts[i + 1] = starts[i] + w[i]
      BY <1>13, <3>1, Zenon
    <3>3. starts[i] = 1 + g[i - 1]
      BY <2>2, <3>1
    <3>4. g[i] = g[i - 1] + w[i] /\ g[i - 1] \in Int /\ w[i] \in Int
      BY <1>2, <1>11, <3>1
    <3>5. starts[i + 1] = 1 + g[i]
      BY <3>2, <3>3, <3>4
    <3> QED
      BY <3>1, <3>5
  <2> HIDE DEF K
  <2> QED
    BY <2>1, <2>2, UpTo
<1>15. \A i \in 1..10 : starts[i] = 1 + g[i - 1]
  <2>1. \A i \in 1..10 : i - 1 \in 0..9 /\ (i - 1) + 1 = i
    OBVIOUS
  <2>2. \A i \in 1..10 : starts[(i - 1) + 1] = 1 + g[i - 1]
    BY <1>14, <2>1
  <2> QED
    BY <2>1, <2>2
<1>16. \A i \in 1..10 : T!Value(bits, starts[i], w[i]) = t.header[i]
  BY <1>9, <1>10, <1>15, Zenon
<1> QED
  BY <1>1, <1>3, <1>7, <1>16, Zenon

\* The packets of a telegram whose lengths are consistent are read as they were
\* posted: the reader steps from one to the next and stops behind the last.
LEMMA PacketsRead ==
  ASSUME NEW t \in T!TelegramShape, T!Accepted(t), T!Consistent(t), NEW bits,
         Len(bits) \in Nat, T!BitsOfPackets(t) <= Len(bits),
         Holds(bits, 51, T!FlattenSeq(TelegramParts(t))),
         Holds(bits, 51 + T!BitsOfPackets(t), End)
  PROVE  T!ReadPackets(bits) = t.packets
<1> DEFINE packets == t.packets
           n == Len(packets)
           N == Len(bits)
           starts == CHOOSE starts : starts = [i \in 0..N |->
                       IF i = 0 THEN 51 ELSE T!Behind(bits, starts[i - 1])]
           Stops(k) == T!Ended(bits, starts[k]) /\ \A i \in 0..(k - 1) : ~T!Ended(bits, starts[i])
           count == CHOOSE k \in DOMAIN starts : Stops(k)
<1>1. T!ReadPackets(bits) = [i \in 1..count |-> T!ReadPacket(bits, starts[i - 1])]
  BY Zenon DEF T!ReadPackets
<1>2. /\ \A i \in 1..n : packets[i] \in T!PacketShape /\ T!PacketAccepted(packets[i])
      /\ DOMAIN packets = 1..n /\ n \in Nat
      /\ TelegramParts(t) \in Seq(Seq(CodedFields)) /\ Len(TelegramParts(t)) = n
      /\ Measures(WidthOf, TelegramParts(t)) = PacketSizes(t)
      /\ T!BitsOfPackets(t) \in Int /\ T!BitsOfPackets(t) = T!Total(PacketSizes(t))
  BY PacketsWidth DEF T!BitsOfPackets, PacketSizes
<1>3. \A i \in 1..n : /\ packets[i].n_iter = Len(packets[i].transitions)
                      /\ packets[i].l_packet = T!BitsBehindLPacket(packets[i])
                      /\ packets[i].packet = 41 /\ packets[i].l_packet \in Nat
  <2>1. \A i \in 1..n : packets[i].packet = 41 /\ T!Coded(packets[i].l_packet, 13)
    <3> SUFFICES ASSUME NEW i \in 1..n
                 PROVE  packets[i].packet = 41 /\ T!Coded(packets[i].l_packet, 13)
      OBVIOUS
    <3>1. T!PacketAccepted(packets[i])
      BY <1>2
    <3> HIDE DEF packets
    <3> QED
      BY <3>1 DEF T!PacketAccepted
  <2>2. \A i \in 1..n : packets[i].l_packet \in Int
    <3> SUFFICES ASSUME NEW i \in 1..n PROVE packets[i].l_packet \in Int
      OBVIOUS
    <3>1. packets[i] \in T!PacketShape
      BY <1>2
    <3> HIDE DEF packets
    <3> QED
      BY <3>1, PacketTypes
  <2> QED
    <3>1. \A i \in 1..n : /\ packets[i].n_iter = Len(packets[i].transitions)
                          /\ packets[i].l_packet = T!BitsBehindLPacket(packets[i])
      BY <1>2, Zenon DEF T!Consistent
    <3>2. \A i \in 1..n : packets[i].l_packet \in Nat
      <4>1. \A i \in 1..n : 0 <= packets[i].l_packet
        BY <2>1, Zenon DEF T!Coded
      <4> HIDE DEF packets, n
      <4> QED
        BY <2>2, <4>1
    <3> QED
      BY <2>1, <3>1, <3>2, Zenon
<1>4. PacketSizes(t) \in Seq(Int) /\ Len(PacketSizes(t)) = n
      /\ \A i \in 1..n : PacketSizes(t)[i] = 23 + packets[i].l_packet
  <2>1. PacketSizes(t) = [i \in 1..n |-> 23 + packets[i].l_packet]
    BY <1>2, <1>3 DEF PacketSizes
  <2>2. \A i \in 1..n : 23 + packets[i].l_packet \in Int
    BY <1>3
  <2> HIDE DEF packets, n
  <2> QED
    BY <1>2, <2>1, <2>2
<1>5. PICK g : Sums(g, PacketSizes(t), n) /\ T!BitsOfPackets(t) = g[n]
  BY <1>2, <1>4, TotalFact
<1> HIDE DEF packets, n, N, starts, count
<1>6. \A i \in 1..n : Holds(bits, 51 + g[i - 1], T!PacketFields(packets[i]))
  <2>1. \A i \in 1..n : TelegramParts(t)[i] = T!PacketFields(packets[i])
    BY <1>2 DEF TelegramParts, packets
  <2>2. 51 \in Int
    OBVIOUS
  <2>3. Sums(g, Measures(WidthOf, TelegramParts(t)), Len(TelegramParts(t)))
    BY <1>2, <1>5
  <2>4. \A i \in 1..Len(TelegramParts(t)) : Holds(bits, 51 + g[i - 1], TelegramParts(t)[i])
    BY <1>2, <2>2, <2>3, HoldsParts
  <2> QED
    BY <1>2, <2>1, <2>4
<1>7. /\ g \in [0..n -> Int] /\ g[0] = 0
      /\ \A i \in 1..n : g[i] = g[i - 1] + (23 + packets[i].l_packet)
  BY <1>4, <1>5 DEF Sums
<1>8. \A i \in 1..n : i - 1 \in 0..n /\ i \in 0..n /\ g[i - 1] \in Int /\ g[i] \in Int
  <2>1. \A i \in 1..n : i - 1 \in 0..n /\ i \in 0..n
    BY <1>2
  <2> QED
    BY <1>7, <2>1
<1>9. ASSUME NEW i \in 1..n
      PROVE  /\ ~T!Ended(bits, 51 + g[i - 1])
             /\ T!Behind(bits, 51 + g[i - 1]) = 51 + g[i]
             /\ T!ReadPacket(bits, 51 + g[i - 1]) = packets[i]
  <2> DEFINE p == packets[i]
             at == 51 + g[i - 1]
  <2>1. p \in T!PacketShape /\ T!PacketAccepted(p) /\ p.n_iter = Len(p.transitions)
        /\ p.packet = 41 /\ p.l_packet \in Nat
    BY <1>2, <1>3
  <2>2. at \in Int /\ Holds(bits, at, T!PacketFields(p))
    BY <1>6, <1>8
  <2>3. g[i] = g[i - 1] + (23 + p.l_packet) /\ g[i - 1] \in Int
    BY <1>7, <1>8
  <2> HIDE DEF p, at
  <2>4. T!ReadPacket(bits, at) = p
    BY <2>1, <2>2, PacketRead
  <2>5. T!Value(bits, at, 8) = 41 /\ T!Value(bits, at + 10, 13) = p.l_packet
    <3>1. Holds(bits, at, PacketStart(p))
      BY <2>1, <2>2, PacketHeld
    <3> QED
      BY <2>1, <2>2, <3>1, StartRead
  <2>6. ~T!Ended(bits, at)
    BY <2>5 DEF T!Ended, T!EotBits, T!EotValue
  <2>7. T!Behind(bits, at) = at + 23 + p.l_packet
    <3>1. T!Behind(bits, at) = at + 23 + T!Value(bits, at + 10, 13)
      BY <2>6, Zenon DEF T!Behind
    <3> QED
      BY <2>5, <3>1
  <2>8. at + 23 + p.l_packet = 51 + g[i]
    <3> DEFINE l == p.l_packet
               x == g[i - 1]
               y == g[i]
    <3>1. y = x + (23 + l) /\ x \in Int /\ l \in Nat /\ at = 51 + x
      BY <2>1, <2>3, Zenon DEF at
    <3> HIDE DEF l, x, y
    <3>2. at + 23 + l = 51 + y
      BY <3>1
    <3> QED
      BY <3>2 DEF l, y
  <2> QED
    BY <2>4, <2>6, <2>7, <2>8 DEF p, at
<1>10. T!Ended(bits, 51 + g[n])
  <2>1. T!Coded(255, 8)
    BY Powers DEF T!Coded
  <2>2. n \in 0..n
    BY <1>2
  <2>3. 51 + g[n] \in Int /\ 255 \in Int /\ 8 \in 1..15
    BY <1>7, <2>2
  <2>4. Holds(bits, 51 + g[n], <<<<255, 8>>>>)
    BY <1>5 DEF End
  <2>5. T!Value(bits, 51 + g[n], 8) = 255
    <3> DEFINE v == 255
               w == 8
               at == 51 + g[n]
    <3>1. /\ T!Coded(v, w) /\ v \in Int /\ w \in 1..15 /\ at \in Int
          /\ Holds(bits, at, <<<<v, w>>>>)
      BY <2>1, <2>3, <2>4
    <3> HIDE DEF v, w, at
    <3>2. T!Value(bits, at, w) = v
      BY <3>1, FieldRead
    <3> QED
      BY <3>2 DEF v, w, at
  <2> QED
    BY <2>5 DEF T!Ended, T!EotBits, T!EotValue
<1>11. n <= N /\ N \in Nat
  <2> DEFINE K == {i \in 0..n : i <= g[i]}
  <2>1. 0 \in K
    BY <1>2, <1>7
  <2>2. ASSUME NEW i \in 1..n, i - 1 \in K PROVE i \in K
    <3>1. g[i] = g[i - 1] + (23 + packets[i].l_packet)
      BY <1>7
    <3>2. packets[i].l_packet \in Nat /\ g[i - 1] \in Int /\ i \in 0..n
      BY <1>3, <1>8
    <3>3. i - 1 <= g[i - 1]
      BY <2>2
    <3>4. i <= g[i]
      BY <3>1, <3>2, <3>3
    <3> QED
      BY <3>2, <3>4
  <2> HIDE DEF K
  <2>3. \A i \in 0..n : i \in K
    BY <1>2, <2>1, <2>2, UpTo
  <2>4. n \in K
    BY <1>2, <2>3
  <2>5. n <= g[n]
    BY <2>4 DEF K
  <2> QED
    BY <1>2, <1>5, <2>5 DEF N
<1> DEFINE h == [i \in 0..N |-> IF i <= n THEN 51 + g[i] ELSE 51 + g[n]]
<1>12. \A i \in 0..N : h[i] = IF i = 0 THEN 51 ELSE T!Behind(bits, h[i - 1])
  <2> SUFFICES ASSUME NEW i \in 0..N PROVE h[i] = IF i = 0 THEN 51 ELSE T!Behind(bits, h[i - 1])
    OBVIOUS
  <2>1. CASE i = 0
    BY <1>2, <1>7, <2>1
  <2>2. CASE i \in 1..n
    <3>1. i <= n /\ i - 1 <= n /\ i - 1 \in 0..N /\ i # 0
      BY <1>2, <1>11, <2>2
    <3>2. h[i] = 51 + g[i] /\ h[i - 1] = 51 + g[i - 1]
      BY <3>1
    <3> HIDE DEF h
    <3> QED
      BY <1>9, <2>2, <3>1, <3>2
  <2>3. CASE i # 0 /\ ~(i <= n)
    <3>1. i - 1 \in 0..N /\ (i - 1 <= n => i - 1 = n)
      BY <1>2, <1>11, <2>3
    <3>2. h[i] = 51 + g[n] /\ h[i - 1] = 51 + g[n]
      BY <2>3, <3>1
    <3> HIDE DEF h
    <3>3. T!Behind(bits, 51 + g[n]) = 51 + g[n]
      BY <1>10 DEF T!Behind
    <3> QED
      BY <2>3, <3>2, <3>3
  <2>4. i = 0 \/ i \in 1..n \/ (i # 0 /\ ~(i <= n))
    BY <1>2, <1>11
  <2> QED
    BY <2>1, <2>2, <2>3, <2>4
<1>13. starts = [i \in 0..N |-> IF i = 0 THEN 51 ELSE T!Behind(bits, starts[i - 1])]
  <2>1. h = [i \in 0..N |-> h[i]]
    OBVIOUS
  <2> HIDE DEF h
  <2>2. h = [i \in 0..N |-> IF i = 0 THEN 51 ELSE T!Behind(bits, h[i - 1])]
    BY <1>12, <2>1, Zenon
  <2> QED
    BY <2>2, Zenon DEF starts
<1> DEFINE K == {i \in 0..n : starts[i] = 51 + g[i]}
<1>14. \A i \in 0..n : i \in K
  <2>1. 0 \in K
    <3>1. 0 \in 0..N /\ 0 \in 0..n /\ 51 + 0 = 51
      BY <1>2, <1>11
    <3>2. starts[0] = 51
      BY <1>13, <3>1, Zenon
    <3> QED
      BY <1>7, <3>1, <3>2
  <2>2. ASSUME NEW i \in 1..n, i - 1 \in K PROVE i \in K
    <3>1. i \in 0..N /\ i # 0 /\ i \in 0..n
      BY <1>2, <1>11
    <3>2. starts[i] = T!Behind(bits, starts[i - 1])
      BY <1>13, <3>1, Zenon
    <3>3. starts[i] = 51 + g[i]
      BY <1>9, <2>2, <3>2
    <3> QED
      BY <3>1, <3>3
  <2> HIDE DEF K
  <2> QED
    BY <1>2, <2>1, <2>2, UpTo
<1>15. \A i \in 1..n : starts[i - 1] = 51 + g[i - 1]
  BY <1>8, <1>14
<1>16. \A i \in 0..(n - 1) : ~T!Ended(bits, starts[i])
  <2>1. \A i \in 0..(n - 1) : i + 1 \in 1..n /\ (i + 1) - 1 = i
    BY <1>2
  <2> QED
    BY <1>9, <1>15, <2>1
<1>17. T!Ended(bits, starts[n])
  <2>1. n \in 0..n
    BY <1>2
  <2>2. starts[n] = 51 + g[n]
    BY <1>14, <2>1
  <2> QED
    BY <1>10, <2>2
<1>18. DOMAIN starts = 0..N
  BY <1>13, Zenon
<1>19. count = n
  <2>1. n \in DOMAIN starts /\ Stops(n)
    BY <1>2, <1>11, <1>16, <1>17, <1>18
  <2>2. count \in DOMAIN starts /\ Stops(count)
    BY <2>1, Zenon DEF count
  <2>3. count \in Nat
    BY <1>11, <1>18, <2>2
  <2>4. ~(count < n)
    <3> SUFFICES ASSUME count < n PROVE FALSE
      OBVIOUS
    <3>1. count \in 0..(n - 1)
      BY <1>2, <2>3
    <3> QED
      BY <2>1, <2>2, <3>1
  <2>5. ~(n < count)
    <3> SUFFICES ASSUME n < count PROVE FALSE
      OBVIOUS
    <3>1. n \in 0..(count - 1)
      BY <1>2, <2>3
    <3> QED
      BY <2>1, <2>2, <3>1
  <2> QED
    BY <1>2, <2>3, <2>4, <2>5
<1>20. \A i \in 1..n : T!ReadPacket(bits, starts[i - 1]) = packets[i]
  BY <1>9, <1>15
<1>21. packets = [i \in 1..n |-> packets[i]]
  <2>1. packets \in Seq(T!PacketShape)
    BY DEF T!TelegramShape, packets
  <2> QED
    BY <1>2, <2>1
<1> QED
  BY <1>1, <1>19, <1>20, <1>21, Zenon DEF packets

\* The frame of a telegram with consistent lengths reads back as the telegram.
LEMMA FrameRead ==
  ASSUME NEW t \in T!TelegramShape, T!Consistent(t), NEW frame \in T!EncodeTelegram(t)
  PROVE  T!ReadHeader(frame) = t.header /\ T!ReadPackets(frame) = t.packets
<1> DEFINE fields == T!Fields(t)
           bits == T!Written(fields)
           zeros == [i \in 1..(8 * T!FrameBytes - Len(bits)) |-> 0]
           header == T!HeaderFields(t)
           packets == T!FlattenSeq(TelegramParts(t))
<1>1. T!Accepted(t) /\ T!Fits(bits) /\ frame = T!Padded(bits)
  <2>1. T!EncodeTelegram(t) = IF T!Accepted(t) /\ T!Fits(bits) THEN {T!Padded(bits)} ELSE {}
    BY Zenon DEF T!EncodeTelegram
  <2> HIDE DEF bits
  <2> QED
    BY <2>1
<1>2. /\ fields \in Seq(CodedFields)
      /\ header \in Seq(CodedFields) /\ WidthOf[header] = 50
      /\ packets \in Seq(CodedFields) /\ WidthOf[packets] = T!BitsOfPackets(t)
      /\ End \in Seq(CodedFields) /\ T!BitsOfPackets(t) \in Int
  <2>1. End \in Seq(CodedFields) /\ WidthOf[End] = 8
    BY WidthOne DEF End
  <2> QED
    BY <1>1, <2>1, TelegramWidth, HeaderWidth, PacketsWidth
<1>3. bits \in Seq(Bits)
  BY <1>2, WrittenLength
<1>4. frame = bits \o zeros
  BY <1>1 DEF T!Padded
<1>5. zeros \in Seq({0})
  <2>1. Len(bits) \in Nat /\ Len(bits) <= 830
    BY <1>1, <1>3 DEF T!Fits, T!FrameBits
  <2> HIDE DEF bits
  <2> QED
    BY <2>1 DEF T!FrameBytes
<1>6. fields = header \o packets \o End
  BY DEF T!Fields, T!EotValue, T!EotBits, TelegramParts, End
<1> HIDE DEF fields, bits, zeros, header, packets
<1>7. Holds(frame, 1, fields)
  <2>1. bits \in Seq(Bits \cup {0}) /\ zeros \in Seq(Bits \cup {0}) /\ 1 \in Int
    BY <1>3, <1>5, SeqMonotonic
  <2>2. Carries(frame, 1, bits \o zeros)
    <3>1. \A j \in 1..Len(frame) : 1 + j - 1 = j
      <4>1. frame \in Seq(Bits \cup {0})
        BY <1>4, <2>1, ConcatProperties
      <4> QED
        BY <4>1
    <3> QED
      BY <1>4, <3>1 DEF Carries
  <2>3. Carries(frame, 1, bits)
    BY <2>1, <2>2, CarriesConcat
  <2> QED
    BY <2>3 DEF Holds, bits
<1>8. header \o packets \in Seq(CodedFields) /\ WidthOf[header \o packets] = 50 + T!BitsOfPackets(t)
  BY <1>2, WidthConcat
<1>9. /\ Holds(frame, 1, header \o packets)
      /\ Holds(frame, 1 + (50 + T!BitsOfPackets(t)), End)
  <2> DEFINE x == header \o packets
  <2>1. x \in Seq(CodedFields) /\ WidthOf[x] = 50 + T!BitsOfPackets(t) /\ 1 \in Int
    BY <1>8
  <2>2. Holds(frame, 1, x \o End)
    BY <1>6, <1>7
  <2> HIDE DEF x
  <2>3. Holds(frame, 1, x) /\ Holds(frame, 1 + WidthOf[x], End)
    BY <1>2, <2>1, <2>2, HoldsConcat
  <2> QED
    BY <2>1, <2>3 DEF x
<1>10. Holds(frame, 1, header) /\ Holds(frame, 1 + 50, packets)
  BY <1>2, <1>9, HoldsConcat
<1>11. 1 + 50 = 51 /\ 1 + (50 + T!BitsOfPackets(t)) = 51 + T!BitsOfPackets(t)
  BY <1>2
<1>12. Len(frame) \in Nat /\ T!BitsOfPackets(t) <= Len(frame)
  <2>1. T!EncodeTelegram(t) # {} /\ Len(frame) = 8 * T!FrameBytes
    BY FrameFact
  <2>2. T!BitsOfPackets(t) <= T!UserPacketAreaBits
    BY <1>1, <2>1, FrameFact
  <2> QED
    BY <1>2, <2>1, <2>2 DEF T!FrameBytes, T!UserPacketAreaBits
<1>13. T!ReadHeader(frame) = t.header
  BY <1>1, <1>10, HeaderRead DEF header
<1>14. T!ReadPackets(frame) = t.packets
  <2>1. Holds(frame, 51, packets) /\ Holds(frame, 51 + T!BitsOfPackets(t), End)
    BY <1>9, <1>10, <1>11
  <2> QED
    BY <1>1, <1>12, <2>1, PacketsRead DEF packets
<1> QED
  BY <1>13, <1>14

\* Whatever telegrams are posted, the frame of one whose lengths are consistent reads
\* back field by field: nothing that _encode_packet41 and BitWriter do loses a value,
\* for every presence of the conditional fields and any number of packets.
THEOREM FramesReadBack == RestSpec => []FrameReadsBack
<1>1. RestInv => FrameReadsBack
  <2> SUFFICES ASSUME RestInv, NEW k \in Clients, NEW t \in Posted(k),
                      NEW frame \in http[k].frame, T!Consistent(t)
               PROVE  T!ReadHeader(frame) = t.header /\ T!ReadPackets(frame) = t.packets
    BY Zenon DEF FrameReadsBack
  <2>1. t \in T!TelegramShape /\ frame \in T!EncodeTelegram(t)
    BY FrameOfPosted, Zenon
  <2> QED
    BY <2>1, FrameRead
<1> QED
  BY <1>1, RestInvariance, PTL

\* No two telegrams with consistent lengths share a frame: what a BTM delivers says
\* which telegram was posted.
THEOREM FramesDiffer ==
  ASSUME NEW t \in T!TelegramShape, NEW u \in T!TelegramShape,
         T!Consistent(t), T!Consistent(u),
         NEW frame \in T!EncodeTelegram(t), frame \in T!EncodeTelegram(u)
  PROVE  t = u
<1>1. T!ReadHeader(frame) = t.header /\ T!ReadPackets(frame) = t.packets
  BY FrameRead
<1>2. T!ReadHeader(frame) = u.header /\ T!ReadPackets(frame) = u.packets
  BY FrameRead
<1>3. /\ t = [header |-> t.header, packets |-> t.packets]
      /\ u = [header |-> u.header, packets |-> u.packets]
  BY DEF T!TelegramShape
<1> QED
  BY <1>1, <1>2, <1>3, Zenon
=============================================================================
