--------------------------- MODULE SimulationCore ---------------------------
(***************************************************************************)
(* simulation/core.py: the single owner of the simulated world.            *)
(*                                                                         *)
(* Clients (HTTP handlers, ATP sessions, switch-logic sockets) put         *)
(* commands on one queue and await a future; run_loop() takes them off one *)
(* at a time, and while the simulation runs in a wall-clock mode it also   *)
(* converts elapsed monotonic time into fixed steps.  Every applied        *)
(* command and every fixed step publishes a snapshot to each subscriber's  *)
(* bounded queue.                                                          *)
(*                                                                         *)
(* An action is a stretch of code between two awaits, so the actions of    *)
(* different tasks interleave exactly where asyncio lets them.  Time is    *)
(* counted in integer units: FixedStep units make one fixed step, and the  *)
(* 1e-9 tolerance of the drain loop is Epsilon units.  The train is seen   *)
(* from here only as the number of steps it has taken since its last reset *)
(* and the sequence number of the last control command that changed it.    *)
(***************************************************************************)
EXTENDS Integers, Sequences, FiniteSets

CONSTANTS
  Clients,            \* tasks that submit commands
  Subscribers,        \* tasks that own a snapshot queue
  Commands,           \* the command payloads clients may submit
  FixedStep,          \* units of simulated time in one fixed step
  Epsilon,            \* tolerance of the drain loop, in units
  MinTickWait,        \* smallest wall-clock wait of a tick, in units
  SubscriberMaxsize,  \* capacity of a subscriber queue
  MaxCommands,        \* bound: commands submitted in one behaviour
  MaxNow              \* bound: value of the monotonic clock

SimulationState == {"STOPPED", "RUNNING", "PAUSED"}
TimeMode == {"REALTIME", "SCALED", "MANUAL"}

\* A multiplier that is missing, not finite or not positive is represented by
\* an integer below 1, a delta that is negative or not finite by one below 0,
\* and "accepted" says whether the train's own validation takes the payload.
CommandType ==
       [kind : {"run", "pause", "reset"}]
  \cup [kind : {"set_time_mode"}, mode : TimeMode \cup {"unknown"}, multiplier : Int]
  \cup [kind : {"step"}, delta : Int]
  \cup [kind : {"control"}, accepted : BOOLEAN]

ASSUME CoreAssumption ==
  /\ Commands \subseteq CommandType
  /\ FixedStep \in Nat \ {0}
  /\ Epsilon \in Nat /\ Epsilon < FixedStep
  /\ MinTickWait \in Nat
  /\ SubscriberMaxsize \in Nat \ {0}
  /\ MaxCommands \in Nat /\ MaxNow \in Nat

VARIABLES
  pc,               \* where run_loop is suspended
  state,
  timeMode,
  timeMultiplier,
  simulationTime,
  accumulator,
  monotonicRef,     \* a clock value, or NoRef for None
  train,
  sequence,         \* next sequence number
  results,          \* sequence numbers whose future is still registered
  commandQueue,
  latestSnapshot,
  subscribers,      \* the registered queues
  inbox,            \* their contents
  client,           \* the submitting tasks
  seen,             \* history: id of the last snapshot each subscriber took
  now,              \* time.monotonic()
  earned            \* history: simulated time the clock and step() have granted

clockVars == <<state, timeMode, timeMultiplier, simulationTime, accumulator, monotonicRef>>
worldVars == <<clockVars, train, earned>>
feedVars  == <<latestSnapshot, subscribers, inbox, seen>>
taskVars  == <<sequence, results, commandQueue, client>>
vars == <<pc, worldVars, feedVars, taskVars, now>>

NoRef == -1
NoControl == -1

-----------------------------------------------------------------------------
(* Snapshots and subscriber queues.                                        *)

\* The id numbers publications; it is not a field of the code's snapshot but
\* lets the properties speak of order and freshness.
SnapshotOf(id, st, time, mode, multiplier, world) ==
  [id |-> id, state |-> st, time |-> time, mode |-> mode,
   multiplier |-> multiplier, train |-> world]

Snapshots ==
  [id : Nat \ {0}, state : SimulationState, time : Int, mode : TimeMode,
   multiplier : Nat \ {0}, train : [steps : Nat, control : Int]]

\* Mutation: a full queue keeps what it holds and the new snapshot is lost.
OfferDropsNewest(queue, snapshots) ==
  LET all == queue \o snapshots
  IN  SubSeq(all, 1, IF Len(all) > SubscriberMaxsize THEN SubscriberMaxsize ELSE Len(all))

\* _publish_snapshot on one queue, for a run of consecutive publications: the
\* oldest entries make room.
Offer(queue, snapshots) ==
  LET all == queue \o snapshots
      excess == IF Len(all) > SubscriberMaxsize THEN Len(all) - SubscriberMaxsize ELSE 0
  IN  SubSeq(all, excess + 1, Len(all))

Publish(snapshots) ==
  /\ latestSnapshot' = snapshots[Len(snapshots)]
  /\ inbox' = [s \in Subscribers |->
                 IF s \in subscribers THEN Offer(inbox[s], snapshots) ELSE inbox[s]]
  /\ UNCHANGED <<subscribers, seen>>

-----------------------------------------------------------------------------
(* The fixed-step clock.                                                   *)

WallClockRunning == state = "RUNNING" /\ timeMode # "MANUAL"
Multiplier == IF timeMode = "SCALED" THEN timeMultiplier ELSE 1

\* Mutation: the loop compares with the whole step and forgets the remainder.
DueStepsRoundsUp(acc) == (acc + Epsilon + FixedStep - 1) \div FixedStep

\* How many steps _drain_fixed_steps runs: it stops once the accumulator is
\* below FixedStep - Epsilon.
DueSteps(acc) == (acc + Epsilon) \div FixedStep

\* The accumulator and world after n fixed steps, starting from acc.
Drain(acc, n) ==
  /\ accumulator' = acc - n * FixedStep
  /\ simulationTime' = simulationTime + n * FixedStep
  /\ train' = [train EXCEPT !.steps = @ + n]

\* The snapshots those n steps publish, one each.
StepSnapshots(n) ==
  [i \in 1..n |-> SnapshotOf(latestSnapshot.id + i, state, simulationTime + i * FixedStep,
                             timeMode, timeMultiplier,
                             [train EXCEPT !.steps = @ + i])]

-----------------------------------------------------------------------------
(* Command handlers.  c is the command, n its sequence number.             *)

ValidTimeMode(c) ==
  /\ c.mode \in TimeMode
  /\ c.mode = "SCALED" => c.multiplier > 0

\* Mutation: step() is accepted in every time mode.
AcceptedInAnyMode(c) ==
  /\ c.kind = "set_time_mode" => ValidTimeMode(c)
  /\ c.kind = "step" => c.delta >= 0
  /\ c.kind = "control" => c.accepted

\* The result's ok flag.
Accepted(c) ==
  /\ c.kind = "set_time_mode" => ValidTimeMode(c)
  /\ c.kind = "step" => timeMode = "MANUAL" /\ c.delta >= 0
  /\ c.kind = "control" => c.accepted

ApplyRun ==
  /\ IF state = "RUNNING"
     THEN UNCHANGED <<state, monotonicRef>>
     ELSE state' = "RUNNING" /\ monotonicRef' = NoRef
  /\ UNCHANGED <<timeMode, timeMultiplier, simulationTime, accumulator, train, earned>>

ApplyPause ==
  /\ IF state # "RUNNING"
     THEN UNCHANGED <<state, monotonicRef>>
     ELSE state' = "PAUSED" /\ monotonicRef' = NoRef
  /\ UNCHANGED <<timeMode, timeMultiplier, simulationTime, accumulator, train, earned>>

\* Mutation: reset forgets the train.
ApplyResetKeepsTrain ==
  /\ state' = "STOPPED" /\ simulationTime' = 0 /\ accumulator' = 0
  /\ monotonicRef' = NoRef /\ earned' = 0
  /\ UNCHANGED <<timeMode, timeMultiplier, train>>

ApplyReset ==
  /\ state' = "STOPPED"
  /\ simulationTime' = 0
  /\ accumulator' = 0
  /\ monotonicRef' = NoRef
  /\ train' = [steps |-> 0, control |-> NoControl]
  /\ earned' = 0
  /\ UNCHANGED <<timeMode, timeMultiplier>>

\* Mutation: the reference survives, so time already elapsed is converted
\* with the new multiplier.
ApplySetTimeModeKeepsRef(c) ==
  /\ timeMode' = c.mode
  /\ timeMultiplier' = IF c.mode = "SCALED" THEN c.multiplier ELSE 1
  /\ UNCHANGED <<state, simulationTime, accumulator, monotonicRef, train, earned>>

\* Mutation: the multiplier sent with another mode is stored.
ApplySetTimeModeStoresAny(c) ==
  /\ timeMode' = c.mode
  /\ timeMultiplier' = c.multiplier
  /\ monotonicRef' = NoRef
  /\ UNCHANGED <<state, simulationTime, accumulator, train, earned>>

ApplySetTimeMode(c) ==
  /\ timeMode' = c.mode
  /\ timeMultiplier' = IF c.mode = "SCALED" THEN c.multiplier ELSE 1
  /\ monotonicRef' = NoRef
  /\ UNCHANGED <<state, simulationTime, accumulator, train, earned>>

ApplyStep(c) ==
  /\ Drain(accumulator + c.delta, DueSteps(accumulator + c.delta))
  /\ earned' = earned + c.delta
  /\ UNCHANGED <<state, timeMode, timeMultiplier, monotonicRef>>

\* _apply_train_control, _apply_equipment, _apply_equipment_reset and
\* _apply_link_cuts: one call into the train.
ApplyControl(n) ==
  /\ train' = [train EXCEPT !.control = n]
  /\ UNCHANGED <<clockVars, earned>>

\* _dispatch.  A refused command leaves the clock and the lifecycle alone, but
\* the train may have applied part of a control before refusing it.
Dispatch(c, n) ==
  \/ c.kind = "run" /\ ApplyRun
  \/ c.kind = "pause" /\ ApplyPause
  \/ c.kind = "reset" /\ ApplyReset
  \/ c.kind = "set_time_mode" /\ Accepted(c) /\ ApplySetTimeMode(c)
  \/ c.kind = "step" /\ Accepted(c) /\ ApplyStep(c)
  \/ c.kind = "control" /\ ApplyControl(n)
  \/ ~Accepted(c) /\ UNCHANGED worldVars

\* Fixed steps that handling c runs before its own snapshot is published.
StepsOf(c) ==
  IF c.kind = "step" /\ Accepted(c) THEN DueSteps(accumulator + c.delta) ELSE 0

\* Mutation: only accepted commands have their future resolved.
ResolveOnlyAccepted(n, ok) ==
  /\ results' = IF ok THEN results \ {n} ELSE results
  /\ client' = [k \in Clients |->
                  IF ok /\ client[k].status = "waiting" /\ client[k].sequence = n
                  THEN [client[k] EXCEPT !.status = "answered", !.ok = ok]
                  ELSE client[k]]

\* _resolve: pop the future; a future its owner cancelled is left alone.
Resolve(n, ok) ==
  /\ results' = results \ {n}
  /\ client' = [k \in Clients |->
                  IF client[k].status = "waiting" /\ client[k].sequence = n
                  THEN [client[k] EXCEPT !.status = "answered", !.ok = ok]
                  ELSE client[k]]

\* _handle_command on the head of the queue.
HandleCommand ==
  /\ commandQueue # <<>>
  /\ LET c == Head(commandQueue).command
         n == Head(commandQueue).sequence
         k == StepsOf(c)
     IN  /\ Dispatch(c, n)
         /\ Publish(Append(StepSnapshots(k),
                           SnapshotOf(latestSnapshot.id + k + 1, state', simulationTime',
                                      timeMode', timeMultiplier', train')))
         /\ Resolve(n, Accepted(c))
  /\ commandQueue' = Tail(commandQueue)
  /\ UNCHANGED <<sequence, now>>

-----------------------------------------------------------------------------
(* run_loop.                                                               *)

\* First entry: the snapshot is rebuilt and published.
StartLoop ==
  /\ pc = "starting"
  /\ pc' = "deciding"
  /\ Publish(<<[latestSnapshot EXCEPT !.id = @ + 1]>>)
  /\ UNCHANGED <<worldVars, taskVars, now>>

\* Stopped, paused or MANUAL: block on the queue.
HandleNext ==
  /\ pc = "deciding" /\ ~WallClockRunning
  /\ HandleCommand
  /\ UNCHANGED pc

\* _tick_wall_clock up to its await.
TickWallClock ==
  /\ pc = "deciding" /\ WallClockRunning
  /\ pc' = "awaiting"
  /\ monotonicRef' = now
  /\ LET delta == IF monotonicRef = NoRef THEN 0 ELSE now - monotonicRef
         acc == accumulator + delta * Multiplier
         n == DueSteps(acc)
     IN  /\ Drain(acc, n)
         /\ IF n = 0 THEN UNCHANGED feedVars ELSE Publish(StepSnapshots(n))
  /\ UNCHANGED <<state, timeMode, timeMultiplier, earned, taskVars, now>>

\* Mutation: the remaining time is multiplied instead of divided.
WaitOverMultiplied ==
  /\ (now - monotonicRef) >= (FixedStep - accumulator) * Multiplier
  /\ now - monotonicRef >= MinTickWait

\* The wait of the current tick is over: max(remaining / multiplier, minimum).
WaitOver ==
  /\ (now - monotonicRef) * Multiplier >= FixedStep - accumulator
  /\ now - monotonicRef >= MinTickWait

\* _await_command: a command arrives in time, ...
CommandArrives ==
  /\ pc = "awaiting"
  /\ HandleCommand
  /\ pc' = "deciding"

\* ... or the timeout cancels the get; other tasks may still run before the
\* loop resumes,
TickTimeout ==
  /\ pc = "awaiting" /\ WaitOver
  /\ pc' = "timed_out"
  /\ UNCHANGED <<worldVars, feedVars, taskVars, now>>

\* so the queue is looked at once more.
RecheckQueue ==
  /\ pc = "timed_out"
  /\ pc' = "deciding"
  /\ \/ HandleCommand
     \/ commandQueue = <<>> /\ UNCHANGED <<worldVars, feedVars, taskVars, now>>

RunLoop == StartLoop \/ HandleNext \/ TickWallClock \/ CommandArrives
           \/ TickTimeout \/ RecheckQueue

-----------------------------------------------------------------------------
(* The other tasks.                                                        *)

\* _submit up to its await.
Submit(k, c) ==
  /\ client[k].status = "idle"
  /\ sequence < MaxCommands
  /\ sequence' = sequence + 1
  /\ results' = results \cup {sequence}
  /\ commandQueue' = Append(commandQueue, [sequence |-> sequence, command |-> c])
  /\ client' = [client EXCEPT ![k] = [status |-> "waiting", sequence |-> sequence, ok |-> FALSE]]
  /\ UNCHANGED <<pc, worldVars, feedVars, now>>

\* The task awaiting the future is cancelled; its command stays queued.
CancelSubmit(k) ==
  /\ client[k].status = "waiting"
  /\ client' = [client EXCEPT ![k].status = "idle"]
  /\ UNCHANGED <<pc, worldVars, feedVars, sequence, results, commandQueue, now>>

\* The task resumes with its CommandResult, after other commands perhaps.
ResumeClient(k) ==
  /\ client[k].status = "answered"
  /\ client' = [client EXCEPT ![k].status = "idle"]
  /\ UNCHANGED <<pc, worldVars, feedVars, sequence, results, commandQueue, now>>

\* Mutation: a new subscriber's queue starts empty.
SubscribeUnseeded(s) ==
  /\ s \notin subscribers
  /\ subscribers' = subscribers \cup {s}
  /\ inbox' = [inbox EXCEPT ![s] = <<>>]
  /\ seen' = [seen EXCEPT ![s] = 0]
  /\ UNCHANGED <<pc, worldVars, latestSnapshot, taskVars, now>>

Subscribe(s) ==
  /\ s \notin subscribers
  /\ subscribers' = subscribers \cup {s}
  /\ inbox' = [inbox EXCEPT ![s] = <<latestSnapshot>>]
  /\ seen' = [seen EXCEPT ![s] = 0]
  /\ UNCHANGED <<pc, worldVars, latestSnapshot, taskVars, now>>

Unsubscribe(s) ==
  /\ s \in subscribers
  /\ subscribers' = subscribers \ {s}
  /\ inbox' = [inbox EXCEPT ![s] = <<>>]
  /\ UNCHANGED <<pc, worldVars, latestSnapshot, seen, taskVars, now>>

\* The subscriber's publisher task takes the next snapshot.
Receive(s) ==
  /\ s \in subscribers /\ inbox[s] # <<>>
  /\ seen' = [seen EXCEPT ![s] = Head(inbox[s]).id]
  /\ inbox' = [inbox EXCEPT ![s] = Tail(@)]
  /\ UNCHANGED <<pc, worldVars, latestSnapshot, subscribers, taskVars, now>>

\* One unit of wall time passes.  While the wall clock drives the simulation
\* it grants one multiplier's worth of simulated time.
Elapse ==
  /\ now < MaxNow
  /\ now' = now + 1
  /\ earned' = earned + (IF WallClockRunning THEN Multiplier ELSE 0)
  /\ UNCHANGED <<pc, clockVars, train, feedVars, taskVars>>

-----------------------------------------------------------------------------
Init ==
  /\ pc = "starting"
  /\ state = "STOPPED" /\ timeMode = "MANUAL" /\ timeMultiplier = 1
  /\ simulationTime = 0 /\ accumulator = 0 /\ monotonicRef = NoRef
  /\ train = [steps |-> 0, control |-> NoControl]
  /\ sequence = 0 /\ results = {} /\ commandQueue = <<>>
  /\ latestSnapshot = SnapshotOf(1, "STOPPED", 0, "MANUAL", 1,
                                 [steps |-> 0, control |-> NoControl])
  /\ subscribers = {}
  /\ inbox = [s \in Subscribers |-> <<>>]
  /\ client = [k \in Clients |-> [status |-> "idle", sequence |-> 0, ok |-> FALSE]]
  /\ seen = [s \in Subscribers |-> 0]
  /\ now = 0 /\ earned = 0

Next ==
  \/ RunLoop
  \/ \E k \in Clients : (\E c \in Commands : Submit(k, c)) \/ CancelSubmit(k) \/ ResumeClient(k)
  \/ \E s \in Subscribers : Subscribe(s) \/ Unsubscribe(s) \/ Receive(s)
  \/ Elapse

Spec == Init /\ [][Next]_vars

\* The event loop runs every ready task, and the clock never stops (within
\* its bound).  Clients may stop submitting, and nobody must (un)subscribe.
Fairness ==
  /\ WF_vars(RunLoop)
  /\ WF_vars(Elapse)
  /\ \A k \in Clients : WF_vars(ResumeClient(k))
  /\ \A s \in Subscribers : WF_vars(Receive(s))

FairSpec == Spec /\ Fairness

-----------------------------------------------------------------------------
(* Properties.                                                             *)

ClockTypeOK ==
  /\ pc \in {"starting", "deciding", "awaiting", "timed_out"}
  /\ state \in SimulationState /\ timeMode \in TimeMode
  /\ timeMultiplier \in Nat \ {0}
  /\ simulationTime \in Int /\ accumulator \in Int
  /\ monotonicRef \in Nat \cup {NoRef}
  /\ train \in [steps : Nat, control : Int]
  /\ now \in Nat /\ earned \in Int

TaskTypeOK ==
  /\ sequence \in Nat /\ results \subseteq Nat
  /\ commandQueue \in Seq([sequence : Nat, command : Commands])
  /\ client \in [Clients -> [status : {"idle", "waiting", "answered"},
                             sequence : Nat, ok : BOOLEAN]]

FeedTypeOK ==
  /\ latestSnapshot \in Snapshots
  /\ subscribers \subseteq Subscribers
  /\ inbox \in [Subscribers -> Seq(Snapshots)]
  /\ seen \in [Subscribers -> Nat]

TypeOK == ClockTypeOK /\ TaskTypeOK /\ FeedTypeOK

\* The loop holds a monotonic reference only while the wall clock drives the
\* simulation, and while it sleeps in a tick it always holds one; every
\* handler that ends wall-clock running must clear it.
RefOnlyWhileRunning ==
  /\ monotonicRef # NoRef => WallClockRunning /\ monotonicRef <= now
  /\ pc \in {"awaiting", "timed_out"} => monotonicRef # NoRef

\* Wall time that has passed since the last tick, not converted yet.
Pending == IF monotonicRef = NoRef THEN 0 ELSE (now - monotonicRef) * Multiplier

\* Simulated time is never borrowed: what has been simulated, what waits in
\* the accumulator and what the next tick will convert never exceed what the
\* clock granted while RUNNING at the multiplier then in force, plus what
\* step() granted.  Time spent paused, stopped or in another mode never leaks
\* in (core.py clears _monotonic_ref in run, pause, reset and set_time_mode).
NoBorrowedTime == simulationTime + accumulator + Pending <= earned

\* No handler leaves a due step behind, and the tolerance of the drain loop
\* never accumulates: the accumulator stays within one step of zero however
\* many short deltas and mode changes went before.
NothingDueLeft == -Epsilon <= accumulator /\ accumulator < FixedStep - Epsilon

\* The clock and the physics agree: simulation time is exactly the steps the
\* train has taken since the last reset.
PhysicsInLockstep == simulationTime = train.steps * FixedStep

\* The queue holds exactly the commands whose futures are registered, once
\* each and in the order of their numbers, and every waiting task's command is
\* among them: no command is lost, answered twice or overtaken, also when the
\* task waiting for it is cancelled.
FuturesMatchQueue ==
  /\ \A i \in 1..Len(commandQueue) :
        commandQueue[i].sequence = sequence - Len(commandQueue) + i - 1
  /\ results = (sequence - Len(commandQueue)) .. (sequence - 1)
  /\ \A k \in Clients : client[k].status = "waiting" => client[k].sequence \in results
  /\ \A j, k \in Clients :
        j # k /\ client[j].status = "waiting" /\ client[k].status = "waiting"
          => client[j].sequence # client[k].sequence

\* get_snapshot() is never stale: whenever a task can run, the published
\* snapshot is the current state, so a handler that reads it after its command
\* was answered sees that command's effect.
SnapshotCurrent ==
  latestSnapshot = SnapshotOf(latestSnapshot.id, state, simulationTime, timeMode,
                              timeMultiplier, train)

\* A slow subscriber loses old snapshots and nothing else: what its bounded
\* queue holds is the unbroken run of the newest publications, all newer than
\* what it took before, and an empty queue means it took the newest one.
FeedKeepsNewest ==
  \A s \in subscribers :
    /\ Len(inbox[s]) <= SubscriberMaxsize
    /\ \A i \in 1..Len(inbox[s]) :
          /\ inbox[s][i].id = latestSnapshot.id - Len(inbox[s]) + i
          /\ inbox[s][i].id > seen[s]
    /\ IF inbox[s] = <<>> THEN seen[s] = latestSnapshot.id
                          ELSE inbox[s][Len(inbox[s])] = latestSnapshot

\* Simulated time moves forward only while the wall clock drives it or, in
\* MANUAL mode, when a command is taken off the queue; it moves back only to
\* zero, with the core stopped.
TimeMovesOnlyWhenDriven ==
  [][simulationTime' # simulationTime =>
       \/ WallClockRunning /\ monotonicRef # NoRef /\ simulationTime' > simulationTime
       \/ timeMode = "MANUAL" /\ commandQueue' # commandQueue /\ simulationTime' > simulationTime
       \/ simulationTime' = 0 /\ state' = "STOPPED"]_vars

\* docs/architectural.md:152-154: "STOPPED: No simulation time advances",
\* "PAUSED: World state and simulation time are frozen".  _apply_step checks
\* the time mode only, so step() moves time in both states.
TimeFrozenUnlessRunning ==
  [][state # "RUNNING" => simulationTime' \in {simulationTime, 0}]_vars

\* Every submitted command is eventually answered, whatever mode the loop is
\* in and whether its command is accepted or refused (unless the task waiting
\* for it is cancelled).
EveryCommandAnswered ==
  \A k \in Clients : client[k].status = "waiting" ~> client[k].status # "waiting"

\* A fixed step that the elapsed wall time has made due does not wait for
\* ever: a sleeping tick wakes up by itself, without a command.
StepDue ==
  /\ WallClockRunning /\ monotonicRef # NoRef
  /\ now - monotonicRef >= MinTickWait
  /\ accumulator + (now - monotonicRef) * Multiplier >= FixedStep
DueStepsRun == []<>~StepDue
=============================================================================
