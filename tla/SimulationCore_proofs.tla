------------------------ MODULE SimulationCore_proofs ------------------------
(***************************************************************************)
(* Safety of SimulationCore for every set of clients, subscribers and      *)
(* commands, every step length, tolerance and queue capacity, and without  *)
(* the bounds TLC needs (they are constants like the others).              *)
(*                                                                         *)
(* Three invariants, each inductive relative to the ones before it:        *)
(*   TaskInv   the command queue and the registered futures,               *)
(*   ClockInv  the run loop's clock, accumulator and lifecycle,            *)
(*   FeedInv   the latest snapshot and the subscribers' queues.            *)
(***************************************************************************)
EXTENDS SimulationCore, SequenceTheorems, TLAPS

(***************************************************************************)
(* Arithmetic.                                                             *)
(***************************************************************************)

\* What is left of the accumulator once the due steps have run lies within one
\* step of zero, and no negative number of steps is ever due.
LEMMA DueStepsFact ==
  ASSUME NEW acc \in Int, -Epsilon <= acc
  PROVE  /\ DueSteps(acc) \in Nat
         /\ acc - DueSteps(acc) * FixedStep \in Int
         /\ -Epsilon <= acc - DueSteps(acc) * FixedStep
         /\ acc - DueSteps(acc) * FixedStep < FixedStep - Epsilon
<1>1. acc + Epsilon \in Nat /\ FixedStep \in Nat \ {0} /\ Epsilon \in Nat
  BY CoreAssumption
<1>2. \A a \in Nat, b \in Nat \ {0} : a \div b \in Nat /\ a - (a \div b) * b \in 0..(b - 1)
  OBVIOUS
<1>3. QED
  BY <1>1, <1>2 DEF DueSteps

\* Multiplication distributes over the wall time that passes.
LEMMA Distributive ==
  \A a, b, m \in Int : (a + b) * m = a * m + b * m
OBVIOUS

(***************************************************************************)
(* The command queue and the futures.                                      *)
(***************************************************************************)

TaskInv == TaskTypeOK /\ FuturesMatchQueue

\* The queue changes in two ways only; everything else leaves it alone.
LEMMA TaskStep ==
  Next => \/ \E k \in Clients, c \in Commands : Submit(k, c)
          \/ \E k \in Clients : CancelSubmit(k)
          \/ \E k \in Clients : ResumeClient(k)
          \/ HandleCommand
          \/ UNCHANGED taskVars
BY DEF Next, RunLoop, StartLoop, HandleNext, TickWallClock, CommandArrives, TickTimeout,
       RecheckQueue, Subscribe, Unsubscribe, Receive, Elapse, taskVars

\* Submitting appends one command and one future, handling removes the oldest
\* of each, and no other step touches either.
LEMMA TaskInvStep == TaskInv /\ [Next]_vars => TaskInv'
<1> SUFFICES ASSUME TaskInv, [Next]_vars PROVE TaskInv'
  OBVIOUS
<1> USE DEF TaskInv
<1> DEFINE Entry == [sequence : Nat, command : Commands]
<1>0. commandQueue \in Seq(Entry) /\ Len(commandQueue) \in Nat /\ sequence \in Nat
  BY DEF TaskTypeOK
<1>1. ASSUME NEW k \in Clients, NEW c \in Commands, Submit(k, c) PROVE TaskInv'
  <2> DEFINE e == [sequence |-> sequence, command |-> c]
  <2>1. e \in Entry
    BY <1>0
  <2>2. /\ commandQueue' = Append(commandQueue, e)
        /\ sequence' = sequence + 1
        /\ results' = results \cup {sequence}
        /\ client' = [client EXCEPT ![k] = [status |-> "waiting", sequence |-> sequence, ok |-> FALSE]]
        /\ client[k].status = "idle"
    BY <1>1 DEF Submit
  <2>3. /\ commandQueue' \in Seq(Entry)
        /\ Len(commandQueue') = Len(commandQueue) + 1
        /\ \A i \in 1..Len(commandQueue) : commandQueue'[i] = commandQueue[i]
        /\ commandQueue'[Len(commandQueue) + 1] = e
    BY <1>0, <2>1, <2>2, AppendProperties
  <2>4. TaskTypeOK'
    <3>1. sequence' \in Nat /\ results' \subseteq Nat
      BY <1>0, <2>2 DEF TaskTypeOK
    <3>2. client' \in [Clients -> [status : {"idle", "waiting", "answered"},
                                  sequence : Nat, ok : BOOLEAN]]
      BY <1>0, <2>2 DEF TaskTypeOK
    <3> QED
      BY <2>3, <3>1, <3>2 DEF TaskTypeOK
  <2>5. \A i \in 1..Len(commandQueue') :
          commandQueue'[i].sequence = sequence' - Len(commandQueue') + i - 1
    <3> SUFFICES ASSUME NEW i \in 1..Len(commandQueue')
                 PROVE  commandQueue'[i].sequence = sequence' - Len(commandQueue') + i - 1
      OBVIOUS
    <3>1. CASE i = Len(commandQueue) + 1
      BY <1>0, <2>2, <2>3, <3>1
    <3>2. CASE i \in 1..Len(commandQueue)
      BY <1>0, <2>2, <2>3, <3>2 DEF FuturesMatchQueue
    <3> QED
      BY <1>0, <2>3, <3>1, <3>2
  <2>6. results' = (sequence' - Len(commandQueue')) .. (sequence' - 1)
    BY <1>0, <2>2, <2>3 DEF FuturesMatchQueue
  <2>7. \A j \in Clients : client'[j].status = "waiting" => client'[j].sequence \in results'
    BY <2>2 DEF FuturesMatchQueue, TaskTypeOK
  <2>8. \A i, j \in Clients :
          i # j /\ client'[i].status = "waiting" /\ client'[j].status = "waiting"
            => client'[i].sequence # client'[j].sequence
    <3>1. \A j \in Clients : client[j].status = "waiting" => client[j].sequence # sequence
      BY <1>0 DEF FuturesMatchQueue
    <3> QED
      BY <2>2, <3>1 DEF FuturesMatchQueue, TaskTypeOK
  <2> QED
    BY <2>4, <2>5, <2>6, <2>7, <2>8 DEF FuturesMatchQueue
<1>2. ASSUME NEW k \in Clients, CancelSubmit(k) \/ ResumeClient(k) PROVE TaskInv'
  <2>1. /\ client' = [client EXCEPT ![k].status = "idle"]
        /\ UNCHANGED <<sequence, results, commandQueue>>
    BY <1>2 DEF CancelSubmit, ResumeClient
  <2>2. \A j \in Clients : client'[j].sequence = client[j].sequence
    BY <2>1 DEF TaskTypeOK
  <2>3. \A j \in Clients : client'[j].status = "waiting" => client[j].status = "waiting"
    BY <2>1 DEF TaskTypeOK
  <2>4. TaskTypeOK'
    BY <2>1 DEF TaskTypeOK
  <2> QED
    BY <2>1, <2>2, <2>3, <2>4 DEF FuturesMatchQueue
<1>3. ASSUME HandleCommand PROVE TaskInv'
  <2> DEFINE n == Head(commandQueue).sequence
             ok == Accepted(Head(commandQueue).command)
  <2>1. /\ commandQueue # <<>>
        /\ commandQueue' = Tail(commandQueue)
        /\ sequence' = sequence
        /\ Resolve(n, ok)
    BY <1>3 DEF HandleCommand
  <2>2. /\ commandQueue' \in Seq(Entry)
        /\ Len(commandQueue') = Len(commandQueue) - 1
        /\ Len(commandQueue) \in Nat \ {0}
        /\ \A i \in 1..Len(commandQueue') : commandQueue'[i] = commandQueue[i + 1]
    BY <1>0, <2>1, HeadTailProperties, EmptySeq
  <2>3. n = sequence - Len(commandQueue)
    BY <1>0, <2>1, <2>2 DEF FuturesMatchQueue
  <2>4. results' = results \ {n}
    BY <2>1 DEF Resolve
  <2>5. \A j \in Clients :
          /\ client'[j].sequence = client[j].sequence
          /\ client'[j].status = "waiting" =>
               client[j].status = "waiting" /\ client[j].sequence # n
    BY <2>1 DEF Resolve, TaskTypeOK
  <2>6. ok \in BOOLEAN
    BY DEF Accepted
  <2>7. TaskTypeOK'
    BY <2>1, <2>2, <2>4, <2>6 DEF TaskTypeOK, Resolve
  <2>8. \A i \in 1..Len(commandQueue') :
          commandQueue'[i].sequence = sequence' - Len(commandQueue') + i - 1
    BY <1>0, <2>1, <2>2 DEF FuturesMatchQueue
  <2>9. results' = (sequence' - Len(commandQueue')) .. (sequence' - 1)
    <3>1. n \in Int /\ sequence - 1 \in Int /\ results = n .. (sequence - 1)
      BY <1>0, <2>3 DEF FuturesMatchQueue
    <3>2. sequence' - Len(commandQueue') = n + 1 /\ sequence' - 1 = sequence - 1
      BY <1>0, <2>1, <2>2, <2>3
    <3>3. \A a, b \in Int : (a .. b) \ {a} = (a + 1) .. b
      OBVIOUS
    <3> QED
      BY <2>4, <3>1, <3>2, <3>3
  <2>10. \A j \in Clients : client'[j].status = "waiting" => client'[j].sequence \in results'
    BY <2>4, <2>5 DEF FuturesMatchQueue
  <2>11. \A i, j \in Clients :
           i # j /\ client'[i].status = "waiting" /\ client'[j].status = "waiting"
             => client'[i].sequence # client'[j].sequence
    BY <2>5 DEF FuturesMatchQueue
  <2> QED
    BY <2>7, <2>8, <2>9, <2>10, <2>11 DEF FuturesMatchQueue
<1>4. CASE UNCHANGED taskVars
  BY <1>4 DEF taskVars, TaskTypeOK, FuturesMatchQueue
<1>5. CASE UNCHANGED vars
  BY <1>4, <1>5 DEF vars, taskVars
<1> QED
  BY <1>1, <1>2, <1>3, <1>4, <1>5, TaskStep

\* Nothing is queued at first.
LEMMA TaskInvInit == Init => TaskInv
BY DEF Init, TaskInv, TaskTypeOK, FuturesMatchQueue

\* No command is lost, answered twice or overtaken.
THEOREM TaskInvariance == Spec => []TaskInv
<1>1. QED
  BY TaskInvInit, TaskInvStep, PTL DEF Spec

\* The queue holds exactly the commands whose futures are registered, in order.
THEOREM FuturesMatch == Spec => []FuturesMatchQueue
<1>1. TaskInv => FuturesMatchQueue
  BY DEF TaskInv
<1>2. QED
  BY <1>1, TaskInvariance, PTL

(***************************************************************************)
(* The clock.                                                              *)
(***************************************************************************)

ClockInv == /\ ClockTypeOK
            /\ RefOnlyWhileRunning
            /\ NothingDueLeft
            /\ PhysicsInLockstep
            /\ NoBorrowedTime

\* The loop starts stopped, with an empty accumulator and no reference.
LEMMA ClockInvInit == Init => ClockInv
<1> SUFFICES ASSUME Init PROVE ClockInv
  OBVIOUS
<1>1. ClockTypeOK /\ RefOnlyWhileRunning
  BY DEF Init, ClockTypeOK, RefOnlyWhileRunning, SimulationState, TimeMode, NoRef, NoControl
<1>2. NothingDueLeft
  BY CoreAssumption DEF Init, NothingDueLeft
<1>3. PhysicsInLockstep
  BY CoreAssumption DEF Init, PhysicsInLockstep
<1>4. NoBorrowedTime
  BY DEF Init, NoBorrowedTime, Pending
<1> QED
  BY <1>1, <1>2, <1>3, <1>4 DEF ClockInv

\* The multiplier in force is positive.
LEMMA MultiplierType == ClockTypeOK => Multiplier \in Nat \ {0}
BY DEF ClockTypeOK, Multiplier

\* Time waiting for the next tick is never negative.
LEMMA PendingType ==
  ClockTypeOK /\ RefOnlyWhileRunning => Pending \in Nat
<1> SUFFICES ASSUME ClockTypeOK, RefOnlyWhileRunning PROVE Pending \in Nat
  OBVIOUS
<1>1. CASE monotonicRef = NoRef
  BY <1>1 DEF Pending
<1>2. CASE monotonicRef # NoRef
  <2>1. now - monotonicRef \in Nat
    BY <1>2 DEF ClockTypeOK, RefOnlyWhileRunning, NoRef
  <2>2. \A a, b \in Nat : a * b \in Nat
    OBVIOUS
  <2> QED
    BY <1>2, <2>1, <2>2, MultiplierType DEF Pending
<1> QED
  BY <1>1, <1>2

\* Draining moves time from the accumulator to the simulation, nothing more.
LEMMA DrainFact ==
  ASSUME ClockInv, NEW acc \in Int, -Epsilon <= acc, Drain(acc, DueSteps(acc))
  PROVE  /\ accumulator' \in Int /\ simulationTime' \in Int
         /\ simulationTime' + accumulator' = simulationTime + acc
         /\ train' \in [steps : Nat, control : Int]
         /\ NothingDueLeft'
         /\ PhysicsInLockstep'
         /\ simulationTime <= simulationTime'
<1> DEFINE n == DueSteps(acc)
<1>1. /\ n \in Nat
      /\ acc - n * FixedStep \in Int
      /\ -Epsilon <= acc - n * FixedStep
      /\ acc - n * FixedStep < FixedStep - Epsilon
  BY DueStepsFact
<1>2. /\ accumulator' = acc - n * FixedStep
      /\ simulationTime' = simulationTime + n * FixedStep
      /\ train' = [train EXCEPT !.steps = @ + n]
  BY DEF Drain
<1>3. simulationTime \in Int /\ train \in [steps : Nat, control : Int] /\ FixedStep \in Nat
  BY CoreAssumption DEF ClockInv, ClockTypeOK
<1>4. n * FixedStep \in Nat
  BY <1>1, <1>3
<1> HIDE DEF n
<1>5. train' \in [steps : Nat, control : Int] /\ train'.steps = train.steps + n
  BY <1>1, <1>2, <1>3
<1>6. NothingDueLeft'
  BY <1>1, <1>2 DEF NothingDueLeft
<1>7. PhysicsInLockstep'
  <2>1. simulationTime = train.steps * FixedStep
    BY DEF ClockInv, PhysicsInLockstep
  <2>2. (train.steps + n) * FixedStep = train.steps * FixedStep + n * FixedStep
    BY <1>1, <1>3, Distributive
  <2> QED
    BY <1>2, <1>5, <2>1, <2>2 DEF PhysicsInLockstep
<1> QED
  BY <1>1, <1>2, <1>3, <1>4, <1>5, <1>6, <1>7

\* Whatever command is dispatched, the clock invariant survives.
LEMMA DispatchClock ==
  ASSUME ClockInv, NEW c \in CommandType, NEW n \in Nat, Dispatch(c, n),
         now' = now, pc' = "deciding"
  PROVE  ClockInv'
<1> USE DEF ClockInv
<1>1. CASE c.kind = "run" /\ ApplyRun
  <2>1. /\ UNCHANGED <<timeMode, timeMultiplier, simulationTime, accumulator, train, earned>>
        /\ \/ state' = state /\ monotonicRef' = monotonicRef
           \/ state' = "RUNNING" /\ monotonicRef' = NoRef
    BY <1>1 DEF ApplyRun
  <2>2. ClockTypeOK'
    BY <2>1 DEF ClockTypeOK, SimulationState
  <2>3. RefOnlyWhileRunning'
    BY <2>1 DEF RefOnlyWhileRunning, WallClockRunning
  <2>4. NothingDueLeft' /\ PhysicsInLockstep'
    BY <2>1 DEF NothingDueLeft, PhysicsInLockstep
  <2>5. Pending' = Pending \/ Pending' = 0
    BY <2>1 DEF Pending, Multiplier
  <2>6. NoBorrowedTime'
    BY <2>1, <2>5, PendingType DEF NoBorrowedTime, ClockTypeOK
  <2> QED
    BY <2>2, <2>3, <2>4, <2>6
<1>2. CASE c.kind = "pause" /\ ApplyPause
  <2>1. /\ UNCHANGED <<timeMode, timeMultiplier, simulationTime, accumulator, train, earned>>
        /\ \/ state' = state /\ monotonicRef' = monotonicRef
           \/ state' = "PAUSED" /\ monotonicRef' = NoRef
    BY <1>2 DEF ApplyPause
  <2>2. ClockTypeOK'
    BY <2>1 DEF ClockTypeOK, SimulationState
  <2>3. RefOnlyWhileRunning'
    BY <2>1 DEF RefOnlyWhileRunning, WallClockRunning
  <2>4. NothingDueLeft' /\ PhysicsInLockstep'
    BY <2>1 DEF NothingDueLeft, PhysicsInLockstep
  <2>5. Pending' = Pending \/ Pending' = 0
    BY <2>1 DEF Pending, Multiplier
  <2>6. NoBorrowedTime'
    BY <2>1, <2>5, PendingType DEF NoBorrowedTime, ClockTypeOK
  <2> QED
    BY <2>2, <2>3, <2>4, <2>6
<1>3. CASE c.kind = "reset" /\ ApplyReset
  <2>1. /\ state' = "STOPPED" /\ simulationTime' = 0 /\ accumulator' = 0
        /\ monotonicRef' = NoRef /\ earned' = 0
        /\ train' = [steps |-> 0, control |-> NoControl]
        /\ UNCHANGED <<timeMode, timeMultiplier>>
    BY <1>3 DEF ApplyReset
  <2>2. ClockTypeOK'
    BY <2>1 DEF ClockTypeOK, SimulationState, NoControl
  <2>3. RefOnlyWhileRunning'
    BY <2>1 DEF RefOnlyWhileRunning
  <2>4. NothingDueLeft' /\ PhysicsInLockstep'
    BY <2>1, CoreAssumption DEF NothingDueLeft, PhysicsInLockstep
  <2>5. NoBorrowedTime'
    BY <2>1 DEF NoBorrowedTime, Pending
  <2> QED
    BY <2>2, <2>3, <2>4, <2>5
<1>4. CASE c.kind = "set_time_mode" /\ Accepted(c) /\ ApplySetTimeMode(c)
  <2>1. /\ timeMode' = c.mode
        /\ timeMultiplier' = IF c.mode = "SCALED" THEN c.multiplier ELSE 1
        /\ monotonicRef' = NoRef
        /\ UNCHANGED <<state, simulationTime, accumulator, train, earned>>
    BY <1>4 DEF ApplySetTimeMode
  <2>2. c.mode \in TimeMode /\ (c.mode = "SCALED" => c.multiplier > 0)
    BY <1>4 DEF Accepted, ValidTimeMode
  <2>3. c.multiplier \in Int
    BY <1>4 DEF CommandType
  <2>4. ClockTypeOK'
    BY <2>1, <2>2, <2>3 DEF ClockTypeOK
  <2>5. RefOnlyWhileRunning'
    BY <2>1 DEF RefOnlyWhileRunning
  <2>6. NothingDueLeft' /\ PhysicsInLockstep'
    BY <2>1 DEF NothingDueLeft, PhysicsInLockstep
  <2>7. NoBorrowedTime'
    BY <2>1, PendingType DEF NoBorrowedTime, Pending, ClockTypeOK
  <2> QED
    BY <2>4, <2>5, <2>6, <2>7
<1>5. CASE c.kind = "step" /\ Accepted(c) /\ ApplyStep(c)
  <2> DEFINE acc == accumulator + c.delta
  <2>1. timeMode = "MANUAL" /\ c.delta \in Nat
    BY <1>5 DEF Accepted, CommandType
  <2>2. acc \in Int /\ -Epsilon <= acc
    BY <2>1, CoreAssumption DEF NothingDueLeft, ClockTypeOK
  <2>3. /\ Drain(acc, DueSteps(acc))
        /\ earned' = earned + c.delta
        /\ UNCHANGED <<state, timeMode, timeMultiplier, monotonicRef>>
    BY <1>5 DEF ApplyStep
  <2>4. monotonicRef = NoRef
    BY <2>1 DEF RefOnlyWhileRunning, WallClockRunning
  <2>5. /\ accumulator' \in Int /\ simulationTime' \in Int
        /\ simulationTime' + accumulator' = simulationTime + acc
        /\ train' \in [steps : Nat, control : Int]
        /\ NothingDueLeft' /\ PhysicsInLockstep'
    BY <2>2, <2>3, DrainFact
  <2>6. ClockTypeOK'
    BY <2>1, <2>3, <2>5 DEF ClockTypeOK
  <2>7. RefOnlyWhileRunning'
    BY <2>3, <2>4 DEF RefOnlyWhileRunning
  <2>8. NoBorrowedTime'
    BY <2>1, <2>3, <2>4, <2>5 DEF NoBorrowedTime, Pending, ClockTypeOK
  <2> QED
    BY <2>5, <2>6, <2>7, <2>8
<1>6. CASE c.kind = "control" /\ ApplyControl(n)
  <2>1. /\ UNCHANGED <<clockVars, earned>>
        /\ train' = [train EXCEPT !.control = n]
    BY <1>6 DEF ApplyControl
  <2>2. train' \in [steps : Nat, control : Int] /\ train'.steps = train.steps
    BY <2>1 DEF ClockTypeOK
  <2> QED
    BY <2>1, <2>2 DEF clockVars, ClockTypeOK, RefOnlyWhileRunning, WallClockRunning,
       NothingDueLeft, PhysicsInLockstep, NoBorrowedTime, Pending, Multiplier
<1>7. CASE ~Accepted(c) /\ UNCHANGED worldVars
  BY <1>7 DEF worldVars, clockVars, ClockTypeOK, RefOnlyWhileRunning, WallClockRunning,
       NothingDueLeft, PhysicsInLockstep, NoBorrowedTime, Pending, Multiplier
<1> QED
  BY <1>1, <1>2, <1>3, <1>4, <1>5, <1>6, <1>7 DEF Dispatch

\* A tick converts exactly the time that was pending.
LEMMA TickClock ==
  ASSUME ClockInv, TickWallClock
  PROVE  ClockInv'
<1> USE DEF ClockInv
<1> DEFINE delta == IF monotonicRef = NoRef THEN 0 ELSE now - monotonicRef
           acc == accumulator + delta * Multiplier
<1>1. /\ WallClockRunning
      /\ pc' = "awaiting"
      /\ monotonicRef' = now
      /\ Drain(acc, DueSteps(acc))
      /\ UNCHANGED <<state, timeMode, timeMultiplier, earned, now>>
  BY DEF TickWallClock
<1>2. delta * Multiplier = Pending
  BY MultiplierType DEF Pending
<1>3. acc \in Int /\ -Epsilon <= acc /\ acc = accumulator + Pending /\ Pending \in Nat
  BY <1>2, PendingType, CoreAssumption DEF NothingDueLeft, ClockTypeOK
<1> HIDE DEF acc, delta
<1>4. /\ accumulator' \in Int /\ simulationTime' \in Int
      /\ simulationTime' + accumulator' = simulationTime + acc
      /\ train' \in [steps : Nat, control : Int]
      /\ NothingDueLeft' /\ PhysicsInLockstep'
  BY <1>1, <1>3, DrainFact
<1>5. ClockTypeOK'
  BY <1>1, <1>4 DEF ClockTypeOK
<1>6. RefOnlyWhileRunning'
  BY <1>1, <1>5 DEF RefOnlyWhileRunning, WallClockRunning, ClockTypeOK, NoRef
<1>7. Pending' = 0
  <2>1. Multiplier' \in Nat
    BY <1>5 DEF ClockTypeOK, Multiplier
  <2>2. now' - monotonicRef' = 0
    BY <1>1 DEF ClockTypeOK
  <2>3. \A m \in Nat : 0 * m = 0
    OBVIOUS
  <2> QED
    BY <2>1, <2>2, <2>3 DEF Pending
<1>8. NoBorrowedTime'
  <2>1. simulationTime + accumulator + Pending <= earned
    BY DEF NoBorrowedTime
  <2>2. simulationTime' + accumulator' = simulationTime + accumulator + Pending
    <3>1. simulationTime \in Int /\ accumulator \in Int /\ Pending \in Int
      BY <1>3 DEF ClockTypeOK
    <3>2. \A t, a, p \in Int : t + (a + p) = t + a + p
      OBVIOUS
    <3>3. simulationTime' + accumulator' = simulationTime + acc
      BY <1>4
    <3>4. acc = accumulator + Pending
      BY <1>3
    <3> QED
      BY <3>1, <3>2, <3>3, <3>4
  <2>3. simulationTime' + accumulator' + Pending' = simulationTime' + accumulator'
    BY <1>4, <1>7
  <2> QED
    BY <1>1, <2>1, <2>2, <2>3 DEF NoBorrowedTime
<1> QED
  BY <1>4, <1>5, <1>6, <1>8

\* Wall time grants what it makes pending, and grants nothing while the
\* simulation is not running on the wall clock.
LEMMA ElapseClock ==
  ASSUME ClockInv, Elapse
  PROVE  ClockInv'
<1> USE DEF ClockInv
<1>1. /\ now' = now + 1
      /\ earned' = earned + (IF WallClockRunning THEN Multiplier ELSE 0)
      /\ UNCHANGED <<pc, state, timeMode, timeMultiplier, simulationTime, accumulator,
                     monotonicRef, train>>
  BY DEF Elapse, clockVars
<1>2. ClockTypeOK'
  BY <1>1, MultiplierType DEF ClockTypeOK
<1>3. RefOnlyWhileRunning'
  BY <1>1 DEF RefOnlyWhileRunning, WallClockRunning, ClockTypeOK, NoRef
<1>4. NothingDueLeft' /\ PhysicsInLockstep'
  BY <1>1 DEF NothingDueLeft, PhysicsInLockstep
<1>5. Multiplier' = Multiplier
  BY <1>1 DEF Multiplier
<1>6. NoBorrowedTime'
  <2>1. CASE monotonicRef = NoRef
    BY <1>1, <2>1, MultiplierType DEF NoBorrowedTime, Pending, ClockTypeOK
  <2>2. CASE monotonicRef # NoRef
    <3>1. WallClockRunning
      BY <2>2 DEF RefOnlyWhileRunning
    <3>2. now - monotonicRef \in Int /\ now' - monotonicRef' = (now - monotonicRef) + 1
      BY <1>1 DEF ClockTypeOK, NoRef
    <3>3. \A a, m \in Int : (a + 1) * m = a * m + m
      OBVIOUS
    <3>4. Pending' = Pending + Multiplier
      BY <1>1, <1>5, <2>2, <3>2, <3>3, MultiplierType DEF Pending
    <3> QED
      BY <1>1, <3>1, <3>4, MultiplierType, PendingType DEF NoBorrowedTime, ClockTypeOK
  <2> QED
    BY <2>1, <2>2
<1> QED
  BY <1>2, <1>3, <1>4, <1>6

\* Commands, ticks and the clock itself preserve the clock invariant; no other
\* task touches the clock.
LEMMA ClockInvStep == TaskTypeOK /\ ClockInv /\ [Next]_vars => ClockInv'
<1> SUFFICES ASSUME TaskTypeOK, ClockInv, [Next]_vars PROVE ClockInv'
  OBVIOUS
<1>1. ASSUME HandleCommand, pc' = "deciding" PROVE ClockInv'
  <2>1. Head(commandQueue) \in [sequence : Nat, command : Commands]
    BY <1>1, HeadTailProperties DEF HandleCommand, TaskTypeOK
  <2>2. Head(commandQueue).command \in CommandType /\ Head(commandQueue).sequence \in Nat
    BY <2>1, CoreAssumption
  <2>3. Dispatch(Head(commandQueue).command, Head(commandQueue).sequence) /\ now' = now
    BY <1>1 DEF HandleCommand
  <2> QED
    BY <1>1, <2>2, <2>3, DispatchClock
<1>2. ASSUME UNCHANGED <<worldVars, now>>,
             pc' = pc \/ pc' = "deciding" \/ (pc = "awaiting" /\ pc' = "timed_out")
      PROVE  ClockInv'
  BY <1>2 DEF ClockInv, worldVars, clockVars, ClockTypeOK, RefOnlyWhileRunning,
     WallClockRunning, NothingDueLeft, PhysicsInLockstep, NoBorrowedTime, Pending, Multiplier
<1>3. CASE RunLoop
  <2>1. CASE StartLoop
    BY <1>2, <2>1 DEF StartLoop
  <2>2. CASE HandleNext
    BY <1>1, <2>2 DEF HandleNext
  <2>3. CASE TickWallClock
    BY <2>3, TickClock
  <2>4. CASE CommandArrives
    BY <1>1, <2>4 DEF CommandArrives
  <2>5. CASE TickTimeout
    BY <1>2, <2>5 DEF TickTimeout
  <2>6. CASE RecheckQueue
    BY <1>1, <1>2, <2>6 DEF RecheckQueue
  <2> QED
    BY <1>3, <2>1, <2>2, <2>3, <2>4, <2>5, <2>6 DEF RunLoop
<1>4. ASSUME NEW k \in Clients,
             (\E c \in Commands : Submit(k, c)) \/ CancelSubmit(k) \/ ResumeClient(k)
      PROVE  ClockInv'
  BY <1>2, <1>4 DEF Submit, CancelSubmit, ResumeClient
<1>5. ASSUME NEW s \in Subscribers, Subscribe(s) \/ Unsubscribe(s) \/ Receive(s)
      PROVE  ClockInv'
  BY <1>2, <1>5 DEF Subscribe, Unsubscribe, Receive
<1>6. CASE Elapse
  BY <1>6, ElapseClock
<1>7. CASE UNCHANGED vars
  BY <1>2, <1>7 DEF vars
<1> QED
  BY <1>3, <1>4, <1>5, <1>6, <1>7 DEF Next

\* The accounting of simulated time holds in every reachable state.
THEOREM ClockInvariance == Spec => []ClockInv
<1>1. TaskInv => TaskTypeOK
  BY DEF TaskInv
<1>2. QED
  BY <1>1, TaskInvariance, ClockInvInit, ClockInvStep, PTL DEF Spec

\* Simulated time is never borrowed from a pause, a stop or another mode.
THEOREM NeverBorrows == Spec => []NoBorrowedTime
<1>1. ClockInv => NoBorrowedTime
  BY DEF ClockInv
<1>2. QED
  BY <1>1, ClockInvariance, PTL

\* The drain loop leaves no due step behind and its tolerance never adds up.
THEOREM NothingLeft == Spec => []NothingDueLeft
<1>1. ClockInv => NothingDueLeft
  BY DEF ClockInv
<1>2. QED
  BY <1>1, ClockInvariance, PTL

\* Simulation time counts the steps of the train.
THEOREM Lockstep == Spec => []PhysicsInLockstep
<1>1. ClockInv => PhysicsInLockstep
  BY DEF ClockInv
<1>2. QED
  BY <1>1, ClockInvariance, PTL

\* The monotonic reference exists only while the wall clock runs.
THEOREM RefWhileRunning == Spec => []RefOnlyWhileRunning
<1>1. ClockInv => RefOnlyWhileRunning
  BY DEF ClockInv
<1>2. QED
  BY <1>1, ClockInvariance, PTL

\* Simulated time moves only when the wall clock or a command drives it.
LEMMA TimeMovesStep ==
  ASSUME ClockInv, TaskTypeOK, [Next]_vars, simulationTime' # simulationTime
  PROVE  \/ WallClockRunning /\ monotonicRef # NoRef /\ simulationTime' > simulationTime
         \/ /\ timeMode = "MANUAL" /\ commandQueue' # commandQueue
            /\ simulationTime' > simulationTime
         \/ simulationTime' = 0 /\ state' = "STOPPED"
<1> USE DEF ClockInv
<1>1. \A acc \in Int : -Epsilon <= acc /\ acc < FixedStep - Epsilon => DueSteps(acc) = 0
  <2>1. \A a \in Nat, b \in Nat \ {0} : a < b => a \div b = 0
    OBVIOUS
  <2> QED
    BY <2>1, CoreAssumption DEF DueSteps
<1>2. CASE TickWallClock
  <2> DEFINE delta == IF monotonicRef = NoRef THEN 0 ELSE now - monotonicRef
             acc == accumulator + delta * Multiplier
  <2>1. WallClockRunning /\ Drain(acc, DueSteps(acc))
    BY <1>2 DEF TickWallClock
  <2>2. delta * Multiplier = Pending /\ Pending \in Nat
    BY MultiplierType, PendingType DEF Pending
  <2>3. acc = accumulator + Pending /\ acc \in Int /\ -Epsilon <= acc
    BY <2>2, CoreAssumption DEF NothingDueLeft, ClockTypeOK
  <2> HIDE DEF acc, delta
  <2>4. simulationTime <= simulationTime' /\ simulationTime' \in Int
    BY <2>1, <2>3, DrainFact
  <2>5. CASE monotonicRef = NoRef
    <3>1. acc = accumulator
      BY <2>3, <2>5 DEF Pending, ClockTypeOK
    <3>2. DueSteps(acc) = 0
      BY <1>1, <2>3, <3>1 DEF NothingDueLeft
    <3>3. simulationTime' = simulationTime + 0 * FixedStep
      BY <2>1, <3>2 DEF Drain
    <3> QED
      BY <3>3, CoreAssumption DEF ClockTypeOK
  <2> QED
    BY <2>1, <2>4, <2>5 DEF ClockTypeOK
<1>3. CASE HandleCommand
  <2> DEFINE c == Head(commandQueue).command
             acc == accumulator + c.delta
  <2>1. /\ c \in CommandType
        /\ commandQueue' # commandQueue
    <3>1. /\ commandQueue \in Seq([sequence : Nat, command : Commands])
          /\ commandQueue # <<>> /\ commandQueue' = Tail(commandQueue)
      BY <1>3 DEF HandleCommand, TaskTypeOK
    <3>2. /\ Head(commandQueue) \in [sequence : Nat, command : Commands]
          /\ Len(Tail(commandQueue)) = Len(commandQueue) - 1 /\ Len(commandQueue) \in Nat
      BY <3>1, HeadTailProperties, LenProperties
    <3>3. Tail(commandQueue) # commandQueue
      BY <3>2
    <3> QED
      BY <3>1, <3>2, <3>3, CoreAssumption
  <2>2. Dispatch(c, Head(commandQueue).sequence)
    BY <1>3 DEF HandleCommand
  <2>3. CASE c.kind = "reset" /\ ApplyReset
    BY <2>3 DEF ApplyReset
  <2>4. CASE c.kind = "step" /\ Accepted(c) /\ ApplyStep(c)
    <3>1. timeMode = "MANUAL" /\ c.delta \in Nat
      BY <2>1, <2>4 DEF Accepted, CommandType
    <3>2. acc \in Int /\ -Epsilon <= acc /\ Drain(acc, DueSteps(acc))
      BY <2>4, <3>1, CoreAssumption DEF ApplyStep, NothingDueLeft, ClockTypeOK
    <3>3. simulationTime <= simulationTime' /\ simulationTime' \in Int
      BY <3>2, DrainFact
    <3> QED
      BY <2>1, <3>1, <3>3 DEF ClockTypeOK
  <2> QED
    BY <2>2, <2>3, <2>4 DEF Dispatch, ApplyRun, ApplyPause, ApplySetTimeMode, ApplyControl,
       clockVars, worldVars
<1>4. CASE UNCHANGED simulationTime
  BY <1>4
<1> QED
  BY <1>2, <1>3, <1>4 DEF Next, RunLoop, StartLoop, HandleNext, CommandArrives, TickTimeout,
     RecheckQueue, Submit, CancelSubmit, ResumeClient, Subscribe, Unsubscribe, Receive,
     Elapse, worldVars, clockVars, vars

\* Simulated time advances only in a tick or by a command in MANUAL mode, and
\* goes back only to zero.
THEOREM TimeIsDriven == Spec => TimeMovesOnlyWhenDriven
<1>1. TaskInv => TaskTypeOK
  BY DEF TaskInv
<1>2. ClockInv /\ TaskTypeOK /\ [Next]_vars =>
        [simulationTime' # simulationTime =>
           \/ WallClockRunning /\ monotonicRef # NoRef /\ simulationTime' > simulationTime
           \/ /\ timeMode = "MANUAL" /\ commandQueue' # commandQueue
              /\ simulationTime' > simulationTime
           \/ simulationTime' = 0 /\ state' = "STOPPED"]_vars
  BY TimeMovesStep
<1>3. QED
  BY <1>1, <1>2, TaskInvariance, ClockInvariance, PTL DEF Spec, TimeMovesOnlyWhenDriven

(***************************************************************************)
(* Snapshots and subscriber queues.                                        *)
(***************************************************************************)

FeedInv == FeedTypeOK /\ FeedKeepsNewest /\ SnapshotCurrent

\* Offering publications to a bounded queue keeps the newest entries of the two
\* together, as many as fit.
LEMMA OfferFact ==
  ASSUME NEW S, NEW q \in Seq(S), NEW t \in Seq(S), t # <<>>
  PROVE  /\ Offer(q, t) \in Seq(S)
         /\ Len(Offer(q, t)) \in 1..SubscriberMaxsize
         /\ Len(Offer(q, t)) <= Len(q) + Len(t)
         /\ \A i \in 1..Len(Offer(q, t)) :
               LET j == i + Len(q) + Len(t) - Len(Offer(q, t))
               IN  Offer(q, t)[i] = IF j <= Len(q) THEN q[j] ELSE t[j - Len(q)]
<1> DEFINE all == q \o t
           excess == IF Len(all) > SubscriberMaxsize THEN Len(all) - SubscriberMaxsize ELSE 0
<1>1. SubscriberMaxsize \in Nat \ {0}
  BY CoreAssumption
<1>2. Len(q) \in Nat /\ Len(t) \in Nat \ {0}
  BY LenProperties, EmptySeq
<1>3. /\ all \in Seq(S)
      /\ Len(all) = Len(q) + Len(t)
      /\ \A j \in 1..(Len(q) + Len(t)) : all[j] = IF j <= Len(q) THEN q[j] ELSE t[j - Len(q)]
  BY ConcatProperties
<1>4. Offer(q, t) = SubSeq(all, excess + 1, Len(all))
  BY DEF Offer
<1>5. excess \in Nat /\ excess < Len(all) /\ excess + 1 \in 1..(Len(all) + 1)
  BY <1>1, <1>2, <1>3
<1>6. Len(all) - excess \in 1..SubscriberMaxsize
  BY <1>1, <1>2, <1>3
<1> HIDE DEF all, excess
<1>7. /\ Offer(q, t) \in Seq(S)
      /\ Len(Offer(q, t)) = Len(all) - excess
      /\ \A i \in 1..(Len(all) - excess) : Offer(q, t)[i] = all[excess + i]
  BY <1>2, <1>3, <1>4, <1>5, SubSeqProperties
<1>8. Len(Offer(q, t)) \in 1..SubscriberMaxsize /\ Len(Offer(q, t)) <= Len(q) + Len(t)
  BY <1>3, <1>5, <1>6, <1>7
<1>9. ASSUME NEW i \in 1..Len(Offer(q, t)),
             NEW j, j = i + Len(q) + Len(t) - Len(Offer(q, t))
      PROVE  Offer(q, t)[i] = IF j <= Len(q) THEN q[j] ELSE t[j - Len(q)]
  <2>1. j = excess + i /\ j \in 1..(Len(q) + Len(t))
    BY <1>2, <1>3, <1>5, <1>7, <1>9
  <2>2. Offer(q, t)[i] = all[j]
    BY <1>7, <1>9, <2>1
  <2> QED
    BY <1>3, <2>1, <2>2
<1> QED
  BY <1>7, <1>8, <1>9

\* Publishing consecutive snapshots preserves what every subscriber is promised.
LEMMA PublishFeed ==
  ASSUME FeedTypeOK, FeedKeepsNewest,
         NEW snapshots \in Seq(Snapshots), snapshots # <<>>,
         \A i \in 1..Len(snapshots) : snapshots[i].id = latestSnapshot.id + i,
         Publish(snapshots)
  PROVE  /\ FeedTypeOK' /\ FeedKeepsNewest'
         /\ latestSnapshot' = snapshots[Len(snapshots)]
<1> DEFINE m == Len(snapshots)
<1>1. m \in Nat \ {0} /\ snapshots[m] \in Snapshots
  BY LenProperties, EmptySeq
<1>2. /\ latestSnapshot' = snapshots[m]
      /\ inbox' = [s \in Subscribers |->
                     IF s \in subscribers THEN Offer(inbox[s], snapshots) ELSE inbox[s]]
      /\ UNCHANGED <<subscribers, seen>>
  BY DEF Publish
<1>3. latestSnapshot'.id = latestSnapshot.id + m /\ latestSnapshot.id \in Nat \ {0}
  BY <1>1, <1>2 DEF FeedTypeOK, Snapshots
<1>4. FeedTypeOK'
  <2>1. \A s \in Subscribers : Offer(inbox[s], snapshots) \in Seq(Snapshots)
    BY OfferFact DEF FeedTypeOK
  <2> QED
    BY <1>1, <1>2, <2>1 DEF FeedTypeOK
<1>5. FeedKeepsNewest'
  <2> SUFFICES ASSUME NEW s \in subscribers
               PROVE  /\ Len(inbox'[s]) <= SubscriberMaxsize
                      /\ \A i \in 1..Len(inbox'[s]) :
                            /\ inbox'[s][i].id = latestSnapshot'.id - Len(inbox'[s]) + i
                            /\ inbox'[s][i].id > seen'[s]
                      /\ IF inbox'[s] = <<>>
                         THEN seen'[s] = latestSnapshot'.id
                         ELSE inbox'[s][Len(inbox'[s])] = latestSnapshot'
    BY <1>2 DEF FeedKeepsNewest
  <2> DEFINE q == inbox[s]
             r == Offer(q, snapshots)
  <2>1. s \in Subscribers /\ q \in Seq(Snapshots) /\ seen[s] \in Nat
    BY DEF FeedTypeOK
  <2>2. inbox'[s] = r /\ seen'[s] = seen[s]
    BY <1>2, <2>1
  <2>3. /\ Len(r) \in 1..SubscriberMaxsize
        /\ Len(r) <= Len(q) + m
        /\ \A i \in 1..Len(r) :
              LET j == i + Len(q) + m - Len(r)
              IN  r[i] = IF j <= Len(q) THEN q[j] ELSE snapshots[j - Len(q)]
    BY <2>1, OfferFact
  <2>4. /\ Len(q) \in Nat
        /\ \A i \in 1..Len(q) : q[i].id = latestSnapshot.id - Len(q) + i /\ q[i].id > seen[s]
        /\ q = <<>> => seen[s] = latestSnapshot.id
        /\ q # <<>> => Len(q) \in 1..Len(q)
    BY <2>1, LenProperties, EmptySeq DEF FeedKeepsNewest
  <2>5. seen[s] <= latestSnapshot.id
    <3>1. CASE q = <<>>
      BY <1>3, <2>4, <3>1
    <3>2. CASE q # <<>>
      <4>1. q[Len(q)].id = latestSnapshot.id - Len(q) + Len(q) /\ q[Len(q)].id > seen[s]
        BY <2>4, <3>2
      <4> QED
        BY <1>3, <2>1, <2>4, <4>1
    <3> QED
      BY <3>1, <3>2
  <2> HIDE DEF q, r, m
  <2>6. ASSUME NEW i \in 1..Len(r)
        PROVE  r[i].id = latestSnapshot'.id - Len(r) + i /\ r[i].id > seen[s]
    <3> DEFINE j == i + Len(q) + m - Len(r)
    <3>1. /\ Len(q) \in Nat /\ Len(r) \in Nat /\ m \in Nat /\ i \in Nat
          /\ latestSnapshot.id \in Nat /\ seen[s] \in Nat
          /\ 1 <= i /\ i <= Len(r) /\ Len(r) <= Len(q) + m
      BY <1>1, <1>3, <2>1, <2>3, <2>4, CoreAssumption
    <3>2. j \in 1..(Len(q) + m) /\ j - Len(q) = i + m - Len(r)
      BY <3>1
    <3>3. r[i] = IF j <= Len(q) THEN q[j] ELSE snapshots[j - Len(q)]
      BY <2>3
    <3>4. /\ latestSnapshot.id - Len(q) + j = latestSnapshot'.id - Len(r) + i
          /\ latestSnapshot.id + (j - Len(q)) = latestSnapshot'.id - Len(r) + i
      BY <1>3, <3>1
    <3> HIDE DEF j
    <3>5. CASE j <= Len(q)
      <4>1. j \in 1..Len(q) /\ r[i] = q[j]
        BY <3>1, <3>2, <3>3, <3>5
      <4>2. q[j].id = latestSnapshot.id - Len(q) + j /\ q[j].id > seen[s]
        BY <2>4, <4>1
      <4>3. r[i].id = latestSnapshot.id - Len(q) + j /\ r[i].id > seen[s]
        BY <4>1, <4>2
      <4> QED
        BY <3>4, <4>3
    <3>6. CASE j > Len(q)
      <4>1. j - Len(q) \in 1..m /\ r[i] = snapshots[j - Len(q)]
        <5>1. j - Len(q) \in 1..m /\ ~ (j <= Len(q))
          BY <3>1, <3>2, <3>6
        <5> QED
          BY <3>3, <5>1
      <4>2. snapshots[j - Len(q)].id = latestSnapshot.id + (j - Len(q))
        BY <4>1 DEF m
      <4>3. latestSnapshot.id + (j - Len(q)) > seen[s]
        <5> DEFINE d == j - Len(q)
        <5>1. d \in Int /\ d >= 1
          BY <3>1, <4>1
        <5> HIDE DEF d
        <5>2. latestSnapshot.id + d > seen[s]
          BY <2>5, <3>1, <5>1
        <5> QED
          BY <5>2 DEF d
      <4>4. r[i].id = latestSnapshot.id + (j - Len(q))
        BY <4>1, <4>2
      <4> QED
        BY <3>4, <4>3, <4>4
    <3> QED
      BY <3>1, <3>2, <3>5, <3>6
  <2>7. r[Len(r)] = latestSnapshot' /\ r # <<>>
    <3>1. ASSUME NEW i \in 1..Len(r), i = Len(r) PROVE r[i] = snapshots[m]
      <4> DEFINE j == i + Len(q) + m - Len(r)
      <4>1. r[i] = IF j <= Len(q) THEN q[j] ELSE snapshots[j - Len(q)]
        BY <2>3
      <4>2. j = Len(q) + m
        BY <1>1, <2>3, <2>4, <3>1
      <4>3. ~ (j <= Len(q)) /\ j - Len(q) = m
        BY <1>1, <2>4, <4>2
      <4> HIDE DEF j
      <4> QED
        BY <4>1, <4>3
    <3>2. Len(r) \in 1..Len(r) /\ r[Len(r)] = snapshots[m]
      BY <2>3, <3>1, CoreAssumption
    <3>3. r # <<>>
      BY <2>3, EmptySeq
    <3> QED
      BY <1>2, <3>2, <3>3
  <2> QED
    BY <2>2, <2>3, <2>6, <2>7, CoreAssumption
<1> QED
  BY <1>2, <1>4, <1>5

\* Taking the head leaves an unbroken run of newer snapshots, up to the newest.
LEMMA TailFact ==
  ASSUME NEW q \in Seq(Snapshots), q # <<>>, NEW top \in Snapshots,
         Len(q) <= SubscriberMaxsize,
         \A i \in 1..Len(q) : q[i].id = top.id - Len(q) + i,
         q[Len(q)] = top
  PROVE  /\ Len(Tail(q)) <= SubscriberMaxsize
         /\ \A i \in 1..Len(Tail(q)) :
              /\ Tail(q)[i].id = top.id - Len(Tail(q)) + i
              /\ Tail(q)[i].id > Head(q).id
         /\ IF Tail(q) = <<>> THEN Head(q).id = top.id ELSE Tail(q)[Len(Tail(q))] = top
<1> DEFINE r == Tail(q)
           n == Len(q)
           first == Head(q)
<1>1. /\ n \in Nat \ {0} /\ r \in Seq(Snapshots) /\ Len(r) = n - 1
      /\ first = q[1] /\ \A i \in 1..Len(r) : r[i] = q[i + 1]
  BY HeadTailProperties, EmptySeq
<1>2. SubscriberMaxsize \in Nat /\ top.id \in Int
  BY CoreAssumption DEF Snapshots
<1>3. \A i \in 1..n : q[i].id = top.id - n + i
  OBVIOUS
<1>4. q[n] = top /\ n <= SubscriberMaxsize
  OBVIOUS
<1>5. r = <<>> => Len(r) = 0
  BY EmptySeq
<1>6. Len(r) = 0 => r = <<>>
  BY <1>1, EmptySeq
<1> HIDE DEF r, n, first
<1>7. first.id = top.id - n + 1
  BY <1>1, <1>3
<1>8. ASSUME NEW i \in 1..Len(r)
      PROVE  r[i].id = top.id - Len(r) + i /\ r[i].id > first.id
  <2>1. i \in Int /\ i >= 1 /\ i + 1 \in 1..n
    BY <1>1
  <2>2. r[i].id = top.id - n + (i + 1)
    BY <1>1, <1>3, <2>1
  <2>3. n \in Int /\ Len(r) = n - 1
    BY <1>1
  <2>4. top.id - n + (i + 1) = top.id - Len(r) + i /\ top.id - n + (i + 1) > top.id - n + 1
    BY <1>2, <2>1, <2>3
  <2> QED
    BY <1>7, <2>2, <2>4
<1>9. CASE Len(r) = 0
  <2>1. n = 1 /\ r = <<>>
    BY <1>1, <1>6, <1>9
  <2> QED
    BY <1>1, <1>2, <1>4, <1>7, <1>8, <2>1 DEF r, first
<1>10. CASE Len(r) # 0
  <2>1. Len(r) \in 1..Len(r) /\ Len(r) + 1 = n /\ r # <<>>
    BY <1>1, <1>5, <1>10
  <2>2. r[Len(r)] = top
    BY <1>1, <1>4, <2>1
  <2>3. Len(r) <= SubscriberMaxsize
    BY <1>1, <1>2, <1>4
  <2> QED
    BY <1>8, <2>1, <2>2, <2>3 DEF r, first
<1> QED
  BY <1>9, <1>10

\* The snapshots of n fixed steps are well formed and numbered consecutively.
LEMMA StepSnapshotsFact ==
  ASSUME ClockTypeOK, FeedTypeOK, NEW n \in Nat
  PROVE  /\ StepSnapshots(n) \in Seq(Snapshots)
         /\ Len(StepSnapshots(n)) = n
         /\ \A i \in 1..n : StepSnapshots(n)[i].id = latestSnapshot.id + i
<1>1. latestSnapshot.id \in Nat \ {0}
  BY DEF FeedTypeOK, Snapshots
<1>2. \A i \in 1..n : simulationTime + i * FixedStep \in Int
  BY CoreAssumption DEF ClockTypeOK
<1>3. \A i \in 1..n : [train EXCEPT !.steps = @ + i] \in [steps : Nat, control : Int]
  BY DEF ClockTypeOK
<1>4. \A i \in 1..n : StepSnapshots(n)[i] \in Snapshots
  BY <1>1, <1>2, <1>3 DEF StepSnapshots, SnapshotOf, Snapshots, ClockTypeOK
<1>5. StepSnapshots(n) \in [1..n -> Snapshots]
  BY <1>4 DEF StepSnapshots
<1>6. StepSnapshots(n) \in Seq(Snapshots)
  BY <1>5, SeqDef
<1>7. Len(StepSnapshots(n)) = n
  BY <1>5, <1>6, LenProperties
<1> QED
  BY <1>6, <1>7 DEF StepSnapshots, SnapshotOf

\* Handling a command ends with a publication of the state it leaves, after one
\* for each fixed step it ran.
LEMMA HandleFeed ==
  ASSUME TaskTypeOK, ClockInv, ClockTypeOK', FeedInv, HandleCommand
  PROVE  /\ FeedInv'
         /\ latestSnapshot'.id > latestSnapshot.id /\ UNCHANGED <<subscribers, seen>>
<1> DEFINE c == Head(commandQueue).command
           k == StepsOf(c)
           last == SnapshotOf(latestSnapshot.id + k + 1, state', simulationTime',
                              timeMode', timeMultiplier', train')
           all == Append(StepSnapshots(k), last)
<1>1. Publish(all)
  BY DEF HandleCommand
<1>2. c \in CommandType
  <2>1. Head(commandQueue) \in [sequence : Nat, command : Commands]
    BY HeadTailProperties DEF HandleCommand, TaskTypeOK
  <2> QED
    BY <2>1, CoreAssumption
<1>3. k \in Nat
  <2>1. CASE c.kind = "step" /\ Accepted(c)
    <3>1. c.delta \in Nat
      BY <1>2, <2>1 DEF Accepted, CommandType
    <3>2. accumulator + c.delta \in Int /\ -Epsilon <= accumulator + c.delta
      BY <3>1, CoreAssumption DEF ClockInv, ClockTypeOK, NothingDueLeft
    <3> QED
      BY <2>1, <3>2, DueStepsFact DEF StepsOf
  <2> QED
    BY <2>1 DEF StepsOf
<1> HIDE DEF c, k
<1>4. latestSnapshot.id \in Nat \ {0}
  BY DEF FeedInv, FeedTypeOK, Snapshots
<1>5. last \in Snapshots /\ last.id = latestSnapshot.id + k + 1
  BY <1>3, <1>4 DEF SnapshotOf, Snapshots, ClockTypeOK
<1>6. /\ StepSnapshots(k) \in Seq(Snapshots) /\ Len(StepSnapshots(k)) = k
      /\ \A i \in 1..k : StepSnapshots(k)[i].id = latestSnapshot.id + i
  BY <1>3, StepSnapshotsFact DEF ClockInv, FeedInv
<1> HIDE DEF last
<1>7. /\ all \in Seq(Snapshots) /\ all # <<>> /\ Len(all) = k + 1
      /\ \A i \in 1..k : all[i] = StepSnapshots(k)[i]
      /\ all[k + 1] = last
  BY <1>5, <1>6, AppendProperties
<1> HIDE DEF all
<1>8. \A i \in 1..Len(all) : all[i].id = latestSnapshot.id + i
  <2> SUFFICES ASSUME NEW i \in 1..(k + 1) PROVE all[i].id = latestSnapshot.id + i
    BY <1>7
  <2>1. CASE i \in 1..k
    BY <1>6, <1>7, <2>1
  <2>2. CASE i = k + 1
    BY <1>3, <1>4, <1>5, <1>7, <2>2
  <2> QED
    BY <1>3, <2>1, <2>2
<1>9. FeedTypeOK' /\ FeedKeepsNewest' /\ latestSnapshot' = all[Len(all)]
  BY <1>1, <1>7, <1>8, PublishFeed DEF FeedInv
<1>10. latestSnapshot' = last
  BY <1>7, <1>9
<1>11. SnapshotCurrent'
  BY <1>5, <1>10 DEF SnapshotCurrent, last, SnapshotOf
<1>12. latestSnapshot'.id > latestSnapshot.id /\ UNCHANGED <<subscribers, seen>>
  BY <1>1, <1>3, <1>4, <1>5, <1>10 DEF Publish
<1> QED
  BY <1>9, <1>11, <1>12 DEF FeedInv

\* A tick publishes one snapshot per fixed step, the last of the state it leaves;
\* a tick without a step changes nothing a snapshot shows.
LEMMA TickFeed ==
  ASSUME ClockInv, FeedInv, TickWallClock
  PROVE  /\ FeedInv'
         /\ \/ UNCHANGED feedVars
            \/ latestSnapshot'.id > latestSnapshot.id /\ UNCHANGED <<subscribers, seen>>
<1> DEFINE acc == accumulator + (IF monotonicRef = NoRef THEN 0 ELSE now - monotonicRef) * Multiplier
           n == DueSteps(acc)
<1>1. /\ Drain(acc, n)
      /\ IF n = 0 THEN UNCHANGED feedVars ELSE Publish(StepSnapshots(n))
      /\ UNCHANGED <<state, timeMode, timeMultiplier>>
  BY DEF TickWallClock
<1>2. n \in Nat
  <2>1. acc = accumulator + Pending /\ Pending \in Nat
    BY MultiplierType, PendingType DEF Pending, ClockInv
  <2>2. acc \in Int /\ -Epsilon <= acc
    BY <2>1, CoreAssumption DEF NothingDueLeft, ClockTypeOK, ClockInv
  <2> QED
    BY <2>2, DueStepsFact
<1> HIDE DEF acc, n
<1>3. /\ simulationTime' = simulationTime + n * FixedStep
      /\ train' = [train EXCEPT !.steps = @ + n]
      /\ simulationTime \in Int /\ train \in [steps : Nat, control : Int]
  BY <1>1 DEF Drain, ClockInv, ClockTypeOK
<1>4. CASE n = 0
  <2>1. simulationTime' = simulationTime /\ train' = train
    <3>1. 0 * FixedStep = 0 /\ simulationTime + 0 = simulationTime
      BY <1>3, CoreAssumption
    <3>2. [train EXCEPT !.steps = @ + 0] = train
      BY <1>3
    <3> QED
      BY <1>3, <1>4, <3>1, <3>2
  <2>2. UNCHANGED feedVars
    BY <1>1, <1>4
  <2> QED
    BY <1>1, <2>1, <2>2 DEF feedVars, FeedInv, FeedTypeOK, FeedKeepsNewest, SnapshotCurrent
<1>5. CASE n # 0
  <2>1. /\ StepSnapshots(n) \in Seq(Snapshots) /\ Len(StepSnapshots(n)) = n
        /\ \A i \in 1..n : StepSnapshots(n)[i].id = latestSnapshot.id + i
    BY <1>2, StepSnapshotsFact DEF ClockInv, FeedInv
  <2>2. StepSnapshots(n) # <<>> /\ n \in 1..n
    BY <1>2, <1>5, <2>1, EmptySeq
  <2>3. /\ FeedTypeOK' /\ FeedKeepsNewest'
        /\ latestSnapshot' = StepSnapshots(n)[Len(StepSnapshots(n))]
    BY <1>1, <1>5, <2>1, <2>2, PublishFeed DEF FeedInv
  <2>4. latestSnapshot' = SnapshotOf(latestSnapshot.id + n, state, simulationTime + n * FixedStep,
                                     timeMode, timeMultiplier, [train EXCEPT !.steps = @ + n])
    BY <2>1, <2>2, <2>3 DEF StepSnapshots
  <2>5. SnapshotCurrent'
    BY <1>1, <1>3, <2>4 DEF SnapshotCurrent, SnapshotOf
  <2>6. latestSnapshot'.id > latestSnapshot.id /\ UNCHANGED <<subscribers, seen>>
    BY <1>1, <1>2, <1>5, <2>4 DEF Publish, SnapshotOf, FeedInv, FeedTypeOK, Snapshots
  <2> QED
    BY <2>3, <2>5, <2>6 DEF FeedInv
<1> QED
  BY <1>4, <1>5

\* The first snapshot shows the initial state and nobody is subscribed.
LEMMA FeedInvInit == Init => FeedInv
<1> SUFFICES ASSUME Init PROVE FeedInv
  OBVIOUS
<1>1. FeedTypeOK
  BY EmptySeq DEF Init, FeedTypeOK, Snapshots, SnapshotOf, SimulationState, TimeMode, NoControl
<1>2. FeedKeepsNewest /\ SnapshotCurrent
  BY DEF Init, FeedKeepsNewest, SnapshotCurrent, SnapshotOf
<1> QED
  BY <1>1, <1>2 DEF FeedInv

\* Publishing, subscribing and taking preserve the feed invariant, and so does a
\* step that changes nothing a snapshot shows.
LEMMA FeedInvStep ==
  TaskTypeOK /\ ClockInv /\ ClockTypeOK' /\ FeedInv /\ [Next]_vars => FeedInv'
<1> SUFFICES ASSUME TaskTypeOK, ClockInv, ClockTypeOK', FeedInv, [Next]_vars PROVE FeedInv'
  OBVIOUS
<1>1. ASSUME UNCHANGED <<feedVars, clockVars, train>> PROVE FeedInv'
  BY <1>1 DEF feedVars, clockVars, FeedInv, FeedTypeOK, FeedKeepsNewest, SnapshotCurrent
<1>2. CASE StartLoop
  <2> DEFINE snap == [latestSnapshot EXCEPT !.id = @ + 1]
  <2>1. snap \in Snapshots /\ snap.id = latestSnapshot.id + 1
    BY DEF FeedInv, FeedTypeOK, Snapshots
  <2>2. Publish(<<snap>>) /\ UNCHANGED <<clockVars, train>>
    BY <1>2 DEF StartLoop, worldVars
  <2> HIDE DEF snap
  <2>3. /\ <<snap>> \in Seq(Snapshots) /\ <<snap>> # <<>>
        /\ Len(<<snap>>) = 1 /\ <<snap>>[1] = snap
    BY <2>1
  <2>4. FeedTypeOK' /\ FeedKeepsNewest' /\ latestSnapshot' = <<snap>>[Len(<<snap>>)]
    <3>1. \A i \in 1..Len(<<snap>>) : <<snap>>[i].id = latestSnapshot.id + i
      BY <2>1, <2>3
    <3> QED
      BY <2>2, <2>3, <3>1, PublishFeed DEF FeedInv
  <2>5. latestSnapshot' = snap
    BY <2>3, <2>4
  <2>6. SnapshotCurrent'
    BY <2>2, <2>5 DEF snap, SnapshotCurrent, SnapshotOf, FeedInv, clockVars
  <2> QED
    BY <2>4, <2>6 DEF FeedInv
<1>3. CASE TickWallClock
  BY <1>3, TickFeed
<1>4. CASE HandleCommand
  BY <1>4, HandleFeed
<1>5. ASSUME NEW s \in Subscribers, Subscribe(s) PROVE FeedInv'
  <2>1. /\ subscribers' = subscribers \cup {s}
        /\ inbox' = [inbox EXCEPT ![s] = <<latestSnapshot>>]
        /\ seen' = [seen EXCEPT ![s] = 0]
        /\ UNCHANGED <<latestSnapshot, clockVars, train>>
    BY <1>5 DEF Subscribe, worldVars
  <2>2. latestSnapshot \in Snapshots /\ latestSnapshot.id \in Nat \ {0}
    BY DEF FeedInv, FeedTypeOK, Snapshots
  <2>3. /\ <<latestSnapshot>> \in Seq(Snapshots) /\ <<latestSnapshot>> # <<>>
        /\ Len(<<latestSnapshot>>) = 1 /\ <<latestSnapshot>>[1] = latestSnapshot
    BY <2>2
  <2>4. FeedTypeOK'
    BY <2>1, <2>2, <2>3 DEF FeedInv, FeedTypeOK
  <2>5. inbox'[s] = <<latestSnapshot>> /\ seen'[s] = 0
    BY <2>1 DEF FeedInv, FeedTypeOK
  <2>6. \A t \in subscribers : t # s => inbox'[t] = inbox[t] /\ seen'[t] = seen[t]
    BY <2>1 DEF FeedInv, FeedTypeOK
  <2>7. FeedKeepsNewest'
    <3> SUFFICES ASSUME NEW t \in subscribers'
                 PROVE  /\ Len(inbox'[t]) <= SubscriberMaxsize
                        /\ \A i \in 1..Len(inbox'[t]) :
                              /\ inbox'[t][i].id = latestSnapshot'.id - Len(inbox'[t]) + i
                              /\ inbox'[t][i].id > seen'[t]
                        /\ IF inbox'[t] = <<>>
                           THEN seen'[t] = latestSnapshot'.id
                           ELSE inbox'[t][Len(inbox'[t])] = latestSnapshot'
      BY DEF FeedKeepsNewest
    <3>1. CASE t = s
      <4>1. Len(inbox'[t]) = 1 /\ inbox'[t][1] = latestSnapshot' /\ inbox'[t] # <<>>
            /\ seen'[t] = 0 /\ latestSnapshot' = latestSnapshot
        BY <2>1, <2>3, <2>5, <3>1
      <4>2. SubscriberMaxsize >= 1 /\ \A i \in 1..1 : i = 1
        BY CoreAssumption
      <4> QED
        BY <2>2, <4>1, <4>2
    <3>2. CASE t # s
      <4>1. t \in subscribers /\ inbox'[t] = inbox[t] /\ seen'[t] = seen[t]
        BY <2>1, <2>6, <3>2
      <4> QED
        BY <2>1, <4>1 DEF FeedInv, FeedKeepsNewest
    <3> QED
      BY <3>1, <3>2
  <2> QED
    BY <2>1, <2>4, <2>7 DEF FeedInv, SnapshotCurrent, clockVars
<1>6. ASSUME NEW s \in Subscribers, Unsubscribe(s) PROVE FeedInv'
  <2>1. /\ subscribers' = subscribers \ {s}
        /\ inbox' = [inbox EXCEPT ![s] = <<>>]
        /\ UNCHANGED <<latestSnapshot, seen, clockVars, train>>
    BY <1>6 DEF Unsubscribe, worldVars
  <2>2. <<>> \in Seq(Snapshots)
    BY EmptySeq
  <2>3. FeedTypeOK'
    BY <2>1, <2>2 DEF FeedInv, FeedTypeOK
  <2>4. \A t \in subscribers' : t \in subscribers /\ inbox'[t] = inbox[t]
    BY <2>1 DEF FeedInv, FeedTypeOK
  <2>5. FeedKeepsNewest'
    BY <2>1, <2>4 DEF FeedInv, FeedKeepsNewest
  <2> QED
    BY <2>1, <2>3, <2>5 DEF FeedInv, SnapshotCurrent, clockVars
<1>7. ASSUME NEW s \in Subscribers, Receive(s) PROVE FeedInv'
  <2> DEFINE q == inbox[s]
  <2>1. /\ s \in subscribers /\ q # <<>> /\ q \in Seq(Snapshots)
        /\ seen' = [seen EXCEPT ![s] = Head(q).id]
        /\ inbox' = [inbox EXCEPT ![s] = Tail(q)]
        /\ UNCHANGED <<latestSnapshot, subscribers, clockVars, train>>
    BY <1>7 DEF Receive, worldVars, FeedInv, FeedTypeOK
  <2>2. /\ Head(q) \in Snapshots /\ Head(q) = q[1] /\ Tail(q) \in Seq(Snapshots)
        /\ Len(q) \in Nat \ {0} /\ Len(Tail(q)) = Len(q) - 1
        /\ \A i \in 1..(Len(q) - 1) : Tail(q)[i] = q[i + 1]
    BY <2>1, HeadTailProperties, EmptySeq
  <2>3. Head(q).id \in Nat \ {0} /\ latestSnapshot.id \in Nat
    BY <2>2 DEF Snapshots, FeedInv, FeedTypeOK
  <2>4. FeedTypeOK'
    BY <2>1, <2>2, <2>3 DEF FeedInv, FeedTypeOK
  <2>5. inbox'[s] = Tail(q) /\ seen'[s] = Head(q).id
    BY <2>1 DEF FeedInv, FeedTypeOK
  <2>6. \A t \in subscribers : t # s => inbox'[t] = inbox[t] /\ seen'[t] = seen[t]
    BY <2>1 DEF FeedInv, FeedTypeOK
  <2>7. /\ Len(q) <= SubscriberMaxsize
        /\ \A i \in 1..Len(q) : q[i].id = latestSnapshot.id - Len(q) + i
        /\ q[Len(q)] = latestSnapshot
    BY <2>1 DEF FeedInv, FeedKeepsNewest
  <2> HIDE DEF q
  <2>8. FeedKeepsNewest'
    <3> SUFFICES ASSUME NEW t \in subscribers
                 PROVE  /\ Len(inbox'[t]) <= SubscriberMaxsize
                        /\ \A i \in 1..Len(inbox'[t]) :
                              /\ inbox'[t][i].id = latestSnapshot'.id - Len(inbox'[t]) + i
                              /\ inbox'[t][i].id > seen'[t]
                        /\ IF inbox'[t] = <<>>
                           THEN seen'[t] = latestSnapshot'.id
                           ELSE inbox'[t][Len(inbox'[t])] = latestSnapshot'
      BY <2>1 DEF FeedKeepsNewest
    <3>1. CASE t = s
      <4>1. /\ Len(Tail(q)) <= SubscriberMaxsize
            /\ \A i \in 1..Len(Tail(q)) :
                 /\ Tail(q)[i].id = latestSnapshot.id - Len(Tail(q)) + i
                 /\ Tail(q)[i].id > Head(q).id
            /\ IF Tail(q) = <<>> THEN Head(q).id = latestSnapshot.id
                                ELSE Tail(q)[Len(Tail(q))] = latestSnapshot
        <5>1. latestSnapshot \in Snapshots
          BY DEF FeedInv, FeedTypeOK
        <5>2. q \in Seq(Snapshots) /\ q # <<>>
          BY <2>1
        <5> QED
          BY <2>7, <5>1, <5>2, TailFact
      <4> QED
        BY <2>1, <2>5, <3>1, <4>1
    <3>2. CASE t # s
      <4>1. inbox'[t] = inbox[t] /\ seen'[t] = seen[t]
        BY <2>6, <3>2
      <4> QED
        BY <2>1, <4>1 DEF FeedInv, FeedKeepsNewest
    <3> QED
      BY <3>1, <3>2
  <2> QED
    BY <2>1, <2>4, <2>8 DEF FeedInv, SnapshotCurrent, clockVars
<1>8. CASE RunLoop
  BY <1>1, <1>2, <1>3, <1>4, <1>8 DEF RunLoop, HandleNext, CommandArrives, TickTimeout,
     RecheckQueue, worldVars
<1>9. ASSUME NEW k \in Clients,
             (\E c \in Commands : Submit(k, c)) \/ CancelSubmit(k) \/ ResumeClient(k)
      PROVE  FeedInv'
  BY <1>1, <1>9 DEF Submit, CancelSubmit, ResumeClient, worldVars
<1>10. CASE Elapse \/ UNCHANGED vars
  BY <1>1, <1>10 DEF Elapse, vars, worldVars
<1> QED
  BY <1>5, <1>6, <1>7, <1>8, <1>9, <1>10 DEF Next

\* The feed keeps its promises in every reachable state.
THEOREM FeedInvariance == Spec => []FeedInv
<1>1. TaskInv => TaskTypeOK
  BY DEF TaskInv
<1>2. ClockInv => ClockTypeOK
  BY DEF ClockInv
<1>3. QED
  BY <1>1, <1>2, TaskInvariance, ClockInvariance, FeedInvInit, FeedInvStep, PTL DEF Spec

\* A task that reads the snapshot never sees a stale one.
THEOREM SnapshotFresh == Spec => []SnapshotCurrent
<1>1. FeedInv => SnapshotCurrent
  BY DEF FeedInv
<1>2. QED
  BY <1>1, FeedInvariance, PTL

\* A slow subscriber loses old snapshots and nothing else.
THEOREM FeedNewest == Spec => []FeedKeepsNewest
<1>1. FeedInv => FeedKeepsNewest
  BY DEF FeedInv
<1>2. QED
  BY <1>1, FeedInvariance, PTL

\* Every variable keeps its type.
THEOREM TypeCorrect == Spec => []TypeOK
<1>1. TaskInv /\ ClockInv /\ FeedInv => TypeOK
  BY DEF TaskInv, ClockInv, FeedInv, TypeOK
<1>2. QED
  BY <1>1, TaskInvariance, ClockInvariance, FeedInvariance, PTL
=============================================================================
