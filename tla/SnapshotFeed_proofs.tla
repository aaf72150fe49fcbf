------------------------- MODULE SnapshotFeed_proofs -------------------------
(***************************************************************************)
(* A subscriber's bounded queue implements the mailbox: every step of      *)
(* SimulationCore is a step of Mailbox for the observer, or stutters.      *)
(* The invariant that makes it work is FeedKeepsNewest.                    *)
(***************************************************************************)
EXTENDS SnapshotFeed, SimulationCore_proofs

\* The feed starts as a mailbox does: one publication, nobody attached.
LEMMA FeedRefinesInit == Init => Feed!Init
BY ObserverAssumption DEF Init, Feed!Init, SnapshotOf

\* The mailbox does not move when the observer's part of the feed does not.
LEMMA FeedStutter ==
  UNCHANGED feedVars => UNCHANGED Feed!vars
BY DEF feedVars, Feed!vars

\* Every step of the core publishes to, attaches, detaches or takes from the
\* mailbox of the observer, or leaves it alone.
LEMMA FeedRefinesStep ==
  TaskTypeOK /\ ClockInv /\ ClockTypeOK' /\ FeedInv /\ [Next]_vars => [Feed!Next]_(Feed!vars)
<1> SUFFICES ASSUME TaskTypeOK, ClockInv, ClockTypeOK', FeedInv, [Next]_vars
             PROVE  [Feed!Next]_(Feed!vars)
  OBVIOUS
<1>1. CASE UNCHANGED feedVars
  BY <1>1, FeedStutter
<1>2. ASSUME latestSnapshot'.id > latestSnapshot.id, UNCHANGED <<subscribers, seen>>
      PROVE  Feed!Publish
  BY <1>2 DEF Feed!Publish
<1>3. CASE StartLoop
  <2>1. latestSnapshot.id \in Nat
    BY DEF FeedInv, FeedTypeOK, Snapshots
  <2>2. latestSnapshot' = [latestSnapshot EXCEPT !.id = @ + 1] /\ UNCHANGED <<subscribers, seen>>
    BY <1>3 DEF StartLoop, Publish
  <2>3. latestSnapshot'.id = latestSnapshot.id + 1
    BY <2>2 DEF FeedInv, FeedTypeOK, Snapshots
  <2> QED
    BY <1>2, <2>1, <2>2, <2>3 DEF Feed!Next
<1>4. CASE TickWallClock
  BY <1>1, <1>2, <1>4, TickFeed DEF Feed!Next
<1>5. CASE HandleCommand
  BY <1>2, <1>5, HandleFeed DEF Feed!Next
<1>6. ASSUME NEW s \in Subscribers, Subscribe(s) PROVE [Feed!Next]_(Feed!vars)
  <2>1. /\ s \notin subscribers /\ subscribers' = subscribers \cup {s}
        /\ seen' = [seen EXCEPT ![s] = 0] /\ UNCHANGED latestSnapshot
    BY <1>6 DEF Subscribe
  <2>2. CASE s = observer
    <3>1. seen'[observer] = 0
      BY <2>1, <2>2, ObserverAssumption DEF FeedInv, FeedTypeOK
    <3> QED
      BY <2>1, <2>2, <3>1 DEF Feed!Attach, Feed!Next
  <2>3. CASE s # observer
    <3>1. seen'[observer] = seen[observer]
      BY <2>1, <2>3, ObserverAssumption DEF FeedInv, FeedTypeOK
    <3>2. (observer \in subscribers') <=> (observer \in subscribers)
      BY <2>1, <2>3
    <3> QED
      BY <2>1, <3>1, <3>2 DEF Feed!vars
  <2> QED
    BY <2>2, <2>3
<1>7. ASSUME NEW s \in Subscribers, Unsubscribe(s) PROVE [Feed!Next]_(Feed!vars)
  <2>1. /\ s \in subscribers /\ subscribers' = subscribers \ {s}
        /\ UNCHANGED <<seen, latestSnapshot>>
    BY <1>7 DEF Unsubscribe
  <2>2. CASE s = observer
    BY <2>1, <2>2 DEF Feed!Detach, Feed!Next
  <2>3. CASE s # observer
    <3>1. (observer \in subscribers') <=> (observer \in subscribers)
      BY <2>1, <2>3
    <3> QED
      BY <2>1, <3>1 DEF Feed!vars
  <2> QED
    BY <2>2, <2>3
<1>8. ASSUME NEW s \in Subscribers, Receive(s) PROVE [Feed!Next]_(Feed!vars)
  <2>1. /\ s \in subscribers /\ inbox[s] # <<>> /\ inbox[s] \in Seq(Snapshots)
        /\ seen' = [seen EXCEPT ![s] = Head(inbox[s]).id]
        /\ UNCHANGED <<latestSnapshot, subscribers>>
    BY <1>8 DEF Receive, FeedInv, FeedTypeOK
  <2>2. CASE s = observer
    <3>1. 1 \in 1..Len(inbox[s]) /\ Head(inbox[s]) = inbox[s][1] /\ Len(inbox[s]) \in Nat
      BY <2>1, HeadTailProperties, EmptySeq, LenProperties
    <3>2. inbox[s][1].id = latestSnapshot.id - Len(inbox[s]) + 1 /\ inbox[s][1].id > seen[s]
      BY <2>1, <3>1 DEF FeedInv, FeedKeepsNewest
    <3>3. seen[s] \in Nat /\ latestSnapshot.id \in Nat
      BY DEF FeedInv, FeedTypeOK, Snapshots
    <3>4. seen'[observer] = inbox[s][1].id
      BY <2>1, <2>2, <3>1, ObserverAssumption DEF FeedInv, FeedTypeOK
    <3>5. seen'[observer] \in (seen[observer] + 1)..latestSnapshot.id
      BY <2>2, <3>1, <3>2, <3>3, <3>4
    <3> QED
      BY <2>1, <2>2, <3>5 DEF Feed!Take, Feed!Next
  <2>3. CASE s # observer
    <3>1. seen'[observer] = seen[observer]
      BY <2>1, <2>3, ObserverAssumption DEF FeedInv, FeedTypeOK
    <3> QED
      BY <2>1, <3>1 DEF Feed!vars
  <2> QED
    BY <2>2, <2>3
<1>9. CASE UNCHANGED vars
  BY <1>1, <1>9 DEF vars
<1> QED
  BY <1>1, <1>3, <1>4, <1>5, <1>6, <1>7, <1>8, <1>9 DEF Next, RunLoop, HandleNext,
     CommandArrives, TickTimeout, RecheckQueue, Submit, CancelSubmit, ResumeClient, Elapse

\* The feed delivers in order and at most once, for every queue capacity.
THEOREM FeedRefinesMailbox == Spec => FeedIsOrdered
<1>1. TaskInv => TaskTypeOK
  BY DEF TaskInv
<1>2. ClockInv => ClockTypeOK
  BY DEF ClockInv
<1>3. QED
  BY <1>1, <1>2, FeedRefinesInit, FeedRefinesStep, TaskInvariance, ClockInvariance,
     FeedInvariance, PTL DEF Spec, Feed!Spec, FeedIsOrdered
=============================================================================
