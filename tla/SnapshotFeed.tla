---------------------------- MODULE SnapshotFeed ----------------------------
(***************************************************************************)
(* The snapshot feed of SimulationCore as one of its subscribers sees it,  *)
(* and the abstract mailbox it implements.                                 *)
(***************************************************************************)
EXTENDS SimulationCore

CONSTANT observer   \* the subscriber

ASSUME ObserverAssumption == observer \in Subscribers

Feed == INSTANCE Mailbox WITH
  published <- latestSnapshot.id,
  attached  <- observer \in subscribers,
  taken     <- seen[observer]

\* A subscriber's bounded queue behaves as a mailbox: it delivers snapshots in
\* publication order, each at most once, whatever was dropped to make room
\* (subscribe, _publish_snapshot, the publisher tasks' queue.get()).
FeedIsOrdered == Feed!Spec

\* ... and, as long as the subscriber keeps taking, it never stops short of the
\* newest snapshot: the newest is never the one that is dropped.
FeedIsMailbox == Feed!FairSpec
=============================================================================
