--------------------------- MODULE MCSnapshotFeed ---------------------------
(* An instance of SnapshotFeed for TLC, over the commands of MCSimulationCore. *)
EXTENDS SnapshotFeed, MCSimulationCore
=============================================================================
