------------------------------ MODULE Mailbox ------------------------------
(***************************************************************************)
(* What SimulationCore.subscribe() promises one subscriber, whatever the   *)
(* capacity of its queue: publications are numbered, the subscriber takes  *)
(* them in order, possibly skipping some, and it never stops short of the  *)
(* newest one.                                                             *)
(***************************************************************************)
EXTENDS Naturals

VARIABLES
  published,   \* number of the newest publication
  attached,    \* is the subscriber registered
  taken        \* number of the last publication it took, 0 for none

vars == <<published, attached, taken>>

Init == published = 1 /\ attached = FALSE /\ taken = 0

Publish ==
  /\ published' > published
  /\ UNCHANGED <<attached, taken>>

Attach == ~attached /\ attached' = TRUE /\ taken' = 0 /\ UNCHANGED published

Detach == attached /\ attached' = FALSE /\ UNCHANGED <<published, taken>>

\* Any publication newer than the last one taken.
Take ==
  /\ attached
  /\ \E n \in (taken + 1)..published : taken' = n
  /\ UNCHANGED <<published, attached>>

Next == Publish \/ Attach \/ Detach \/ Take

Spec == Init /\ [][Next]_vars

FairSpec == Spec /\ WF_vars(Take)
=============================================================================
