---------------------------- MODULE MCAtpManager ----------------------------
(* AtpManager for TLC. *)
EXTENDS AtpManager, TLC

Symmetry == Permutations(Peers)

Message(cab, drive, door, signal) == [cab |-> cab, drive |-> drive, door |-> door, signal |-> signal]

\* The doors and a signal for a cab that has no STCS unit, and the other way for
\* a cab that the train does not have: the last command is refused, or the first.
McMessages == {Message(2, FALSE, {"open"}, TRUE), Message(9, TRUE, {"close"}, FALSE)}

McBriefMessages == {Message(1, TRUE, {}, TRUE)}
McCabs == {1, 2}
McStcsCabs == {1}

=============================================================================
