--------------------------- MODULE MCSwitchLogic ---------------------------
(* Instances of SwitchLogic for TLC. *)
EXTENDS SwitchLogic

BoxAt(pos, c2, cbtc) == [position |-> pos, c2 |-> c2, cbtc |-> cbtc]

\* With the initial state, these take the inputs through three values.
SomeUpdates == {BoxAt("auto", FALSE, TRUE), BoxAt("auto", TRUE, FALSE)}
=============================================================================
