----------------------------- MODULE MCTrainCab -----------------------------
(* Two cabs for TLC, the first facing backward with a switch box, the other  *)
(* with a solo ATP.  A behaviour draws its inputs from one of four plans, so *)
(* that their products need not be explored.                                  *)
EXTENDS MCTrain

VARIABLE plan

Plans == {"wiring", "fittings", "blocks", "motion"}

PlannedControls ==
  [wiring |-> WiringControls, fittings |-> {}, blocks |-> BlockControls,
   motion |-> MotionControls]
PlannedCuts == [wiring |-> WiringCuts, fittings |-> {}, blocks |-> BlockCuts, motion |-> {}]
PlannedRequests ==
  [wiring |-> WiringRequests, fittings |-> FittingRequests, blocks |-> BlockRequests,
   motion |-> MotionRequests]

\* What the plans reset: the fittings every component, and one that is none.
PlannedResets ==
  [wiring |-> {DrivingSystem(1), StcsAtp(1), StcsAtp(2), SwitchBox(1)},
   fittings |-> LinkTargets, blocks |-> {StcsAtp(1)},
   motion |-> {DrivingSystem(1), StcsAtp(1)}]

AllControls == UNION {PlannedControls[p] : p \in Plans}
AllCuts == UNION {PlannedCuts[p] : p \in Plans}
AllRequests == UNION {PlannedRequests[p] : p \in Plans}

\* Bound: all plans but that of the motion step from the initial position only.
Moves == plan # "motion" => position = InitialPosition

PlannedInit == Init /\ plan \in Plans

PlannedNext ==
  /\ \/ \E k \in PlannedControls[plan] : ApplyControl(k)
     \/ \E cuts \in PlannedCuts[plan] :
          ReplaceLinkCuts(cuts) \/ AddLinkCuts(cuts) \/ RemoveLinkCuts(cuts)
     \/ \E r \in PlannedRequests[plan] : SetEquipment(r)
     \/ \E x \in PlannedResets[plan] : ResetEquipment(x)
     \/ Reset
     \/ Moves /\ Step
  /\ UNCHANGED plan

PlannedSpec == PlannedInit /\ [][PlannedNext]_<<vars, plan>>
=============================================================================
