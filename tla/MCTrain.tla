------------------------------ MODULE MCTrain ------------------------------
(* Instances of Train for TLC. *)
EXTENDS Train

OneCab == [c \in {1} |-> -1]
TwoCabs == [c \in {1, 2} |-> IF c = 1 THEN -1 ELSE 1]

\* The first cab is configured with a brake effort that no request may ask for.
OneBraked == [c \in {1} |-> [mode |-> "brake", direction |-> "forward", effort |-> 12]]
OneOff == [c \in {1} |-> Off]
FirstBraked ==
  [c \in {1, 2} |-> IF c = 1 THEN OneBraked[1] ELSE Off]

TrainControl(cab, demand, active, key) ==
  [cab |-> cab, demand |-> demand, active |-> active, key |-> key]

DoorRequest(side, command) == [target |-> Door(side), command |-> command]
BoxRequest(c, pos, c2, cbtc) ==
  [target |-> SwitchBox(c), position |-> pos, c2 |-> c2, cbtc |-> cbtc]
ManualRequest(c, mode, direction, effort) ==
  [target |-> DrivingSystem(c), control |-> {}, mode |-> mode, direction |-> direction,
   effort |-> effort, targets |-> << >>]
LawRequest(c, control, targets) ==
  [target |-> DrivingSystem(c), control |-> control, mode |-> {}, direction |-> {},
   effort |-> {}, targets |-> targets]
StcsRequest(c, block, unblock, command, rawOut, in, out) ==
  [target |-> StcsAtp(c), block |-> block, unblock |-> unblock, command |-> command,
   rawOut |-> rawOut, inSignals |-> in, outSignals |-> out]
BtmRequest(c, data, cab) == [target |-> Btm(c), data |-> data, cab |-> cab]

\* A bit string that reaches some rows of a table and sets these of them.
Bits(reached, high) == [n \in reached |-> n \in high]

\* An ATP command that asserts every row of its table, and one of two bits.
Command(c, high) == StcsRequest(c, {}, {}, {Bits(InOf(c), high)}, {}, << >>, << >>)
ShortCommand(c, high) ==
  StcsRequest(c, {}, {}, {Bits({"emergency_brake_1", "emergency_brake_2"}, high)}, {},
              << >>, << >>)

Eb1Feedback == "emergency_brake_1_inner_feedback"

-----------------------------------------------------------------------------
(* Wiring: every kind of request, accepted and refused, wires cut and      *)
(* restored, and hardly any motion.                                        *)

WiringControls ==
  {TrainControl({1}, {}, {FALSE}, {}), TrainControl({}, {10}, {}, {}),
   TrainControl({}, {}, {TRUE}, {}), TrainControl({9}, {-10}, {}, {})}

WiringCuts ==
  {{<<StcsAtp(1), DrivingSystem(1)>>, <<DrivingSystem(1), StcsAtp(1)>>}, {<<Cab(1), Cab(1)>>}}

WiringRequests ==
  {BoxRequest(1, {"auto"}, {FALSE}, {}), BoxRequest(2, {"c2"}, {}, {}), BoxRequest(1, {"both"}, {}, {}),
   ManualRequest(1, {"traction"}, {"forward"}, {10}), ManualRequest(1, {"full"}, {}, {}),
   ManualRequest(2, {"traction"}, {"forward"}, {10}),
   LawRequest(1, {"hold_speed"}, [target_speed |-> 0]),
   Command(1, {"cut_off_traction", "c2_authorized"}),
   StcsRequest(1, {}, {}, {}, {}, [cut_off_traction |-> FALSE], << >>),
   StcsRequest(2, {}, {}, {}, {}, [c2_authorized |-> TRUE], << >>),
   Command(2, {"cut_off_traction"})}

-----------------------------------------------------------------------------
(* Fittings: doors, telegrams and the switch box, and resets of everything. *)

FittingRequests ==
  {DoorRequest("left", "open"), DoorRequest("right", "close"), DoorRequest("left", "ajar"),
   BtmRequest(1, {"telegram"}, {}), BtmRequest(1, {"telegram"}, {2}), BtmRequest(1, {}, {1}),
   BoxRequest(1, {"auto"}, {}, {TRUE}), Command(1, {"c2_authorized"})}

-----------------------------------------------------------------------------
(* Blocks: the train-out rows of one STCS under blocks, operator updates,  *)
(* ATP commands and cab changes.                                           *)

BlockCuts == {{<<Cab(1), StcsAtp(1)>>}}

BlockControls == {TrainControl({1}, {}, {b}, {}) : b \in BOOLEAN}

BlockRequests ==
  {Command(1, {}), Command(1, {"emergency_brake_1"}),
   ShortCommand(1, {"emergency_brake_1", "emergency_brake_2"}),
   StcsRequest(1, {}, {}, {Garbled}, {}, << >>, << >>),
   StcsRequest(1, {"sleep_signal"}, {}, {}, {}, << >>, << >>),
   StcsRequest(1, {}, {"sleep_signal"}, {}, {}, << >>, << >>),
   StcsRequest(1, {Eb1Feedback}, {}, {Bits({"emergency_brake_1"}, {"emergency_brake_1"})}, {}, << >>, << >>),
   StcsRequest(1, {}, {Eb1Feedback}, {}, {Garbled}, << >>, << >>),
   StcsRequest(1, {"emergency_brake_feedback"}, {}, {}, {}, [emergency_brake_2 |-> TRUE],
               [emergency_brake_feedback |-> TRUE]),
   StcsRequest(1, {}, {}, {}, {}, << >>, [sleep_signal |-> TRUE]),
   StcsRequest(1, {}, {}, {}, {}, << >>, [emergency_brake_1 |-> TRUE]),
   StcsRequest(1, {"turnback_button"}, {}, {}, {}, << >>, << >>),
   StcsRequest(1, {}, {}, {}, {Bits(OutOf(1), {"turnback_button", "sleep_signal"})}, << >>, << >>)}

-----------------------------------------------------------------------------
(* Motion: a cab that faces backward, driven by its handles, the lever and *)
(* the stopping law, towards a target ahead, overshot and behind.          *)

MotionControls == {TrainControl({}, {-10}, {}, {})}

\* A brake command without cut_off_traction, to a train that coasts.
BrakeRequests == {Command(1, {"emergency_brake_1", "emergency_brake_2", "maximum_service_brake_7"})}

MotionRequests ==
  {ManualRequest(1, {"traction"}, {"backward"}, {10}),
   LawRequest(1, {"stopping_envelope"}, [target_position |-> -12, max_speed |-> 10]),
   LawRequest(1, {"stopping_envelope"}, [max_speed |-> 0]),
   LawRequest(1, {}, [target_position |-> 12]),
   LawRequest(1, {}, [speed_gain |-> 4]),
   LawRequest(1, {"hold_speed"}, << >>),
   Command(1, {"cut_off_traction", "emergency_brake_1", "service_brake_4"})}

=============================================================================
