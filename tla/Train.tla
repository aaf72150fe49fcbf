------------------------------- MODULE Train -------------------------------
(***************************************************************************)
(* domain/train.py, domain/link_cuts.py and domain/equipment/*: the train  *)
(* aggregate, its cabs, doors, BTMs, driving systems, STCS ATP instances   *)
(* and switch boxes, and the wires between them.                           *)
(*                                                                         *)
(* Components never touch each other.  Each emits intents about its own    *)
(* state; the aggregate collects all of them, then delivers each over its  *)
(* wire unless that wire is cut.  An accepted operation makes two such     *)
(* passes, a fixed step makes one.  Within a pass no two intents write the *)
(* same row, so a pass is one function of the state at collection.         *)
(* A refused operation usually changes nothing: it is then a stuttering    *)
(* step.                                                                   *)
(*                                                                         *)
(* A signal map is the set of its high signals.  An optional field of a    *)
(* request is the set of its values: empty for None.                       *)
(***************************************************************************)
EXTENDS Physics, FiniteSets, FiniteSetsExt

CONSTANTS
  Cabs,
  Facing,          \* +1 or -1 for each cab
  Boxes,           \* the cabs with a fitted switch box
  Solos,           \* the cabs whose STCS is a solo, without the rows of a box
  ActiveCab,       \* initial_active_cab
  KeyCabs,         \* initial_key_cabs
  InitialSpeed,
  InitialPosition,
  InitialDoor,
  InitialHandles,  \* the configured handles of the driving system of each cab
  Controls,        \* TrainControl payloads submitted
  CutSets,         \* sets of wires cut or restored
  Requests,        \* equipment requests submitted
  MaxPosition,     \* bound: distance from 0 at which stepping stops
  MaxReceived      \* bound: telegrams a BTM receives after a reset

Sides == {"left", "right"}
Modes == {"traction", "off", "brake"}
Directions == {"forward", "off", "backward"}
Positions == {"c2", "auto", "cbtc"}

ASSUME TrainAssumption ==
  /\ IsFiniteSet(Cabs) /\ Facing \in [Cabs -> {1, -1}] /\ Boxes \subseteq Cabs
  /\ Solos \subseteq Cabs \ Boxes
  /\ ActiveCab \in Cabs /\ KeyCabs \subseteq Cabs
  /\ InitialSpeed \in Int /\ InitialPosition \in Int
  /\ InitialDoor \in {"open", "closed"} /\ MaxPosition \in Nat
  /\ MaxReceived \in Nat

\* DrivingSystem.__init__ checks the mode and the direction; a configured effort
\* is any number.
ASSUME HandlesAssumption ==
  InitialHandles \in [Cabs -> [mode : Modes, direction : Directions, effort : Int]]

-----------------------------------------------------------------------------
(* Components and the signals of the STCS ATP.  Plain rows that nothing    *)
(* else reads or writes are represented by one of them, "turnback_button"; *)
(* rows that duplicate another wire are left out.                          *)

Door(side) == <<"door", side>>
Btm(c) == <<"btm", c>>
DrivingSystem(c) == <<"driving_system", c>>
StcsAtp(c) == <<"stcs_atp", c>>
SwitchBox(c) == <<"switch_box", c>>
Cab(c) == <<"cab", c>>
TheTrain == <<"train", "">>

Equipment == {Door(s) : s \in Sides} \cup {Btm(c) : c \in Cabs}
             \cup {DrivingSystem(c) : c \in Cabs}
             \cup {StcsAtp(c) : c \in Cabs} \cup {SwitchBox(c) : c \in Boxes}
LinkSources == Equipment \cup {Cab(c) : c \in Cabs}
LinkTargets == Equipment \cup {TheTrain}

InSignals == {"emergency_brake_1", "emergency_brake_2", "maximum_service_brake_7",
              "turnback_activation", "cut_off_traction", "service_brake_4",
              "service_brake_1", "c2_authorized"}
InvertOf ==
  [emergency_brake_1_inner_feedback |-> "emergency_brake_1",
   emergency_brake_2_inner_feedback |-> "emergency_brake_2",
   service_brake_7_feedback |-> "maximum_service_brake_7",
   turnback_activation_feedback |-> "turnback_activation",
   sleep_signal |-> "cab_activation"]
Derived == DOMAIN InvertOf \cup {"emergency_brake_feedback"}
HandleRows == {"direction_handle_forward", "direction_handle_backward",
               "traction_handle_traction", "traction_handle_brake"}
SwitchRows == {"system_switch_c2", "system_switch_auto", "system_switch_cbtc",
               "c2_control_state_1", "c2_control_state_2"}
OutSignals == Derived \cup HandleRows \cup SwitchRows
              \cup {"cab_activation", "key_activation", "door_state_1", "door_state_2",
                    "turnback_button"}

\* The signals of the STCS of a cab.
InOf(c) == IF c \in Solos THEN InSignals \ {"c2_authorized"} ELSE InSignals
OutOf(c) == IF c \in Solos THEN OutSignals \ SwitchRows ELSE OutSignals

\* Efforts of the protection brake, and whether the low or the high level of
\* the signal asks for it.
BrakeOf == [emergency_brake_1 |-> 7, emergency_brake_2 |-> 7, maximum_service_brake_7 |-> 7,
            service_brake_4 |-> 4, service_brake_1 |-> 1]
BrakesWhenLow == {"emergency_brake_1", "emergency_brake_2", "maximum_service_brake_7"}

Given(option, old) == IF option = {} THEN old ELSE CHOOSE x \in option : TRUE
High(rows) == {n \in DOMAIN rows : rows[n]}
Updated(signals, rows) == (signals \ DOMAIN rows) \cup High(rows)

VARIABLES
  position, speed, acceleration,
  cabActive, cabKey,
  linkCuts,
  eq           \* equipment state, the drive-demand lever and driver inputs

motionVars == <<position, speed, acceleration>>
vars == <<motionVars, cabActive, cabKey, linkCuts, eq>>

Off == [mode |-> "off", direction |-> "off", effort |-> 0]

-----------------------------------------------------------------------------
(* STCS ATP.                                                               *)

Evaluate(name, s) ==
  IF name = "emergency_brake_feedback"
  THEN ~({"emergency_brake_1", "emergency_brake_2"} \subseteq s.trainIn)
  ELSE InvertOf[name] \notin (s.trainIn \cup s.store)

\* _effective_train_out_states: unblocked derived rows shine through the store.
EffectiveOut(s) ==
  {n \in OutSignals : IF n \in Derived \ s.blocked THEN Evaluate(n, s) ELSE n \in s.store}

\* _validate_signal_updates and the check of _apply_blocks.
ValidUpdate(c, s, r) ==
  /\ DOMAIN r.inSignals \subseteq InOf(c) /\ DOMAIN r.outSignals \subseteq OutOf(c)
  /\ DOMAIN r.outSignals \cap Derived \subseteq (s.blocked \cup r.block) \ r.unblock
  /\ r.block \cup r.unblock \subseteq Derived

\* Mutation: the stored value is frozen, not the one that was read.
ApplyBlocksKeepsStore(s, r) ==
  [s EXCEPT !.blocked = (@ \cup r.block) \ r.unblock]

\* A newly blocked row keeps the value it reads at that moment.
ApplyBlocks(s, r) ==
  LET fresh == r.block \ s.blocked
  IN  [s EXCEPT !.store = (@ \ fresh) \cup (EffectiveOut(s) \cap fresh),
                !.blocked = (@ \cup r.block) \ r.unblock]

\* A bit string sets the rows it reaches, from the first of the table on, and no
\* other: it is a function from those rows.  Garbled stands for one that is not
\* binary.
Garbled == [not_binary |-> TRUE]
Binary(strings) == Garbled \notin strings

\* Mutation: a string names the high rows and clears all others.
AssertedWhole(signals, strings) ==
  IF strings = {} THEN signals ELSE UNION {High(bits) : bits \in strings}

Asserted(signals, strings) ==
  IF strings = {} THEN signals ELSE UNION {Updated(signals, bits) : bits \in strings}

\* The payloads submitted are of the types that the API and the links carry: the
\* switch box takes booleans, a law numbers, and a cut names two components.  Bits
\* beyond the table are ignored, so a string stands for the rows it reaches.
ASSUME PayloadAssumption ==
  /\ \A r \in Requests :
       /\ \A c \in Cabs : r.target = StcsAtp(c) =>
            /\ \A bits \in r.command \ {Garbled} : DOMAIN bits \subseteq InOf(c)
            /\ \A bits \in r.rawOut \ {Garbled} : DOMAIN bits \subseteq OutOf(c)
       /\ \A c \in Boxes : r.target = SwitchBox(c) => r.c2 \cup r.cbtc \subseteq BOOLEAN
       /\ \A c \in Cabs : r.target = DrivingSystem(c) =>
            \A n \in DOMAIN r.targets : r.targets[n] \in Int
  /\ \A cuts \in CutSets : \A link \in cuts : link = <<link[1], link[2]>>

ApplyCommand(s, r) == [s EXCEPT !.trainIn = Asserted(@, r.command)]

ApplySignals(s, r) ==
  [s EXCEPT !.trainIn = Updated(@, r.inSignals),
            !.store = Updated(Asserted(@, r.rawOut), r.outSignals)]

StcsAccepts(c, s, r) == ValidUpdate(c, s, r) /\ Binary(r.command) /\ Binary(r.rawOut)

\* apply_control: a later field that is refused does not undo the earlier ones.
ApplyStcs(c, s, r) ==
  LET blocked == ApplyBlocks(s, r)
      commanded == ApplyCommand(blocked, r)
  IN  CASE ~ValidUpdate(c, s, r) -> s
        [] ValidUpdate(c, s, r) /\ ~Binary(r.command) -> blocked
        [] ValidUpdate(c, s, r) /\ Binary(r.command) /\ ~Binary(r.rawOut) -> commanded
        [] StcsAccepts(c, s, r) -> ApplySignals(commanded, r)

CutOff(s) == "cut_off_traction" \in s.trainIn

\* The brake efforts emit_intents asks for, all of them under cut_off_traction.
ProtectionBrakes(s) ==
  {n \in DOMAIN BrakeOf : CutOff(s) /\ (n \in BrakesWhenLow <=> n \notin s.trainIn)}

InitialStcs == [trainIn |-> {}, store |-> {}, blocked |-> {}]

-----------------------------------------------------------------------------
(* Driving system.                                                         *)

WithHandles(d, h) ==
  [d EXCEPT !.mode = h.mode, !.direction = h.direction, !.effort = h.effort]

TakesHandles(r) == r.mode # {} \/ r.direction # {} \/ r.effort # {}

\* The control mode a request asks for, by name or by the fields it carries.
RequestedControl(d, r) ==
  Given(r.control, IF TakesHandles(r) THEN "manual" ELSE d.control)

\* The targets the law would run with: from the request, else from the same
\* law if it is armed already, else the declared defaults.
TargetsOf(d, r) ==
  LET law == RequestedControl(d, r)
      armed == IF d.control = law THEN d.targets ELSE << >>
      known == DOMAIN r.targets \cup DOMAIN armed \cup DOMAIN TargetDefaults[law]
  IN  [n \in LawTargets[law] \cap known |->
         IF n \in DOMAIN r.targets THEN r.targets[n]
         ELSE IF n \in DOMAIN armed THEN armed[n] ELSE TargetDefaults[law][n]]

\* Mutation: missing targets are found when the law runs.
DrivingAcceptsIncomplete(d, r) ==
  /\ r.control \subseteq DrivingLaws \cup {"manual"} /\ r.mode \subseteq Modes
  /\ r.direction \subseteq Directions /\ r.effort \subseteq 0..FullEffort
  /\ RequestedControl(d, r) = "manual" => r.targets = << >>
  /\ RequestedControl(d, r) # "manual" => ~TakesHandles(r)

DrivingAccepts(d, r) ==
  /\ r.control \subseteq DrivingLaws \cup {"manual"} /\ r.mode \subseteq Modes
  /\ r.direction \subseteq Directions /\ r.effort \subseteq 0..FullEffort
  /\ LET law == RequestedControl(d, r)
     IN  IF law = "manual" THEN r.targets = << >>
         ELSE /\ ~TakesHandles(r)
              /\ DOMAIN r.targets \subseteq LawTargets[law]
              /\ DOMAIN TargetsOf(d, r) = LawTargets[law]
              /\ \A n \in LawTargets[law] : ValidTarget(n, TargetsOf(d, r)[n])

\* Manual handles, or a law armed with the brake handle set until its first step.
ApplyDriving(d, r) ==
  IF RequestedControl(d, r) = "manual"
  THEN LET h == [mode |-> Given(r.mode, d.manual.mode),
                 direction |-> Given(r.direction, d.manual.direction),
                 effort |-> Given(r.effort, d.manual.effort)]
       IN  [WithHandles(d, h) EXCEPT !.manual = h, !.control = "manual", !.targets = << >>]
  ELSE [WithHandles(d, [mode |-> "brake", direction |-> "off", effort |-> 0])
          EXCEPT !.control = RequestedControl(d, r), !.targets = TargetsOf(d, r)]

Manually(h) == [mode |-> h.mode, direction |-> h.direction, effort |-> h.effort, manual |-> h,
                control |-> "manual", targets |-> << >>]

\* A driving system as it is constructed, and as reset() and a cut-off leave it:
\* they know nothing of the configured handles.
InitialDriving(c) == Manually(InitialHandles[c])
OffDriving == Manually(Off)

\* DrivingSystem.step before the intents of the step are collected.
DriveStep(c, d) ==
  IF d.control = "manual" THEN WithHandles(d, d.manual)
  ELSE WithHandles(d, LawHandles(LawAcceleration(d.control, d.targets, position, speed, Facing[c]),
                                 speed, Facing[c]))

HandleFeedback(d) ==
  [direction_handle_forward |-> d.direction = "forward",
   direction_handle_backward |-> d.direction = "backward",
   traction_handle_traction |-> d.mode = "traction",
   traction_handle_brake |-> d.mode = "brake"]

TrackTraction(c, d) ==
  Facing[c] * (IF d.direction = "forward" THEN 1 ELSE IF d.direction = "backward" THEN -1 ELSE 0)
    * d.effort

-----------------------------------------------------------------------------
(* Switch box.                                                             *)

ApplyBox(b, r) == [position |-> Given(r.position, b.position),
                   c2 |-> Given(r.c2, b.c2), cbtc |-> Given(r.cbtc, b.cbtc)]

\* Mutation: the position is not validated.
BoxAcceptsAny(r) == r.position # {} \/ r.c2 # {} \/ r.cbtc # {}

BoxAccepts(r) ==
  /\ r.position \subseteq Positions
  /\ r.position # {} \/ r.c2 # {} \/ r.cbtc # {}

SwitchFeedback(b) ==
  [system_switch_c2 |-> b.position = "c2",
   system_switch_auto |-> b.position = "auto",
   system_switch_cbtc |-> b.position = "cbtc",
   c2_control_state_1 |-> b.position = "c2" \/ (b.position = "auto" /\ b.c2 /\ ~b.cbtc),
   c2_control_state_2 |-> b.position = "cbtc" \/ (b.position = "auto" /\ b.cbtc /\ ~b.c2)]

InitialBox == [position |-> "c2", c2 |-> FALSE, cbtc |-> FALSE]

-----------------------------------------------------------------------------
(* BTM.                                                                    *)

BtmAccepts(c, r) == r.data # {} /\ r.cab \subseteq {c}

\* The payload of the last telegram, and how many there were since a reset.
Deliver(b, r) == [payload |-> r.data, received |-> b.received + 1]

InitialBtm == [payload |-> {}, received |-> 0]

-----------------------------------------------------------------------------
(* Intent resolution.                                                      *)

Intact(cuts, source, target) == <<source, target>> \notin cuts

\* The row updates on their way to the STCS of cab c, by source.  A pass of a
\* step carries no cab state.
Feeds(e, cabState, c) ==
       {[source |-> Door("left"), rows |-> [door_state_1 |-> e.doors["left"] = "open"]],
        [source |-> Door("right"), rows |-> [door_state_2 |-> e.doors["right"] = "open"]],
        [source |-> DrivingSystem(c), rows |-> HandleFeedback(e.driving[c])]}
  \cup {[source |-> SwitchBox(b), rows |-> SwitchFeedback(e.box[b])] : b \in Boxes \cap {c}}
  \cup {[source |-> Cab(c), rows |-> row] : row \in cabState[c]}

Receive(s, feeds) ==
  [s EXCEPT !.store = (@ \ UNION {DOMAIN f.rows : f \in feeds})
                        \cup UNION {High(f.rows) : f \in feeds}]

\* The driver inputs of a batch, one per intent.
Inputs(e, cuts) ==
       {[source |-> DrivingSystem(c), by |-> "handles",
         traction |-> IF e.driving[c].mode = "traction" THEN TrackTraction(c, e.driving[c]) ELSE 0,
         brake |-> IF e.driving[c].mode = "brake" THEN e.driving[c].effort ELSE 0] :
           c \in {k \in Cabs : e.driving[k].mode # "off"
                               /\ Intact(cuts, DrivingSystem(k), TheTrain)}}
  \cup UNION {{[source |-> StcsAtp(c), by |-> n, traction |-> 0,
                brake |-> (BrakeOf[n] * FullEffort) \div 10] : n \in ProtectionBrakes(e.stcs[c])} :
           c \in {k \in Cabs : Intact(cuts, StcsAtp(k), TheTrain)}}

\* Mutation: the pass forgets that a cut-off also resets the driving system.
ResolveLeverOnly(e, cabState, cuts) ==
  [e EXCEPT
     !.stcs = [c \in Cabs |->
                 Receive(@[c], {f \in Feeds(e, cabState, c) : Intact(cuts, f.source, StcsAtp(c))})],
     !.demand = IF \E c \in Cabs : CutOff(e.stcs[c]) /\ Intact(cuts, StcsAtp(c), TheTrain)
                THEN 0 ELSE @,
     !.inputs = Inputs(e, cuts)]

\* _resolve_equipment_intents: everything was collected from e before anything
\* is delivered.
Resolve(e, cabState, cuts) ==
  [e EXCEPT
     !.driving = [c \in Cabs |->
                    IF CutOff(e.stcs[c]) /\ Intact(cuts, StcsAtp(c), DrivingSystem(c))
                    THEN OffDriving ELSE @[c]],
     !.stcs = [c \in Cabs |->
                 Receive(@[c], {f \in Feeds(e, cabState, c) : Intact(cuts, f.source, StcsAtp(c))})],
     !.box = [c \in Boxes |->
                IF "c2_authorized" \in e.stcs[c].trainIn /\ Intact(cuts, StcsAtp(c), SwitchBox(c))
                THEN [@[c] EXCEPT !.c2 = TRUE] ELSE @[c]],
     !.demand = IF \E c \in Cabs : CutOff(e.stcs[c]) /\ Intact(cuts, StcsAtp(c), TheTrain)
                THEN 0 ELSE @,
     !.inputs = Inputs(e, cuts)]

\* _cab_state_intents.
CabStates(active, key) ==
  [c \in Cabs |-> {[cab_activation |-> c \in active, key_activation |-> c \in key]}]
NoCabStates == [c \in Cabs |-> {}]

\* Mutation: one pass, which does not reach what the pass itself changed.
ResolveOnce(e, active, key, cuts) == Resolve(e, CabStates(active, key), cuts)

\* _resolve_all_intents.
ResolveAll(e, active, key, cuts) ==
  Resolve(Resolve(e, CabStates(active, key), cuts), CabStates(active, key), cuts)

-----------------------------------------------------------------------------
(* Operations of the aggregate.                                            *)

ValidControl(k) ==
  /\ k.cab \subseteq Cabs
  /\ k.demand \subseteq -FullEffort..FullEffort
  /\ k.active \cup k.key # {} => k.cab # {}

Switched(cabs, cab, on) ==
  IF on = {} THEN cabs ELSE IF TRUE \in on THEN cabs \cup cab ELSE cabs \ cab

ApplyControl(k) ==
  /\ IF ~ValidControl(k) THEN UNCHANGED <<cabActive, cabKey, eq>>
     ELSE /\ cabActive' = Switched(cabActive, k.cab, k.active)
          /\ cabKey' = Switched(cabKey, k.cab, k.key)
          /\ LET e == [eq EXCEPT !.demand = Given(k.demand, @)]
             IN  eq' = IF k.active \cup k.key = {} THEN e
                       ELSE ResolveAll(e, cabActive', cabKey', linkCuts)
  /\ UNCHANGED <<motionVars, linkCuts>>

\* _validate_link_cuts.
ValidCuts(cuts) ==
  \A link \in cuts : link[1] # link[2] /\ link[1] \in LinkSources /\ link[2] \in LinkTargets

ChangeLinkCuts(cuts, changed) ==
  /\ linkCuts' = IF ValidCuts(cuts) THEN changed ELSE linkCuts
  /\ UNCHANGED <<motionVars, cabActive, cabKey, eq>>

ReplaceLinkCuts(cuts) == ChangeLinkCuts(cuts, cuts)
AddLinkCuts(cuts) == ChangeLinkCuts(cuts, linkCuts \cup cuts)
RemoveLinkCuts(cuts) == ChangeLinkCuts(cuts, linkCuts \ cuts)

\* set_equipment: does the addressed component take the request, ...
EquipmentAccepts(r) ==
  /\ r.target \in Equipment
  /\ CASE r.target[1] = "door" -> r.command \in {"open", "close"}
       [] r.target[1] = "btm" -> BtmAccepts(r.target[2], r)
       [] r.target[1] = "driving_system" -> DrivingAccepts(eq.driving[r.target[2]], r)
       [] r.target[1] = "stcs_atp" -> StcsAccepts(r.target[2], eq.stcs[r.target[2]], r)
       [] r.target[1] = "switch_box" -> BoxAccepts(r)

\* ... and what its apply_control leaves behind.  Only the STCS can refuse a
\* request after it has begun to apply it.
Applied(r) ==
  CASE r.target \in Equipment /\ r.target[1] = "stcs_atp" ->
         [eq EXCEPT !.stcs[r.target[2]] = ApplyStcs(r.target[2], @, r)]
    [] EquipmentAccepts(r) /\ r.target[1] = "door" ->
         [eq EXCEPT !.doors[r.target[2]] = IF r.command = "open" THEN "open" ELSE "closed"]
    [] EquipmentAccepts(r) /\ r.target[1] = "btm" ->
         [eq EXCEPT !.btm[r.target[2]] = Deliver(@, r)]
    [] EquipmentAccepts(r) /\ r.target[1] = "driving_system" ->
         [eq EXCEPT !.driving[r.target[2]] = ApplyDriving(@, r)]
    [] EquipmentAccepts(r) /\ r.target[1] = "switch_box" ->
         [eq EXCEPT !.box[r.target[2]] = ApplyBox(@, r)]
    [] OTHER -> eq

SetEquipment(r) ==
  /\ r.target \in {Btm(c) : c \in Cabs} => eq.btm[r.target[2]].received < MaxReceived
  /\ UNCHANGED <<motionVars, cabActive, cabKey, linkCuts>>
  /\ eq' = IF EquipmentAccepts(r) THEN ResolveAll(Applied(r), cabActive, cabKey, linkCuts)
                                  ELSE Applied(r)

\* The equipment as its constructors leave it, ...
FreshEquipment ==
  [doors |-> [s \in Sides |-> InitialDoor],
   btm |-> [c \in Cabs |-> InitialBtm],
   driving |-> [c \in Cabs |-> InitialDriving(c)],
   stcs |-> [c \in Cabs |-> InitialStcs],
   box |-> [c \in Boxes |-> InitialBox],
   demand |-> 0, inputs |-> {}]

\* ... after __init__ has resolved its intents, and as their reset() leaves it.
InitialEquipment == ResolveAll(FreshEquipment, {ActiveCab}, KeyCabs, {})
ResetAll == [FreshEquipment EXCEPT !.driving = [c \in Cabs |-> OffDriving]]

\* reset_equipment of one component.
ResetEquipment(x) ==
  /\ UNCHANGED <<motionVars, cabActive, cabKey, linkCuts>>
  /\ LET e == CASE x \in Equipment /\ x[1] = "door" -> [eq EXCEPT !.doors[x[2]] = InitialDoor]
                [] x \in Equipment /\ x[1] = "btm" -> [eq EXCEPT !.btm[x[2]] = InitialBtm]
                [] x \in Equipment /\ x[1] = "driving_system" ->
                     [eq EXCEPT !.driving[x[2]] = OffDriving]
                [] x \in Equipment /\ x[1] = "stcs_atp" -> [eq EXCEPT !.stcs[x[2]] = InitialStcs]
                [] x \in Equipment /\ x[1] = "switch_box" -> [eq EXCEPT !.box[x[2]] = InitialBox]
                [] OTHER -> eq
     IN  eq' = IF x \in Equipment THEN ResolveAll(e, cabActive, cabKey, linkCuts) ELSE e

\* Mutation: the wires stay cut while the reset equipment reports its state.
ResetKeepsCuts ==
  /\ position' = InitialPosition /\ speed' = InitialSpeed /\ acceleration' = 0
  /\ cabActive' = {ActiveCab} /\ cabKey' = KeyCabs
  /\ linkCuts' = {}
  /\ eq' = ResolveAll(ResetAll, {ActiveCab}, KeyCabs, linkCuts)

Reset ==
  /\ position' = InitialPosition /\ speed' = InitialSpeed /\ acceleration' = 0
  /\ cabActive' = {ActiveCab} /\ cabKey' = KeyCabs
  /\ linkCuts' = {}
  /\ eq' = ResolveAll([ResetAll EXCEPT !.inputs = eq.inputs], {ActiveCab}, KeyCabs, {})

\* The acceleration of a step whose intents have been resolved to e: driver
\* inputs, when there are any, take the lever's place.
StepAcceleration(e) ==
  IF e.inputs = {} THEN ResolveAcceleration(e.demand, speed)
  ELSE ResolveDriverAcceleration(
         Clamp(-FullEffort, FullEffort, MapThenSumSet(LAMBDA d : d.traction, e.inputs)),
         Clamp(0, FullEffort, MapThenSumSet(LAMBDA d : d.brake, e.inputs)), speed)

\* Mutation: intents are collected before the driving systems step.
StepResolvesFirst ==
  /\ Abs(position) <= MaxPosition
  /\ LET pass == Resolve(eq, NoCabStates, linkCuts)
         stepped == [pass EXCEPT !.driving = [c \in Cabs |-> DriveStep(c, @[c])]]
         moved == Integrate(position, speed, StepAcceleration(pass))
     IN  /\ eq' = stepped
         /\ position' = moved.position /\ speed' = moved.speed
         /\ acceleration' = moved.acceleration
  /\ UNCHANGED <<cabActive, cabKey, linkCuts>>

Step ==
  /\ Abs(position) <= MaxPosition
  /\ LET driven == [eq EXCEPT !.driving = [c \in Cabs |-> DriveStep(c, @[c])]]
         pass == Resolve(driven, NoCabStates, linkCuts)
         moved == Integrate(position, speed, StepAcceleration(pass))
     IN  /\ eq' = pass
         /\ position' = moved.position /\ speed' = moved.speed
         /\ acceleration' = moved.acceleration
  /\ UNCHANGED <<cabActive, cabKey, linkCuts>>

-----------------------------------------------------------------------------
Init ==
  /\ position = InitialPosition /\ speed = InitialSpeed /\ acceleration = 0
  /\ cabActive = {ActiveCab} /\ cabKey = KeyCabs
  /\ linkCuts = {}
  /\ eq = InitialEquipment

Next ==
  \/ \E k \in Controls : ApplyControl(k)
  \/ \E cuts \in CutSets : ReplaceLinkCuts(cuts) \/ AddLinkCuts(cuts) \/ RemoveLinkCuts(cuts)
  \/ \E r \in Requests : SetEquipment(r)
  \/ \E x \in LinkTargets : ResetEquipment(x)
  \/ Reset
  \/ Step

Spec == Init /\ [][Next]_vars
-----------------------------------------------------------------------------
(* Properties.                                                             *)

\* The efforts the handles of a cab may have, the configured one among them.
Efforts(c) == 0..FullEffort \cup {InitialHandles[c].effort}
Handles(c) == [mode : Modes, direction : Directions, effort : Efforts(c)]

TypeOK ==
  /\ {position, speed, acceleration} \subseteq Int
  /\ cabActive \subseteq Cabs /\ cabKey \subseteq Cabs
  /\ linkCuts \subseteq LinkSources \X LinkTargets
  /\ DOMAIN eq = {"doors", "btm", "driving", "stcs", "box", "demand", "inputs"}
  /\ eq.doors \in [Sides -> {"open", "closed"}]
  /\ DOMAIN eq.btm = Cabs /\ \A c \in Cabs : eq.btm[c].received \in 0..MaxReceived
  /\ DOMAIN eq.driving = Cabs
  /\ \A c \in Cabs : LET d == eq.driving[c]
                     IN  /\ d.mode \in Modes /\ d.direction \in Directions
                         /\ d.effort \in Efforts(c) /\ d.manual \in Handles(c)
                         /\ d.control \in DrivingLaws \cup {"manual"}
  /\ eq.stcs \in [Cabs -> [trainIn : SUBSET InSignals, store : SUBSET OutSignals,
                           blocked : SUBSET Derived]]
  /\ \A c \in Cabs : eq.stcs[c].trainIn \subseteq InOf(c) /\ eq.stcs[c].store \subseteq OutOf(c)
  /\ eq.box \in [Boxes -> [position : Positions, c2 : BOOLEAN, cbtc : BOOLEAN]]
  /\ eq.demand \in -FullEffort..FullEffort
  /\ \A i \in eq.inputs : {i.traction, i.brake} \subseteq Int

\* A law in force always has every target it reads: its step asserts them,
\* and a failed assertion would end the simulation loop.
ArmedLawHasTargets ==
  \A c \in Cabs : DOMAIN eq.driving[c].targets =
    IF eq.driving[c].control = "manual" THEN {} ELSE LawTargets[eq.driving[c].control]

\* Every component agrees with what the others report over intact wires:
\* delivering all intents once more would change nothing.
Settled == Resolve(eq, CabStates(cabActive, cabKey), linkCuts) = eq

\* An accepted operation that resolves intents has taken full effect when it
\* returns, however its consequences chain (an ATP command cuts off a driving
\* system, whose handles, lapsed efforts and mirrored rows follow): the two
\* passes of _resolve_all_intents are enough.
Resolving ==
  \/ \E r \in Requests : EquipmentAccepts(r) /\ SetEquipment(r)
  \/ \E k \in Controls : ValidControl(k) /\ k.active \cup k.key # {} /\ ApplyControl(k)
  \/ \E x \in Equipment : ResetEquipment(x)
  \/ Reset
AppliesAtOnce == [][Settled' \/ UNCHANGED vars \/ ~Resolving]_vars

\* A step makes one pass only and sees no cab state; it still leaves settled
\* equipment settled, since the handles a law chose are collected after the
\* driving systems step.
StepKeepsSettled == [][~Settled' => ~(Settled /\ Step)]_vars

\* A blocked train-out row reads the same until an operator update names it:
\* at the moment it is blocked, under ATP commands in the same or a later
\* request, cab changes and steps.
BlockedReadingHolds ==
  [][\A c \in Cabs : \A n \in eq'.stcs[c].blocked :
       (n \in EffectiveOut(eq'.stcs[c]) <=> n \in EffectiveOut(eq.stcs[c]))
       \/ \E r \in Requests : /\ r.target = StcsAtp(c)
                              /\ r.rawOut # {} \/ n \in DOMAIN r.outSignals
                              /\ SetEquipment(r)]_vars

\* docs/atp-api.md:240-243: "positions beyond the string length keep their
\* previous value".  A train-in bit keeps what the ATP or an operator last
\* asserted for it until another assertion reaches that very position or the
\* STCS is reset: through shorter strings, requests refused half way, blocks,
\* feedback of other components and steps.
AssertionsHold ==
  [][\A c \in Cabs : \A n \in InOf(c) :
       \/ n \in eq'.stcs[c].trainIn <=> n \in eq.stcs[c].trainIn
       \/ \E r \in Requests :
            /\ r.target = StcsAtp(c)
            /\ n \in DOMAIN r.inSignals \cup UNION {DOMAIN bits : bits \in r.command}
            /\ SetEquipment(r)
       \/ ResetEquipment(StcsAtp(c)) \/ Reset]_vars

\* While an STCS asserts cut_off_traction over an intact wire to the train, and
\* no driving system pulls other than those it cuts off, a step never gains
\* speed: no lever, handle or armed law gets past it, whenever it was set.
\* Settled excludes the step after such a wire is restored, which still runs
\* on the efforts collected before the cut-off is delivered.
CutOffHolds ==
  /\ Settled
  /\ \E c \in Cabs : CutOff(eq.stcs[c]) /\ Intact(linkCuts, StcsAtp(c), TheTrain)
  /\ \A c \in Cabs :
       \/ CutOff(eq.stcs[c]) /\ Intact(linkCuts, StcsAtp(c), DrivingSystem(c))
       \/ eq.driving[c].control = "manual" /\ eq.driving[c].manual.mode # "traction"
CutOffNeverAccelerates ==
  [][Abs(speed') > Abs(speed) => ~(CutOffHolds /\ Step)]_vars

\* No step reverses a moving train: it comes to rest first.  From rest or
\* forward motion the lever alone takes no train rearward, and speeds it up by
\* positive demand only, wherever it was set and whatever handles it took over
\* from.  docs/web-api.md:240: negative demand "never moves a standing train
\* rearward".
LeverMisdrives ==
  /\ eq'.inputs = {} /\ speed >= 0
  /\ speed' < 0 \/ (speed' > speed /\ eq'.demand <= 0)
NoUnaskedReversal == [][speed * speed' < 0 \/ LeverMisdrives => ~Step]_vars

\* A train driven only by stopping_envelope laws of cabs facing one way is
\* never driven backwards by them, overshot or not, from whatever speed they
\* took over.
EnvelopeDrives(facing) ==
  \A c \in Cabs : /\ ~CutOff(eq.stcs[c])
                  /\ \/ eq.driving[c].control = "stopping_envelope" /\ Facing[c] = facing
                     \/ eq.driving[c].control = "manual" /\ eq.driving[c].manual.mode = "off"
EnvelopeNeverReverses ==
  [][\A facing \in {1, -1} :
       speed' * facing < 0 /\ speed' * facing < speed * facing
         => ~(EnvelopeDrives(facing) /\ eq'.inputs # {} /\ Step)]_vars

\* Whatever has been done to a train before, reset() leaves it in one and the same
\* state: no cut, block, latched authorization, law, lever or driver input remains,
\* and all its components report to each other as when it was built.  The handles
\* are the exception: they are off, whatever the configuration says of them.
RestartedEquipment == ResolveAll(ResetAll, {ActiveCab}, KeyCabs, {})
Restarted ==
  /\ position = InitialPosition /\ speed = InitialSpeed
  /\ linkCuts = {} /\ eq = RestartedEquipment
ResetForgets == [][~Restarted' => ~Reset]_vars

\* docs/atp-api.md:374-381: asserting maximum_service_brake_7 is applied "as a
\* motion-opposing protection brake on every step the bit remains asserted": a
\* train that nothing pulls loses speed then.
Pulled(e) == e.demand > 0 \/ \E i \in e.inputs : i.traction # 0
AssertedBrakeSlows ==
  [][Step /\ speed # 0 /\ ~Pulled(eq')
     /\ (\E c \in Cabs : /\ "maximum_service_brake_7" \in eq.stcs[c].trainIn
                         /\ Intact(linkCuts, StcsAtp(c), TheTrain))
       => Abs(speed') < Abs(speed)]_vars

\* docs/web-api.md:14-15: "An invalid command returns HTTP 400 ... and leaves
\* the simulation state unchanged".  The STCS applies the fields of a request
\* in turn and raises on the first bad one.
RefusedChangesNothing ==
  [][\A r \in Requests : SetEquipment(r) /\ ~EquipmentAccepts(r) => UNCHANGED vars]_vars

=============================================================================
