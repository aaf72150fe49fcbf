---------------------------- MODULE Train_proofs -----------------------------
(***************************************************************************)
(* Safety of the train aggregate for every set of cabs, fitting, wiring    *)
(* and payload.                                                            *)
(***************************************************************************)
EXTENDS Train, FiniteSetTheorems, FunctionTheorems, WellFoundedInduction, TLAPS

(***************************************************************************)
(* What the state holds.                                                   *)
(***************************************************************************)

EquipmentShape(e) ==
  e = [doors |-> e.doors, btm |-> e.btm, driving |-> e.driving, stcs |-> e.stcs,
       box |-> e.box, demand |-> e.demand, inputs |-> e.inputs]

\* Handles that a request or a law may set: their effort is at most 1.0.
Commanded == [mode : Modes, direction : Directions, effort : 0..FullEffort]

\* The driving system of a cab; an armed law has exactly its targets, each of them valid.
DrivingTypes(c, d) ==
  /\ d = [mode |-> d.mode, direction |-> d.direction, effort |-> d.effort,
          manual |-> d.manual, control |-> d.control, targets |-> d.targets]
  /\ d.mode \in Modes /\ d.direction \in Directions /\ d.effort \in Efforts(c)
  /\ d.manual \in Handles(c)
  /\ d.control \in DrivingLaws \cup {"manual"}
  /\ DOMAIN d.targets = IF d.control = "manual" THEN {} ELSE LawTargets[d.control]
  /\ \A n \in DOMAIN d.targets : d.targets[n] \in Int /\ ValidTarget(n, d.targets[n])

StcsTypes(c) == [trainIn : SUBSET InOf(c), store : SUBSET OutOf(c), blocked : SUBSET Derived]

BoxTypes == [position : Positions, c2 : BOOLEAN, cbtc : BOOLEAN]

EquipmentTypes(e) ==
  /\ EquipmentShape(e)
  /\ e.doors \in [Sides -> {"open", "closed"}]
  /\ e.btm = [c \in Cabs |-> e.btm[c]] /\ \A c \in Cabs : e.btm[c].received \in 0..MaxReceived
  /\ e.driving = [c \in Cabs |-> e.driving[c]] /\ \A c \in Cabs : DrivingTypes(c, e.driving[c])
  /\ e.stcs = [c \in Cabs |-> e.stcs[c]] /\ \A c \in Cabs : e.stcs[c] \in StcsTypes(c)
  /\ e.box \in [Boxes -> BoxTypes]
  /\ e.demand \in -FullEffort..FullEffort

\* The driver inputs of a pass: finitely many efforts.
InputTypes(inputs) ==
  /\ IsFiniteSet(inputs)
  /\ \A i \in inputs : i.traction \in Int /\ i.brake \in Int

TrainInv ==
  /\ {position, speed, acceleration} \subseteq Int
  /\ cabActive \subseteq Cabs /\ cabKey \subseteq Cabs
  /\ linkCuts \subseteq LinkSources \X LinkTargets
  /\ EquipmentTypes(eq) /\ InputTypes(eq.inputs)

\* What a request is known to carry.
LEMMA Payloads ==
  ASSUME NEW r \in Requests
  PROVE  /\ \A c \in Cabs : r.target = StcsAtp(c) =>
              /\ \A bits \in r.command \ {Garbled} : DOMAIN bits \subseteq InOf(c)
              /\ \A bits \in r.rawOut \ {Garbled} : DOMAIN bits \subseteq OutOf(c)
         /\ \A c \in Boxes : r.target = SwitchBox(c) => r.c2 \cup r.cbtc \subseteq BOOLEAN
         /\ \A c \in Cabs : r.target = DrivingSystem(c) =>
              \A n \in DOMAIN r.targets : r.targets[n] \in Int
BY PayloadAssumption

\* An optional value is the old one or one that was given.
LEMMA GivenFact ==
  ASSUME NEW option, NEW old
  PROVE  Given(option, old) = old \/ Given(option, old) \in option
BY DEF Given

\* The kind and the place of a component tell which one it is.
LEMMA EquipmentKinds ==
  ASSUME NEW x \in Equipment
  PROVE  \/ x[1] = "door" /\ x[2] \in Sides /\ x = Door(x[2])
         \/ x[1] = "btm" /\ x[2] \in Cabs /\ x = Btm(x[2])
         \/ x[1] = "driving_system" /\ x[2] \in Cabs /\ x = DrivingSystem(x[2])
         \/ x[1] = "stcs_atp" /\ x[2] \in Cabs /\ x = StcsAtp(x[2])
         \/ x[1] = "switch_box" /\ x[2] \in Boxes /\ x[2] \in Cabs /\ x = SwitchBox(x[2])
BY TrainAssumption DEF Equipment, Door, Btm, DrivingSystem, StcsAtp, SwitchBox

(***************************************************************************)
(* One pass of intent resolution.                                          *)
(***************************************************************************)

\* The rows of the cab as the aggregate reports them, or none of them.
CabRows(cabState) ==
  \A c \in Cabs : \A row \in cabState[c] : DOMAIN row = {"cab_activation", "key_activation"}

\* The cab feeds of train.py carry the activation rows only.
LEMMA CabRowsFact ==
  /\ \A active, key : CabRows(CabStates(active, key))
  /\ CabRows(NoCabStates)
BY DEF CabRows, CabStates, NoCabStates

\* The switch box of an STCS that authorizes C2.
Authorized(b) == [b EXCEPT !.c2 = TRUE]

BoxAfter(e, cuts, c) ==
  IF "c2_authorized" \in e.stcs[c].trainIn /\ Intact(cuts, StcsAtp(c), SwitchBox(c))
  THEN Authorized(e.box[c]) ELSE e.box[c]

\* What one pass makes of each part of the equipment.
Passed(e, cs, cuts, p) ==
  /\ EquipmentShape(p)
  /\ p.doors = e.doors /\ p.btm = e.btm
  /\ p.driving = [c \in Cabs |->
         IF CutOff(e.stcs[c]) /\ Intact(cuts, StcsAtp(c), DrivingSystem(c))
         THEN OffDriving ELSE e.driving[c]]
  /\ p.stcs = [c \in Cabs |->
         Receive(e.stcs[c], {f \in Feeds(e, cs, c) : Intact(cuts, f.source, StcsAtp(c))})]
  /\ p.box = [c \in Boxes |-> BoxAfter(e, cuts, c)]
  /\ p.demand = IF \E c \in Cabs : CutOff(e.stcs[c]) /\ Intact(cuts, StcsAtp(c), TheTrain)
                THEN 0 ELSE e.demand
  /\ p.inputs = Inputs(e, cuts)

\* Resolve is a pass: what it leaves in each component.
LEMMA ResolveFields ==
  ASSUME NEW e, EquipmentShape(e), NEW cs, NEW cuts
  PROVE  Passed(e, cs, cuts, Resolve(e, cs, cuts))
<1> SUFFICES ASSUME NEW p, p = Resolve(e, cs, cuts) PROVE Passed(e, cs, cuts, p)
  OBVIOUS
<1> DEFINE driving == [c \in Cabs |->
                    IF CutOff(e.stcs[c]) /\ Intact(cuts, StcsAtp(c), DrivingSystem(c))
                    THEN OffDriving ELSE e.driving[c]]
           stcs == [c \in Cabs |->
                    Receive(e.stcs[c], {f \in Feeds(e, cs, c) : Intact(cuts, f.source, StcsAtp(c))})]
           box == [c \in Boxes |-> BoxAfter(e, cuts, c)]
           demand == IF \E c \in Cabs : CutOff(e.stcs[c]) /\ Intact(cuts, StcsAtp(c), TheTrain)
                     THEN 0 ELSE e.demand
           inputs == Inputs(e, cuts)
<1>1. p = [e EXCEPT !.driving = driving, !.stcs = stcs, !.box = box,
                                       !.demand = demand, !.inputs = inputs]
  BY Zenon DEF Resolve, BoxAfter, Authorized
<1> HIDE DEF driving, stcs, box, demand, inputs
<1>2. p = [doors |-> e.doors, btm |-> e.btm, driving |-> driving, stcs |-> stcs,
                              box |-> box, demand |-> demand, inputs |-> inputs]
  BY <1>1 DEF EquipmentShape
<1>3. EquipmentShape(p)
  BY <1>2 DEF EquipmentShape
<1> QED
  BY <1>2, <1>3 DEF Passed, driving, stcs, box, demand, inputs

\* Every row fed to an STCS is one of its table and none that it derives itself.
LEMMA FeedRows ==
  ASSUME NEW e, NEW cs, CabRows(cs), NEW c \in Cabs, NEW f \in Feeds(e, cs, c)
  PROVE  DOMAIN f.rows \subseteq OutOf(c) \ Derived
<1>1. CASE f.source \in {Door("left"), Door("right")} /\ f.rows \in
             {[door_state_1 |-> e.doors["left"] = "open"], [door_state_2 |-> e.doors["right"] = "open"]}
  BY <1>1 DEF OutOf, OutSignals, Derived, InvertOf, SwitchRows
<1>2. CASE f.rows = HandleFeedback(e.driving[c])
  BY <1>2 DEF HandleFeedback, OutOf, OutSignals, Derived, InvertOf, HandleRows, SwitchRows
<1>3. CASE c \in Boxes /\ f.rows = SwitchFeedback(e.box[c])
  BY <1>3, TrainAssumption DEF SwitchFeedback, OutOf, OutSignals, Derived, InvertOf, SwitchRows
<1>4. CASE f.rows \in cs[c]
  BY <1>4 DEF CabRows, OutOf, OutSignals, Derived, InvertOf, SwitchRows
<1> QED
  BY <1>1, <1>2, <1>3, <1>4 DEF Feeds

\* What an STCS has received of its feeds.
LEMMA ReceiveFact ==
  ASSUME NEW c \in Cabs, NEW s \in StcsTypes(c), NEW e, NEW cs, CabRows(cs),
         NEW feeds \in SUBSET Feeds(e, cs, c)
  PROVE  /\ Receive(s, feeds) \in StcsTypes(c)
         /\ Receive(s, feeds).trainIn = s.trainIn /\ Receive(s, feeds).blocked = s.blocked
         /\ \A n \in Derived : n \in Receive(s, feeds).store <=> n \in s.store
<1> DEFINE rows == UNION {DOMAIN f.rows : f \in feeds}
           high == UNION {High(f.rows) : f \in feeds}
<1>1. rows \subseteq OutOf(c) \ Derived
  BY FeedRows
<1>2. high \subseteq rows
  BY DEF High
<1> HIDE DEF rows, high
<1>3. Receive(s, feeds) = [s EXCEPT !.store = (s.store \ rows) \cup high]
  BY DEF Receive, rows, high
<1> QED
  BY <1>1, <1>2, <1>3 DEF StcsTypes

\* A brake that an STCS asks for is an effort within its range, and not zero.
LEMMA ProtectionEffort ==
  ASSUME NEW n \in DOMAIN BrakeOf
  PROVE  (BrakeOf[n] * FullEffort) \div 10 \in 1..FullEffort
<1>1. BrakeOf[n] \in {1, 4, 7}
  BY DEF BrakeOf
<1>2. FullEffort \in Nat \ {0} /\ FullEffort % 10 = 0
  BY PhysicsAssumption
<1> DEFINE q == FullEffort \div 10
<1>3. q \in Nat /\ FullEffort = 10 * q
  BY <1>2
<1> HIDE DEF q
<1>4. q >= 1
  BY <1>2, <1>3
<1>5. /\ (1 * FullEffort) \div 10 = q /\ (4 * FullEffort) \div 10 = 4 * q
      /\ (7 * FullEffort) \div 10 = 7 * q
  BY <1>3
<1> QED
  BY <1>1, <1>3, <1>4, <1>5

\* The efforts of a cab are whole numbers, and a command may ask for each up to 1.0.
LEMMA EffortsFact ==
  ASSUME NEW c \in Cabs
  PROVE  /\ Efforts(c) \subseteq Int /\ 0..FullEffort \subseteq Efforts(c)
         /\ Commanded \subseteq Handles(c) /\ InitialHandles[c] \in Handles(c)
         /\ Off \in Commanded
<1>1. InitialHandles[c] \in [mode : Modes, direction : Directions, effort : Int]
  BY HandlesAssumption
<1>2. Efforts(c) \subseteq Int /\ 0..FullEffort \subseteq Efforts(c)
      /\ InitialHandles[c].effort \in Efforts(c)
  BY <1>1, PhysicsAssumption DEF Efforts
<1>3. Commanded \subseteq Handles(c)
  BY <1>2 DEF Commanded, Handles
<1>4. InitialHandles[c] \in Handles(c)
  BY <1>1, <1>2 DEF Handles
<1>5. Off \in Commanded
  BY PhysicsAssumption DEF Off, Commanded, Modes, Directions
<1> QED
  BY <1>2, <1>3, <1>4, <1>5

\* Traction is the effort of the handles with a sign, or nothing.
LEMMA TractionType ==
  ASSUME NEW c \in Cabs, NEW d, DrivingTypes(c, d)
  PROVE  TrackTraction(c, d) \in Int
<1>1. Facing[c] \in {1, -1} /\ d.effort \in Int
  BY TrainAssumption, EffortsFact DEF DrivingTypes
<1> DEFINE way == IF d.direction = "forward" THEN 1 ELSE IF d.direction = "backward" THEN -1 ELSE 0
<1>2. way \in {1, -1, 0}
  OBVIOUS
<1>3. TrackTraction(c, d) = Facing[c] * way * d.effort
  BY DEF TrackTraction
<1> HIDE DEF way
<1>4. Facing[c] * way \in {1, -1, 0}
  BY <1>1, <1>2
<1> QED
  BY <1>1, <1>3, <1>4

\* The image of a finite set is finite.
LEMMA FiniteImage ==
  ASSUME NEW S, IsFiniteSet(S), NEW g, DOMAIN g = S
  PROVE  IsFiniteSet({g[x] : x \in S})
<1> DEFINE T == {g[x] : x \in S}
           h == [x \in S |-> g[x]]
<1>1. h \in Surjection(S, T)
  BY DEF Surjection
<1> QED
  BY <1>1, FS_Surjection

\* The efforts of a pass are finitely many, since the brake table and the cabs are.
LEMMA InputsFact ==
  ASSUME NEW e, EquipmentTypes(e), NEW cuts
  PROVE  InputTypes(Inputs(e, cuts))
<1> DEFINE Handle(c) == [source |-> DrivingSystem(c), by |-> "handles",
               traction |-> IF e.driving[c].mode = "traction" THEN TrackTraction(c, e.driving[c]) ELSE 0,
               brake |-> IF e.driving[c].mode = "brake" THEN e.driving[c].effort ELSE 0]
           Protect(c, n) == [source |-> StcsAtp(c), by |-> n, traction |-> 0,
                             brake |-> (BrakeOf[n] * FullEffort) \div 10]
           Driven == {c \in Cabs : e.driving[c].mode # "off" /\ Intact(cuts, DrivingSystem(c), TheTrain)}
           Wired == {c \in Cabs : Intact(cuts, StcsAtp(c), TheTrain)}
           Protects(c) == {Protect(c, n) : n \in ProtectionBrakes(e.stcs[c])}
<1>1. Inputs(e, cuts) = {Handle(c) : c \in Driven} \cup UNION {Protects(c) : c \in Wired}
  BY Zenon DEF Inputs
<1>2. IsFiniteSet(Cabs) /\ FullEffort \in Nat /\ \A c \in Cabs : DrivingTypes(c, e.driving[c])
  BY TrainAssumption, PhysicsAssumption DEF EquipmentTypes
<1>3. IsFiniteSet({Handle(c) : c \in Driven})
  <2> DEFINE g == [c \in Driven |-> Handle(c)]
  <2>1. IsFiniteSet(Driven)
    BY <1>2, FS_Subset
  <2>2. IsFiniteSet({g[c] : c \in Driven})
    BY <2>1, FiniteImage
  <2>3. {g[c] : c \in Driven} = {Handle(c) : c \in Driven}
    OBVIOUS
  <2> QED
    BY <2>2, <2>3
<1>4. ASSUME NEW c \in Cabs PROVE IsFiniteSet(Protects(c))
  <2> DEFINE N == ProtectionBrakes(e.stcs[c])
             g == [n \in N |-> Protect(c, n)]
  <2>1. N \subseteq {"emergency_brake_1", "emergency_brake_2", "maximum_service_brake_7",
                     "service_brake_4", "service_brake_1"}
    BY DEF ProtectionBrakes, BrakeOf
  <2>2. IsFiniteSet({"emergency_brake_1", "emergency_brake_2", "maximum_service_brake_7",
                     "service_brake_4", "service_brake_1"})
    <3>1. IsFiniteSet({"emergency_brake_1"} \cup {"emergency_brake_2"})
      BY FS_Singleton, FS_AddElement
    <3>2. IsFiniteSet({"emergency_brake_1"} \cup {"emergency_brake_2"} \cup {"maximum_service_brake_7"})
      BY <3>1, FS_AddElement
    <3>3. IsFiniteSet({"service_brake_4"} \cup {"service_brake_1"})
      BY FS_Singleton, FS_AddElement
    <3>4. IsFiniteSet(({"emergency_brake_1"} \cup {"emergency_brake_2"} \cup {"maximum_service_brake_7"})
                      \cup ({"service_brake_4"} \cup {"service_brake_1"}))
      BY <3>2, <3>3, FS_Union
    <3>5. {"emergency_brake_1", "emergency_brake_2", "maximum_service_brake_7",
           "service_brake_4", "service_brake_1"}
          = ({"emergency_brake_1"} \cup {"emergency_brake_2"} \cup {"maximum_service_brake_7"})
              \cup ({"service_brake_4"} \cup {"service_brake_1"})
      OBVIOUS
    <3> QED
      BY <3>4, <3>5
  <2>3. IsFiniteSet(N)
    BY <2>1, <2>2, FS_Subset
  <2>4. IsFiniteSet({g[n] : n \in N})
    BY <2>3, FiniteImage
  <2>5. {g[n] : n \in N} = Protects(c)
    OBVIOUS
  <2> QED
    BY <2>4, <2>5
<1>5. IsFiniteSet(UNION {Protects(c) : c \in Wired})
  <2> DEFINE g == [c \in Wired |-> Protects(c)]
  <2>1. IsFiniteSet(Wired)
    BY <1>2, FS_Subset
  <2>2. IsFiniteSet({g[c] : c \in Wired})
    BY <2>1, FiniteImage
  <2>3. {g[c] : c \in Wired} = {Protects(c) : c \in Wired}
    OBVIOUS
  <2>4. \A T \in {Protects(c) : c \in Wired} : IsFiniteSet(T)
    BY <1>4
  <2> HIDE DEF Protects
  <2> QED
    BY <2>2, <2>3, <2>4, FS_UNION
<1>6. IsFiniteSet(Inputs(e, cuts))
  <2> DEFINE A == {Handle(c) : c \in Driven}
             B == UNION {Protects(c) : c \in Wired}
  <2>1. Inputs(e, cuts) = A \cup B /\ IsFiniteSet(A) /\ IsFiniteSet(B)
    BY <1>1, <1>3, <1>5
  <2> HIDE DEF A, B
  <2> QED
    BY <2>1, FS_Union
<1>7. ASSUME NEW i \in Inputs(e, cuts)
      PROVE  i.traction \in Int /\ i.brake \in Int
  <2>1. CASE i \in {Handle(c) : c \in Driven}
    <3>1. PICK c \in Cabs : i = Handle(c)
      BY <2>1
    <3>2. TrackTraction(c, e.driving[c]) \in Int /\ e.driving[c].effort \in Int
      BY <1>2, TractionType, EffortsFact DEF DrivingTypes
    <3> QED
      BY <1>2, <3>1, <3>2
  <2>2. CASE i \in UNION {Protects(c) : c \in Wired}
    <3>1. PICK c \in Cabs : \E n \in ProtectionBrakes(e.stcs[c]) : i = Protect(c, n)
      BY <2>2
    <3>2. PICK n \in DOMAIN BrakeOf : i = Protect(c, n)
      BY <3>1 DEF ProtectionBrakes
    <3>3. i.traction = 0 /\ i.brake = (BrakeOf[n] * FullEffort) \div 10
      BY <3>2
    <3>4. i.brake \in 1..FullEffort
      BY <3>3, ProtectionEffort
    <3> QED
      BY <1>2, <3>3, <3>4
  <2> QED
    BY <1>1, <1>7, <2>1, <2>2
<1> QED
  BY <1>6, <1>7 DEF InputTypes

\* A driving system under the handles of a cab has no law.
LEMMA ManualTypes ==
  ASSUME NEW c \in Cabs, NEW h \in Handles(c)
  PROVE  DrivingTypes(c, Manually(h))
<1>1. DOMAIN << >> = {}
  OBVIOUS
<1> QED
  BY <1>1 DEF Manually, DrivingTypes, Handles

\* So do the configured handles, and the neutral ones.
LEMMA OffDrivingTypes ==
  \A c \in Cabs : DrivingTypes(c, OffDriving) /\ DrivingTypes(c, InitialDriving(c))
BY ManualTypes, EffortsFact DEF OffDriving, InitialDriving

\* A pass keeps the equipment in order and collects efforts within their ranges.
LEMMA ResolveTypes ==
  ASSUME NEW e, EquipmentTypes(e), NEW cs, CabRows(cs), NEW cuts,
         NEW p, p = Resolve(e, cs, cuts)
  PROVE  EquipmentTypes(p) /\ InputTypes(p.inputs)
<1>1. Passed(e, cs, cuts, p)
  BY ResolveFields DEF EquipmentTypes
<1>2. EquipmentShape(p) /\ p.doors = e.doors /\ p.btm = e.btm /\ p.inputs = Inputs(e, cuts)
  BY <1>1 DEF Passed
<1>3. /\ p.driving = [c \in Cabs |-> p.driving[c]]
      /\ \A c \in Cabs : p.driving[c] = OffDriving \/ p.driving[c] = e.driving[c]
  BY <1>1 DEF Passed
<1>4. /\ p.stcs = [c \in Cabs |-> p.stcs[c]]
      /\ \A c \in Cabs : \E feeds \in SUBSET Feeds(e, cs, c) : p.stcs[c] = Receive(e.stcs[c], feeds)
  <2> DEFINE Wired(c) == {f \in Feeds(e, cs, c) : Intact(cuts, f.source, StcsAtp(c))}
  <2>1. p.stcs = [c \in Cabs |-> Receive(e.stcs[c], Wired(c))]
    BY <1>1 DEF Passed
  <2>2. \A c \in Cabs : Wired(c) \in SUBSET Feeds(e, cs, c)
    OBVIOUS
  <2> HIDE DEF Wired
  <2> QED
    BY <2>1, <2>2
<1>5. p.box \in [Boxes -> BoxTypes]
  <2>1. p.box = [c \in Boxes |-> BoxAfter(e, cuts, c)]
    BY <1>1 DEF Passed
  <2>2. \A c \in Boxes : e.box[c] \in BoxTypes /\ Authorized(e.box[c]) \in BoxTypes
    BY DEF EquipmentTypes, BoxTypes, Authorized
  <2> QED
    BY <2>1, <2>2 DEF BoxAfter
<1>6. p.demand \in -FullEffort..FullEffort
  <2>1. p.demand = 0 \/ p.demand = e.demand
    BY <1>1 DEF Passed
  <2>2. e.demand \in -FullEffort..FullEffort /\ FullEffort \in Nat
    BY PhysicsAssumption DEF EquipmentTypes
  <2> QED
    BY <2>1, <2>2
<1>7. \A c \in Cabs : DrivingTypes(c, p.driving[c])
  BY <1>3, OffDrivingTypes DEF EquipmentTypes
<1>8. \A c \in Cabs : p.stcs[c] \in StcsTypes(c)
  <2> SUFFICES ASSUME NEW c \in Cabs PROVE p.stcs[c] \in StcsTypes(c)
    OBVIOUS
  <2>1. e.stcs[c] \in StcsTypes(c)
    BY DEF EquipmentTypes
  <2>2. PICK feeds \in SUBSET Feeds(e, cs, c) : p.stcs[c] = Receive(e.stcs[c], feeds)
    BY <1>4
  <2> QED
    BY <2>1, <2>2, ReceiveFact
<1>9. EquipmentTypes(p)
  BY <1>2, <1>3, <1>4, <1>5, <1>6, <1>7, <1>8 DEF EquipmentTypes
<1>10. InputTypes(p.inputs)
  BY <1>2, InputsFact
<1> QED
  BY <1>9, <1>10

\* The two passes of an operation keep the types.
LEMMA ResolveAllTypes ==
  ASSUME NEW e, EquipmentTypes(e), NEW active, NEW key, NEW cuts,
         NEW p, p = ResolveAll(e, active, key, cuts)
  PROVE  EquipmentTypes(p) /\ InputTypes(p.inputs)
<1> DEFINE cs == CabStates(active, key)
           once == Resolve(e, cs, cuts)
<1>1. CabRows(cs)
  BY CabRowsFact
<1>2. p = Resolve(once, cs, cuts)
  BY DEF ResolveAll
<1>3. EquipmentTypes(once)
  BY <1>1, ResolveTypes
<1> HIDE DEF cs, once
<1> QED
  BY <1>1, <1>2, <1>3, ResolveTypes

(***************************************************************************)
(* Two passes are enough.                                                  *)
(***************************************************************************)

\* The rows of a feed, and those of them it drives high.
Reached(feeds) == UNION {DOMAIN f.rows : f \in feeds}
Raised(feeds) == UNION {High(f.rows) : f \in feeds}

\* Receiving the same feeds again changes nothing.
LEMMA ReceiveTwice ==
  ASSUME NEW c \in Cabs, NEW s \in StcsTypes(c), NEW feeds
  PROVE  Receive(Receive(s, feeds), feeds) = Receive(s, feeds)
<1> DEFINE t == Receive(s, feeds)
<1>1. t = [s EXCEPT !.store = (s.store \ Reached(feeds)) \cup Raised(feeds)]
  BY DEF Receive, Reached, Raised
<1>2. Receive(t, feeds) = [t EXCEPT !.store = (t.store \ Reached(feeds)) \cup Raised(feeds)]
  BY DEF Receive, Reached, Raised
<1> HIDE DEF t
<1>3. t = [trainIn |-> t.trainIn, store |-> t.store, blocked |-> t.blocked]
      /\ t.store = (s.store \ Reached(feeds)) \cup Raised(feeds)
  BY <1>1 DEF StcsTypes
<1>4. (t.store \ Reached(feeds)) \cup Raised(feeds) = t.store
  BY <1>3
<1>5. Receive(t, feeds) = t
  BY <1>2, <1>3, <1>4
<1> QED
  BY <1>5 DEF t

\* What delivered intents leave alone in an STCS: its inputs, its blocks and the
\* stored values of the rows it derives.
Kept(t, s) ==
  /\ t.trainIn = s.trainIn /\ t.blocked = s.blocked
  /\ \A n \in Derived : n \in t.store <=> n \in s.store

\* A pass leaves the inputs, the blocks and the derived rows of an STCS alone.
LEMMA ResolveKeeps ==
  ASSUME NEW e, EquipmentTypes(e), NEW cs, CabRows(cs), NEW cuts, NEW p, p = Resolve(e, cs, cuts),
         NEW c \in Cabs
  PROVE  Kept(p.stcs[c], e.stcs[c])
<1>1. Passed(e, cs, cuts, p)
  BY ResolveFields DEF EquipmentTypes
<1>2. e.stcs[c] \in StcsTypes(c)
  BY DEF EquipmentTypes
<1> DEFINE wired == {f \in Feeds(e, cs, c) : Intact(cuts, f.source, StcsAtp(c))}
<1>3. wired \in SUBSET Feeds(e, cs, c)
  OBVIOUS
<1>4. p.stcs[c] = Receive(e.stcs[c], wired)
  BY <1>1 DEF Passed
<1> HIDE DEF wired
<1> QED
  BY <1>2, <1>3, <1>4, ReceiveFact DEF Kept

\* What a pass makes of the driving systems, the boxes, the lever and the wired
\* feeds of an STCS depends on the inputs of the STCS instances only.
SameInputs(e, f) == \A c \in Cabs : e.stcs[c].trainIn = f.stcs[c].trainIn

\* A pass leaves what an STCS heard from the train as it was.
LEMMA KeepsInputs ==
  ASSUME NEW e, EquipmentTypes(e), NEW cs, CabRows(cs), NEW cuts, NEW p, p = Resolve(e, cs, cuts)
  PROVE  SameInputs(p, e)
BY ResolveKeeps DEF SameInputs, Kept

\* Components that report the same are heard the same.
LEMMA SameFeeds ==
  ASSUME NEW e, NEW f, NEW c, e.doors = f.doors, e.driving[c] = f.driving[c],
         e.box = f.box, NEW cs
  PROVE  Feeds(e, cs, c) = Feeds(f, cs, c)
<1>1. {[source |-> SwitchBox(b), rows |-> SwitchFeedback(e.box[b])] : b \in Boxes \cap {c}}
      = {[source |-> SwitchBox(b), rows |-> SwitchFeedback(f.box[b])] : b \in Boxes \cap {c}}
  OBVIOUS
<1> QED
  BY <1>1 DEF Feeds

\* The driver inputs of a pass depend on the handles and the STCS inputs only.
LEMMA SameEfforts ==
  ASSUME NEW e, NEW f, NEW cuts, SameInputs(e, f), \A c \in Cabs : e.driving[c] = f.driving[c]
  PROVE  Inputs(e, cuts) = Inputs(f, cuts)
<1>1. \A c \in Cabs : ProtectionBrakes(e.stcs[c]) = ProtectionBrakes(f.stcs[c])
  BY DEF ProtectionBrakes, CutOff, SameInputs
<1> QED
  BY <1>1 DEF Inputs

\* The second pass delivers what the first has changed; a third finds nothing to
\* change, whatever the equipment was and whichever wires are cut.
LEMMA ThirdPass ==
  ASSUME NEW e, EquipmentTypes(e), NEW cs, CabRows(cs), NEW cuts,
         NEW p, p = Resolve(e, cs, cuts), NEW q, q = Resolve(p, cs, cuts)
  PROVE  Resolve(q, cs, cuts) = q
<1>1. EquipmentTypes(p) /\ EquipmentTypes(q)
  BY ResolveTypes
<1> SUFFICES ASSUME NEW r, r = Resolve(q, cs, cuts) PROVE r = q
  OBVIOUS
<1>2. Passed(e, cs, cuts, p) /\ Passed(p, cs, cuts, q) /\ Passed(q, cs, cuts, r)
  BY <1>1, ResolveFields DEF EquipmentTypes
<1>3. SameInputs(p, e) /\ SameInputs(q, p)
  BY <1>1, KeepsInputs
<1>4. \A c \in Cabs : (CutOff(p.stcs[c]) <=> CutOff(e.stcs[c])) /\ (CutOff(q.stcs[c]) <=> CutOff(e.stcs[c]))
  BY <1>3 DEF SameInputs, CutOff
<1>5. q.driving = p.driving /\ r.driving = q.driving
  <2>1. ASSUME NEW c \in Cabs PROVE q.driving[c] = p.driving[c] /\ r.driving[c] = q.driving[c]
    <3> DEFINE cut(x) == CutOff(x.stcs[c]) /\ Intact(cuts, StcsAtp(c), DrivingSystem(c))
    <3>1. p.driving[c] = IF cut(e) THEN OffDriving ELSE e.driving[c]
      BY <1>2 DEF Passed
    <3>2. q.driving[c] = IF cut(p) THEN OffDriving ELSE p.driving[c]
      BY <1>2 DEF Passed
    <3>3. r.driving[c] = IF cut(q) THEN OffDriving ELSE q.driving[c]
      BY <1>2 DEF Passed
    <3>4. (cut(p) <=> cut(e)) /\ (cut(q) <=> cut(e))
      BY <1>4
    <3> HIDE DEF cut
    <3> QED
      BY <3>1, <3>2, <3>3, <3>4
  <2>2. /\ p.driving = [c \in Cabs |-> p.driving[c]] /\ q.driving = [c \in Cabs |-> q.driving[c]]
        /\ r.driving = [c \in Cabs |-> r.driving[c]]
    BY <1>2 DEF Passed
  <2> QED
    BY <2>1, <2>2
<1>6. q.box = p.box /\ r.box = q.box
  <2>1. \A b \in BoxTypes : Authorized(Authorized(b)) = Authorized(b)
    BY DEF BoxTypes, Authorized
  <2>2. \A c \in Boxes : e.box[c] \in BoxTypes
    BY DEF EquipmentTypes
  <2>3. \A c \in Boxes : /\ "c2_authorized" \in p.stcs[c].trainIn <=> "c2_authorized" \in e.stcs[c].trainIn
                         /\ "c2_authorized" \in q.stcs[c].trainIn <=> "c2_authorized" \in e.stcs[c].trainIn
    BY <1>3, TrainAssumption DEF SameInputs
  <2>4. \A c \in Boxes : q.box[c] = p.box[c] /\ r.box[c] = q.box[c]
    <3> SUFFICES ASSUME NEW c \in Boxes PROVE q.box[c] = p.box[c] /\ r.box[c] = q.box[c]
      OBVIOUS
    <3>1. p.box[c] = BoxAfter(e, cuts, c) /\ q.box[c] = BoxAfter(p, cuts, c) /\ r.box[c] = BoxAfter(q, cuts, c)
      BY <1>2 DEF Passed
    <3>4. Authorized(Authorized(e.box[c])) = Authorized(e.box[c])
      BY <2>1, <2>2
    <3> QED
      BY <2>3, <3>1, <3>4 DEF BoxAfter
  <2>5. /\ p.box = [c \in Boxes |-> p.box[c]] /\ q.box = [c \in Boxes |-> q.box[c]]
        /\ r.box = [c \in Boxes |-> r.box[c]]
    BY <1>2 DEF Passed
  <2> QED
    BY <2>4, <2>5
<1>7. q.doors = p.doors /\ r.doors = q.doors /\ q.btm = p.btm /\ r.btm = q.btm
  BY <1>2 DEF Passed
<1>8. r.demand = q.demand
  <2>1. (\E c \in Cabs : CutOff(q.stcs[c]) /\ Intact(cuts, StcsAtp(c), TheTrain))
          => q.demand = 0
    BY <1>2, <1>4 DEF Passed
  <2> QED
    BY <1>2, <2>1 DEF Passed
<1>9. r.inputs = q.inputs
  <2>1. Inputs(q, cuts) = Inputs(p, cuts)
    BY <1>3, <1>5, SameEfforts
  <2> QED
    BY <1>2, <2>1 DEF Passed
<1>10. r.stcs = q.stcs
  <2>1. ASSUME NEW c \in Cabs PROVE r.stcs[c] = q.stcs[c]
    <3> DEFINE wired == {f \in Feeds(q, cs, c) : Intact(cuts, f.source, StcsAtp(c))}
    <3>1. Feeds(q, cs, c) = Feeds(p, cs, c)
      BY <1>5, <1>6, <1>7, SameFeeds
    <3>2. r.stcs[c] = Receive(q.stcs[c], wired)
      BY <1>2 DEF Passed
    <3>4. q.stcs[c] = Receive(p.stcs[c], {f \in Feeds(p, cs, c) : Intact(cuts, f.source, StcsAtp(c))})
      BY <1>2 DEF Passed
    <3>5. q.stcs[c] = Receive(p.stcs[c], wired)
      BY <3>1, <3>4
    <3>3. p.stcs[c] \in StcsTypes(c)
      BY <1>1 DEF EquipmentTypes
    <3> HIDE DEF wired
    <3> QED
      BY <3>2, <3>3, <3>5, ReceiveTwice
  <2>2. q.stcs = [c \in Cabs |-> q.stcs[c]] /\ r.stcs = [c \in Cabs |-> r.stcs[c]]
    BY <1>2 DEF Passed
  <2> QED
    BY <2>1, <2>2
<1>11. EquipmentShape(r) /\ EquipmentShape(q)
  BY <1>2 DEF Passed
<1> QED
  BY <1>5, <1>6, <1>7, <1>8, <1>9, <1>10, <1>11 DEF EquipmentShape

\* The equipment is settled after resolve_all_intents.
LEMMA ResolveAllSettles ==
  ASSUME NEW e, EquipmentTypes(e), NEW active, NEW key, NEW cuts,
         NEW q, q = ResolveAll(e, active, key, cuts)
  PROVE  Resolve(q, CabStates(active, key), cuts) = q
<1> DEFINE cs == CabStates(active, key)
           p == Resolve(e, cs, cuts)
<1>1. CabRows(cs)
  BY CabRowsFact
<1>2. q = Resolve(p, cs, cuts)
  BY DEF ResolveAll
<1> HIDE DEF cs
<1>3. Resolve(q, cs, cuts) = q
  BY <1>1, <1>2, ThirdPass
<1> QED
  BY <1>3 DEF cs

(***************************************************************************)
(* The requests of an STCS ATP.                                            *)
(***************************************************************************)

\* The signal tables of an STCS: no derived row is a switch row.
LEMMA TableFacts ==
  ASSUME NEW c \in Cabs
  PROVE  /\ Derived \subseteq OutOf(c) /\ OutOf(c) \subseteq OutSignals /\ InOf(c) \subseteq InSignals
         /\ Derived \cap SwitchRows = {}
BY DEF OutOf, InOf, OutSignals, Derived, InvertOf, SwitchRows

\* Writing rows changes these rows and no other.
LEMMA UpdatedFact ==
  ASSUME NEW T, NEW signals \in SUBSET T, NEW rows, DOMAIN rows \subseteq T
  PROVE  /\ Updated(signals, rows) \in SUBSET T
         /\ \A n : n \notin DOMAIN rows => (n \in Updated(signals, rows) <=> n \in signals)
BY DEF Updated, High

\* A bit string reaches its own rows and no other.
LEMMA AssertedFact ==
  ASSUME NEW T, NEW signals \in SUBSET T, NEW strings, \A bits \in strings : DOMAIN bits \subseteq T
  PROVE  /\ Asserted(signals, strings) \in SUBSET T
         /\ \A n : n \notin UNION {DOMAIN bits : bits \in strings} =>
              (n \in Asserted(signals, strings) <=> n \in signals)
<1>1. CASE strings = {}
  BY <1>1 DEF Asserted
<1>2. CASE strings # {}
  <2>1. Asserted(signals, strings) = UNION {Updated(signals, bits) : bits \in strings}
    BY <1>2 DEF Asserted
  <2>2. \A bits \in strings :
          /\ Updated(signals, bits) \in SUBSET T
          /\ \A n : n \notin DOMAIN bits => (n \in Updated(signals, bits) <=> n \in signals)
    BY UpdatedFact
  <2> QED
    BY <1>2, <2>1, <2>2
<1> QED
  BY <1>1, <1>2

\* Blocking keeps what is read: the row and its readings, newly blocked or not.
LEMMA BlocksFact ==
  ASSUME NEW c \in Cabs, NEW s \in StcsTypes(c), NEW r, r.block \subseteq Derived
  PROVE  /\ ApplyBlocks(s, r) \in StcsTypes(c)
         /\ ApplyBlocks(s, r).trainIn = s.trainIn
         /\ \A n \in ApplyBlocks(s, r).blocked :
              n \in Derived /\ (n \in ApplyBlocks(s, r).store <=> n \in EffectiveOut(s))
<1> DEFINE fresh == r.block \ s.blocked
           t == ApplyBlocks(s, r)
           store == (s.store \ fresh) \cup (EffectiveOut(s) \cap fresh)
           blocked == (s.blocked \cup r.block) \ r.unblock
<1>1. t = [s EXCEPT !.store = store, !.blocked = blocked]
  BY DEF ApplyBlocks
<1>2. fresh \subseteq Derived /\ blocked \subseteq Derived /\ store \subseteq OutOf(c)
  BY TableFacts DEF StcsTypes
<1> HIDE DEF t, store, blocked
<1>3. t.store = store /\ t.blocked = blocked /\ t.trainIn = s.trainIn /\ t \in StcsTypes(c)
  BY <1>1, <1>2 DEF StcsTypes
<1>4. ASSUME NEW n \in blocked PROVE n \in Derived /\ (n \in store <=> n \in EffectiveOut(s))
  <2>1. n \in Derived
    BY <1>2
  <2>2. CASE n \in fresh
    <3>1. n \in store <=> n \in EffectiveOut(s)
      BY <2>2 DEF store
    <3> QED
      BY <2>1, <3>1
  <2>3. CASE n \notin fresh
    <3>1. n \in s.blocked
      BY <2>3 DEF blocked
    <3>2. n \in OutSignals
      BY <2>1, TableFacts
    <3>3. n \in EffectiveOut(s) <=> n \in s.store
      BY <3>1, <3>2 DEF EffectiveOut
    <3>4. n \in store <=> n \in s.store
      BY <2>3 DEF store
    <3> QED
      BY <2>1, <3>3, <3>4
  <2> QED
    BY <2>1, <2>2, <2>3
<1> QED
  BY <1>3, <1>4 DEF t

\* What a request to an STCS leaves alone, accepted, refused or refused half way:
\* the inputs it does not assert, and the readings of blocked rows it does not name.
LEMMA StcsFact ==
  ASSUME NEW c \in Cabs, NEW s \in StcsTypes(c), NEW r \in Requests, r.target = StcsAtp(c)
  PROVE  /\ ApplyStcs(c, s, r) \in StcsTypes(c)
         /\ \A n : n \notin DOMAIN r.inSignals \cup UNION {DOMAIN bits : bits \in r.command} =>
              (n \in ApplyStcs(c, s, r).trainIn <=> n \in s.trainIn)
         /\ \A n \in ApplyStcs(c, s, r).blocked :
              \/ n \in ApplyStcs(c, s, r).store <=> n \in EffectiveOut(s)
              \/ r.rawOut # {} \/ n \in DOMAIN r.outSignals
<1> DEFINE t == ApplyBlocks(s, r)
           u == ApplyCommand(t, r)
           v == ApplySignals(u, r)
           named == DOMAIN r.inSignals \cup UNION {DOMAIN bits : bits \in r.command}
           Keeps(x) == /\ x \in StcsTypes(c)
                       /\ \A n : n \notin named => (n \in x.trainIn <=> n \in s.trainIn)
                       /\ \A n \in x.blocked : \/ n \in x.store <=> n \in EffectiveOut(s)
                                               \/ r.rawOut # {} \/ n \in DOMAIN r.outSignals
<1>1. CASE ~ValidUpdate(c, s, r)
  <2>1. ApplyStcs(c, s, r) = s
    BY <1>1, Zenon DEF ApplyStcs, StcsAccepts
  <2>2. \A n \in s.blocked : n \in s.store <=> n \in EffectiveOut(s)
    <3>1. s.blocked \subseteq Derived /\ Derived \subseteq OutSignals
      BY TableFacts DEF StcsTypes
    <3> QED
      BY <3>1 DEF EffectiveOut
  <2> QED
    BY <2>1, <2>2
<1>2. CASE ValidUpdate(c, s, r)
  <2>1. /\ r.block \subseteq Derived /\ DOMAIN r.inSignals \subseteq InOf(c)
        /\ DOMAIN r.outSignals \subseteq OutOf(c)
    BY <1>2 DEF ValidUpdate
  <2>2. Keeps(t)
    BY <2>1, BlocksFact
  <2>3. CASE ~Binary(r.command)
    <3>1. ApplyStcs(c, s, r) = t
      BY <1>2, <2>3, Zenon DEF ApplyStcs, StcsAccepts
    <3> QED
      BY <2>2, <3>1
  <2>4. CASE Binary(r.command)
    <3>1. \A bits \in r.command : DOMAIN bits \subseteq InOf(c)
      BY <2>4, Payloads DEF Binary
    <3>2. /\ Asserted(t.trainIn, r.command) \in SUBSET InOf(c)
          /\ \A n : n \notin UNION {DOMAIN bits : bits \in r.command} =>
               (n \in Asserted(t.trainIn, r.command) <=> n \in t.trainIn)
      <4>1. t.trainIn \in SUBSET InOf(c)
        BY <2>2 DEF StcsTypes
      <4> HIDE DEF t
      <4> QED
        BY <3>1, <4>1, AssertedFact
    <3>3. u = [t EXCEPT !.trainIn = Asserted(t.trainIn, r.command)]
      BY DEF ApplyCommand
    <3>4. /\ u \in StcsTypes(c) /\ u.trainIn = Asserted(t.trainIn, r.command)
          /\ u.store = t.store /\ u.blocked = t.blocked
      <4> HIDE DEF t, u
      <4> QED
        BY <2>2, <3>2, <3>3 DEF StcsTypes
    <3>5. Keeps(u)
      <4> HIDE DEF t, u
      <4> QED
        BY <2>2, <3>2, <3>4
    <3>6. CASE ~Binary(r.rawOut)
      <4>1. ApplyStcs(c, s, r) = u
        BY <1>2, <2>4, <3>6, Zenon DEF ApplyStcs, StcsAccepts
      <4> QED
        BY <3>5, <4>1
    <3>7. CASE Binary(r.rawOut)
      <4>1. ApplyStcs(c, s, r) = v
        BY <1>2, <2>4, <3>7, Zenon DEF ApplyStcs, StcsAccepts
      <4>2. \A bits \in r.rawOut : DOMAIN bits \subseteq OutOf(c)
        BY <3>7, Payloads DEF Binary
      <4>3. v = [u EXCEPT !.trainIn = Updated(u.trainIn, r.inSignals),
                          !.store = Updated(Asserted(u.store, r.rawOut), r.outSignals)]
        BY DEF ApplySignals
      <4> HIDE DEF u, v
      <4>4. u.trainIn \in SUBSET InOf(c) /\ u.store \in SUBSET OutOf(c) /\ u.blocked \subseteq Derived
        BY <3>4 DEF StcsTypes
      <4>5. /\ Updated(u.trainIn, r.inSignals) \in SUBSET InOf(c)
            /\ \A n : n \notin DOMAIN r.inSignals =>
                 (n \in Updated(u.trainIn, r.inSignals) <=> n \in u.trainIn)
        BY <2>1, <4>4, UpdatedFact
      <4>6. Asserted(u.store, r.rawOut) \in SUBSET OutOf(c)
        BY <4>2, <4>4, AssertedFact
      <4>7. /\ Updated(Asserted(u.store, r.rawOut), r.outSignals) \in SUBSET OutOf(c)
            /\ \A n : n \notin DOMAIN r.outSignals =>
                 (n \in Updated(Asserted(u.store, r.rawOut), r.outSignals)
                    <=> n \in Asserted(u.store, r.rawOut))
        BY <2>1, <4>6, UpdatedFact
      <4>8. r.rawOut = {} => Asserted(u.store, r.rawOut) = u.store
        BY DEF Asserted
      <4>9. /\ v \in StcsTypes(c) /\ v.trainIn = Updated(u.trainIn, r.inSignals)
            /\ v.store = Updated(Asserted(u.store, r.rawOut), r.outSignals)
            /\ v.blocked = u.blocked
        BY <3>4, <4>3, <4>5, <4>7 DEF StcsTypes
      <4>10. \A n : n \notin named => (n \in v.trainIn <=> n \in s.trainIn)
        BY <3>5, <4>5, <4>9
      <4>11. \A n \in v.blocked : \/ n \in v.store <=> n \in EffectiveOut(s)
                                  \/ r.rawOut # {} \/ n \in DOMAIN r.outSignals
        BY <3>5, <4>7, <4>8, <4>9
      <4> QED
        BY <4>1, <4>9, <4>10, <4>11
    <3> QED
      BY <3>6, <3>7
  <2> QED
    BY <2>3, <2>4
<1> QED
  BY <1>1, <1>2

(***************************************************************************)
(* The driving systems and their laws.                                     *)
(***************************************************************************)

\* Taking over a valid request gives handles or an armed law with all its targets:
\* those missing are defaults or carried over from the same law.
LEMMA DrivingFact ==
  ASSUME NEW c \in Cabs, NEW d, DrivingTypes(c, d), NEW r, DrivingAccepts(d, r),
         \A n \in DOMAIN r.targets : r.targets[n] \in Int
  PROVE  DrivingTypes(c, ApplyDriving(d, r))
<1> DEFINE law == RequestedControl(d, r)
           targets == TargetsOf(d, r)
<1>1. /\ r.control \subseteq DrivingLaws \cup {"manual"} /\ r.mode \subseteq Modes
      /\ r.direction \subseteq Directions /\ r.effort \subseteq 0..FullEffort
  BY DEF DrivingAccepts
<1>2. law \in DrivingLaws \cup {"manual"}
  BY <1>1, GivenFact DEF RequestedControl, DrivingTypes
<1>3. CASE law = "manual"
  <2> DEFINE h == [mode |-> Given(r.mode, d.manual.mode),
                   direction |-> Given(r.direction, d.manual.direction),
                   effort |-> Given(r.effort, d.manual.effort)]
  <2>1. h \in Handles(c)
    <3>1. /\ Given(r.mode, d.manual.mode) \in Modes
          /\ Given(r.direction, d.manual.direction) \in Directions
      BY <1>1, GivenFact DEF DrivingTypes, Handles
    <3>2. Given(r.effort, d.manual.effort) \in Efforts(c)
      BY <1>1, EffortsFact, GivenFact DEF DrivingTypes, Handles
    <3> QED
      BY <3>1, <3>2 DEF Handles
  <2>2. ApplyDriving(d, r) = [WithHandles(d, h) EXCEPT !.manual = h, !.control = "manual",
                                                       !.targets = << >>]
    BY <1>3 DEF ApplyDriving
  <2> HIDE DEF h
  <2>3. ApplyDriving(d, r) = [mode |-> h.mode, direction |-> h.direction, effort |-> h.effort,
                              manual |-> h, control |-> "manual", targets |-> << >>]
    BY <2>2 DEF DrivingTypes, WithHandles
  <2>4. DOMAIN << >> = {}
    OBVIOUS
  <2> QED
    BY <2>1, <2>3, <2>4 DEF DrivingTypes, Handles
<1>4. CASE law # "manual"
  <2>1. law \in DrivingLaws
    BY <1>2, <1>4
  <2>2. /\ DOMAIN r.targets \subseteq LawTargets[law] /\ DOMAIN targets = LawTargets[law]
        /\ \A n \in LawTargets[law] : ValidTarget(n, targets[n])
    BY <1>4 DEF DrivingAccepts
  <2>3. ASSUME NEW n \in DOMAIN targets PROVE targets[n] \in Int
    <3> DEFINE armed == IF d.control = law THEN d.targets ELSE << >>
               known == DOMAIN r.targets \cup DOMAIN armed \cup DOMAIN TargetDefaults[law]
    <3>1. targets = [m \in LawTargets[law] \cap known |->
                       IF m \in DOMAIN r.targets THEN r.targets[m]
                       ELSE IF m \in DOMAIN armed THEN armed[m] ELSE TargetDefaults[law][m]]
      BY Zenon DEF TargetsOf
    <3>2. \A m \in DOMAIN armed : armed[m] \in Int
      BY DEF DrivingTypes
    <3>3. \A m \in DOMAIN TargetDefaults[law] : TargetDefaults[law][m] \in Int
      <4>1. DOMAIN << >> = {}
        OBVIOUS
      <4>2. CASE law = "hold_speed"
        BY <4>1, <4>2 DEF TargetDefaults
      <4>3. CASE law = "stopping_envelope"
        BY <4>3, PhysicsAssumption DEF TargetDefaults
      <4> QED
        BY <2>1, <4>2, <4>3 DEF DrivingLaws
    <3> HIDE DEF armed, targets, law
    <3>4. n \in LawTargets[law] \cap known
      BY <2>3, <3>1
    <3> QED
      BY <3>1, <3>2, <3>3, <3>4
  <2>4. ApplyDriving(d, r) = [WithHandles(d, [mode |-> "brake", direction |-> "off", effort |-> 0])
                                EXCEPT !.control = law, !.targets = targets]
    BY <1>4 DEF ApplyDriving
  <2> HIDE DEF law, targets
  <2>5. ApplyDriving(d, r) = [mode |-> "brake", direction |-> "off", effort |-> 0,
                              manual |-> d.manual, control |-> law, targets |-> targets]
    BY <2>4 DEF DrivingTypes, WithHandles
  <2>6. 0 \in Efforts(c)
    BY PhysicsAssumption, EffortsFact
  <2> QED
    BY <1>4, <2>1, <2>2, <2>3, <2>5, <2>6 DEF DrivingTypes, Modes, Directions
<1> QED
  BY <1>3, <1>4

\* Some number in a set of naturals is the least.
LEMMA LeastNatural ==
  ASSUME NEW T, T \subseteq Nat, T # {}
  PROVE  \E m \in T : \A k \in T : m <= k
<1>1. \E m \in T : \A k \in T : ~ (<<k, m>> \in OpToRel(<, Nat))
  BY NatLessThanWellFounded, WFMin
<1>2. \A k, m \in Nat : k < m => <<k, m>> \in OpToRel(<, Nat)
  BY Zenon DEF OpToRel
<1>3. \E m \in T : \A k \in T : ~ (k < m)
  BY <1>1, <1>2, Zenon
<1> QED
  BY <1>3

\* The square root of the braking curve exists.
LEMMA SquareRootFact ==
  ASSUME NEW n \in Nat
  PROVE  SquareRoot(n) \in Nat
<1> DEFINE T == {r \in 0..n : n < (r + 1) * (r + 1)}
<1>1. n \in T
  <2>1. n < (n + 1) * (n + 1)
    <3>1. (n + 1) * (n + 1) = n * n + n + n + 1 /\ n * n \in Nat
      OBVIOUS
    <3> QED
      BY <3>1
  <2> QED
    BY <2>1
<1>2. PICK m \in T : \A k \in T : m <= k
  <2>1. T \subseteq 0..n /\ 0..n \subseteq Nat
    OBVIOUS
  <2> HIDE DEF T
  <2> QED
    BY <1>1, <2>1, LeastNatural
<1>3. m * m <= n
  <2>1. CASE m = 0
    BY <2>1
  <2>2. CASE m # 0
    <3>1. m - 1 \in 0..n /\ m - 1 \notin T
      BY <1>2, <2>2
    <3>2. ~(n < ((m - 1) + 1) * ((m - 1) + 1))
      BY <3>1
    <3>3. (m - 1) + 1 = m /\ m * m \in Nat
      BY <1>2
    <3> QED
      BY <3>2, <3>3
  <2> QED
    BY <2>1, <2>2
<1>4. \E r \in 0..n : r * r <= n /\ n < (r + 1) * (r + 1)
  BY <1>2, <1>3
<1>5. SquareRoot(n) \in 0..n
  BY <1>4 DEF SquareRoot
<1> QED
  BY <1>5

\* A quotient rounded towards zero has the sign of its numerator, or is zero.
LEMMA TruncateFact ==
  ASSUME NEW x \in Int, NEW y \in Nat \ {0}
  PROVE  /\ Truncate(x, y) \in Int
         /\ x >= 0 => Truncate(x, y) >= 0
         /\ x <= 0 => Truncate(x, y) <= 0
<1>1. Abs(x) \in Nat
  BY DEF Abs
<1>2. Abs(x) \div y \in Nat
  BY <1>1
<1> DEFINE q == Abs(x) \div y
<1>3. Truncate(x, y) = Sign(x) * q /\ q \in Nat
  BY <1>2 DEF Truncate
<1> HIDE DEF q
<1> QED
  BY <1>3 DEF Sign

\* The largest efforts of the train as whole numbers.
LEMMA MaximaFact == MaxTraction \in Nat /\ MaxDecel \in Nat
<1>1. \A a, b \in Nat : a * b \in Nat
  OBVIOUS
<1> QED
  BY <1>1, PhysicsAssumption DEF MaxTraction, MaxDecel

\* The acceleration a law requests points from the speed to the desired one.
LEMMA TrackFact ==
  ASSUME NEW desired \in Int, NEW v \in Int, NEW gain \in Nat
  PROVE  LET a == TrackAcceleration(desired, v, gain)
         IN  /\ a \in Int
             /\ desired >= v => a >= 0
             /\ desired <= v => a <= 0
<1> DEFINE x == gain * (desired - v)
           a == TrackAcceleration(desired, v, gain)
<1>1. x \in Int /\ (desired >= v => x >= 0)
  <2>1. \A g \in Nat, z \in Int : g * z \in Int /\ (z >= 0 => g * z >= 0)
    OBVIOUS
  <2> QED
    BY <2>1
<1>2. desired <= v => x <= 0
  <2>1. \A g \in Nat, z \in Int : z <= 0 => g * z <= 0
    OBVIOUS
  <2> QED
    BY <2>1
<1>3. a = Clamp(-MaxDecel, MaxTraction, Truncate(x, GainUnit))
  BY DEF TrackAcceleration
<1>4. GainUnit \in Nat \ {0}
  BY PhysicsAssumption
<1> DEFINE t == Truncate(x, GainUnit)
<1> HIDE DEF x, a
<1>5. t \in Int /\ (x >= 0 => t >= 0) /\ (x <= 0 => t <= 0)
  BY <1>1, <1>4, TruncateFact
<1> HIDE DEF t
<1>6. a \in Int /\ (desired >= v => a >= 0) /\ (desired <= v => a <= 0)
  <2>1. a = Clamp(-MaxDecel, MaxTraction, t)
    BY <1>3 DEF t
  <2> QED
    BY <1>1, <1>2, <1>5, <2>1, MaximaFact DEF Clamp
<1> QED
  BY <1>6 DEF a

\* The envelope never asks a cab to go backwards.
LEMMA EnvelopeFact ==
  ASSUME NEW targets, targets.target_position \in Int, targets.max_speed \in Nat,
         NEW x \in Int, NEW facing \in {1, -1}
  PROVE  /\ EnvelopeSpeed(targets, x, facing) \in Int
         /\ facing * EnvelopeSpeed(targets, x, facing) >= 0
<1> DEFINE remaining == (targets.target_position - x) * facing - Tolerance
           most == AtMost(targets.max_speed, SquareRoot(MaxDecel * remaining))
<1>1. remaining \in Int
  BY PhysicsAssumption
<1>2. EnvelopeSpeed(targets, x, facing) = IF remaining > 0 THEN facing * most ELSE 0
  BY DEF EnvelopeSpeed
<1> HIDE DEF remaining
<1>3. CASE remaining > 0
  <2>1. MaxDecel * remaining \in Nat
    <3>1. \A a, b \in Nat : a * b \in Nat
      OBVIOUS
    <3> QED
      BY <1>1, <1>3, <3>1, MaximaFact
  <2>2. SquareRoot(MaxDecel * remaining) \in Nat
    BY <2>1, SquareRootFact
  <2>3. most \in Nat
    BY <2>2 DEF AtMost
  <2> HIDE DEF most
  <2> QED
    BY <1>2, <1>3, <2>3
<1>4. CASE ~(remaining > 0)
  BY <1>2, <1>4
<1> QED
  BY <1>3, <1>4

(***************************************************************************)
(* The sum of the efforts of a pass.                                       *)
(***************************************************************************)

Some(s) == CHOOSE x \in s : TRUE

\* h adds the weights of the members of each subset of S, in some order.
Adds(h, w, S) ==
  \A s \in SUBSET S : h[s] = IF s = {} THEN 0 ELSE w[Some(s)] + h[s \ {Some(s)}]

\* A non-empty set has an element for the sum to take.
LEMMA SomeFact == \A s : s # {} => Some(s) \in s
BY DEF Some

\* Such a function exists on a finite set: a least size that has none would follow
\* from the one before.
LEMMA AddsExists ==
  ASSUME NEW S, IsFiniteSet(S), NEW w
  PROVE  \E h : h = [s \in SUBSET S |-> h[s]] /\ Adds(h, w, S)
<1> DEFINE Upto(h, n) == \A s \in SUBSET S : Cardinality(s) <= n =>
                            h[s] = IF s = {} THEN 0 ELSE w[Some(s)] + h[s \ {Some(s)}]
           T == {n \in Nat : ~ \E h : h = [s \in SUBSET S |-> h[s]] /\ Upto(h, n)}
<1>1. ASSUME NEW s \in SUBSET S
      PROVE  /\ Cardinality(s) \in Nat /\ Cardinality(s) <= Cardinality(S)
             /\ s \ {Some(s)} \in SUBSET S
             /\ s # {} => Cardinality(s \ {Some(s)}) = Cardinality(s) - 1 /\ Cardinality(s) > 0
  <2>1. IsFiniteSet(s) /\ Cardinality(s) <= Cardinality(S)
    BY FS_Subset
  <2>2. Cardinality(s) \in Nat /\ (Cardinality(s) = 0 <=> s = {})
    BY <2>1, FS_CardinalityType, FS_EmptySet
  <2>3. s # {} => Cardinality(s \ {Some(s)}) = Cardinality(s) - 1
    BY <2>1, FS_RemoveElement, SomeFact
  <2> QED
    BY <2>1, <2>2, <2>3
<1>2. Cardinality(S) \in Nat
  BY FS_CardinalityType
<1>3. T = {}
  <2> SUFFICES ASSUME T # {} PROVE FALSE
    OBVIOUS
  <2>0. T \subseteq Nat
    OBVIOUS
  <2>1. PICK m \in T : \A k \in T : m <= k
    <3> HIDE DEF T
    <3> QED
      BY <2>0, LeastNatural
  <2>2. CASE m = 0
    <3> DEFINE h == [s \in SUBSET S |-> 0]
    <3>1. Upto(h, 0)
      <4>1. \A s \in SUBSET S : Cardinality(s) <= 0 => s = {}
        <5> SUFFICES ASSUME NEW s \in SUBSET S, s # {} PROVE ~(Cardinality(s) <= 0)
          OBVIOUS
        <5>1. Cardinality(s) \in Nat /\ Cardinality(s) > 0
          BY <1>1
        <5> QED
          BY <5>1
      <4> QED
        BY <4>1
    <3>2. h = [s \in SUBSET S |-> h[s]]
      OBVIOUS
    <3> QED
      BY <2>1, <2>2, <3>1, <3>2
  <2>3. CASE m # 0
    <3>1. m - 1 \in Nat /\ m - 1 \notin T
      <4>1. m \in Nat /\ m - 1 \in Nat /\ ~(m <= m - 1)
        BY <2>0, <2>1, <2>3
      <4> HIDE DEF T
      <4> QED
        BY <2>1, <4>1
    <3>2. PICK g : g = [s \in SUBSET S |-> g[s]] /\ Upto(g, m - 1)
      BY <3>1
    <3> DEFINE h == [s \in SUBSET S |-> IF Cardinality(s) <= m - 1 THEN g[s]
                                        ELSE w[Some(s)] + g[s \ {Some(s)}]]
    <3>3. ASSUME NEW s \in SUBSET S, Cardinality(s) <= m
          PROVE  h[s] = IF s = {} THEN 0 ELSE w[Some(s)] + h[s \ {Some(s)}]
      <4>1. CASE s = {}
        <5>1. Cardinality(s) <= m - 1
          BY <1>1, <3>1, <4>1, FS_EmptySet
        <5>2. h[s] = g[s]
          BY <5>1
        <5> QED
          BY <3>2, <4>1, <5>1, <5>2
      <4>2. CASE s # {}
        <5> DEFINE t == s \ {Some(s)}
        <5>1. t \in SUBSET S /\ Cardinality(t) <= m - 1
          BY <1>1, <3>1, <3>3, <4>2
        <5>2. h[t] = g[t]
          BY <5>1
        <5>3. h[s] = w[Some(s)] + g[t]
          BY <3>2, <4>2
        <5> HIDE DEF h
        <5> QED
          BY <4>2, <5>2, <5>3
      <4> QED
        BY <4>1, <4>2
    <3>4. h = [s \in SUBSET S |-> h[s]]
      OBVIOUS
    <3> HIDE DEF h
    <3>5. Upto(h, m)
      BY <3>3
    <3> QED
      BY <2>1, <3>4, <3>5
  <2> QED
    BY <2>2, <2>3
<1>4. PICK h : h = [s \in SUBSET S |-> h[s]] /\ Upto(h, Cardinality(S))
  BY <1>2, <1>3
<1>5. Adds(h, w, S)
  BY <1>1, <1>4 DEF Adds
<1> QED
  BY <1>4, <1>5

\* A sum of weights of one sign, seen from one end of the track, has that sign.
LEMMA AddsFact ==
  ASSUME NEW S, IsFiniteSet(S), NEW w, \A x \in S : w[x] \in Int, NEW h, Adds(h, w, S)
  PROVE  /\ h[S] \in Int
         /\ (\A x \in S : w[x] >= 0) => h[S] >= 0
         /\ (\A x \in S : w[x] <= 0) => h[S] <= 0
<1> DEFINE Good(s) == /\ h[s] \in Int
                      /\ (\A x \in s : w[x] >= 0) => h[s] >= 0
                      /\ (\A x \in s : w[x] <= 0) => h[s] <= 0
           T == {Cardinality(s) : s \in {t \in SUBSET S : ~Good(t)}}
<1>1. ASSUME NEW s \in SUBSET S PROVE IsFiniteSet(s) /\ Cardinality(s) \in Nat
  BY FS_Subset, FS_CardinalityType
<1>2. T = {}
  <2> SUFFICES ASSUME T # {} PROVE FALSE
    OBVIOUS
  <2>1. PICK m \in T : \A k \in T : m <= k
    <3>1. T \subseteq Nat
      BY <1>1
    <3> HIDE DEF T
    <3> QED
      BY <3>1, LeastNatural
  <2>2. PICK s \in SUBSET S : ~Good(s) /\ m = Cardinality(s)
    OBVIOUS
  <2>3. s # {}
    <3>1. h[{}] = 0
      BY DEF Adds
    <3> QED
      BY <2>2, <3>1
  <2> DEFINE x == Some(s)
             t == s \ {x}
  <2>4. x \in s /\ t \in SUBSET S /\ s = t \cup {x} /\ w[x] \in Int
    BY <2>3, SomeFact
  <2>5. Cardinality(t) = m - 1 /\ m \in Nat
    BY <1>1, <2>2, <2>4, FS_RemoveElement
  <2>6. h[s] = w[x] + h[t]
    BY <2>3 DEF Adds
  <2> HIDE DEF x, t
  <2>7. Good(t)
    <3>1. Cardinality(t) \notin T
      BY <2>1, <2>5
    <3> HIDE DEF Good
    <3> QED
      BY <2>4, <3>1
  <2>8. Good(s)
    <3>1. h[s] \in Int /\ h[t] \in Int
      BY <2>4, <2>6, <2>7
    <3>2. ASSUME \A y \in s : w[y] >= 0 PROVE h[s] >= 0
      BY <2>4, <2>6, <2>7, <3>1, <3>2
    <3>3. ASSUME \A y \in s : w[y] <= 0 PROVE h[s] <= 0
      BY <2>4, <2>6, <2>7, <3>1, <3>3
    <3> QED
      BY <3>1, <3>2, <3>3
  <2> QED
    BY <2>2, <2>8
<1>3. Good(S)
  BY <1>2
<1> QED
  BY <1>3

\* What StepAcceleration adds up.
TractionSum(inputs) == MapThenSumSet(LAMBDA d : d.traction, inputs)
BrakeSum(inputs) == MapThenSumSet(LAMBDA d : d.brake, inputs)

\* The traction of all inputs adds up one input at a time.
LEMMA TractionSumFact ==
  ASSUME NEW S, IsFiniteSet(S)
  PROVE  \E h : Adds(h, [x \in S |-> x.traction], S) /\ TractionSum(S) = h[S]
<1> DEFINE w == [x \in S |-> x.traction]
           h == CHOOSE h : h = [s \in SUBSET S |-> IF s = {} THEN 0
                    ELSE (CHOOSE x \in s : TRUE).traction + h[s \ {CHOOSE x \in s : TRUE}]]
<1>1. PICK g : g = [s \in SUBSET S |-> g[s]] /\ Adds(g, w, S)
  BY AddsExists
<1>2. \A s \in SUBSET S : s # {} => w[Some(s)] = Some(s).traction
  BY SomeFact
<1>3. g = [s \in SUBSET S |-> IF s = {} THEN 0
                    ELSE Some(s).traction + g[s \ {Some(s)}]]
  <2>1. \A s \in SUBSET S : g[s] = IF s = {} THEN 0 ELSE Some(s).traction + g[s \ {Some(s)}]
    BY <1>1, <1>2 DEF Adds
  <2> HIDE DEF w
  <2> QED
    BY <1>1, <2>1
<1>4. h = [s \in SUBSET S |-> IF s = {} THEN 0
                    ELSE (CHOOSE x \in s : TRUE).traction + h[s \ {CHOOSE x \in s : TRUE}]]
  BY <1>3, Zenon DEF Some
<1>5. TractionSum(S) = h[S]
  BY Zenon DEF TractionSum, MapThenSumSet, MapThenFoldSet
<1> HIDE DEF h
<1>6. \A s \in SUBSET S : h[s] = IF s = {} THEN 0 ELSE Some(s).traction + h[s \ {Some(s)}]
  BY <1>4 DEF Some
<1>7. Adds(h, w, S)
  BY <1>2, <1>6 DEF Adds
<1> QED
  BY <1>5, <1>7

\* The brake efforts of all inputs add up one input at a time.
LEMMA BrakeSumFact ==
  ASSUME NEW S, IsFiniteSet(S)
  PROVE  \E h : Adds(h, [x \in S |-> x.brake], S) /\ BrakeSum(S) = h[S]
<1> DEFINE w == [x \in S |-> x.brake]
           h == CHOOSE h : h = [s \in SUBSET S |-> IF s = {} THEN 0
                    ELSE (CHOOSE x \in s : TRUE).brake + h[s \ {CHOOSE x \in s : TRUE}]]
<1>1. PICK g : g = [s \in SUBSET S |-> g[s]] /\ Adds(g, w, S)
  BY AddsExists
<1>2. \A s \in SUBSET S : s # {} => w[Some(s)] = Some(s).brake
  BY SomeFact
<1>3. g = [s \in SUBSET S |-> IF s = {} THEN 0
                    ELSE Some(s).brake + g[s \ {Some(s)}]]
  <2>1. \A s \in SUBSET S : g[s] = IF s = {} THEN 0 ELSE Some(s).brake + g[s \ {Some(s)}]
    BY <1>1, <1>2 DEF Adds
  <2> HIDE DEF w
  <2> QED
    BY <1>1, <2>1
<1>4. h = [s \in SUBSET S |-> IF s = {} THEN 0
                    ELSE (CHOOSE x \in s : TRUE).brake + h[s \ {CHOOSE x \in s : TRUE}]]
  BY <1>3, Zenon DEF Some
<1>5. BrakeSum(S) = h[S]
  BY Zenon DEF BrakeSum, MapThenSumSet, MapThenFoldSet
<1> HIDE DEF h
<1>6. \A s \in SUBSET S : h[s] = IF s = {} THEN 0 ELSE Some(s).brake + h[s \ {Some(s)}]
  BY <1>4 DEF Some
<1>7. Adds(h, w, S)
  BY <1>2, <1>6 DEF Adds
<1> QED
  BY <1>5, <1>7

\* The efforts of a pass with driver inputs, summed and limited to the effort 1.0:
\* the traction has the sign that all of them agree on, and the brake is one.
LEMMA AccelerationFact ==
  ASSUME NEW e, InputTypes(e.inputs), e.inputs # {}
  PROVE  \E t \in -FullEffort..FullEffort : \E b \in 0..FullEffort :
           /\ StepAcceleration(e) = ResolveDriverAcceleration(t, b, speed)
           /\ (\A i \in e.inputs : i.traction >= 0) => t >= 0
           /\ (\A i \in e.inputs : i.traction <= 0) => t <= 0
<1> DEFINE S == e.inputs
           wt == [x \in S |-> x.traction]
           wb == [x \in S |-> x.brake]
<1>1. FullEffort \in Nat \ {0} /\ IsFiniteSet(S)
  BY PhysicsAssumption DEF InputTypes
<1>2. \A x \in S : /\ x.traction \in Int /\ wt[x] = x.traction
                   /\ x.brake \in Int /\ wb[x] = x.brake
  BY <1>1 DEF InputTypes
<1>3. StepAcceleration(e) = ResolveDriverAcceleration(Clamp(-FullEffort, FullEffort, TractionSum(S)),
                                                      Clamp(0, FullEffort, BrakeSum(S)), speed)
  BY Zenon DEF StepAcceleration, TractionSum, BrakeSum
<1>4. PICK ht : Adds(ht, wt, S) /\ TractionSum(S) = ht[S]
  BY <1>1, TractionSumFact
<1>5. PICK hb : Adds(hb, wb, S) /\ BrakeSum(S) = hb[S]
  BY <1>1, BrakeSumFact
<1> HIDE DEF S, wt, wb
<1>6. /\ ht[S] \in Int
      /\ (\A x \in S : wt[x] >= 0) => ht[S] >= 0
      /\ (\A x \in S : wt[x] <= 0) => ht[S] <= 0
  BY <1>1, <1>2, <1>4, AddsFact
<1>7. hb[S] \in Int
  BY <1>1, <1>2, <1>5, AddsFact
<1> DEFINE t == Clamp(-FullEffort, FullEffort, TractionSum(S))
           b == Clamp(0, FullEffort, BrakeSum(S))
<1>8. /\ t \in -FullEffort..FullEffort
      /\ ht[S] >= 0 => t >= 0
      /\ ht[S] <= 0 => t <= 0
  BY <1>1, <1>4, <1>6 DEF Clamp
<1>9. b \in 0..FullEffort
  BY <1>1, <1>5, <1>7 DEF Clamp
<1> HIDE DEF t, b
<1>10. (\A i \in S : i.traction >= 0) => t >= 0
  BY <1>2, <1>6, <1>8
<1>11. (\A i \in S : i.traction <= 0) => t <= 0
  BY <1>2, <1>6, <1>8
<1>12. StepAcceleration(e) = ResolveDriverAcceleration(t, b, speed)
  BY <1>3 DEF t, b
<1> QED
  BY <1>8, <1>9, <1>10, <1>11, <1>12 DEF S

\* Products of a factor with an effort, and with the signs of a motion.
LEMMA Products ==
  /\ \A a \in Nat, b \in Int : /\ a * b \in Int
                               /\ b >= 0 => a * b >= 0
                               /\ b <= 0 => a * b <= 0
  /\ \A a \in Nat \ {0}, b \in Int : b > 0 => a * b > 0
OBVIOUS

\* The acceleration of a step is a whole number.
LEMMA AccelerationType ==
  ASSUME NEW e, InputTypes(e.inputs), e.demand \in -FullEffort..FullEffort, speed \in Int
  PROVE  StepAcceleration(e) \in Int
<1>1. FullEffort \in Nat /\ TractionFactor \in Nat /\ DecelFactor \in Nat
  BY PhysicsAssumption
<1>2. CASE e.inputs = {}
  <2>1. StepAcceleration(e) = ResolveAcceleration(e.demand, speed)
    BY <1>2, Zenon DEF StepAcceleration
  <2>2. e.demand \in Int
    BY <1>1
  <2>3. TractionFactor * e.demand \in Int /\ DecelFactor * e.demand \in Int
    BY <1>1, <2>2
  <2> QED
    BY <2>1, <2>3 DEF ResolveAcceleration
<1>3. CASE e.inputs # {}
  <2>1. PICK t \in -FullEffort..FullEffort : \E b \in 0..FullEffort :
               StepAcceleration(e) = ResolveDriverAcceleration(t, b, speed)
    BY <1>3, AccelerationFact
  <2>2. PICK b \in 0..FullEffort : StepAcceleration(e) = ResolveDriverAcceleration(t, b, speed)
    BY <2>1
  <2>3. t \in Int /\ b \in Int /\ Sign(speed) \in {0, 1, -1}
    BY <1>1 DEF Sign
  <2>4. Sign(speed) * DecelFactor * b \in Int /\ TractionFactor * t \in Int
    BY <1>1, <2>3
  <2> QED
    BY <2>2, <2>4 DEF ResolveDriverAcceleration
<1> QED
  BY <1>2, <1>3

\* One step of motion: it changes the speed by the acceleration unless that takes
\* the train through standstill, where it stops.
Moved(v, a, w) ==
  \/ v * (v + a) >= 0 /\ w = v + a
  \/ v * (v + a) < 0 /\ w = 0

\* Integration moves the train with the new speed, or stops it where it would reverse.
LEMMA IntegrateFact ==
  ASSUME NEW x \in Int, NEW v \in Int, NEW a \in Int, NEW m, m = Integrate(x, v, a)
  PROVE  /\ m.position \in Int /\ m.speed \in Int /\ m.acceleration \in Int
         /\ Moved(v, a, m.speed)
<1> DEFINE v1 == v + a
<1>1. v1 \in Int /\ v * v1 \in Int
  OBVIOUS
<1>2. CASE v * v1 >= 0
  <2>1. m = [position |-> x + v + v1, speed |-> v1, acceleration |-> a]
    BY <1>2 DEF Integrate
  <2> QED
    BY <1>1, <1>2, <2>1 DEF Moved
<1>3. CASE v * v1 < 0
  <2>1. m = [position |-> x + Sign(v) * ((v * v) \div Abs(a)), speed |-> 0, acceleration |-> 0]
    BY <1>1, <1>3 DEF Integrate
  <2>2. a # 0
    <3>1. a = 0 => v1 = v
      OBVIOUS
    <3>2. v * v >= 0
      OBVIOUS
    <3> QED
      BY <1>3, <3>1, <3>2
  <2>3. Abs(a) \in Nat \ {0}
    BY <2>2 DEF Abs
  <2> DEFINE q == (v * v) \div Abs(a)
  <2>4. q \in Int
    <3>1. v * v \in Int
      OBVIOUS
    <3> QED
      BY <2>3, <3>1
  <2> HIDE DEF q
  <2>5. Sign(v) * q \in Int
    BY <2>4 DEF Sign
  <2>6. m.position = x + Sign(v) * q /\ m.speed = 0 /\ m.acceleration = 0
    BY <2>1 DEF q
  <2> QED
    BY <1>3, <2>5, <2>6 DEF Moved
<1> QED
  BY <1>1, <1>2, <1>3

\* An armed law asks for an acceleration, and an envelope for none against the
\* cab it drives from as long as the train does not move that cab's way.
LEMMA LawFact ==
  ASSUME NEW c \in Cabs, NEW d, DrivingTypes(c, d), d.control \in DrivingLaws,
         NEW x \in Int, NEW v \in Int, NEW facing \in {1, -1}
  PROVE  /\ LawAcceleration(d.control, d.targets, x, v, facing) \in Int
         /\ d.control = "stopping_envelope" /\ facing * v <= 0
              => facing * LawAcceleration(d.control, d.targets, x, v, facing) >= 0
<1> DEFINE a == LawAcceleration(d.control, d.targets, x, v, facing)
<1>1. \A n \in LawTargets[d.control] : d.targets[n] \in Int /\ ValidTarget(n, d.targets[n])
  BY DEF DrivingTypes, DrivingLaws
<1>2. CASE d.control = "hold_speed"
  <2>1. d.targets.target_speed \in Int
    BY <1>1, <1>2 DEF LawTargets
  <2>2. a = TrackAcceleration(d.targets.target_speed, v, DefaultGain)
    BY <1>2 DEF LawAcceleration
  <2>3. DefaultGain \in Nat
    BY PhysicsAssumption
  <2>4. a \in Int
    BY <2>1, <2>2, <2>3, TrackFact
  <2> QED
    BY <1>2, <2>4
<1>3. CASE d.control = "stopping_envelope"
  <2>1. d.targets.target_position \in Int /\ d.targets.max_speed \in Nat /\ d.targets.speed_gain \in Nat
    BY <1>1, <1>3 DEF LawTargets, ValidTarget
  <2> DEFINE u == EnvelopeSpeed(d.targets, x, facing)
  <2>2. u \in Int /\ facing * u >= 0
    BY <2>1, EnvelopeFact
  <2>3. a = TrackAcceleration(u, v, d.targets.speed_gain)
    BY <1>3 DEF LawAcceleration
  <2> HIDE DEF u, a
  <2>4. a \in Int /\ (u >= v => a >= 0) /\ (u <= v => a <= 0)
    BY <2>1, <2>2, <2>3, TrackFact
  <2>5. facing * v <= 0 => facing * a >= 0
    BY <2>2, <2>4
  <2> QED
    BY <2>4, <2>5 DEF a
<1> QED
  BY <1>2, <1>3 DEF DrivingLaws

\* The handles a law sets are handles, and pull only the way it asks for.
LEMMA HandlesFact ==
  ASSUME NEW a \in Int, NEW v \in Int, NEW facing \in {1, -1}, NEW h, h = LawHandles(a, v, facing)
  PROVE  /\ h \in Commanded
         /\ h.mode = "traction" /\ facing * a >= 0 => h.direction = "forward" \/ h.effort = 0
<1>1. FullEffort \in Nat /\ TractionFactor \in Nat \ {0} /\ DecelFactor \in Nat \ {0}
  BY PhysicsAssumption
<1>2. Abs(a) \in Nat /\ a * v \in Int
  BY DEF Abs
<1>3. ASSUME NEW k \in Nat \ {0}
      PROVE  /\ AtMost(FullEffort, Abs(a) \div k) \in 0..FullEffort
             /\ a = 0 => AtMost(FullEffort, Abs(a) \div k) = 0
  <2>1. Abs(a) \div k \in Nat
    BY <1>2
  <2>2. a = 0 => Abs(a) \div k = 0
    <3>1. a = 0 => Abs(a) = 0
      BY DEF Abs
    <3> QED
      BY <3>1
  <2> DEFINE q == Abs(a) \div k
  <2>3. q \in Nat /\ (a = 0 => q = 0)
    BY <2>1, <2>2
  <2> HIDE DEF q
  <2>4. AtMost(FullEffort, q) \in 0..FullEffort /\ (a = 0 => AtMost(FullEffort, q) = 0)
    BY <1>1, <2>3 DEF AtMost
  <2> QED
    BY <2>4 DEF q
<1>4. \A y : Towards(y) \in Directions
  BY DEF Towards, Directions
<1>5. CASE a * v < 0
  <2>1. h = [mode |-> "brake", direction |-> Towards(v * facing),
             effort |-> AtMost(FullEffort, Abs(a) \div DecelFactor)]
    BY <1>5 DEF LawHandles
  <2> QED
    BY <1>1, <1>3, <1>4, <2>1 DEF Commanded, Modes
<1>6. CASE ~(a * v < 0) /\ Abs(a) < Deadband
  <2>1. h = [mode |-> "off", direction |-> Towards(v * facing), effort |-> 0]
    BY <1>6 DEF LawHandles
  <2> QED
    BY <1>1, <1>4, <2>1 DEF Commanded, Modes
<1>7. CASE ~(a * v < 0) /\ ~(Abs(a) < Deadband)
  <2> DEFINE e == AtMost(FullEffort, Abs(a) \div TractionFactor)
             way == IF a * facing > 0 THEN "forward" ELSE "backward"
  <2>1. h = [mode |-> "traction", direction |-> way, effort |-> e]
    BY <1>7 DEF LawHandles
  <2>2. e \in 0..FullEffort /\ (a = 0 => e = 0)
    BY <1>1, <1>3
  <2>3. way \in Directions /\ (facing * a >= 0 => way = "forward" \/ a = 0)
    BY DEF Directions
  <2> HIDE DEF e, way
  <2> QED
    BY <2>1, <2>2, <2>3 DEF Commanded, Modes
<1> QED
  BY <1>5, <1>6, <1>7

\* A driving system after its step: it keeps what was set, and its handles are
\* those of the driver or of the law.
LEMMA DriveFact ==
  ASSUME NEW c \in Cabs, NEW d, DrivingTypes(c, d), position \in Int, speed \in Int
  PROVE  /\ DrivingTypes(c, DriveStep(c, d))
         /\ DriveStep(c, d).control = d.control /\ DriveStep(c, d).manual = d.manual
         /\ d.control = "manual" => /\ DriveStep(c, d).mode = d.manual.mode
                                    /\ DriveStep(c, d).direction = d.manual.direction
                                    /\ DriveStep(c, d).effort = d.manual.effort
         /\ d.control # "manual" => DriveStep(c, d).effort \in 0..FullEffort
         /\ d.control = "stopping_envelope" /\ Facing[c] * speed <= 0
            /\ DriveStep(c, d).mode = "traction"
              => DriveStep(c, d).direction = "forward" \/ DriveStep(c, d).effort = 0
<1>0. Facing[c] \in {1, -1} /\ d.control \in DrivingLaws \cup {"manual"} /\ d.manual \in Handles(c)
  BY TrainAssumption DEF DrivingTypes
<1>1. ASSUME NEW h \in Handles(c)
      PROVE  /\ WithHandles(d, h) = [mode |-> h.mode, direction |-> h.direction, effort |-> h.effort,
                                     manual |-> d.manual, control |-> d.control, targets |-> d.targets]
             /\ DrivingTypes(c, WithHandles(d, h))
  <2>1. WithHandles(d, h) = [mode |-> h.mode, direction |-> h.direction, effort |-> h.effort,
                             manual |-> d.manual, control |-> d.control, targets |-> d.targets]
    <3>1. d = [mode |-> d.mode, direction |-> d.direction, effort |-> d.effort,
               manual |-> d.manual, control |-> d.control, targets |-> d.targets]
      BY DEF DrivingTypes
    <3>2. ASSUME NEW m, NEW w, NEW f
          PROVE  [d EXCEPT !.mode = m, !.direction = w, !.effort = f]
                        = [mode |-> m, direction |-> w, effort |-> f,
                           manual |-> d.manual, control |-> d.control, targets |-> d.targets]
      <4> DEFINE x == [d EXCEPT !.mode = m]
                 y == [x EXCEPT !.direction = w]
      <4>1. x = [mode |-> m, direction |-> d.direction, effort |-> d.effort,
                 manual |-> d.manual, control |-> d.control, targets |-> d.targets]
        BY <3>1
      <4> HIDE DEF x
      <4>2. y = [mode |-> m, direction |-> w, effort |-> d.effort,
                 manual |-> d.manual, control |-> d.control, targets |-> d.targets]
        BY <4>1
      <4> HIDE DEF y
      <4>3. [y EXCEPT !.effort = f] = [mode |-> m, direction |-> w, effort |-> f,
                 manual |-> d.manual, control |-> d.control, targets |-> d.targets]
        BY <4>2
      <4> QED
        BY <4>3 DEF x, y
    <3> QED
      BY <3>2, Zenon DEF WithHandles
  <2>2. h.mode \in Modes /\ h.direction \in Directions /\ h.effort \in Efforts(c)
    BY DEF Handles
  <2> QED
    BY <2>1, <2>2 DEF DrivingTypes
<1>2. CASE d.control = "manual"
  <2>1. DriveStep(c, d) = WithHandles(d, d.manual)
    BY <1>2 DEF DriveStep
  <2> QED
    BY <1>0, <1>1, <1>2, <2>1
<1>3. CASE d.control # "manual"
  <2> DEFINE a == LawAcceleration(d.control, d.targets, position, speed, Facing[c])
             h == LawHandles(a, speed, Facing[c])
  <2>1. DriveStep(c, d) = WithHandles(d, h)
    BY <1>3 DEF DriveStep
  <2>2. a \in Int /\ (d.control = "stopping_envelope" /\ Facing[c] * speed <= 0 => Facing[c] * a >= 0)
    BY <1>0, <1>3, LawFact
  <2>3. /\ h \in Commanded
        /\ h.mode = "traction" /\ Facing[c] * a >= 0 => h.direction = "forward" \/ h.effort = 0
    <3> HIDE DEF a
    <3> QED
      BY <1>0, <2>2, HandlesFact
  <2> HIDE DEF a, h
  <2>4. h \in Handles(c) /\ h.effort \in 0..FullEffort
    BY <2>3, EffortsFact DEF Commanded
  <2> QED
    BY <1>1, <1>3, <2>1, <2>2, <2>3, <2>4
<1> QED
  BY <1>2, <1>3

(***************************************************************************)
(* The operations, one component at a time.                                *)
(***************************************************************************)

\* One door is replaced.
LEMMA DoorsReplaced ==
  ASSUME NEW e, EquipmentTypes(e), NEW s, NEW v \in {"open", "closed"},
         NEW f, f = [e EXCEPT !.doors[s] = v]
  PROVE  EquipmentTypes(f) /\ f.stcs = e.stcs
<1>1. f = [doors |-> [e.doors EXCEPT ![s] = v], btm |-> e.btm, driving |-> e.driving,
           stcs |-> e.stcs, box |-> e.box, demand |-> e.demand, inputs |-> e.inputs]
  BY DEF EquipmentTypes, EquipmentShape
<1> DEFINE doors == [e.doors EXCEPT ![s] = v]
<1>2. doors \in [Sides -> {"open", "closed"}]
  BY DEF EquipmentTypes
<1> HIDE DEF doors
<1>3. /\ EquipmentShape(f) /\ f.doors = doors /\ f.btm = e.btm /\ f.driving = e.driving
      /\ f.stcs = e.stcs /\ f.box = e.box /\ f.demand = e.demand
  BY <1>1 DEF EquipmentShape, doors
<1> QED
  BY <1>2, <1>3 DEF EquipmentTypes

\* One BTM is replaced.
LEMMA BtmReplaced ==
  ASSUME NEW e, EquipmentTypes(e), NEW s \in Cabs, NEW v, v.received \in 0..MaxReceived,
         NEW f, f = [e EXCEPT !.btm[s] = v]
  PROVE  EquipmentTypes(f) /\ f.stcs = e.stcs
<1>1. f = [doors |-> e.doors, btm |-> [e.btm EXCEPT ![s] = v], driving |-> e.driving,
           stcs |-> e.stcs, box |-> e.box, demand |-> e.demand, inputs |-> e.inputs]
  BY DEF EquipmentTypes, EquipmentShape
<1> DEFINE btm == [e.btm EXCEPT ![s] = v]
<1>2. /\ btm = [c \in Cabs |-> btm[c]]
      /\ \A c \in Cabs : btm[c].received \in 0..MaxReceived
  BY DEF EquipmentTypes
<1> HIDE DEF btm
<1>3. /\ EquipmentShape(f) /\ f.doors = e.doors /\ f.btm = btm /\ f.driving = e.driving
      /\ f.stcs = e.stcs /\ f.box = e.box /\ f.demand = e.demand
  BY <1>1 DEF EquipmentShape, btm
<1> QED
  BY <1>2, <1>3 DEF EquipmentTypes

\* One driving system is replaced.
LEMMA DrivingReplaced ==
  ASSUME NEW e, EquipmentTypes(e), NEW s \in Cabs, NEW v, DrivingTypes(s, v),
         NEW f, f = [e EXCEPT !.driving[s] = v]
  PROVE  EquipmentTypes(f) /\ f.stcs = e.stcs
<1>1. f = [doors |-> e.doors, btm |-> e.btm, driving |-> [e.driving EXCEPT ![s] = v],
           stcs |-> e.stcs, box |-> e.box, demand |-> e.demand, inputs |-> e.inputs]
  BY DEF EquipmentTypes, EquipmentShape
<1> DEFINE driving == [e.driving EXCEPT ![s] = v]
<1>2. /\ driving = [c \in Cabs |-> driving[c]]
      /\ \A c \in Cabs : DrivingTypes(c, driving[c])
  BY DEF EquipmentTypes
<1> HIDE DEF driving
<1>3. /\ EquipmentShape(f) /\ f.doors = e.doors /\ f.btm = e.btm /\ f.driving = driving
      /\ f.stcs = e.stcs /\ f.box = e.box /\ f.demand = e.demand
  BY <1>1 DEF EquipmentShape, driving
<1> QED
  BY <1>2, <1>3 DEF EquipmentTypes

\* One STCS is v, and the others are as they were.
StcsNow(e, f, s, v) == \A c \in Cabs : f.stcs[c] = IF c = s THEN v ELSE e.stcs[c]

\* One STCS is replaced.
LEMMA StcsReplaced ==
  ASSUME NEW e, EquipmentTypes(e), NEW s \in Cabs, NEW v \in StcsTypes(s),
         NEW f, f = [e EXCEPT !.stcs[s] = v]
  PROVE  EquipmentTypes(f) /\ StcsNow(e, f, s, v)
<1>1. f = [doors |-> e.doors, btm |-> e.btm, driving |-> e.driving,
           stcs |-> [e.stcs EXCEPT ![s] = v], box |-> e.box, demand |-> e.demand, inputs |-> e.inputs]
  BY DEF EquipmentTypes, EquipmentShape
<1> DEFINE stcs == [e.stcs EXCEPT ![s] = v]
<1>2. /\ stcs = [c \in Cabs |-> stcs[c]]
      /\ \A c \in Cabs : stcs[c] = IF c = s THEN v ELSE e.stcs[c]
  BY DEF EquipmentTypes
<1>3. \A c \in Cabs : stcs[c] \in StcsTypes(c)
  BY <1>2 DEF EquipmentTypes
<1> HIDE DEF stcs
<1>4. /\ EquipmentShape(f) /\ f.doors = e.doors /\ f.btm = e.btm /\ f.driving = e.driving
      /\ f.stcs = stcs /\ f.box = e.box /\ f.demand = e.demand
  BY <1>1 DEF EquipmentShape, stcs
<1>5. EquipmentTypes(f)
  BY <1>2, <1>3, <1>4 DEF EquipmentTypes
<1>6. StcsNow(e, f, s, v)
  BY <1>2, <1>4 DEF StcsNow
<1> QED
  BY <1>5, <1>6

\* One switch box is replaced.
LEMMA BoxReplaced ==
  ASSUME NEW e, EquipmentTypes(e), NEW s \in Boxes, NEW v \in BoxTypes,
         NEW f, f = [e EXCEPT !.box[s] = v]
  PROVE  EquipmentTypes(f) /\ f.stcs = e.stcs
<1>1. f = [doors |-> e.doors, btm |-> e.btm, driving |-> e.driving, stcs |-> e.stcs,
           box |-> [e.box EXCEPT ![s] = v], demand |-> e.demand, inputs |-> e.inputs]
  BY DEF EquipmentTypes, EquipmentShape
<1> DEFINE box == [e.box EXCEPT ![s] = v]
<1>2. box \in [Boxes -> BoxTypes]
  BY DEF EquipmentTypes
<1> HIDE DEF box
<1>3. /\ EquipmentShape(f) /\ f.doors = e.doors /\ f.btm = e.btm /\ f.driving = e.driving
      /\ f.stcs = e.stcs /\ f.box = box /\ f.demand = e.demand
  BY <1>1 DEF EquipmentShape, box
<1> QED
  BY <1>2, <1>3 DEF EquipmentTypes

\* The lever is replaced.
LEMMA DemandReplaced ==
  ASSUME NEW e, EquipmentTypes(e), NEW v \in -FullEffort..FullEffort,
         NEW f, f = [e EXCEPT !.demand = v]
  PROVE  EquipmentTypes(f) /\ f.stcs = e.stcs
<1>1. f = [doors |-> e.doors, btm |-> e.btm, driving |-> e.driving, stcs |-> e.stcs,
           box |-> e.box, demand |-> v, inputs |-> e.inputs]
  BY DEF EquipmentTypes, EquipmentShape
<1>2. /\ EquipmentShape(f) /\ f.doors = e.doors /\ f.btm = e.btm /\ f.driving = e.driving
      /\ f.stcs = e.stcs /\ f.box = e.box /\ f.demand = v
  BY <1>1 DEF EquipmentShape
<1> QED
  BY <1>2 DEF EquipmentTypes

\* A new STCS has no row high and none blocked.
LEMMA InitialStcsTypes == \A c : InitialStcs \in StcsTypes(c)
BY DEF InitialStcs, StcsTypes

\* A new switch box stands at C2 with nothing selected.
LEMMA InitialBoxTypes == InitialBox \in BoxTypes
<1>1. FALSE \in BOOLEAN /\ "c2" \in Positions
  BY DEF Positions
<1> QED
  BY <1>1 DEF InitialBox, BoxTypes

\* A switch box after a request it takes.
LEMMA BoxFact ==
  ASSUME NEW b \in BoxTypes, NEW r, BoxAccepts(r), r.c2 \cup r.cbtc \subseteq BOOLEAN
  PROVE  ApplyBox(b, r) \in BoxTypes
<1>1. r.position \subseteq Positions
  BY DEF BoxAccepts
<1>2. b.position \in Positions /\ b.c2 \in BOOLEAN /\ b.cbtc \in BOOLEAN
  BY DEF BoxTypes
<1>3. /\ Given(r.position, b.position) \in Positions
      /\ Given(r.c2, b.c2) \in BOOLEAN /\ Given(r.cbtc, b.cbtc) \in BOOLEAN
  BY <1>1, <1>2, GivenFact, Zenon
<1> QED
  BY <1>3, Zenon DEF ApplyBox, BoxTypes

\* What a request leaves of the equipment before its intents are resolved.
LEMMA AppliedFact ==
  ASSUME EquipmentTypes(eq), NEW r \in Requests, NEW f, f = Applied(r),
         r.target \in {Btm(c) : c \in Cabs} => eq.btm[r.target[2]].received < MaxReceived
  PROVE  /\ EquipmentTypes(f)
         /\ \A c \in Cabs : f.stcs[c] = IF r.target = StcsAtp(c) THEN ApplyStcs(c, eq.stcs[c], r)
                                        ELSE eq.stcs[c]
<1> DEFINE x == r.target
           d == x[2]
<1>1. CASE x \in Equipment /\ x[1] = "stcs_atp"
  <2>1. d \in Cabs /\ x = StcsAtp(d) /\ \A c \in Cabs : x = StcsAtp(c) => c = d
    BY <1>1, EquipmentKinds DEF StcsAtp
  <2>2. f = [eq EXCEPT !.stcs[d] = ApplyStcs(d, eq.stcs[d], r)]
    BY <1>1, Zenon DEF Applied
  <2>3. eq.stcs[d] \in StcsTypes(d)
    BY <2>1 DEF EquipmentTypes
  <2>4. ApplyStcs(d, eq.stcs[d], r) \in StcsTypes(d)
    BY <2>1, <2>3, StcsFact
  <2>5. /\ EquipmentTypes(f)
        /\ \A c \in Cabs : f.stcs[c] = IF c = d THEN ApplyStcs(d, eq.stcs[d], r) ELSE eq.stcs[c]
    <3> DEFINE v == ApplyStcs(d, eq.stcs[d], r)
    <3>1. d \in Cabs /\ v \in StcsTypes(d) /\ f = [eq EXCEPT !.stcs[d] = v]
      BY <2>1, <2>2, <2>4
    <3> HIDE DEF v, d
    <3>2. EquipmentTypes(f) /\ StcsNow(eq, f, d, v)
      BY <3>1, StcsReplaced
    <3> QED
      BY <3>2 DEF StcsNow, v, d
  <2> QED
    BY <2>1, <2>5
<1>2. CASE ~(x \in Equipment /\ x[1] = "stcs_atp") /\ EquipmentAccepts(r)
  <2>1. x \in Equipment /\ x[1] # "stcs_atp"
    BY <1>2 DEF EquipmentAccepts
  <2>2. \A c \in Cabs : x # StcsAtp(c)
    BY <2>1 DEF StcsAtp
  <2>3. EquipmentTypes(f) /\ f.stcs = eq.stcs
    <3>1. CASE x[1] = "door"
      <4>1. f = [eq EXCEPT !.doors[d] = IF r.command = "open" THEN "open" ELSE "closed"]
        BY <1>2, <3>1, Zenon DEF Applied
      <4>2. (IF r.command = "open" THEN "open" ELSE "closed") \in {"open", "closed"}
        OBVIOUS
      <4> QED
        BY <4>1, <4>2, DoorsReplaced
    <3>2. CASE x[1] = "btm"
      <4>1. d \in Cabs /\ x = Btm(d)
        BY <2>1, <3>2, EquipmentKinds
      <4>2. f = [eq EXCEPT !.btm[d] = Deliver(eq.btm[d], r)]
        BY <1>2, <3>2, Zenon DEF Applied
      <4>3. eq.btm[d].received < MaxReceived /\ eq.btm[d].received \in 0..MaxReceived /\ MaxReceived \in Nat
        BY <4>1, TrainAssumption DEF EquipmentTypes
      <4>4. Deliver(eq.btm[d], r).received \in 0..MaxReceived
        BY <4>3 DEF Deliver
      <4> QED
        BY <4>1, <4>2, <4>4, BtmReplaced
    <3>3. CASE x[1] = "driving_system"
      <4>1. d \in Cabs /\ x = DrivingSystem(d)
        BY <2>1, <3>3, EquipmentKinds
      <4>2. f = [eq EXCEPT !.driving[d] = ApplyDriving(eq.driving[d], r)]
        BY <1>2, <3>3, Zenon DEF Applied
      <4>3. DrivingAccepts(eq.driving[d], r)
        BY <1>2, <3>3, Zenon DEF EquipmentAccepts
      <4>4. DrivingTypes(d, eq.driving[d])
        BY <4>1 DEF EquipmentTypes
      <4>5. \A n \in DOMAIN r.targets : r.targets[n] \in Int
        BY <4>1, Payloads
      <4>6. DrivingTypes(d, ApplyDriving(eq.driving[d], r))
        BY <4>1, <4>3, <4>4, <4>5, DrivingFact
      <4> QED
        BY <4>1, <4>2, <4>6, DrivingReplaced
    <3>4. CASE x[1] = "switch_box"
      <4>1. d \in Boxes /\ x = SwitchBox(d)
        BY <2>1, <3>4, EquipmentKinds
      <4>2. f = [eq EXCEPT !.box[d] = ApplyBox(eq.box[d], r)]
        BY <1>2, <3>4, Zenon DEF Applied
      <4>3. BoxAccepts(r)
        BY <1>2, <3>4, Zenon DEF EquipmentAccepts
      <4>4. eq.box[d] \in BoxTypes /\ r.c2 \cup r.cbtc \subseteq BOOLEAN
        BY <4>1, Payloads DEF EquipmentTypes
      <4>5. ApplyBox(eq.box[d], r) \in BoxTypes
        BY <4>3, <4>4, BoxFact
      <4> QED
        BY <4>1, <4>2, <4>5, BoxReplaced
    <3> QED
      BY <2>1, <3>1, <3>2, <3>3, <3>4, EquipmentKinds
  <2> QED
    BY <2>2, <2>3
<1>3. CASE ~(x \in Equipment /\ x[1] = "stcs_atp") /\ ~EquipmentAccepts(r)
  <2>1. f = eq
    BY <1>3, Zenon DEF Applied
  <2>2. \A c \in Cabs : x # StcsAtp(c)
    BY <1>3 DEF StcsAtp, Equipment
  <2> QED
    BY <2>1, <2>2
<1> QED
  BY <1>1, <1>2, <1>3

\* One component reset.
ResetOne(x) ==
  CASE x \in Equipment /\ x[1] = "door" -> [eq EXCEPT !.doors[x[2]] = InitialDoor]
    [] x \in Equipment /\ x[1] = "btm" -> [eq EXCEPT !.btm[x[2]] = InitialBtm]
    [] x \in Equipment /\ x[1] = "driving_system" -> [eq EXCEPT !.driving[x[2]] = OffDriving]
    [] x \in Equipment /\ x[1] = "stcs_atp" -> [eq EXCEPT !.stcs[x[2]] = InitialStcs]
    [] x \in Equipment /\ x[1] = "switch_box" -> [eq EXCEPT !.box[x[2]] = InitialBox]
    [] OTHER -> eq

\* reset_equipment starts one component afresh and leaves the others.
LEMMA ResetOneFact ==
  ASSUME EquipmentTypes(eq), NEW x, NEW f, f = ResetOne(x)
  PROVE  /\ EquipmentTypes(f)
         /\ \A c \in Cabs : f.stcs[c] = IF x = StcsAtp(c) THEN InitialStcs ELSE eq.stcs[c]
<1>1. CASE x \notin Equipment
  <2>1. f = eq
    BY <1>1, Zenon DEF ResetOne
  <2>2. \A c \in Cabs : x # StcsAtp(c)
    BY <1>1 DEF Equipment
  <2> QED
    BY <2>1, <2>2
<1>2. CASE x \in Equipment /\ x[1] = "stcs_atp"
  <2>1. x[2] \in Cabs /\ x = StcsAtp(x[2]) /\ \A c \in Cabs : x = StcsAtp(c) => c = x[2]
    BY <1>2, EquipmentKinds DEF StcsAtp
  <2>2. f = [eq EXCEPT !.stcs[x[2]] = InitialStcs]
    BY <1>2, Zenon DEF ResetOne
  <2>3. /\ EquipmentTypes(f)
        /\ \A c \in Cabs : f.stcs[c] = IF c = x[2] THEN InitialStcs ELSE eq.stcs[c]
    <3> DEFINE d == x[2]
    <3>1. d \in Cabs /\ InitialStcs \in StcsTypes(d) /\ f = [eq EXCEPT !.stcs[d] = InitialStcs]
      BY <2>1, <2>2, InitialStcsTypes
    <3> HIDE DEF d
    <3>2. EquipmentTypes(f) /\ StcsNow(eq, f, d, InitialStcs)
      BY <3>1, StcsReplaced
    <3> QED
      BY <3>2 DEF StcsNow, d
  <2> QED
    BY <2>1, <2>3
<1>3. CASE x \in Equipment /\ x[1] # "stcs_atp"
  <2>1. \A c \in Cabs : x # StcsAtp(c)
    BY <1>3 DEF StcsAtp
  <2>2. EquipmentTypes(f) /\ f.stcs = eq.stcs
    <3>1. CASE x[1] = "door"
      <4>1. f = [eq EXCEPT !.doors[x[2]] = InitialDoor]
        BY <1>3, <3>1, Zenon DEF ResetOne
      <4> QED
        BY <4>1, DoorsReplaced, TrainAssumption
    <3>2. CASE x[1] = "btm"
      <4>1. x[2] \in Cabs
        BY <1>3, <3>2, EquipmentKinds
      <4>2. f = [eq EXCEPT !.btm[x[2]] = InitialBtm]
        BY <1>3, <3>2, Zenon DEF ResetOne
      <4>3. InitialBtm.received \in 0..MaxReceived
        BY TrainAssumption DEF InitialBtm
      <4> QED
        BY <4>1, <4>2, <4>3, BtmReplaced
    <3>3. CASE x[1] = "driving_system"
      <4>1. x[2] \in Cabs
        BY <1>3, <3>3, EquipmentKinds
      <4>2. f = [eq EXCEPT !.driving[x[2]] = OffDriving]
        BY <1>3, <3>3, Zenon DEF ResetOne
      <4> QED
        BY <4>1, <4>2, OffDrivingTypes, DrivingReplaced
    <3>4. CASE x[1] = "switch_box"
      <4>1. x[2] \in Boxes
        BY <1>3, <3>4, EquipmentKinds
      <4>2. f = [eq EXCEPT !.box[x[2]] = InitialBox]
        BY <1>3, <3>4, Zenon DEF ResetOne
      <4> QED
        BY <4>1, <4>2, InitialBoxTypes, BoxReplaced
    <3> QED
      BY <1>3, <3>1, <3>2, <3>3, <3>4, EquipmentKinds
  <2> QED
    BY <2>1, <2>2
<1> QED
  BY <1>1, <1>2, <1>3

\* The two starts, field by field: only the driving systems differ.
LEMMA StartFields ==
  ASSUME NEW start \in {FreshEquipment, ResetAll}, NEW inputs
  PROVE  \E driving \in {[c \in Cabs |-> InitialDriving(c)], [c \in Cabs |-> OffDriving]} :
           [start EXCEPT !.inputs = inputs] =
             [doors |-> [s \in Sides |-> InitialDoor], btm |-> [c \in Cabs |-> InitialBtm],
              driving |-> driving, stcs |-> [c \in Cabs |-> InitialStcs],
              box |-> [c \in Boxes |-> InitialBox], demand |-> 0, inputs |-> inputs]
<1> DEFINE doors == [s \in Sides |-> InitialDoor]
           btm == [c \in Cabs |-> InitialBtm]
           built == [c \in Cabs |-> InitialDriving(c)]
           neutral == [c \in Cabs |-> OffDriving]
           stcs == [c \in Cabs |-> InitialStcs]
           box == [c \in Boxes |-> InitialBox]
           Start(driving, i) == [doors |-> doors, btm |-> btm, driving |-> driving, stcs |-> stcs,
                                 box |-> box, demand |-> 0, inputs |-> i]
<1>1. FreshEquipment = Start(built, {})
  BY Zenon DEF FreshEquipment
<1>2. ResetAll = [FreshEquipment EXCEPT !.driving = neutral]
  BY Zenon DEF ResetAll
<1> HIDE DEF doors, btm, built, neutral, stcs, box
<1>3. ResetAll = Start(neutral, {})
  BY <1>1, <1>2
<1>4. \E driving \in {built, neutral} : [start EXCEPT !.inputs = inputs] = Start(driving, inputs)
  BY <1>1, <1>3
<1> QED
  BY <1>4 DEF doors, btm, built, neutral, stcs, box

\* The equipment as constructed or reset, whatever driver inputs remain in it.
LEMMA StartFact ==
  ASSUME NEW start \in {FreshEquipment, ResetAll}, NEW inputs,
         NEW f, f = [start EXCEPT !.inputs = inputs]
  PROVE  EquipmentTypes(f)
<1> DEFINE doors == [s \in Sides |-> InitialDoor]
           btm == [c \in Cabs |-> InitialBtm]
           stcs == [c \in Cabs |-> InitialStcs]
           box == [c \in Boxes |-> InitialBox]
<1>1. PICK driving : /\ driving \in {[c \in Cabs |-> InitialDriving(c)], [c \in Cabs |-> OffDriving]}
                     /\ f = [doors |-> doors, btm |-> btm, driving |-> driving, stcs |-> stcs,
                             box |-> box, demand |-> 0, inputs |-> inputs]
  BY StartFields, Zenon
<1>2. /\ doors \in [Sides -> {"open", "closed"}]
      /\ btm = [c \in Cabs |-> btm[c]] /\ \A c \in Cabs : btm[c].received \in 0..MaxReceived
      /\ driving = [c \in Cabs |-> driving[c]] /\ \A c \in Cabs : DrivingTypes(c, driving[c])
      /\ stcs = [c \in Cabs |-> stcs[c]] /\ \A c \in Cabs : stcs[c] \in StcsTypes(c)
      /\ box \in [Boxes -> BoxTypes]
      /\ 0 \in -FullEffort..FullEffort
  <2>1. doors \in [Sides -> {"open", "closed"}]
    BY TrainAssumption
  <2>2. \A c \in Cabs : btm[c].received \in 0..MaxReceived
    BY TrainAssumption DEF InitialBtm
  <2>3. driving = [c \in Cabs |-> driving[c]] /\ \A c \in Cabs : DrivingTypes(c, driving[c])
    BY <1>1, OffDrivingTypes
  <2>4. \A c \in Cabs : stcs[c] \in StcsTypes(c)
    BY InitialStcsTypes
  <2>5. box \in [Boxes -> BoxTypes]
    BY InitialBoxTypes
  <2>6. 0 \in -FullEffort..FullEffort
    BY PhysicsAssumption
  <2> QED
    BY <2>1, <2>2, <2>3, <2>4, <2>5, <2>6
<1> HIDE DEF doors, btm, stcs, box
<1>3. /\ EquipmentShape(f) /\ f.doors = doors /\ f.btm = btm /\ f.driving = driving
      /\ f.stcs = stcs /\ f.box = box /\ f.demand = 0
  <2>1. f.doors = doors /\ f.btm = btm /\ f.driving = driving
    BY <1>1
  <2>2. f.stcs = stcs /\ f.box = box /\ f.demand = 0 /\ f.inputs = inputs
    BY <1>1
  <2>3. EquipmentShape(f)
    BY <1>1, <2>1, <2>2, Zenon DEF EquipmentShape
  <2> QED
    BY <2>1, <2>2, <2>3
<1> QED
  BY <1>2, <1>3 DEF EquipmentTypes

(***************************************************************************)
(* The invariant.                                                          *)
(***************************************************************************)

\* The equipment after the driving systems have stepped.
Driven == [eq EXCEPT !.driving = [c \in Cabs |-> DriveStep(c, eq.driving[c])]]

\* Stepping the driving systems changes nothing else.
LEMMA DrivenFact ==
  ASSUME TrainInv, NEW f, f = Driven
  PROVE  /\ EquipmentTypes(f)
         /\ f.doors = eq.doors /\ f.stcs = eq.stcs /\ f.box = eq.box /\ f.demand = eq.demand
         /\ \A c \in Cabs : f.driving[c] = DriveStep(c, eq.driving[c])
<1> DEFINE driving == [c \in Cabs |-> DriveStep(c, eq.driving[c])]
<1>1. f = [doors |-> eq.doors, btm |-> eq.btm, driving |-> driving, stcs |-> eq.stcs,
           box |-> eq.box, demand |-> eq.demand, inputs |-> eq.inputs]
  BY DEF Driven, TrainInv, EquipmentTypes, EquipmentShape
<1>2. \A c \in Cabs : driving[c] = DriveStep(c, eq.driving[c])
  OBVIOUS
<1>3. driving = [c \in Cabs |-> driving[c]] /\ \A c \in Cabs : DrivingTypes(c, driving[c])
  <2>1. position \in Int /\ speed \in Int /\ \A c \in Cabs : DrivingTypes(c, eq.driving[c])
    BY DEF TrainInv, EquipmentTypes
  <2>2. \A c \in Cabs : DrivingTypes(c, DriveStep(c, eq.driving[c]))
    BY <2>1, DriveFact
  <2> QED
    BY <2>2
<1> HIDE DEF driving
<1>4. f.doors = eq.doors /\ f.btm = eq.btm /\ f.driving = driving
  BY <1>1
<1>5. f.stcs = eq.stcs /\ f.box = eq.box /\ f.demand = eq.demand /\ f.inputs = eq.inputs
  BY <1>1
<1>6. EquipmentShape(f)
  BY <1>1, <1>4, <1>5, Zenon DEF EquipmentShape
<1>7. EquipmentTypes(f)
  BY <1>3, <1>4, <1>5, <1>6 DEF TrainInv, EquipmentTypes
<1> QED
  BY <1>2, <1>4, <1>5, <1>7

\* The driver inputs change when intents are resolved, and not before.
LEMMA AppliedInputs ==
  ASSUME EquipmentTypes(eq), NEW r
  PROVE  Applied(r).inputs = eq.inputs
<1>1. EquipmentShape(eq)
  BY DEF EquipmentTypes
<1> DEFINE x == r.target
           d == x[2]
<1>2. CASE x \in Equipment /\ x[1] = "stcs_atp"
  <2>1. Applied(r) = [eq EXCEPT !.stcs[d] = ApplyStcs(d, eq.stcs[d], r)]
    BY <1>2, Zenon DEF Applied
  <2> QED
    BY <1>1, <2>1 DEF EquipmentShape
<1>3. CASE ~EquipmentAccepts(r) /\ ~(x \in Equipment /\ x[1] = "stcs_atp")
  BY <1>3, Zenon DEF Applied
<1>4. CASE EquipmentAccepts(r) /\ ~(x \in Equipment /\ x[1] = "stcs_atp")
  <2>1. CASE x[1] = "door"
    <3>1. Applied(r) = [eq EXCEPT !.doors[d] = IF r.command = "open" THEN "open" ELSE "closed"]
      BY <1>4, <2>1, Zenon DEF Applied
    <3> QED
      BY <1>1, <3>1 DEF EquipmentShape
  <2>2. CASE x[1] = "btm"
    <3>1. Applied(r) = [eq EXCEPT !.btm[d] = Deliver(eq.btm[d], r)]
      BY <1>4, <2>2, Zenon DEF Applied
    <3> QED
      BY <1>1, <3>1 DEF EquipmentShape
  <2>3. CASE x[1] = "driving_system"
    <3>1. Applied(r) = [eq EXCEPT !.driving[d] = ApplyDriving(eq.driving[d], r)]
      BY <1>4, <2>3, Zenon DEF Applied
    <3> QED
      BY <1>1, <3>1 DEF EquipmentShape
  <2>4. CASE x[1] = "switch_box"
    <3>1. Applied(r) = [eq EXCEPT !.box[d] = ApplyBox(eq.box[d], r)]
      BY <1>4, <2>4, Zenon DEF Applied
    <3> QED
      BY <1>1, <3>1 DEF EquipmentShape
  <2>5. x \in Equipment
    BY <1>4 DEF EquipmentAccepts
  <2> QED
    BY <1>4, <2>1, <2>2, <2>3, <2>4, <2>5, EquipmentKinds
<1> QED
  BY <1>2, <1>3, <1>4

\* A step resolves the intents of the driven equipment and moves by the result.
LEMMA StepFact ==
  ASSUME Step
  PROVE  /\ eq' = Resolve(Driven, NoCabStates, linkCuts)
         /\ \E m : /\ m = Integrate(position, speed, StepAcceleration(eq'))
                   /\ position' = m.position /\ speed' = m.speed /\ acceleration' = m.acceleration
         /\ UNCHANGED <<cabActive, cabKey, linkCuts>>
<1>1. eq' = Resolve(Driven, NoCabStates, linkCuts)
  BY Zenon DEF Step, Driven
<1>2. /\ position' = Integrate(position, speed, StepAcceleration(eq')).position
      /\ speed' = Integrate(position, speed, StepAcceleration(eq')).speed
      /\ acceleration' = Integrate(position, speed, StepAcceleration(eq')).acceleration
  BY <1>1, Zenon DEF Step, Driven
<1>3. UNCHANGED <<cabActive, cabKey, linkCuts>>
  BY Zenon DEF Step
<1> QED
  BY <1>1, <1>2, <1>3

\* The equipment after the constructor or reset() has resolved its intents.
LEMMA StartTypes ==
  ASSUME NEW start \in {FreshEquipment, ResetAll}, NEW inputs,
         NEW f, f = ResolveAll([start EXCEPT !.inputs = inputs], {ActiveCab}, KeyCabs, {})
  PROVE  EquipmentTypes(f) /\ InputTypes(f.inputs)
<1> DEFINE g == [start EXCEPT !.inputs = inputs]
<1>1. EquipmentTypes(g)
  BY StartFact
<1> HIDE DEF g
<1>2. f = ResolveAll(g, {ActiveCab}, KeyCabs, {})
  BY DEF g
<1> QED
  BY <1>1, <1>2, ResolveAllTypes

\* Neither start has collected a driver input.
LEMMA StartInputs ==
  /\ FreshEquipment = [FreshEquipment EXCEPT !.inputs = {}]
  /\ ResetAll = [ResetAll EXCEPT !.inputs = {}]
<1>1. FreshEquipment = [FreshEquipment EXCEPT !.inputs = {}]
  BY DEF FreshEquipment
<1>2. PICK doors, btm, driving, stcs, box :
        ResetAll = [doors |-> doors, btm |-> btm, driving |-> driving, stcs |-> stcs,
                    box |-> box, demand |-> 0, inputs |-> {}]
  <2> DEFINE driving == [c \in Cabs |-> OffDriving]
  <2>1. ResetAll = [FreshEquipment EXCEPT !.driving = driving]
    BY Zenon DEF ResetAll
  <2> HIDE DEF driving
  <2> QED
    BY <2>1 DEF FreshEquipment
<1>3. ResetAll = [ResetAll EXCEPT !.inputs = {}]
  BY <1>2
<1> QED
  BY <1>1, <1>3

\* The constructor establishes the invariant.
LEMMA TrainInvInit == Init => TrainInv
<1> SUFFICES ASSUME Init PROVE TrainInv
  OBVIOUS
<1>1. eq = ResolveAll([FreshEquipment EXCEPT !.inputs = {}], {ActiveCab}, KeyCabs, {})
  BY StartInputs, Zenon DEF Init, InitialEquipment
<1>2. EquipmentTypes(eq) /\ InputTypes(eq.inputs)
  BY <1>1, StartTypes
<1>3. /\ {position, speed, acceleration} \subseteq Int
      /\ cabActive \subseteq Cabs /\ cabKey \subseteq Cabs /\ linkCuts = {}
  BY TrainAssumption DEF Init
<1> QED
  BY <1>2, <1>3 DEF TrainInv

\* Activating a cab or turning its key leaves a set of cabs.
LEMMA SwitchedFact ==
  ASSUME NEW S \in SUBSET Cabs, NEW cab \in SUBSET Cabs, NEW on
  PROVE  Switched(S, cab, on) \in SUBSET Cabs
BY DEF Switched

\* What each operation makes of the equipment: its own change, with or without
\* the resolution of the intents; all of it keeps the types.
LEMMA TrainInvStep == TrainInv /\ [Next]_vars => TrainInv'
<1> SUFFICES ASSUME TrainInv, [Next]_vars PROVE TrainInv'
  OBVIOUS
<1> USE DEF motionVars
<1>0. EquipmentTypes(eq) /\ InputTypes(eq.inputs) /\ {position, speed, acceleration} \subseteq Int
      /\ cabActive \subseteq Cabs /\ cabKey \subseteq Cabs /\ linkCuts \subseteq LinkSources \X LinkTargets
  BY DEF TrainInv
<1>1. ASSUME NEW k \in Controls, ApplyControl(k) PROVE TrainInv'
  <2>1. CASE ~ValidControl(k)
    <3>1. UNCHANGED vars
      BY <1>1, <2>1 DEF ApplyControl, vars
    <3> QED
      BY <3>1 DEF TrainInv, vars
  <2>2. CASE ValidControl(k)
    <3> DEFINE e == [eq EXCEPT !.demand = Given(k.demand, eq.demand)]
    <3>1. k.cab \subseteq Cabs /\ k.demand \subseteq -FullEffort..FullEffort
      BY <2>2 DEF ValidControl
    <3>2. /\ cabActive' = Switched(cabActive, k.cab, k.active)
          /\ cabKey' = Switched(cabKey, k.cab, k.key)
          /\ eq' = IF k.active \cup k.key = {} THEN e ELSE ResolveAll(e, cabActive', cabKey', linkCuts)
          /\ UNCHANGED <<position, speed, acceleration, linkCuts>>
      BY <1>1, <2>2, Zenon DEF ApplyControl
    <3>3. Given(k.demand, eq.demand) \in -FullEffort..FullEffort
      BY <1>0, <3>1, GivenFact DEF EquipmentTypes
    <3>4. EquipmentTypes(e)
      BY <1>0, <3>3, DemandReplaced
    <3>5. e.inputs = eq.inputs
      BY <1>0 DEF EquipmentTypes, EquipmentShape
    <3> HIDE DEF e
    <3>6. EquipmentTypes(eq') /\ InputTypes(eq'.inputs)
      BY <1>0, <3>2, <3>4, <3>5, ResolveAllTypes
    <3>7. cabActive' \subseteq Cabs /\ cabKey' \subseteq Cabs
      BY <1>0, <3>1, <3>2, SwitchedFact
    <3> QED
      BY <1>0, <3>2, <3>6, <3>7 DEF TrainInv
  <2> QED
    BY <2>1, <2>2
<1>2. ASSUME NEW cuts \in CutSets, ReplaceLinkCuts(cuts) \/ AddLinkCuts(cuts) \/ RemoveLinkCuts(cuts)
      PROVE  TrainInv'
  <2>1. ValidCuts(cuts) => cuts \subseteq LinkSources \X LinkTargets
    BY PayloadAssumption DEF ValidCuts
  <2>2. linkCuts' \subseteq LinkSources \X LinkTargets
    BY <1>0, <1>2, <2>1 DEF ReplaceLinkCuts, AddLinkCuts, RemoveLinkCuts, ChangeLinkCuts
  <2>3. UNCHANGED <<position, speed, acceleration, cabActive, cabKey, eq>>
    BY <1>2 DEF ReplaceLinkCuts, AddLinkCuts, RemoveLinkCuts, ChangeLinkCuts
  <2> QED
    BY <1>0, <2>2, <2>3 DEF TrainInv
<1>3. ASSUME NEW r \in Requests, SetEquipment(r) PROVE TrainInv'
  <2> DEFINE e == Applied(r)
  <2>1. /\ r.target \in {Btm(c) : c \in Cabs} => eq.btm[r.target[2]].received < MaxReceived
        /\ UNCHANGED <<position, speed, acceleration, cabActive, cabKey, linkCuts>>
        /\ eq' = IF EquipmentAccepts(r) THEN ResolveAll(e, cabActive, cabKey, linkCuts) ELSE e
    BY <1>3, Zenon DEF SetEquipment
  <2>2. EquipmentTypes(e)
    BY <1>0, <2>1, AppliedFact
  <2>3. e.inputs = eq.inputs
    BY <1>0, AppliedInputs
  <2> HIDE DEF e
  <2>4. EquipmentTypes(eq') /\ InputTypes(eq'.inputs)
    BY <1>0, <2>1, <2>2, <2>3, ResolveAllTypes
  <2> QED
    BY <1>0, <2>1, <2>4 DEF TrainInv
<1>4. ASSUME NEW x \in LinkTargets, ResetEquipment(x) PROVE TrainInv'
  <2> DEFINE e == ResetOne(x)
  <2>1. /\ UNCHANGED <<position, speed, acceleration, cabActive, cabKey, linkCuts>>
        /\ eq' = IF x \in Equipment THEN ResolveAll(e, cabActive, cabKey, linkCuts) ELSE e
    BY <1>4, Zenon DEF ResetEquipment, ResetOne
  <2>2. EquipmentTypes(e)
    BY <1>0, ResetOneFact
  <2>3. x \notin Equipment => e = eq
    BY Zenon DEF ResetOne
  <2> HIDE DEF e
  <2>4. EquipmentTypes(eq') /\ InputTypes(eq'.inputs)
    BY <1>0, <2>1, <2>2, <2>3, ResolveAllTypes
  <2> QED
    BY <1>0, <2>1, <2>4 DEF TrainInv
<1>5. ASSUME Reset PROVE TrainInv'
  <2>1. /\ position' = InitialPosition /\ speed' = InitialSpeed /\ acceleration' = 0
        /\ cabActive' = {ActiveCab} /\ cabKey' = KeyCabs /\ linkCuts' = {}
        /\ eq' = ResolveAll([ResetAll EXCEPT !.inputs = eq.inputs], {ActiveCab}, KeyCabs, {})
    BY <1>5 DEF Reset
  <2>2. EquipmentTypes(eq') /\ InputTypes(eq'.inputs)
    BY <2>1, StartTypes
  <2> QED
    BY <2>1, <2>2, TrainAssumption DEF TrainInv
<1>6. ASSUME Step PROVE TrainInv'
  <2>1. eq' = Resolve(Driven, NoCabStates, linkCuts) /\ UNCHANGED <<cabActive, cabKey, linkCuts>>
    BY <1>6, StepFact
  <2>2. EquipmentTypes(eq') /\ InputTypes(eq'.inputs)
    <3>1. EquipmentTypes(Driven)
      BY DrivenFact
    <3> QED
      BY <2>1, <3>1, CabRowsFact, ResolveTypes
  <2>3. StepAcceleration(eq') \in Int
    BY <1>0, <2>2, AccelerationType DEF EquipmentTypes
  <2>4. PICK m : /\ m = Integrate(position, speed, StepAcceleration(eq'))
                 /\ position' = m.position /\ speed' = m.speed /\ acceleration' = m.acceleration
    BY <1>6, StepFact
  <2>5. m.position \in Int /\ m.speed \in Int /\ m.acceleration \in Int
    BY <1>0, <2>3, <2>4, IntegrateFact
  <2> QED
    BY <1>0, <2>1, <2>2, <2>4, <2>5 DEF TrainInv
<1>7. CASE UNCHANGED vars
  BY <1>7 DEF TrainInv, vars
<1> QED
  BY <1>1, <1>2, <1>3, <1>4, <1>5, <1>6, <1>7 DEF Next

\* Every reachable state satisfies the invariant.
THEOREM TrainInvariance == Spec => []TrainInv
<1> QED
  BY TrainInvInit, TrainInvStep, PTL DEF Spec

\* No operation, refused half way or not, no law and no pass of intents leaves a
\* part of the train outside the values that the code relies on.
THEOREM TrainTypes == Spec => []TypeOK
<1>1. TrainInv => TypeOK
  <2> SUFFICES ASSUME TrainInv PROVE TypeOK
    OBVIOUS
  <2>1. EquipmentTypes(eq)
    BY DEF TrainInv
  <2>2. DOMAIN eq = {"doors", "btm", "driving", "stcs", "box", "demand", "inputs"}
    BY <2>1 DEF EquipmentTypes, EquipmentShape
  <2>3. eq.doors \in [Sides -> {"open", "closed"}]
    BY <2>1 DEF EquipmentTypes
  <2>4. DOMAIN eq.btm = Cabs /\ \A c \in Cabs : eq.btm[c].received \in 0..MaxReceived
    BY <2>1 DEF EquipmentTypes
  <2>5. DOMAIN eq.driving = Cabs /\ \A c \in Cabs : DrivingTypes(c, eq.driving[c])
    BY <2>1 DEF EquipmentTypes
  <2>6. \A c \in Cabs : LET d == eq.driving[c]
                        IN  /\ d.mode \in Modes /\ d.direction \in Directions
                            /\ d.effort \in Efforts(c) /\ d.manual \in Handles(c)
                            /\ d.control \in DrivingLaws \cup {"manual"}
    BY <2>5 DEF DrivingTypes
  <2>7. eq.stcs = [c \in Cabs |-> eq.stcs[c]] /\ \A c \in Cabs : eq.stcs[c] \in StcsTypes(c)
    BY <2>1 DEF EquipmentTypes
  <2>8. \A c \in Cabs : eq.stcs[c].trainIn \subseteq InOf(c) /\ eq.stcs[c].store \subseteq OutOf(c)
    BY <2>7 DEF StcsTypes
  <2>9. \A c \in Cabs : eq.stcs[c] \in [trainIn : SUBSET InSignals, store : SUBSET OutSignals,
                                        blocked : SUBSET Derived]
    <3> SUFFICES ASSUME NEW c \in Cabs
                 PROVE  eq.stcs[c] \in [trainIn : SUBSET InSignals, store : SUBSET OutSignals,
                                        blocked : SUBSET Derived]
      OBVIOUS
    <3>1. InOf(c) \subseteq InSignals /\ OutOf(c) \subseteq OutSignals
      BY TableFacts
    <3>2. eq.stcs[c] \in [trainIn : SUBSET InOf(c), store : SUBSET OutOf(c), blocked : SUBSET Derived]
      BY <2>7 DEF StcsTypes
    <3> QED
      BY <3>1, <3>2
  <2>10. eq.stcs \in [Cabs -> [trainIn : SUBSET InSignals, store : SUBSET OutSignals,
                               blocked : SUBSET Derived]]
    BY <2>7, <2>9
  <2>11. eq.box \in [Boxes -> [position : Positions, c2 : BOOLEAN, cbtc : BOOLEAN]]
    BY <2>1, Zenon DEF EquipmentTypes, BoxTypes
  <2>12. eq.demand \in -FullEffort..FullEffort
    BY <2>1 DEF EquipmentTypes
  <2>13. /\ {position, speed, acceleration} \subseteq Int
         /\ cabActive \subseteq Cabs /\ cabKey \subseteq Cabs
         /\ linkCuts \subseteq LinkSources \X LinkTargets
         /\ \A i \in eq.inputs : {i.traction, i.brake} \subseteq Int
    BY DEF TrainInv, InputTypes
  <2> QED
    BY <2>2, <2>3, <2>4, <2>5, <2>6, <2>8, <2>10, <2>11, <2>12, <2>13, Zenon DEF TypeOK
<1> QED
  BY <1>1, TrainInvariance, PTL

\* The step of a law never misses a target: a law is armed only with all of its
\* targets, and nothing takes one of them away while it is in force.
THEOREM LawsHaveTargets == Spec => []ArmedLawHasTargets
<1>1. TrainInv => ArmedLawHasTargets
  BY DEF TrainInv, EquipmentTypes, DrivingTypes, ArmedLawHasTargets
<1> QED
  BY <1>1, TrainInvariance, PTL

(***************************************************************************)
(* Wiring: settled equipment, blocked rows, assertions and resets.         *)
(***************************************************************************)

\* Whenever the second pass of an operation has been made, a third one would
\* change nothing: each operation takes full effect at once.
THEOREM TwoPassesSettle == Spec => AppliesAtOnce
<1>1. TrainInv /\ [Next]_vars => [Settled' \/ UNCHANGED vars \/ ~Resolving]_vars
  <2> SUFFICES ASSUME TrainInv, Resolving PROVE Settled'
    OBVIOUS
  <2>0. EquipmentTypes(eq)
    BY DEF TrainInv
  <2> SUFFICES ASSUME NEW e, EquipmentTypes(e), eq' = ResolveAll(e, cabActive', cabKey', linkCuts')
               PROVE  Settled'
    <3>1. ASSUME NEW r \in Requests, EquipmentAccepts(r), SetEquipment(r)
          PROVE  \E e : EquipmentTypes(e) /\ eq' = ResolveAll(e, cabActive', cabKey', linkCuts')
      <4> DEFINE e == Applied(r)
      <4>1. /\ r.target \in {Btm(c) : c \in Cabs} => eq.btm[r.target[2]].received < MaxReceived
            /\ UNCHANGED <<motionVars, cabActive, cabKey, linkCuts>>
            /\ eq' = ResolveAll(e, cabActive, cabKey, linkCuts)
        BY <3>1, Zenon DEF SetEquipment
      <4>2. EquipmentTypes(e)
        BY <2>0, <4>1, AppliedFact
      <4> HIDE DEF e
      <4> QED
        BY <4>1, <4>2
    <3>2. ASSUME NEW k \in Controls, ValidControl(k), k.active \cup k.key # {}, ApplyControl(k)
          PROVE  \E e : EquipmentTypes(e) /\ eq' = ResolveAll(e, cabActive', cabKey', linkCuts')
      <4> DEFINE e == [eq EXCEPT !.demand = Given(k.demand, eq.demand)]
      <4>1. eq' = ResolveAll(e, cabActive', cabKey', linkCuts) /\ UNCHANGED linkCuts
        BY <3>2, Zenon DEF ApplyControl
      <4>2. Given(k.demand, eq.demand) \in -FullEffort..FullEffort
        BY <2>0, <3>2, GivenFact DEF EquipmentTypes, ValidControl
      <4>3. EquipmentTypes(e)
        BY <2>0, <4>2, DemandReplaced
      <4> HIDE DEF e
      <4> QED
        BY <4>1, <4>3
    <3>3. ASSUME NEW x \in Equipment, ResetEquipment(x)
          PROVE  \E e : EquipmentTypes(e) /\ eq' = ResolveAll(e, cabActive', cabKey', linkCuts')
      <4> DEFINE e == ResetOne(x)
      <4>1. /\ UNCHANGED <<motionVars, cabActive, cabKey, linkCuts>>
            /\ eq' = ResolveAll(e, cabActive, cabKey, linkCuts)
        BY <3>3, Zenon DEF ResetEquipment, ResetOne
      <4>2. EquipmentTypes(e)
        BY <2>0, ResetOneFact
      <4> HIDE DEF e
      <4> QED
        BY <4>1, <4>2
    <3>4. ASSUME Reset
          PROVE  \E e : EquipmentTypes(e) /\ eq' = ResolveAll(e, cabActive', cabKey', linkCuts')
      <4> DEFINE e == [ResetAll EXCEPT !.inputs = eq.inputs]
      <4>1. /\ cabActive' = {ActiveCab} /\ cabKey' = KeyCabs /\ linkCuts' = {}
            /\ eq' = ResolveAll(e, {ActiveCab}, KeyCabs, {})
        BY <3>4, Zenon DEF Reset
      <4>2. EquipmentTypes(e)
        BY StartFact
      <4> HIDE DEF e
      <4> QED
        BY <4>1, <4>2
    <3> QED
      BY <3>1, <3>2, <3>3, <3>4 DEF Resolving
  <2>1. Resolve(eq', CabStates(cabActive', cabKey'), linkCuts') = eq'
    BY ResolveAllSettles
  <2> QED
    BY <2>1, Zenon DEF Settled
<1> QED
  BY <1>1, TrainInvariance, PTL DEF Spec, AppliesAtOnce

\* So do the two passes of an operation.
LEMMA ResolveAllKeeps ==
  ASSUME NEW e, EquipmentTypes(e), NEW active, NEW key, NEW cuts,
         NEW q, q = ResolveAll(e, active, key, cuts), NEW c \in Cabs
  PROVE  Kept(q.stcs[c], e.stcs[c])
<1> DEFINE cs == CabStates(active, key)
           p == Resolve(e, cs, cuts)
<1>1. CabRows(cs)
  BY CabRowsFact
<1>2. q = Resolve(p, cs, cuts)
  BY DEF ResolveAll
<1>3. EquipmentTypes(p)
  BY <1>1, ResolveTypes
<1>4. Kept(p.stcs[c], e.stcs[c])
  BY <1>1, ResolveKeeps
<1> HIDE DEF cs, p
<1>5. Kept(q.stcs[c], p.stcs[c])
  BY <1>1, <1>2, <1>3, ResolveKeeps
<1> QED
  BY <1>4, <1>5 DEF Kept

\* A step leaves the asserted and blocked signals of an STCS alone, unless it is a
\* request to that STCS or a reset of it.
StcsRequest(c) ==
  \E r \in Requests : /\ r.target = StcsAtp(c) /\ SetEquipment(r)
                      /\ Kept(eq'.stcs[c], ApplyStcs(c, eq.stcs[c], r))
StcsReset(c) == (Reset \/ ResetEquipment(StcsAtp(c))) /\ eq'.stcs[c].blocked = {}

\* What a step may do to the rows of an STCS: keep them, a request of its own, or a reset.
LEMMA StcsStep ==
  ASSUME TrainInv, [Next]_vars, NEW c \in Cabs
  PROVE  Kept(eq'.stcs[c], eq.stcs[c]) \/ StcsRequest(c) \/ StcsReset(c)
<1>0. EquipmentTypes(eq)
  BY DEF TrainInv
<1>1. ASSUME NEW k \in Controls, ApplyControl(k) PROVE Kept(eq'.stcs[c], eq.stcs[c])
  <2> DEFINE e == [eq EXCEPT !.demand = Given(k.demand, eq.demand)]
  <2>1. CASE ~ValidControl(k)
    <3>1. eq' = eq
      BY <1>1, <2>1 DEF ApplyControl
    <3> QED
      BY <3>1 DEF Kept
  <2>2. CASE ValidControl(k)
    <3>1. eq' = IF k.active \cup k.key = {} THEN e ELSE ResolveAll(e, cabActive', cabKey', linkCuts)
      BY <1>1, <2>2, Zenon DEF ApplyControl
    <3>2. Given(k.demand, eq.demand) \in -FullEffort..FullEffort
      BY <1>0, <2>2, GivenFact DEF EquipmentTypes, ValidControl
    <3>3. EquipmentTypes(e) /\ e.stcs = eq.stcs
      BY <1>0, <3>2, DemandReplaced
    <3> HIDE DEF e
    <3>4. eq' = e \/ Kept(eq'.stcs[c], e.stcs[c])
      BY <3>1, <3>3, ResolveAllKeeps
    <3> QED
      BY <3>3, <3>4 DEF Kept
  <2> QED
    BY <2>1, <2>2
<1>2. ASSUME NEW cuts \in CutSets, ReplaceLinkCuts(cuts) \/ AddLinkCuts(cuts) \/ RemoveLinkCuts(cuts)
      PROVE  Kept(eq'.stcs[c], eq.stcs[c])
  <2>1. eq' = eq
    BY <1>2 DEF ReplaceLinkCuts, AddLinkCuts, RemoveLinkCuts, ChangeLinkCuts
  <2> QED
    BY <2>1 DEF Kept
<1>3. ASSUME NEW r \in Requests, SetEquipment(r)
      PROVE  Kept(eq'.stcs[c], eq.stcs[c]) \/ StcsRequest(c)
  <2> DEFINE e == Applied(r)
  <2>1. /\ r.target \in {Btm(b) : b \in Cabs} => eq.btm[r.target[2]].received < MaxReceived
        /\ eq' = IF EquipmentAccepts(r) THEN ResolveAll(e, cabActive, cabKey, linkCuts) ELSE e
    BY <1>3, Zenon DEF SetEquipment
  <2>2. /\ EquipmentTypes(e)
        /\ e.stcs[c] = IF r.target = StcsAtp(c) THEN ApplyStcs(c, eq.stcs[c], r) ELSE eq.stcs[c]
    BY <1>0, <2>1, AppliedFact
  <2> HIDE DEF e
  <2>3. Kept(eq'.stcs[c], e.stcs[c])
    <3>1. eq' = e \/ Kept(eq'.stcs[c], e.stcs[c])
      BY <2>1, <2>2, ResolveAllKeeps
    <3> QED
      BY <3>1 DEF Kept
  <2> QED
    BY <1>3, <2>2, <2>3 DEF StcsRequest
<1>4. ASSUME NEW x \in LinkTargets, ResetEquipment(x)
      PROVE  Kept(eq'.stcs[c], eq.stcs[c]) \/ StcsReset(c)
  <2> DEFINE e == ResetOne(x)
  <2>1. eq' = IF x \in Equipment THEN ResolveAll(e, cabActive, cabKey, linkCuts) ELSE e
    BY <1>4, Zenon DEF ResetEquipment, ResetOne
  <2>2. /\ EquipmentTypes(e)
        /\ e.stcs[c] = IF x = StcsAtp(c) THEN InitialStcs ELSE eq.stcs[c]
    BY <1>0, ResetOneFact
  <2> HIDE DEF e
  <2>3. Kept(eq'.stcs[c], e.stcs[c])
    <3>1. eq' = e \/ Kept(eq'.stcs[c], e.stcs[c])
      BY <2>1, <2>2, ResolveAllKeeps
    <3> QED
      BY <3>1 DEF Kept
  <2>4. CASE x = StcsAtp(c)
    <3>1. InitialStcs.blocked = {}
      BY DEF InitialStcs
    <3> QED
      BY <1>4, <2>2, <2>3, <2>4, <3>1 DEF StcsReset, Kept
  <2> QED
    BY <2>2, <2>3, <2>4
<1>5. ASSUME Reset PROVE StcsReset(c)
  <2> DEFINE e == [ResetAll EXCEPT !.inputs = eq.inputs]
  <2>1. eq' = ResolveAll(e, {ActiveCab}, KeyCabs, {})
    BY <1>5, Zenon DEF Reset
  <2>2. EquipmentTypes(e)
    BY StartFact
  <2>3. e.stcs[c] = InitialStcs
    BY DEF FreshEquipment, ResetAll
  <2> HIDE DEF e
  <2>4. Kept(eq'.stcs[c], e.stcs[c])
    BY <2>1, <2>2, ResolveAllKeeps
  <2> QED
    BY <1>5, <2>3, <2>4 DEF StcsReset, Kept, InitialStcs
<1>6. ASSUME Step PROVE Kept(eq'.stcs[c], eq.stcs[c])
  <2>1. EquipmentTypes(Driven) /\ Driven.stcs = eq.stcs
    BY DrivenFact
  <2>2. eq' = Resolve(Driven, NoCabStates, linkCuts)
    BY <1>6, StepFact
  <2>3. Kept(eq'.stcs[c], Driven.stcs[c])
    BY <2>1, <2>2, CabRowsFact, ResolveKeeps
  <2> QED
    BY <2>1, <2>3
<1>7. ASSUME UNCHANGED vars PROVE Kept(eq'.stcs[c], eq.stcs[c])
  BY <1>7 DEF vars, Kept
<1> QED
  BY <1>1, <1>2, <1>3, <1>4, <1>5, <1>6, <1>7 DEF Next

\* What is read of a blocked row is what is stored.
LEMMA BlockedIsStored ==
  ASSUME NEW s, NEW n \in Derived, n \in s.blocked
  PROVE  n \in EffectiveOut(s) <=> n \in s.store
<1>1. n \in OutSignals
  BY DEF OutSignals
<1> QED
  BY <1>1 DEF EffectiveOut

\* The reading of a blocked row is frozen at the moment it is blocked, and nothing
\* but an operator update of the row changes it.
THEOREM BlockedRowsHold == Spec => BlockedReadingHolds
<1>1. TrainInv /\ TrainInv' /\ [Next]_vars =>
        [\A c \in Cabs : \A n \in eq'.stcs[c].blocked :
           (n \in EffectiveOut(eq'.stcs[c]) <=> n \in EffectiveOut(eq.stcs[c]))
           \/ \E r \in Requests : /\ r.target = StcsAtp(c)
                                  /\ r.rawOut # {} \/ n \in DOMAIN r.outSignals
                                  /\ SetEquipment(r)]_vars
  <2> SUFFICES ASSUME TrainInv, TrainInv', [Next]_vars, NEW c \in Cabs, NEW n \in eq'.stcs[c].blocked
               PROVE  (n \in EffectiveOut(eq'.stcs[c]) <=> n \in EffectiveOut(eq.stcs[c]))
                      \/ \E r \in Requests : /\ r.target = StcsAtp(c)
                                             /\ r.rawOut # {} \/ n \in DOMAIN r.outSignals
                                             /\ SetEquipment(r)
    OBVIOUS
  <2>1. eq.stcs[c] \in StcsTypes(c) /\ eq'.stcs[c] \in StcsTypes(c)
    BY DEF TrainInv, EquipmentTypes
  <2>2. n \in Derived
    BY <2>1 DEF StcsTypes
  <2>3. n \in EffectiveOut(eq'.stcs[c]) <=> n \in eq'.stcs[c].store
    BY <2>2, BlockedIsStored
  <2>4. CASE Kept(eq'.stcs[c], eq.stcs[c])
    <3>1. n \in eq.stcs[c].blocked /\ (n \in eq'.stcs[c].store <=> n \in eq.stcs[c].store)
      BY <2>2, <2>4 DEF Kept
    <3>2. n \in EffectiveOut(eq.stcs[c]) <=> n \in eq.stcs[c].store
      BY <2>2, <3>1, BlockedIsStored
    <3> QED
      BY <2>3, <3>1, <3>2
  <2>5. CASE StcsRequest(c)
    <3>1. PICK r \in Requests : /\ r.target = StcsAtp(c) /\ SetEquipment(r)
                                /\ Kept(eq'.stcs[c], ApplyStcs(c, eq.stcs[c], r))
      BY <2>5 DEF StcsRequest
    <3> DEFINE t == ApplyStcs(c, eq.stcs[c], r)
    <3>2. \A m \in t.blocked : \/ m \in t.store <=> m \in EffectiveOut(eq.stcs[c])
                               \/ r.rawOut # {} \/ m \in DOMAIN r.outSignals
      BY <2>1, <3>1, StcsFact
    <3> HIDE DEF t
    <3>3. n \in t.blocked /\ (n \in eq'.stcs[c].store <=> n \in t.store)
      BY <2>2, <3>1 DEF Kept, t
    <3> QED
      BY <2>3, <3>1, <3>2, <3>3
  <2>6. CASE StcsReset(c)
    BY <2>6 DEF StcsReset
  <2> QED
    BY <2>4, <2>5, <2>6, StcsStep
<1> QED
  BY <1>1, TrainInvariance, PTL DEF Spec, BlockedReadingHolds

\* A train-in bit keeps what was last asserted for it through every step that does
\* not assert it again.
THEOREM AssertedBitsHold == Spec => AssertionsHold
<1>1. TrainInv /\ [Next]_vars =>
        [\A c \in Cabs : \A n \in InOf(c) :
           \/ n \in eq'.stcs[c].trainIn <=> n \in eq.stcs[c].trainIn
           \/ \E r \in Requests :
                /\ r.target = StcsAtp(c)
                /\ n \in DOMAIN r.inSignals \cup UNION {DOMAIN bits : bits \in r.command}
                /\ SetEquipment(r)
           \/ ResetEquipment(StcsAtp(c)) \/ Reset]_vars
  <2> SUFFICES ASSUME TrainInv, [Next]_vars, NEW c \in Cabs, NEW n \in InOf(c)
               PROVE  \/ n \in eq'.stcs[c].trainIn <=> n \in eq.stcs[c].trainIn
                      \/ \E r \in Requests :
                           /\ r.target = StcsAtp(c)
                           /\ n \in DOMAIN r.inSignals \cup UNION {DOMAIN bits : bits \in r.command}
                           /\ SetEquipment(r)
                      \/ ResetEquipment(StcsAtp(c)) \/ Reset
    OBVIOUS
  <2>1. eq.stcs[c] \in StcsTypes(c)
    BY DEF TrainInv, EquipmentTypes
  <2>2. CASE Kept(eq'.stcs[c], eq.stcs[c])
    BY <2>2 DEF Kept
  <2>3. CASE StcsRequest(c)
    <3>1. PICK r \in Requests : /\ r.target = StcsAtp(c) /\ SetEquipment(r)
                                /\ Kept(eq'.stcs[c], ApplyStcs(c, eq.stcs[c], r))
      BY <2>3 DEF StcsRequest
    <3> DEFINE t == ApplyStcs(c, eq.stcs[c], r)
               named == DOMAIN r.inSignals \cup UNION {DOMAIN bits : bits \in r.command}
    <3>2. n \notin named => (n \in t.trainIn <=> n \in eq.stcs[c].trainIn)
      BY <2>1, <3>1, StcsFact
    <3> HIDE DEF t
    <3>3. eq'.stcs[c].trainIn = t.trainIn
      BY <3>1 DEF Kept, t
    <3> QED
      BY <3>1, <3>2, <3>3
  <2>4. CASE StcsReset(c)
    BY <2>4 DEF StcsReset
  <2> QED
    BY <2>2, <2>3, <2>4, StcsStep
<1> QED
  BY <1>1, TrainInvariance, PTL DEF Spec, AssertionsHold

\* A pass does not read the driver inputs of the pass before.
LEMMA InputsUnread ==
  ASSUME NEW e, EquipmentTypes(e), NEW f, EquipmentTypes(f), e.doors = f.doors, e.btm = f.btm,
         e.driving = f.driving, e.stcs = f.stcs, e.box = f.box, e.demand = f.demand,
         NEW cs, NEW cuts
  PROVE  Resolve(e, cs, cuts) = Resolve(f, cs, cuts)
<1> SUFFICES ASSUME NEW p, p = Resolve(e, cs, cuts), NEW q, q = Resolve(f, cs, cuts) PROVE p = q
  OBVIOUS
<1>1. Passed(e, cs, cuts, p) /\ Passed(f, cs, cuts, q)
  BY ResolveFields DEF EquipmentTypes
<1>2. p.doors = q.doors /\ p.btm = q.btm /\ p.driving = q.driving /\ p.demand = q.demand
  BY <1>1 DEF Passed
<1>3. p.box = q.box
  <2>1. p.box = [c \in Boxes |-> BoxAfter(e, cuts, c)] /\ q.box = [c \in Boxes |-> BoxAfter(f, cuts, c)]
    BY <1>1 DEF Passed
  <2>2. \A c \in Boxes : BoxAfter(e, cuts, c) = BoxAfter(f, cuts, c)
    BY DEF BoxAfter
  <2> QED
    BY <2>1, <2>2
<1>4. p.stcs = q.stcs
  <2> DEFINE At(g, c) == Receive(g.stcs[c], {h \in Feeds(g, cs, c) : Intact(cuts, h.source, StcsAtp(c))})
  <2>1. p.stcs = [c \in Cabs |-> At(e, c)] /\ q.stcs = [c \in Cabs |-> At(f, c)]
    BY <1>1 DEF Passed
  <2>2. \A c \in Cabs : At(e, c) = At(f, c)
    <3> SUFFICES ASSUME NEW c \in Cabs PROVE At(e, c) = At(f, c)
      OBVIOUS
    <3>1. Feeds(e, cs, c) = Feeds(f, cs, c)
      BY SameFeeds
    <3> QED
      BY <3>1
  <2> HIDE DEF At
  <2> QED
    BY <2>1, <2>2
<1>5. p.inputs = q.inputs
  <2>1. Inputs(e, cuts) = Inputs(f, cuts)
    BY SameEfforts DEF SameInputs
  <2> QED
    BY <1>1, <2>1 DEF Passed
<1>6. EquipmentShape(p) /\ EquipmentShape(q)
  BY <1>1 DEF Passed
<1> QED
  BY <1>2, <1>3, <1>4, <1>5, <1>6 DEF EquipmentShape

\* reset() forgets all that was done to the train: the state it leaves does not
\* depend on the one it met, not even through the driver inputs it keeps.
THEOREM ResetIsComplete == Spec => ResetForgets
<1>1. [Next]_vars => [~Restarted' => ~Reset]_vars
  <2> SUFFICES ASSUME Reset PROVE Restarted'
    OBVIOUS
  <2> DEFINE e == [ResetAll EXCEPT !.inputs = eq.inputs]
             cs == CabStates({ActiveCab}, KeyCabs)
  <2>1. /\ eq' = ResolveAll(e, {ActiveCab}, KeyCabs, {})
        /\ linkCuts' = {} /\ speed' = InitialSpeed /\ position' = InitialPosition
    BY Zenon DEF Reset
  <2>2. EquipmentTypes(e) /\ EquipmentTypes(ResetAll)
    BY StartFact, StartInputs
  <2>3. /\ e.doors = ResetAll.doors /\ e.btm = ResetAll.btm
        /\ e.driving = ResetAll.driving /\ e.stcs = ResetAll.stcs
        /\ e.box = ResetAll.box /\ e.demand = ResetAll.demand
    BY DEF ResetAll, FreshEquipment
  <2> HIDE DEF e
  <2>4. Resolve(e, cs, {}) = Resolve(ResetAll, cs, {})
    BY <2>2, <2>3, InputsUnread
  <2>5. eq' = RestartedEquipment
    BY <2>1, <2>4, Zenon DEF ResolveAll, RestartedEquipment
  <2> QED
    BY <2>1, <2>5 DEF Restarted
<1> QED
  BY <1>1, PTL DEF Spec, ResetForgets

\* What being settled says of each part.
LEMMA SettledFact ==
  ASSUME TrainInv, Settled
  PROVE  Passed(eq, CabStates(cabActive, cabKey), linkCuts, eq)
<1>1. EquipmentShape(eq)
  BY DEF TrainInv, EquipmentTypes
<1> DEFINE cs == CabStates(cabActive, cabKey)
<1>2. Passed(eq, cs, linkCuts, Resolve(eq, cs, linkCuts))
  BY <1>1, ResolveFields
<1>3. Resolve(eq, cs, linkCuts) = eq
  BY Zenon DEF Settled
<1> QED
  BY <1>2, <1>3

\* A driving system without control stays so when it steps.
LEMMA OffStays == \A c : DriveStep(c, OffDriving) = OffDriving
BY DEF DriveStep, WithHandles, OffDriving, Manually, Off

\* A store that agrees with all of its feeds agrees with those of the cab, which no
\* other component writes, so it still does once the others have been heard again.
LEMMA HeardAgain ==
  ASSUME NEW c \in Cabs, NEW s \in StcsTypes(c), NEW A, NEW B, NEW C,
         Reached(A) \cap Reached(C) = {}, Reached(B) \cap Reached(C) = {},
         Raised(A) \subseteq Reached(A), Raised(B) \subseteq Reached(B), Raised(C) \subseteq Reached(C),
         Receive(s, A \cup C) = s
  PROVE  Receive(Receive(s, B), B \cup C) = Receive(s, B)
<1> DEFINE t == Receive(s, B)
<1>0. \A X, Y : Reached(X \cup Y) = Reached(X) \cup Reached(Y) /\ Raised(X \cup Y) = Raised(X) \cup Raised(Y)
  BY DEF Reached, Raised
<1>1. t = [s EXCEPT !.store = (s.store \ Reached(B)) \cup Raised(B)]
  BY DEF Receive, Reached, Raised
<1>2. Receive(t, B \cup C) = [t EXCEPT !.store = (t.store \ (Reached(B) \cup Reached(C)))
                                                 \cup (Raised(B) \cup Raised(C))]
  <2>1. Receive(t, B \cup C) = [t EXCEPT !.store = (t.store \ Reached(B \cup C)) \cup Raised(B \cup C)]
    BY Zenon DEF Receive, Reached, Raised
  <2> QED
    BY <1>0, <2>1
<1>3. Receive(s, A \cup C) = [s EXCEPT !.store = (s.store \ (Reached(A) \cup Reached(C)))
                                                 \cup (Raised(A) \cup Raised(C))]
  <2>1. Receive(s, A \cup C) = [s EXCEPT !.store = (s.store \ Reached(A \cup C)) \cup Raised(A \cup C)]
    BY Zenon DEF Receive, Reached, Raised
  <2> QED
    BY <1>0, <2>1
<1>4. s.store = (s.store \ (Reached(A) \cup Reached(C))) \cup (Raised(A) \cup Raised(C))
  <2> DEFINE store == (s.store \ (Reached(A) \cup Reached(C))) \cup (Raised(A) \cup Raised(C))
  <2>1. s = [s EXCEPT !.store = store]
    BY <1>3
  <2> HIDE DEF store
  <2>2. s.store = store
    BY <2>1 DEF StcsTypes
  <2> QED
    BY <2>2 DEF store
<1> HIDE DEF t
<1>5. t.store = (s.store \ Reached(B)) \cup Raised(B) /\ t.trainIn = s.trainIn /\ t.blocked = s.blocked
      /\ t = [trainIn |-> t.trainIn, store |-> t.store, blocked |-> t.blocked]
  BY <1>1 DEF StcsTypes
<1>6. (t.store \ (Reached(B) \cup Reached(C))) \cup (Raised(B) \cup Raised(C)) = t.store
  BY <1>4, <1>5
<1>7. Receive(t, B \cup C) = t
  BY <1>2, <1>5, <1>6
<1> QED
  BY <1>7 DEF t

\* The feeds that reach an STCS, of the equipment and of the cab.
AllWired(e, cs, cuts, c) == {f \in Feeds(e, cs, c) : Intact(cuts, f.source, StcsAtp(c))}
Wired(e, cuts, c) == {f \in Feeds(e, NoCabStates, c) : Intact(cuts, f.source, StcsAtp(c))}
CabWired(cs, cuts, c) ==
  {f \in {[source |-> Cab(c), rows |-> row] : row \in cs[c]} : Intact(cuts, f.source, StcsAtp(c))}

\* A pass gives an STCS the feeds that reach it over intact wires.
LEMMA HeardFact ==
  ASSUME NEW e, NEW cs, NEW cuts, NEW p, Passed(e, cs, cuts, p), NEW c \in Cabs
  PROVE  p.stcs[c] = Receive(e.stcs[c], AllWired(e, cs, cuts, c))
<1>1. p.stcs = [k \in Cabs |-> Receive(e.stcs[k], AllWired(e, cs, cuts, k))]
  BY Zenon DEF Passed, AllWired
<1> QED
  BY <1>1

\* They are the feeds of the equipment and those of the cab.
LEMMA WiredFact ==
  ASSUME NEW e, NEW cs, NEW cuts, NEW c \in Cabs
  PROVE  AllWired(e, cs, cuts, c) = Wired(e, cuts, c) \cup CabWired(cs, cuts, c)
<1> DEFINE E == {[source |-> Door("left"), rows |-> [door_state_1 |-> e.doors["left"] = "open"]],
                 [source |-> Door("right"), rows |-> [door_state_2 |-> e.doors["right"] = "open"]],
                 [source |-> DrivingSystem(c), rows |-> HandleFeedback(e.driving[c])]}
                \cup {[source |-> SwitchBox(b), rows |-> SwitchFeedback(e.box[b])] : b \in Boxes \cap {c}}
           K == {[source |-> Cab(c), rows |-> row] : row \in cs[c]}
<1>1. Feeds(e, cs, c) = E \cup K
  BY Zenon DEF Feeds
<1>2. Feeds(e, NoCabStates, c) = E
  <2>1. {[source |-> Cab(c), rows |-> row] : row \in NoCabStates[c]} = {}
    BY DEF NoCabStates
  <2>2. Feeds(e, NoCabStates, c) = E \cup {[source |-> Cab(c), rows |-> row] : row \in NoCabStates[c]}
    BY Zenon DEF Feeds
  <2> HIDE DEF E
  <2> QED
    BY <2>1, <2>2
<1> HIDE DEF E
<1> QED
  BY <1>1, <1>2 DEF AllWired, Wired, CabWired

\* No row is fed by the cab and by a component.
LEMMA WiredApart ==
  ASSUME NEW e, NEW cs, CabRows(cs), NEW cuts, NEW c \in Cabs
  PROVE  /\ Reached(Wired(e, cuts, c)) \cap Reached(CabWired(cs, cuts, c)) = {}
         /\ Raised(Wired(e, cuts, c)) \subseteq Reached(Wired(e, cuts, c))
         /\ Raised(CabWired(cs, cuts, c)) \subseteq Reached(CabWired(cs, cuts, c))
<1> DEFINE rows == {"cab_activation", "key_activation"}
<1>1. ASSUME NEW f \in Feeds(e, NoCabStates, c) PROVE DOMAIN f.rows \cap rows = {}
  <2>1. CASE f \in {[source |-> Door("left"), rows |-> [door_state_1 |-> e.doors["left"] = "open"]],
                    [source |-> Door("right"), rows |-> [door_state_2 |-> e.doors["right"] = "open"]]}
    BY <2>1
  <2>2. CASE f.rows = HandleFeedback(e.driving[c])
    BY <2>2 DEF HandleFeedback
  <2>3. CASE c \in Boxes /\ f.rows = SwitchFeedback(e.box[c])
    BY <2>3 DEF SwitchFeedback
  <2>4. \A row \in NoCabStates[c] : FALSE
    BY DEF NoCabStates
  <2> QED
    BY <2>1, <2>2, <2>3, <2>4 DEF Feeds
<1>2. \A f \in CabWired(cs, cuts, c) : DOMAIN f.rows \subseteq rows
  BY DEF CabWired, CabRows
<1>3. \A f \in Wired(e, cuts, c) : DOMAIN f.rows \cap rows = {}
  BY <1>1 DEF Wired
<1>4. \A feeds : Raised(feeds) \subseteq Reached(feeds)
  BY DEF Raised, Reached, High
<1>5. Reached(CabWired(cs, cuts, c)) \subseteq rows
  BY <1>2 DEF Reached
<1>6. Reached(Wired(e, cuts, c)) \cap rows = {}
  BY <1>3 DEF Reached
<1> QED
  BY <1>4, <1>5, <1>6

\* Settled equipment is settled again after a step, though the step makes one pass
\* only and does not report the cab: the handles that the laws chose are heard in
\* that pass, and a driving system under cut-off has nothing left to lose.
LEMMA StepSettles ==
  ASSUME TrainInv, Settled, NEW p, p = Resolve(Driven, NoCabStates, linkCuts)
  PROVE  Resolve(p, CabStates(cabActive, cabKey), linkCuts) = p
<1> DEFINE cs == CabStates(cabActive, cabKey)
           cuts == linkCuts
<1> SUFFICES ASSUME NEW f, f = Driven, NEW q, q = Resolve(p, cs, cuts) PROVE q = p
  OBVIOUS
<1>0. EquipmentTypes(eq) /\ CabRows(cs) /\ CabRows(NoCabStates)
  BY CabRowsFact DEF TrainInv
<1>1. /\ EquipmentTypes(f)
      /\ f.doors = eq.doors /\ f.stcs = eq.stcs /\ f.box = eq.box /\ f.demand = eq.demand
      /\ \A c \in Cabs : f.driving[c] = DriveStep(c, eq.driving[c])
  BY DrivenFact
<1>2. EquipmentTypes(p) /\ p = Resolve(f, NoCabStates, cuts)
  BY <1>0, <1>1, ResolveTypes
<1>3. Passed(eq, cs, cuts, eq) /\ Passed(f, NoCabStates, cuts, p) /\ Passed(p, cs, cuts, q)
  BY <1>1, <1>2, SettledFact, ResolveFields DEF EquipmentTypes
<1>4. SameInputs(p, eq)
  <2>1. SameInputs(p, f)
    BY <1>0, <1>1, <1>2, KeepsInputs
  <2> QED
    BY <1>1, <2>1 DEF SameInputs
<1> HIDE DEF cs
<1>5. \A c \in Cabs : CutOff(p.stcs[c]) <=> CutOff(eq.stcs[c])
  BY <1>4 DEF SameInputs, CutOff
<1>6. \A c \in Cabs : p.driving[c] = f.driving[c]
  <2> SUFFICES ASSUME NEW c \in Cabs PROVE p.driving[c] = f.driving[c]
    OBVIOUS
  <2>1. CASE CutOff(eq.stcs[c]) /\ Intact(cuts, StcsAtp(c), DrivingSystem(c))
    <3>1. eq.driving[c] = OffDriving
      BY <1>3, <2>1 DEF Passed
    <3>2. f.driving[c] = OffDriving
      BY <1>1, <3>1, OffStays
    <3>3. p.driving[c] = OffDriving
      BY <1>1, <1>3, <2>1 DEF Passed
    <3> QED
      BY <3>2, <3>3
  <2>2. CASE ~(CutOff(eq.stcs[c]) /\ Intact(cuts, StcsAtp(c), DrivingSystem(c)))
    <3>1. p.driving[c] = IF CutOff(f.stcs[c]) /\ Intact(cuts, StcsAtp(c), DrivingSystem(c))
                         THEN OffDriving ELSE f.driving[c]
      BY <1>3 DEF Passed
    <3>2. f.stcs[c] = eq.stcs[c]
      BY <1>1
    <3> QED
      BY <2>2, <3>1, <3>2
  <2> QED
    BY <2>1, <2>2
<1>7. q.driving = p.driving
  <2>1. \A c \in Cabs : q.driving[c] = p.driving[c]
    BY <1>1, <1>3, <1>5 DEF Passed
  <2>2. p.driving = [c \in Cabs |-> p.driving[c]] /\ q.driving = [c \in Cabs |-> q.driving[c]]
    BY <1>3 DEF Passed
  <2> QED
    BY <2>1, <2>2
<1>8. p.box = eq.box /\ q.box = p.box
  <2>1. \A c \in Boxes : "c2_authorized" \in p.stcs[c].trainIn <=> "c2_authorized" \in eq.stcs[c].trainIn
    BY <1>4, TrainAssumption DEF SameInputs
  <2>2. \A c \in Boxes : /\ eq.box[c] = BoxAfter(eq, cuts, c) /\ p.box[c] = BoxAfter(f, cuts, c)
                         /\ q.box[c] = BoxAfter(p, cuts, c)
    BY <1>3 DEF Passed
  <2>3. \A c \in Boxes : p.box[c] = eq.box[c]
    BY <1>1, <2>2 DEF BoxAfter
  <2>4. \A c \in Boxes : q.box[c] = p.box[c]
    <3> SUFFICES ASSUME NEW c \in Boxes PROVE q.box[c] = p.box[c]
      OBVIOUS
    <3> QED
      BY <2>1, <2>2, <2>3 DEF BoxAfter
  <2>5. /\ eq.box = [c \in Boxes |-> eq.box[c]] /\ p.box = [c \in Boxes |-> p.box[c]]
        /\ q.box = [c \in Boxes |-> q.box[c]]
    BY <1>3 DEF Passed
  <2> QED
    BY <2>3, <2>4, <2>5
<1>9. q.doors = p.doors /\ q.btm = p.btm /\ p.doors = eq.doors
  BY <1>1, <1>3 DEF Passed
<1>10. q.demand = p.demand
  BY <1>1, <1>3, <1>5 DEF Passed
<1>11. q.inputs = p.inputs
  <2>1. Inputs(p, cuts) = Inputs(f, cuts)
    BY <1>1, <1>4, <1>6, SameEfforts DEF SameInputs
  <2> QED
    BY <1>3, <2>1 DEF Passed
<1>12. q.stcs = p.stcs
  <2>1. ASSUME NEW c \in Cabs PROVE q.stcs[c] = p.stcs[c]
    <3> DEFINE A == Wired(eq, cuts, c)
               B == Wired(f, cuts, c)
               C == CabWired(cs, cuts, c)
    <3>1. eq.stcs[c] \in StcsTypes(c)
      BY <1>0 DEF EquipmentTypes
    <3>2. Receive(eq.stcs[c], A \cup C) = eq.stcs[c]
      <4>1. eq.stcs[c] = Receive(eq.stcs[c], AllWired(eq, cs, cuts, c))
        BY <1>3, HeardFact
      <4> QED
        BY <4>1, WiredFact
    <3>3. p.stcs[c] = Receive(eq.stcs[c], B)
      <4>1. p.stcs[c] = Receive(f.stcs[c], Wired(f, cuts, c))
        <5>1. p.stcs[c] = Receive(f.stcs[c], AllWired(f, NoCabStates, cuts, c))
          BY <1>3, HeardFact
        <5> QED
          BY <5>1 DEF Wired, AllWired
      <4> QED
        BY <1>1, <4>1
    <3>4. q.stcs[c] = Receive(p.stcs[c], B \cup C)
      <4>1. q.stcs[c] = Receive(p.stcs[c], AllWired(p, cs, cuts, c))
        BY <1>3, HeardFact
      <4>2. Feeds(p, cs, c) = Feeds(f, cs, c)
        BY <1>1, <1>6, <1>8, <1>9, SameFeeds
      <4>3. AllWired(p, cs, cuts, c) = AllWired(f, cs, cuts, c)
        BY <4>2 DEF AllWired
      <4>4. AllWired(f, cs, cuts, c) = B \cup C
        BY WiredFact
      <4> QED
        BY <4>1, <4>3, <4>4
    <3>5. /\ Reached(A) \cap Reached(C) = {} /\ Reached(B) \cap Reached(C) = {}
          /\ Raised(A) \subseteq Reached(A) /\ Raised(B) \subseteq Reached(B) /\ Raised(C) \subseteq Reached(C)
      BY <1>0, WiredApart
    <3> HIDE DEF A, B, C
    <3>6. Receive(Receive(eq.stcs[c], B), B \cup C) = Receive(eq.stcs[c], B)
      BY <3>1, <3>2, <3>5, HeardAgain
    <3> QED
      BY <3>3, <3>4, <3>6
  <2>2. p.stcs = [c \in Cabs |-> p.stcs[c]] /\ q.stcs = [c \in Cabs |-> q.stcs[c]]
    BY <1>3 DEF Passed
  <2> QED
    BY <2>1, <2>2
<1>13. EquipmentShape(p) /\ EquipmentShape(q)
  BY <1>3 DEF Passed
<1> QED
  BY <1>7, <1>8, <1>9, <1>10, <1>11, <1>12, <1>13 DEF EquipmentShape

\* A step does not unsettle the equipment.
THEOREM StepsStaySettled == Spec => StepKeepsSettled
<1>1. TrainInv /\ [Next]_vars => [~Settled' => ~(Settled /\ Step)]_vars
  <2> SUFFICES ASSUME TrainInv, Settled, Step PROVE Settled'
    OBVIOUS
  <2>1. eq' = Resolve(Driven, NoCabStates, linkCuts) /\ UNCHANGED <<cabActive, cabKey, linkCuts>>
    BY StepFact
  <2>2. Resolve(eq', CabStates(cabActive, cabKey), linkCuts) = eq'
    BY <2>1, StepSettles
  <2>3. Resolve(eq', CabStates(cabActive', cabKey'), linkCuts') = eq'
    BY <2>1, <2>2
  <2> QED
    BY <2>3, Zenon DEF Settled
<1> QED
  BY <1>1, TrainInvariance, PTL DEF Spec, StepKeepsSettled

(***************************************************************************)
(* Motion.                                                                 *)
(***************************************************************************)

\* The sign of a product.
LEMMA SignsOfProducts ==
  /\ \A x, y \in Int : x > 0 /\ y > 0 => x * y > 0
  /\ \A x, y \in Int : x > 0 /\ y < 0 => x * y < 0
  /\ \A x, y \in Int : x < 0 /\ y > 0 => x * y < 0
  /\ \A x, y \in Int : x < 0 /\ y < 0 => x * y > 0
  /\ \A x \in Int : x * 0 = 0 /\ 0 * x = 0
OBVIOUS

\* The speed after a step follows from the acceleration of its inputs.
LEMMA StepMotion ==
  ASSUME TrainInv, Step
  PROVE  LET a == StepAcceleration(eq')
         IN  /\ a \in Int /\ EquipmentTypes(eq') /\ InputTypes(eq'.inputs) /\ speed' \in Int
             /\ Moved(speed, a, speed')
<1>0. position \in Int /\ speed \in Int
  BY DEF TrainInv
<1>1. eq' = Resolve(Driven, NoCabStates, linkCuts)
  BY StepFact
<1>2. EquipmentTypes(eq') /\ InputTypes(eq'.inputs)
  <2>1. EquipmentTypes(Driven)
    BY DrivenFact
  <2> QED
    BY <1>1, <2>1, CabRowsFact, ResolveTypes
<1>3. StepAcceleration(eq') \in Int
  BY <1>0, <1>2, AccelerationType DEF EquipmentTypes
<1>4. PICK m : m = Integrate(position, speed, StepAcceleration(eq')) /\ speed' = m.speed
  BY StepFact
<1> DEFINE a == StepAcceleration(eq')
<1>5. a \in Int /\ m = Integrate(position, speed, a)
  BY <1>3, <1>4
<1> HIDE DEF a
<1>6. m.speed \in Int /\ Moved(speed, a, m.speed)
  BY <1>0, <1>5, IntegrateFact
<1> QED
  BY <1>2, <1>4, <1>5, <1>6 DEF a

\* The force of the lever: none at standstill unless the demand is positive.
LEMMA LeverForce ==
  ASSUME NEW d \in Int, NEW v \in Int, NEW a, a = ResolveAcceleration(d, v)
  PROVE  /\ a \in Int
         /\ a > 0 => d > 0
         /\ v = 0 => a >= 0
<1>1. TractionFactor \in Int /\ TractionFactor > 0 /\ DecelFactor \in Int /\ DecelFactor > 0
  BY PhysicsAssumption
<1>2. CASE d > 0
  <2>1. a = TractionFactor * d
    BY <1>2 DEF ResolveAcceleration
  <2> QED
    BY <1>1, <1>2, <2>1, SignsOfProducts
<1>3. CASE d < 0 /\ v # 0
  <2>1. a = DecelFactor * d
    BY <1>3 DEF ResolveAcceleration
  <2> QED
    BY <1>1, <1>3, <2>1, SignsOfProducts
<1>4. CASE ~(d > 0) /\ ~(d < 0 /\ v # 0)
  BY <1>4 DEF ResolveAcceleration
<1> QED
  BY <1>2, <1>3, <1>4

\* No force takes a moving train through standstill within one step, and the lever
\* alone does not take a train rearward that stands or moves forward.
THEOREM TrainsStopFirst == Spec => NoUnaskedReversal
<1>1. TrainInv /\ [Next]_vars =>
        [speed * speed' < 0 \/ LeverMisdrives => ~Step]_vars
  <2> SUFFICES ASSUME TrainInv, Step
               PROVE  ~(speed * speed' < 0) /\ ~LeverMisdrives
    OBVIOUS
  <2> DEFINE a == StepAcceleration(eq')
             d == eq'.demand
  <2>1. speed' \in Int /\ speed \in Int /\ a \in Int /\ d \in Int /\ Moved(speed, a, speed')
    BY StepMotion, PhysicsAssumption DEF TrainInv, EquipmentTypes
  <2>2. eq'.inputs = {} => a = ResolveAcceleration(d, speed)
    BY Zenon DEF StepAcceleration
  <2> HIDE DEF a, d
  <2>3. ~(speed * speed' < 0)
    <3>1. CASE speed * (speed + a) >= 0 /\ speed' = speed + a
      BY <2>1, <3>1
    <3>2. CASE speed' = 0
      BY <2>1, <3>2, SignsOfProducts
    <3> QED
      BY <2>1, <3>1, <3>2 DEF Moved
  <2>4. ASSUME eq'.inputs = {}, speed >= 0
        PROVE  speed' >= 0 /\ (speed' > speed => d > 0)
    <3>1. (a > 0 => d > 0) /\ (speed = 0 => a >= 0)
      BY <2>1, <2>2, <2>4, LeverForce
    <3>2. CASE speed * (speed + a) >= 0 /\ speed' = speed + a
      <4>1. speed > 0 /\ speed + a < 0 => speed * (speed + a) < 0
        BY <2>1, SignsOfProducts
      <4> QED
        BY <2>1, <2>4, <3>1, <3>2, <4>1
    <3>3. CASE speed' = 0
      BY <2>1, <2>4, <3>3
    <3> QED
      BY <2>1, <3>2, <3>3 DEF Moved
  <2> QED
    <3>1. ~LeverMisdrives
      BY <2>1, <2>4 DEF LeverMisdrives, d
    <3> QED
      BY <2>3, <3>1
<1> QED
  BY <1>1, TrainInvariance, PTL DEF Spec, NoUnaskedReversal

\* A driver input is one of the handles of a driving system or a protection brake.
LEMMA InputKinds ==
  ASSUME NEW e, NEW cuts, NEW i \in Inputs(e, cuts)
  PROVE  \/ \E c \in Cabs : i.traction = IF e.driving[c].mode = "traction"
                                         THEN TrackTraction(c, e.driving[c]) ELSE 0
         \/ i.traction = 0 /\ \E c \in Cabs : ProtectionBrakes(e.stcs[c]) # {}
<1> DEFINE Handle(c) == [source |-> DrivingSystem(c), by |-> "handles",
               traction |-> IF e.driving[c].mode = "traction" THEN TrackTraction(c, e.driving[c]) ELSE 0,
               brake |-> IF e.driving[c].mode = "brake" THEN e.driving[c].effort ELSE 0]
           Protect(c, n) == [source |-> StcsAtp(c), by |-> n, traction |-> 0,
                             brake |-> (BrakeOf[n] * FullEffort) \div 10]
           Handled == {k \in Cabs : e.driving[k].mode # "off" /\ Intact(cuts, DrivingSystem(k), TheTrain)}
           Protecting == {k \in Cabs : Intact(cuts, StcsAtp(k), TheTrain)}
<1>1. Inputs(e, cuts) = {Handle(c) : c \in Handled}
                          \cup UNION {{Protect(c, n) : n \in ProtectionBrakes(e.stcs[c])} : c \in Protecting}
  BY Zenon DEF Inputs
<1>2. CASE i \in {Handle(c) : c \in Handled}
  <2>1. PICK c \in Cabs : i = Handle(c)
    BY <1>2
  <2> QED
    BY <2>1
<1>3. CASE i \in UNION {{Protect(c, n) : n \in ProtectionBrakes(e.stcs[c])} : c \in Protecting}
  <2>1. PICK c \in Cabs : \E n \in ProtectionBrakes(e.stcs[c]) : i = Protect(c, n)
    BY <1>3
  <2>2. i.traction = 0 /\ ProtectionBrakes(e.stcs[c]) # {}
    BY <2>1
  <2> QED
    BY <2>2
<1> QED
  BY <1>1, <1>2, <1>3

\* A deceleration against the motion slows the train or stops it.
LEMMA BrakingFact ==
  ASSUME NEW v \in Int, NEW k \in Nat, NEW a, a = - (Sign(v) * k), NEW w \in Int,
         Moved(v, a, w)
  PROVE  ~(Abs(w) > Abs(v))
<1>1. CASE v = 0
  <2>1. a = 0 /\ v * (v + a) = 0
    BY <1>1 DEF Sign
  <2> QED
    BY <1>1, <2>1 DEF Moved, Abs
<1>2. CASE v > 0
  <2>1. a = -k
    BY <1>2 DEF Sign
  <2>2. v + a \in Int /\ (v * (v + a) >= 0 => v + a >= 0)
    BY <1>2, <2>1, SignsOfProducts
  <2>3. (w = v - k /\ w >= 0) \/ w = 0
    BY <2>1, <2>2 DEF Moved
  <2> QED
    BY <1>2, <2>3 DEF Abs
<1>3. CASE v < 0
  <2>1. a = k
    BY <1>3 DEF Sign
  <2>2. v + a \in Int /\ (v * (v + a) >= 0 => v + a <= 0)
    BY <1>3, <2>1, SignsOfProducts
  <2>3. (w = v + k /\ w <= 0) \/ w = 0
    BY <2>1, <2>2 DEF Moved
  <2> QED
    BY <1>3, <2>3 DEF Abs
<1> QED
  BY <1>1, <1>2, <1>3

\* Under a cut-off that reaches the train, a step has no force left but brakes: the
\* lever is zero, and no driving system pulls.
LEMMA OnlyBrakes ==
  ASSUME TrainInv, CutOffHolds, Step
  PROVE  \E k \in Nat : StepAcceleration(eq') = - (Sign(speed) * k)
<1> SUFFICES ASSUME NEW f, f = Driven, NEW p, p = eq'
             PROVE  \E k \in Nat : StepAcceleration(p) = - (Sign(speed) * k)
  OBVIOUS
<1>1. /\ EquipmentTypes(f) /\ f.stcs = eq.stcs
      /\ \A c \in Cabs : f.driving[c] = DriveStep(c, eq.driving[c])
  BY DrivenFact
<1>2. Passed(f, NoCabStates, linkCuts, p)
  <2>1. p = Resolve(f, NoCabStates, linkCuts)
    BY StepFact
  <2> QED
    BY <1>1, <2>1, ResolveFields DEF EquipmentTypes
<1>3. InputTypes(p.inputs) /\ p.inputs = Inputs(f, linkCuts)
  <2>1. InputTypes(eq'.inputs)
    BY StepMotion
  <2> QED
    BY <1>2, <2>1 DEF Passed
<1>4. speed \in Int /\ position \in Int /\ \A c \in Cabs : DrivingTypes(c, eq.driving[c])
  BY DEF TrainInv, EquipmentTypes
<1>5. \A c \in Cabs : f.driving[c].mode # "traction"
  <2> SUFFICES ASSUME NEW c \in Cabs PROVE f.driving[c].mode # "traction"
    OBVIOUS
  <2>1. CASE CutOff(eq.stcs[c]) /\ Intact(linkCuts, StcsAtp(c), DrivingSystem(c))
    <3>1. Passed(eq, CabStates(cabActive, cabKey), linkCuts, eq)
      BY SettledFact DEF CutOffHolds
    <3>2. eq.driving[c] = OffDriving
      BY <2>1, <3>1 DEF Passed
    <3>3. f.driving[c] = OffDriving
      BY <1>1, <3>2, OffStays
    <3> QED
      BY <3>3 DEF OffDriving, Manually, Off
  <2>2. CASE eq.driving[c].control = "manual" /\ eq.driving[c].manual.mode # "traction"
    <3>1. DriveStep(c, eq.driving[c]).mode = eq.driving[c].manual.mode
      BY <1>4, <2>2, DriveFact
    <3> QED
      BY <1>1, <2>2, <3>1
  <2> QED
    BY <2>1, <2>2 DEF CutOffHolds
<1>6. \A i \in p.inputs : i.traction = 0
  BY <1>3, <1>5, InputKinds
<1>7. p.demand = 0
  BY <1>1, <1>2 DEF Passed, CutOffHolds
<1>8. DecelFactor \in Nat \ {0} /\ TractionFactor \in Nat /\ FullEffort \in Nat
  BY PhysicsAssumption
<1>9. CASE p.inputs = {}
  <2>1. StepAcceleration(p) = ResolveAcceleration(0, speed)
    BY <1>7, <1>9, Zenon DEF StepAcceleration
  <2>2. StepAcceleration(p) = 0 /\ Sign(speed) * 0 = 0
    BY <2>1 DEF ResolveAcceleration, Sign
  <2> QED
    BY <2>2
<1>10. CASE p.inputs # {}
  <2>1. PICK t \in -FullEffort..FullEffort : \E b \in 0..FullEffort :
           /\ StepAcceleration(p) = ResolveDriverAcceleration(t, b, speed)
           /\ (\A i \in p.inputs : i.traction >= 0) => t >= 0
           /\ (\A i \in p.inputs : i.traction <= 0) => t <= 0
    BY <1>3, <1>10, AccelerationFact
  <2>2. PICK b \in 0..FullEffort :
           /\ StepAcceleration(p) = ResolveDriverAcceleration(t, b, speed)
           /\ (\A i \in p.inputs : i.traction >= 0) => t >= 0
           /\ (\A i \in p.inputs : i.traction <= 0) => t <= 0
    BY <2>1
  <2>3. t = 0
    <3>1. t >= 0 /\ t <= 0
      BY <1>6, <2>2
    <3> QED
      BY <1>8, <3>1
  <2> DEFINE k == DecelFactor * b
  <2>4. b \in Nat /\ k \in Nat
    BY <1>8, Products
  <2>5. StepAcceleration(p) = - (Sign(speed) * k)
    <3>1. TractionFactor * t = 0
      BY <1>8, <2>3
    <3>2. Sign(speed) * DecelFactor * b = Sign(speed) * k
      BY <1>8, <2>4 DEF Sign
    <3>3. Sign(speed) * k \in Int
      BY <2>4 DEF Sign
    <3> HIDE DEF k
    <3>4. StepAcceleration(p) = TractionFactor * t - Sign(speed) * DecelFactor * b
      BY <2>2 DEF ResolveDriverAcceleration
    <3> QED
      BY <3>1, <3>2, <3>3, <3>4
  <2> HIDE DEF k
  <2> QED
    BY <2>4, <2>5
<1> QED
  BY <1>9, <1>10

\* Under a cut-off the train never gains speed.
THEOREM CutOffIsObeyed == Spec => CutOffNeverAccelerates
<1>1. TrainInv /\ [Next]_vars => [Abs(speed') > Abs(speed) => ~(CutOffHolds /\ Step)]_vars
  <2> SUFFICES ASSUME TrainInv, CutOffHolds, Step PROVE ~(Abs(speed') > Abs(speed))
    OBVIOUS
  <2>1. PICK k \in Nat : StepAcceleration(eq') = - (Sign(speed) * k)
    BY OnlyBrakes
  <2> DEFINE a == StepAcceleration(eq')
  <2>2. speed' \in Int /\ Moved(speed, a, speed') /\ speed \in Int /\ a = - (Sign(speed) * k)
    BY <2>1, StepMotion DEF TrainInv
  <2> HIDE DEF a
  <2> QED
    BY <2>2, BrakingFact
<1> QED
  BY <1>1, TrainInvariance, PTL DEF Spec, CutOffNeverAccelerates

\* Envelopes of one facing do not pull a train that stands, or rolls the other way,
\* but the way they face: whatever acceleration results points that way.
LEMMA EnvelopePulls ==
  ASSUME TrainInv, Step, NEW facing \in {1, -1}, EnvelopeDrives(facing), eq'.inputs # {},
         facing * speed <= 0
  PROVE  facing * StepAcceleration(eq') >= 0
<1> SUFFICES ASSUME NEW f, f = Driven, NEW p, p = eq'
             PROVE  facing * StepAcceleration(p) >= 0
  OBVIOUS
<1>1. /\ EquipmentTypes(f) /\ f.stcs = eq.stcs
      /\ \A c \in Cabs : f.driving[c] = DriveStep(c, eq.driving[c])
  BY DrivenFact
<1>2. InputTypes(p.inputs) /\ p.inputs = Inputs(f, linkCuts)
  <2>1. p = Resolve(f, NoCabStates, linkCuts) /\ InputTypes(eq'.inputs)
    BY StepFact, StepMotion
  <2>2. Passed(f, NoCabStates, linkCuts, p)
    BY <1>1, <2>1, ResolveFields DEF EquipmentTypes
  <2> QED
    BY <2>1, <2>2 DEF Passed
<1>3. /\ speed \in Int /\ position \in Int /\ FullEffort \in Nat
      /\ \A c \in Cabs : DrivingTypes(c, eq.driving[c])
  BY PhysicsAssumption DEF TrainInv, EquipmentTypes
<1>4. \A c \in Cabs : ProtectionBrakes(f.stcs[c]) = {}
  BY <1>1 DEF EnvelopeDrives, ProtectionBrakes
<1>5. ASSUME NEW c \in Cabs, f.driving[c].mode = "traction"
      PROVE  facing * TrackTraction(c, f.driving[c]) >= 0
  <2>1. eq.driving[c].control # "manual"
    <3>1. CASE eq.driving[c].control = "manual"
      <4>1. DriveStep(c, eq.driving[c]).mode = eq.driving[c].manual.mode
        BY <1>3, <3>1, DriveFact
      <4>2. eq.driving[c].manual.mode = "off"
        BY <3>1 DEF EnvelopeDrives
      <4> QED
        BY <1>1, <1>5, <4>1, <4>2
    <3> QED
      BY <3>1
  <2>2. eq.driving[c].control = "stopping_envelope" /\ Facing[c] = facing
    BY <2>1 DEF EnvelopeDrives
  <2> DEFINE d == f.driving[c]
  <2>3. d.direction = "forward" \/ d.effort = 0
    <3>1. f.driving[c] = DriveStep(c, eq.driving[c]) /\ Facing[c] * speed <= 0
      BY <1>1, <2>2
    <3> QED
      BY <1>3, <1>5, <2>2, <3>1, DriveFact
  <2>4. d.effort \in Nat
    <3>1. d.effort \in 0..FullEffort
      BY <1>1, <1>3, <2>1, DriveFact
    <3> QED
      BY <1>3, <3>1
  <2> HIDE DEF d
  <2>5. TrackTraction(c, d) = facing * d.effort \/ TrackTraction(c, d) = 0
    BY <2>2, <2>3, <2>4 DEF TrackTraction
  <2>6. facing * TrackTraction(c, d) >= 0
    BY <2>4, <2>5
  <2> QED
    BY <2>6 DEF d
<1>6. \A i \in p.inputs : facing * i.traction >= 0
  <2> SUFFICES ASSUME NEW i \in p.inputs PROVE facing * i.traction >= 0
    OBVIOUS
  <2>1. PICK c \in Cabs : i.traction = IF f.driving[c].mode = "traction"
                                       THEN TrackTraction(c, f.driving[c]) ELSE 0
    BY <1>2, <1>4, InputKinds
  <2> QED
    BY <1>5, <2>1
<1>7. PICK t \in -FullEffort..FullEffort : \E b \in 0..FullEffort :
         /\ StepAcceleration(p) = ResolveDriverAcceleration(t, b, speed)
         /\ (\A i \in p.inputs : i.traction >= 0) => t >= 0
         /\ (\A i \in p.inputs : i.traction <= 0) => t <= 0
  BY <1>2, AccelerationFact
<1>8. PICK b \in 0..FullEffort :
         /\ StepAcceleration(p) = ResolveDriverAcceleration(t, b, speed)
         /\ (\A i \in p.inputs : i.traction >= 0) => t >= 0
         /\ (\A i \in p.inputs : i.traction <= 0) => t <= 0
  BY <1>7
<1>9. facing * t >= 0 /\ t \in Int /\ b \in Nat
  <2>1. \A i \in p.inputs : i.traction \in Int
    BY <1>2, <1>3 DEF InputTypes
  <2>2. facing = 1 => \A i \in p.inputs : i.traction >= 0
    BY <1>6, <2>1
  <2>3. facing = -1 => \A i \in p.inputs : i.traction <= 0
    BY <1>6, <2>1
  <2> QED
    BY <1>3, <1>8, <2>2, <2>3
<1> DEFINE pull == TractionFactor * t
           hold == DecelFactor * b
<1>10. pull \in Int /\ hold \in Nat /\ facing * pull >= 0
  <2>1. TractionFactor \in Nat /\ DecelFactor \in Nat
    BY PhysicsAssumption
  <2>2. pull \in Int /\ (t >= 0 => pull >= 0) /\ (t <= 0 => pull <= 0)
    BY <1>9, <2>1, Products
  <2>3. hold \in Nat
    BY <1>9, <2>1, Products
  <2> HIDE DEF pull, hold
  <2> QED
    BY <1>9, <2>2, <2>3
<1>11. StepAcceleration(p) = pull - Sign(speed) * hold
  <2>1. StepAcceleration(p) = pull - Sign(speed) * DecelFactor * b
    BY <1>8 DEF ResolveDriverAcceleration
  <2>2. Sign(speed) * DecelFactor * b = Sign(speed) * hold
    BY <1>9, PhysicsAssumption DEF Sign
  <2> QED
    BY <2>1, <2>2
<1> HIDE DEF pull, hold
<1>12. facing * (pull - Sign(speed) * hold) >= 0
  BY <1>3, <1>10 DEF Sign
<1> QED
  BY <1>11, <1>12

\* Motion under a force that is not against the cab: the train does not run the
\* other way, or less fast than before.
LEMMA PulledFact ==
  ASSUME NEW v \in Int, NEW a \in Int, NEW w \in Int, NEW facing \in {1, -1}, Moved(v, a, w),
         facing * v <= 0 => facing * a >= 0
  PROVE  w * facing >= 0 \/ w * facing >= v * facing
<1>1. \A x \in Int : 1 * x = x /\ x * 1 = x /\ (-1) * x = -x /\ x * (-1) = -x
  OBVIOUS
<1>2. CASE facing = 1
  <2>1. v <= 0 => a >= 0
    BY <1>1, <1>2
  <2>2. v > 0 /\ v * (v + a) >= 0 => v + a >= 0
    BY SignsOfProducts
  <2>3. w >= 0 \/ w >= v
    BY <2>1, <2>2 DEF Moved
  <2> QED
    BY <1>1, <1>2, <2>3
<1>3. CASE facing = -1
  <2>1. v >= 0 => a <= 0
    BY <1>1, <1>3
  <2>2. v < 0 /\ v * (v + a) >= 0 => v + a <= 0
    BY SignsOfProducts
  <2>3. w <= 0 \/ w <= v
    BY <2>1, <2>2 DEF Moved
  <2> QED
    BY <1>1, <1>3, <2>3
<1> QED
  BY <1>2, <1>3

\* A train in the hands of stopping envelopes of one facing is never driven the
\* other way.
THEOREM EnvelopesDriveForward == Spec => EnvelopeNeverReverses
<1>1. TrainInv /\ [Next]_vars =>
        [\A facing \in {1, -1} :
           speed' * facing < 0 /\ speed' * facing < speed * facing
             => ~(EnvelopeDrives(facing) /\ eq'.inputs # {} /\ Step)]_vars
  <2> SUFFICES ASSUME TrainInv, Step, NEW facing \in {1, -1}, EnvelopeDrives(facing), eq'.inputs # {}
               PROVE  ~(speed' * facing < 0 /\ speed' * facing < speed * facing)
    OBVIOUS
  <2> DEFINE a == StepAcceleration(eq')
  <2>1. a \in Int /\ speed' \in Int /\ speed \in Int /\ Moved(speed, a, speed')
    BY StepMotion DEF TrainInv
  <2>2. facing * speed <= 0 => facing * a >= 0
    BY EnvelopePulls
  <2> HIDE DEF a
  <2>3. speed' * facing >= 0 \/ speed' * facing >= speed * facing
    BY <2>1, <2>2, PulledFact
  <2>4. speed' * facing \in Int /\ speed * facing \in Int
    BY <2>1
  <2> QED
    BY <2>3, <2>4
<1> QED
  BY <1>1, TrainInvariance, PTL DEF Spec, EnvelopeNeverReverses
==============================================================================
