------------------------------- MODULE Config -------------------------------
(***************************************************************************)
(* Start-up: config.py, the checks of TrainConfig and Train.__init__       *)
(* (domain/train.py), and the equipment factories (registry.py).  The run  *)
(* command parses the configuration file, hands what it parsed to the      *)
(* server process through an environment variable, and the server parses   *)
(* it again and builds the train.                                          *)
(*                                                                         *)
(* An optional field of the file is a set, empty when it is absent; so is  *)
(* a number, empty when there is no finite one.  A cab is an integer; Text *)
(* and Null stand for other JSON values.  "other" stands for a value of    *)
(* the wrong kind.  Of an instance's further parameters the model keeps    *)
(* whether they suit the factory.  Unknown fields are a flag.              *)
(***************************************************************************)
EXTENDS Integers, Sequences, SequencesExt, FiniteSets

CONSTANTS
  Files,      \* the configuration files the command may be started with
  Types       \* the names of EQUIPMENT_FACTORIES that a file uses

VARIABLES
  stage,      \* how far the start-up has come
  file,       \* the file, as JSON
  loaded,     \* what the command parsed: {} or {[train, endpoints]}
  environ,    \* A_TRAIN_CONFIG: {} or {a file}
  decoded,    \* what the server parsed from it
  installed   \* the equipment of the train the server built, with its keys

vars == <<stage, file, loaded, environ, decoded, installed>>

AtMostOne(S) == \A x, y \in S : x = y

\* The lists of a JSON file are finite, and a field has one value or none.
ASSUME FilesAssumption ==
  \A f \in Files :
    /\ f.train.cabs \in Seq(ToSet(f.train.cabs))
    /\ \A items \in f.train.equipment :
         /\ items \in Seq(ToSet(items))
         /\ \A item \in ToSet(items) : AtMostOne(item.cab) /\ AtMostOne(item.params.cab)

\* The names of EQUIPMENT_FACTORIES are words.
ASSUME TypesAssumption == "" \notin Types

Text == -1
Null == -2
MaxCab == 10000
MaxPort == 65535

\* The equipment whose factories take further parameters.
Tunable == {"door", "driving_system", "switch_box"}

-----------------------------------------------------------------------------
(* Equipment entries.                                                      *)

\* Side and cab move from the entry into the parameters of the instance.
ParamsOf(item) ==
  [cab  |-> IF item.cab # {} THEN item.cab ELSE item.params.cab,
   side |-> IF item.side # {} THEN item.side ELSE item.params.side,
   rest |-> item.params.rest]

ItemAccepted(item, cabIds) ==
  /\ item.type # ""
  /\ ~item.key                          \* keys are generated, never given
  /\ item.enabled \in {"yes", "no"}
  /\ item.side = {} \/ item.params.side \subseteq item.side
  /\ \A cab \in item.cab : /\ 1 <= cab /\ cab <= MaxCab /\ cab \in cabIds
                           /\ item.params.cab \subseteq {cab}

\* A key is <type>, <type>_<cab> or <side>_door, and _2, _3, ... behind it.
BaseKey(type, params) ==
  IF params.cab # {}
    THEN [name |-> <<type>>, numbers |-> SetToSeq(params.cab)]
  ELSE IF type = "door" /\ params.side # {}
    THEN [name |-> SetToSeq(params.side) \o <<"door">>, numbers |-> <<>>]
  ELSE [name |-> <<type>>, numbers |-> <<>>]

Numbered(base, n) == [base EXCEPT !.numbers = IF n = 1 THEN @ ELSE Append(@, n)]

\* The first key that is not taken, of <base>, <base>_2, <base>_3, ...
FreeKey(base, used) ==
  Numbered(base, CHOOSE n \in 1..(Cardinality(used) + 1) :
                   /\ Numbered(base, n) \notin used
                   /\ \A m \in 1..(n - 1) : Numbered(base, m) \in used)

\* Mutation: a key that is taken gets _2 without another look.
GeneratedKeyOnce(type, params, used) ==
  LET base == BaseKey(type, params)
  IN  IF base \in used THEN Numbered(base, 2) ELSE base

\* Mutation: the key counts the instances of a type, whatever their cabs.
GeneratedKeyByType(type, params, used) == FreeKey([name |-> <<type>>, numbers |-> <<>>], used)

GeneratedKey(type, params, used) == FreeKey(BaseKey(type, params), used)

\* The instance of an entry behind others with the keys used.
Instance(item, used) ==
  [type |-> item.type, key |-> GeneratedKey(item.type, ParamsOf(item), used),
   params |-> ParamsOf(item), enabled |-> item.enabled = "yes"]

\* The instances of a list of entries; a disabled one has a key like the others.
Equipment(items) ==
  FoldLeft(LAMBDA made, item : Append(made, Instance(item, {made[i].key : i \in DOMAIN made})),
           <<>>, items)

DistinctBy(items, Id(_)) ==
  \A i, j \in DOMAIN items : Id(items[i]) = Id(items[j]) => i = j

Enabled(equipment) == {i \in DOMAIN equipment : equipment[i].enabled}

\* No two enabled instances of a type name the same cab.
CabsNamedOnce(equipment) ==
  \A i, j \in Enabled(equipment) :
    /\ equipment[i].type = equipment[j].type
    /\ \E cab \in equipment[i].params.cab \cap equipment[j].params.cab : cab >= 0
    => i = j

\* Without an equipment list: two doors, and a Btm, a driving system and a duo ATP per cab.
StandardFit(cabIds) ==
  LET Door(side) == [type |-> "door", enabled |-> TRUE, key |-> [name |-> <<side, "door">>, numbers |-> <<>>],
                     params |-> [cab |-> {}, side |-> {side}, rest |-> "none"]]
      PerCab(type) == [i \in DOMAIN cabIds |->
                        [type |-> type, enabled |-> TRUE, key |-> [name |-> <<type>>, numbers |-> <<cabIds[i]>>],
                         params |-> [cab |-> {cabIds[i]}, side |-> {}, rest |-> "none"]]]
  IN  <<Door("left"), Door("right")>>
      \o PerCab("btm") \o PerCab("driving_system") \o PerCab("stcs_atp_duo")

-----------------------------------------------------------------------------
(* Parsing.                                                                *)

CabAccepted(cab) ==
  /\ 1 <= cab.cab_id /\ cab.cab_id <= MaxCab
  /\ cab.facing \in {"forward", "backward"}
  /\ cab.key_inserted \in {"yes", "no"}

ActiveOf(cabs) == {i \in DOMAIN cabs : cabs[i].active}
Ids(cabs) == [i \in DOMAIN cabs |-> cabs[i].cab_id]

\* train_config_from_data, without its checks.
TrainOf(data) ==
  LET ids == Ids(data.cabs)
  IN  [train_id |-> data.train_id, cab_ids |-> ids,
       active |-> ids[CHOOSE i \in ActiveOf(data.cabs) : TRUE],
       key_cabs |-> {ids[i] : i \in {j \in DOMAIN ids : data.cabs[j].key_inserted = "yes"}},
       facings |-> [i \in DOMAIN ids |-> IF data.cabs[i].facing = "forward" THEN 1 ELSE -1],
       physics |-> data.physics,
       equipment |-> IF data.equipment = {} THEN StandardFit(ids)
                     ELSE Equipment(CHOOSE items \in data.equipment : TRUE)]

\* TrainConfig.__post_init__, as far as the parser has not checked it.
TrainConfigAccepted(config) ==
  /\ Len(config.cab_ids) \in {1, 2}
  /\ DistinctBy(config.equipment, LAMBDA e : e.key)
  /\ \A i \in DOMAIN config.equipment : config.equipment[i].type \in Types
  /\ \E a \in config.physics.max_traction_accel : a > 0
  /\ \E d \in config.physics.max_decel : d > 0
  /\ config.physics.initial_position # {} /\ config.physics.initial_speed # {}
  /\ config.physics.initial_door_state \in {"open", "closed"}

TrainAccepted(data) ==
  /\ ~data.unknown
  /\ data.train_id # ""
  /\ data.cabs # <<>> /\ \A i \in DOMAIN data.cabs : CabAccepted(data.cabs[i])
  /\ DistinctBy(data.cabs, LAMBDA cab : cab.cab_id)
  /\ Cardinality(ActiveOf(data.cabs)) = 1
  /\ \A items \in data.equipment :
        /\ \A i \in DOMAIN items : ItemAccepted(items[i], ToSet(Ids(data.cabs)))
        /\ CabsNamedOnce(Equipment(items))
  /\ TrainConfigAccepted(TrainOf(data))

EndpointAccepted(entry) ==
  ~entry.unknown /\ entry.host # "" /\ 1 <= entry.port /\ entry.port <= MaxPort

\* startup_config_from_data: a top-level "atp" without "train" leaves no train,
\* which the command and the server both require.  {} is a refusal.
Parsed(f) ==
  IF /\ f.wrapped \/ f.atp = {}
     /\ TrainAccepted(f.train)
     /\ \A entries \in f.atp : \A i \in DOMAIN entries : EndpointAccepted(entries[i])
  THEN {[train |-> TrainOf(f.train),
         endpoints |-> IF f.atp = {} THEN <<>> ELSE CHOOSE entries \in f.atp : TRUE]}
  ELSE {}

-----------------------------------------------------------------------------
(* Serializing.                                                            *)

ItemData(e) ==
  [type |-> e.type, key |-> FALSE, enabled |-> IF e.enabled THEN "yes" ELSE "no",
   cab |-> e.params.cab, side |-> {},
   params |-> [cab |-> {}, side |-> e.params.side, rest |-> e.params.rest]]

\* Mutation: only what is installed is handed over.
TrainDataInstalled(config) ==
  [unknown |-> FALSE, train_id |-> config.train_id, physics |-> config.physics,
   cabs |-> [i \in DOMAIN config.cab_ids |->
              [cab_id |-> config.cab_ids[i], active |-> config.cab_ids[i] = config.active,
               facing |-> IF config.facings[i] = 1 THEN "forward" ELSE "backward",
               key_inserted |-> IF config.cab_ids[i] \in config.key_cabs THEN "yes" ELSE "no"]],
   equipment |-> {LET enabled == SelectSeq(config.equipment, LAMBDA e : e.enabled)
                  IN  [i \in DOMAIN enabled |-> ItemData(enabled[i])]}]

TrainData(config) ==
  [unknown |-> FALSE, train_id |-> config.train_id, physics |-> config.physics,
   cabs |-> [i \in DOMAIN config.cab_ids |->
              [cab_id |-> config.cab_ids[i], active |-> config.cab_ids[i] = config.active,
               facing |-> IF config.facings[i] = 1 THEN "forward" ELSE "backward",
               key_inserted |-> IF config.cab_ids[i] \in config.key_cabs THEN "yes" ELSE "no"]],
   equipment |-> {[i \in DOMAIN config.equipment |-> ItemData(config.equipment[i])]}]

ConfigData(config) ==
  [wrapped |-> TRUE, train |-> TrainData(config.train),
   atp |-> IF config.endpoints = <<>> THEN {} ELSE {config.endpoints}]

-----------------------------------------------------------------------------
(* Building the train.                                                     *)

\* The cab of an instance: the parameter, else the number its generated key ends
\* in.  The prefix looked for on a driving system never leaves a number.
CabOf(e) ==
  IF e.params.cab # {} THEN e.params.cab
  ELSE IF e.type \notin {"door", "driving_system"} THEN ToSet(e.key.numbers)
  ELSE {}

FactoryAccepts(e) ==
  /\ e.params.rest = "none" \/ (e.params.rest = "known" /\ e.type \in Tunable)
  /\ IF e.type = "door" THEN e.params.cab = {} /\ e.params.side \subseteq {"left", "right"}
     ELSE e.params.side = {} /\ CabOf(e) # {}

\* The instances' rows: a switch box asserts control-state rows on the ATP of its
\* cab, and a solo ATP, which has none, refuses the whole intent.
FeedbackFits(equipment) ==
  \A i, j \in Enabled(equipment) :
    equipment[i].type = "switch_box" /\ equipment[j].type = "stcs_atp_solo"
      => CabOf(equipment[i]) # CabOf(equipment[j])

FactoriesAccept(equipment) == \A i \in Enabled(equipment) : FactoryAccepts(equipment[i])

CabsAddressedOnce(equipment) ==
  \A i, j \in Enabled(equipment) :
    /\ equipment[i].type = equipment[j].type
    /\ CabOf(equipment[i]) = CabOf(equipment[j]) /\ CabOf(equipment[i]) # {}
    => i = j

\* Mutation: that each cab has one instance of a type is left to the parser.
BuildsUnchecked(equipment) == FactoriesAccept(equipment) /\ FeedbackFits(equipment)

\* Train.__init__ for the enabled instances: what one of them refuses while the
\* first intents are resolved is not caught.
Builds(equipment) ==
  FactoriesAccept(equipment) /\ CabsAddressedOnce(equipment) /\ FeedbackFits(equipment)

Built(e) == [type |-> e.type, key |-> e.key, cab |-> CabOf(e)]

-----------------------------------------------------------------------------
(* The start-up.                                                           *)

Init ==
  /\ stage = "started" /\ file \in Files
  /\ loaded = {} /\ environ = {} /\ decoded = {} /\ installed = {}

\* _run_server: load_config_file.
LoadConfigFile ==
  /\ stage = "started"
  /\ loaded' = Parsed(file)
  /\ stage' = IF loaded' = {} THEN "refused by the command" ELSE "loaded"
  /\ UNCHANGED <<file, environ, decoded, installed>>

\* _run_server: encode_config, and uvicorn is run.
RunServer ==
  /\ stage = "loaded"
  /\ environ' = {ConfigData(config) : config \in loaded}
  /\ stage' = "server runs"
  /\ UNCHANGED <<file, loaded, decoded, installed>>

\* lifespan: decode_config.
DecodeConfig ==
  /\ stage = "server runs"
  /\ decoded' = UNION {Parsed(f) : f \in environ}
  /\ stage' = IF decoded' = {} THEN "refused by the server" ELSE "decoded"
  /\ UNCHANGED <<file, loaded, environ, installed>>

\* lifespan: SimulationCore builds the train.
BuildTrain ==
  /\ stage = "decoded"
  /\ \E config \in decoded :
       LET equipment == config.train.equipment
       IN  IF Builds(equipment)
           THEN /\ stage' = "serving"
                /\ installed' = {Built(equipment[i]) : i \in Enabled(equipment)}
           ELSE stage' = "refused by the server" /\ UNCHANGED installed
  /\ UNCHANGED <<file, loaded, environ, decoded>>

Next == LoadConfigFile \/ RunServer \/ DecodeConfig \/ BuildTrain

Spec == Init /\ [][Next]_vars

-----------------------------------------------------------------------------
(* Properties.                                                             *)

\* However entries repeat and disable types, sides and cabs, the generated keys
\* are distinct (_generated_equipment_key): no file is refused for its keys, and
\* every instance has a REST address of its own.
KeysAreDistinct ==
  \A items \in file.train.equipment : DistinctBy(Equipment(items), LAMBDA e : e.key)

\* An instance may name a cab in its parameters that the train does not have: the
\* parser looks for the cab of the entry only, where the handoff puts it.
NamesForeignCab(train) ==
  \E i \in DOMAIN train.equipment :
    ~(train.equipment[i].params.cab \subseteq ToSet(train.cab_ids))

Handed == stage \in {"decoded", "serving", "refused by the server"}

\* Of the configurations the command validated the server decodes those that name no
\* foreign cab, and refuses the others; and in those it decodes the cabs, the keys, the
\* order and keys of the equipment, the disabled entries, the standard fit and the
\* listeners have survived (encode_config, decode_config).
HandoffFaithful ==
  Handed => decoded = {config \in loaded : ~NamesForeignCab(config.train)}

\* README.md:117-118: "Equipment configuration is validated before the server starts":
\* what the command has validated the server need not refuse when it decodes it.
ValidatedBeforeServer == Handed => decoded = loaded

\* In a served train each cab has at most one instance of a type, also where an
\* instance took its cab from its key (README.md, config.py and Train.__init__).
AddressesUnique ==
  stage = "serving" =>
    \A e, f \in installed : e.cab # {} /\ e.type = f.type /\ e.cab = f.cab => e = f

\* Where a REST key of a served train carries numbers, the first is the cab of the
\* instance it addresses (_generated_equipment_key against _cab_id_from_key).
KeysNameTheirCab ==
  stage = "serving" =>
    \A e \in installed :
      e.cab # {} => e.key.numbers # <<>> /\ {e.key.numbers[1]} = e.cab

\* stcs_atp.py: a solo ATP "silently ignores the asserts" of a switch box: a train
\* whose instances are valid each and addressed once is built.
SoloIgnoresSwitchBox ==
  stage = "refused by the server" =>
    \A config \in decoded :
      ~(FactoriesAccept(config.train.equipment) /\ CabsAddressedOnce(config.train.equipment))

=============================================================================
