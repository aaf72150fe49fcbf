------------------------------ MODULE MCConfig ------------------------------
EXTENDS Config

Cab(id, active) == [cab_id |-> id, active |-> active, facing |-> "forward", key_inserted |-> "no"]

\* One valid cab list of each length, and one list for each way to be refused.
OneCab == <<Cab(1, TRUE)>>
TwoCabs == <<Cab(2, FALSE), [Cab(1, TRUE) EXCEPT !.facing = "backward", !.key_inserted = "yes"]>>
CabLists ==
  {OneCab, TwoCabs, <<>>, <<Cab(1, FALSE)>>, <<Cab(1, TRUE), Cab(2, TRUE)>>,
   <<Cab(1, TRUE), Cab(1, FALSE)>>, <<Cab(1, TRUE), Cab(2, FALSE), Cab(3, FALSE)>>,
   <<Cab(0, TRUE)>>, <<Cab(MaxCab + 1, TRUE)>>, <<Cab(MaxCab, TRUE)>>,
   <<[Cab(1, TRUE) EXCEPT !.facing = "other"]>>, <<[Cab(1, TRUE) EXCEPT !.key_inserted = "other"]>>}

NoParams == [cab |-> {}, side |-> {}, rest |-> "none"]
Item(type) ==
  [type |-> type, key |-> FALSE, enabled |-> "yes", cab |-> {}, side |-> {}, params |-> NoParams]
At(item, cab) == [item EXCEPT !.cab = {cab}]
Off(item) == [item EXCEPT !.enabled = "no"]
OnSide(item, side) == [item EXCEPT !.params.side = {side}]

\* What equipment lists of up to four entries are made of.
Btms == {Item("btm"), Off(Item("btm")), At(Item("btm"), 1), At(Item("btm"), 2), Off(At(Item("btm"), 2))}
Doors ==
  {Item("door"), OnSide(Item("door"), "left"), [Item("door") EXCEPT !.side = {"left"}],
   Off(OnSide(Item("door"), "left"))}
Rows == {At(Item(type), cab) : type \in {"stcs_atp_duo", "stcs_atp_solo", "switch_box"}, cab \in {1, 2}}
Lists == UNION {[1..n -> Btms] : n \in 0..4} \union UNION {[1..n -> Doors] : n \in 1..3}
         \union [1..2 -> Rows]

\* Single entries at the edges of the parser and of the factories.
Odd ==
  UNION {{Item(type), At(Item(type), 1), OnSide(Item(type), "left"), OnSide(At(Item(type), 1), "other"),
          [At(Item(type), 1) EXCEPT !.params.rest = "known"],
          [At(Item(type), 1) EXCEPT !.params.rest = "unknown"],
          [Item(type) EXCEPT !.params.cab = {1}], [Item(type) EXCEPT !.params.cab = {3}],
          [Item(type) EXCEPT !.params.cab = {Text}], [Item(type) EXCEPT !.params.cab = {Null}],
          [At(Item(type), 1) EXCEPT !.params.cab = {1}], [At(Item(type), 1) EXCEPT !.params.cab = {2}]}
         : type \in Types \union {"", "lamp"}}
  \union {[Item("door") EXCEPT !.side = {"left"}, !.params.side = {"right"}],
          [Item("door") EXCEPT !.side = {"left"}, !.params.side = {"left"}],
          [Item("door") EXCEPT !.params.rest = "known"],
          [At(Item("btm"), 1) EXCEPT !.key = TRUE], [At(Item("btm"), 1) EXCEPT !.enabled = "other"],
          At(Item("btm"), 3), At(Item("btm"), 0)}

Physics ==
  [max_traction_accel |-> {1}, max_decel |-> {1}, initial_position |-> {0}, initial_speed |-> {0},
   initial_door_state |-> "closed"]
OddPhysics ==
  {[Physics EXCEPT !.max_traction_accel = v] : v \in {{}, {0}}}
  \union {[Physics EXCEPT !.max_decel = v] : v \in {{}, {-1}}}
  \union {[Physics EXCEPT !.initial_position = {}], [Physics EXCEPT !.initial_speed = {-1}],
          [Physics EXCEPT !.initial_speed = {}], [Physics EXCEPT !.initial_door_state = "open"],
          [Physics EXCEPT !.initial_door_state = "other"]}

Endpoint == [host |-> "local", port |-> 9101, unknown |-> FALSE]
OddEndpoints ==
  {[Endpoint EXCEPT !.port = p] : p \in {0, 1, MaxPort, MaxPort + 1}}
  \union {[Endpoint EXCEPT !.host = ""], [Endpoint EXCEPT !.unknown = TRUE]}

Train(cabs, equipment, physics) ==
  [unknown |-> FALSE, train_id |-> "T1", cabs |-> cabs, equipment |-> equipment, physics |-> physics]
File(train) == [wrapped |-> TRUE, train |-> train, atp |-> {}]
Plain == File(Train(TwoCabs, {}, Physics))

McFiles ==
  {File(Train(cabs, {items}, Physics)) : cabs \in {OneCab, TwoCabs}, items \in Lists}
  \union {File(Train(TwoCabs, {<<item>>}, Physics)) : item \in Odd}
  \union {File(Train(cabs, {}, Physics)) : cabs \in CabLists}
  \union {File(Train(TwoCabs, {}, physics)) : physics \in OddPhysics}
  \union {[Plain EXCEPT !.train.unknown = TRUE], [Plain EXCEPT !.train.train_id = ""],
          [Plain EXCEPT !.wrapped = FALSE],
          [Plain EXCEPT !.wrapped = FALSE, !.atp = {<<Endpoint>>}], [Plain EXCEPT !.atp = {<<>>}]}
  \union {[Plain EXCEPT !.atp = {<<Endpoint, entry>>}] : entry \in OddEndpoints \union {Endpoint}}

McTypes == {"door", "btm", "stcs_atp_duo", "stcs_atp_solo", "driving_system", "switch_box"}
=============================================================================
