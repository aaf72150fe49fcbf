------------------------------ MODULE MCRestApi ------------------------------
(* RestApi for TLC.  A behaviour follows one of three plans: two clients whose *)
(* requests interleave, one client that posts one payload to an equipment, or   *)
(* the clock, where one task of another adapter submits a long run of commands. *)
EXTENDS RestApi, MCSimulationCore, TLC

Posts == INSTANCE MCTelegram

VARIABLE plan

Core(c) == [route |-> "command", train |-> {}, command |-> c]
Equipment(named, type, cab, telegram, data, command) ==
  [route |-> "equipment", train |-> {named}, type |-> type, cab |-> cab,
   telegram |-> telegram, data |-> data, command |-> command]

Reads == {[route |-> "read", train |-> named] : named \in {{}, {"known"}, {"unknown"}}}
CoreRequests ==
  {Core(c) : c \in {Run, Pause, Reset, Step(4), SetTimeMode("REALTIME", 0)}}
TrainRequests ==
  {[route |-> "command", train |-> {"unknown"}, command |-> Control(TRUE)],
   [route |-> "command", train |-> {"known"}, command |-> Control(FALSE)]}
EquipmentSamples ==
  {Equipment("known", "btm", {"own"}, {}, {"valid"}, {}),
   Equipment("known", "door", {}, {}, {"valid"}, {"open"}),
   Equipment("known", "btm", {"other"}, {}, {"valid"}, {})}

\* Every shape of an equipment request, from a train and equipment that are there
\* or not and for every cab, and every telegram to a BTM.
Shapes ==
  {Equipment(named, type, cab, telegram, data, command) :
     named \in {"known", "unknown"}, type \in {"btm", "door", "missing"},
     cab \in {{}, {"own"}, {"other"}},
     telegram \in {{}, {Posts!Sample}, {Posts!Refused}}, data \in {{}, {"valid"}, {"invalid"}},
     command \in {{}, {"open"}, {"ajar"}}}
Payloads == Shapes \cup {Equipment("known", "btm", {}, {t}, {}, {}) : t \in Posts!McTelegrams}

Interleaved == Reads \cup CoreRequests \cup TrainRequests \cup EquipmentSamples
McRequests == Interleaved \cup Payloads
McCommands ==
  ClockCommands \cup {r.command : r \in CoreRequests}
  \cup {Control(ok) : ok \in BOOLEAN}

PlannedInit == RestInit /\ plan \in {"interleaved", "payload", "clock"}

\* Bounds of the plans on the commands and on the clock.
Within(commands, time) == sequence' <= commands /\ now' <= time

Idle(k) == client[k] = [status |-> "idle", sequence |-> 0, ok |-> FALSE]

ClockStep ==
  /\ \/ \E k \in Clients : \/ /\ \A j \in Clients \ {k} : Idle(j)
                              /\ \E c \in ClockCommands : Submit(k, c)
                           \/ CancelSubmit(k) \/ ResumeClient(k)
     \/ RunLoop \/ Elapse
  /\ UNCHANGED http

PlannedNext ==
  /\ \/ /\ plan = "interleaved"
        /\ \/ \E k \in Clients : (\E r \in Interleaved : Arrive(k, r)) \/ Respond(k)
           \/ (RunLoop \/ Elapse) /\ UNCHANGED http
        /\ Within(3, 1)
     \/ /\ plan = "payload"
        /\ \/ /\ \A k \in Clients : http[k] = NoRequest
              /\ \E k \in Clients : \E r \in Payloads : Arrive(k, r)
           \/ \E k \in Clients : Respond(k)
           \/ (RunLoop \/ Elapse) /\ UNCHANGED http
        /\ Within(1, 1)
     \/ plan = "clock" /\ ClockStep
  /\ UNCHANGED plan

PlannedSpec == PlannedInit /\ [][PlannedNext]_<<restVars, plan>>

Symmetry == Permutations(Clients)
=============================================================================
