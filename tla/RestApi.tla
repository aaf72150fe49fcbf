------------------------------- MODULE RestApi -------------------------------
(***************************************************************************)
(* adapters/api/routes.py composed with the simulation core: HTTP handlers *)
(* that validate a request, submit a command, await its result and answer  *)
(* with the snapshot they then find.                                       *)
(*                                                                         *)
(* A handler is one of the core's Clients.  The web framework finishes a   *)
(* handler whose peer has gone, so none is cancelled.  A request is a      *)
(*   read       of the status (train is {}) or of a train,                 *)
(*   command    for the core, or for a train that may be unknown,          *)
(*   equipment  setting, with an optional cab number, telegram, data and   *)
(*              door command,                                              *)
(* and an optional field is a set, empty for None.  The cab number may be  *)
(* the one the equipment has, "own", or another.  A telegram is encoded by *)
(* the operators of Telegram.                                              *)
(***************************************************************************)
EXTENDS SimulationCore

CONSTANT Requests

VARIABLE http    \* per handler: the request, and its answer once there is one

restVars == <<vars, http>>

T == INSTANCE Telegram

NoRequest == [status |-> "none"]

\* What set_equipment makes of the telegram of a request.
FrameOf(r) == UNION {T!EncodeTelegram(t) : t \in r.telegram}

\* HTTP 200 with the latest snapshot, and with the frame that was submitted for a
\* posted telegram, or an error without them.
Answer(request, code, asked, submitted, data) ==
  [status |-> "answered", request |-> request, code |-> code, asked |-> asked,
   submitted |-> submitted,
   snapshot |-> IF code = 200 THEN {latestSnapshot} ELSE {},
   frame |-> IF code = 200 THEN data ELSE {}]

-----------------------------------------------------------------------------
(* Handlers.                                                               *)

\* Mutation: a telegram is encoded for whatever equipment it names.
RefusedAtEdgeAnyType(r) ==
  /\ r.route = "equipment"
  /\ \/ r.telegram # {} /\ r.data # {}
     \/ r.telegram # {} /\ FrameOf(r) = {}
     \/ "invalid" \in r.data

\* set_equipment before it submits: telegram and data exclude each other, a
\* telegram is for a BTM if the snapshot knows the equipment, and both decode.
RefusedAtEdge(r) ==
  /\ r.route = "equipment"
  /\ \/ r.telegram # {} /\ r.data # {}
     \/ r.telegram # {} /\ "known" \in r.train /\ r.type \notin {"btm", "missing"}
     \/ r.telegram # {} /\ FrameOf(r) = {}
     \/ "invalid" \in r.data

\* Mutation: a BTM does not look at the cab number.
BtmAcceptsAnyCab(r) ==
  r.type = "btm" /\ (r.telegram # {} \/ r.data # {})

\* A BTM needs a payload, and takes none that names another cab.
BtmAccepts(r) ==
  /\ r.type = "btm" /\ (r.telegram # {} \/ r.data # {})
  /\ "other" \notin r.cab

\* A door needs a command it knows; it looks at neither payload nor cab.
DoorAccepts(r) ==
  r.type = "door" /\ r.command # {} /\ r.command \subseteq {"open", "close"}

\* The command a request becomes.  The core refuses one for an unknown train, and
\* the train one for missing equipment or which the equipment does not accept.
CommandOf(r) ==
  IF r.route = "command" THEN
    IF "unknown" \in r.train THEN [kind |-> "control", accepted |-> FALSE] ELSE r.command
  ELSE [kind |-> "control",
        accepted |-> "known" \in r.train /\ (BtmAccepts(r) \/ DoorAccepts(r))]

\* The core's Commands are those that requests become, and a request for equipment
\* carries at most one telegram.
ASSUME RestAssumption ==
  \A r \in Requests :
    /\ r.route # "read" => CommandOf(r) \in Commands
    /\ r.route = "equipment" => /\ r.telegram \subseteq T!TelegramShape
                                /\ \A t, u \in r.telegram : t = u

\* get_status, list_trains and get_train: answered without an await.
Read(k, r) ==
  /\ r.route = "read"
  /\ http' = [http EXCEPT ![k] = Answer(r, IF "unknown" \in r.train THEN 404 ELSE 200,
                                        latestSnapshot.id, FALSE, {})]
  /\ UNCHANGED vars

RefuseAtEdge(k, r) ==
  /\ RefusedAtEdge(r)
  /\ http' = [http EXCEPT ![k] = Answer(r, 400, latestSnapshot.id, FALSE, {})]
  /\ UNCHANGED vars

\* Up to the await of submit_command.
SubmitRequest(k, r) ==
  /\ r.route # "read" /\ ~RefusedAtEdge(r)
  /\ Submit(k, CommandOf(r))
  /\ http' = [http EXCEPT ![k] = [status |-> "awaiting", request |-> r,
                                  asked |-> latestSnapshot.id,
                                  data |-> IF r.route = "equipment" THEN FrameOf(r) ELSE {}]]

Arrive(k, r) ==
  /\ http[k].status # "awaiting"
  /\ Read(k, r) \/ RefuseAtEdge(k, r) \/ SubmitRequest(k, r)

\* Mutation: the handler does not wait for the result.
RespondAtOnce(k) ==
  /\ http[k].status = "awaiting"
  /\ client' = [client EXCEPT ![k].status = "idle"]
  /\ http' = [http EXCEPT ![k] = Answer(@.request, 200, @.asked, TRUE, @.data)]
  /\ UNCHANGED <<pc, worldVars, feedVars, sequence, results, commandQueue, now>>

\* The handler resumes: _raise_on_error, then get_snapshot.
Respond(k) ==
  /\ ResumeClient(k)
  /\ http' = [http EXCEPT ![k] = Answer(@.request, IF client[k].ok THEN 200 ELSE 400,
                                        @.asked, TRUE, @.data)]

-----------------------------------------------------------------------------
RestInit == Init /\ http = [k \in Clients |-> NoRequest]

RestNext ==
  \/ \E k \in Clients : (\E r \in Requests : Arrive(k, r)) \/ Respond(k)
  \/ (RunLoop \/ Elapse) /\ UNCHANGED http

RestSpec == RestInit /\ [][RestNext]_restVars

-----------------------------------------------------------------------------
(* Properties.                                                             *)

\* A successful answer is never older than its request, and the answer to a
\* command includes what the command published, whoever else commands, steps or
\* ticks meanwhile (_train_command_response and the simulation handlers).
AnswersAreFresh ==
  \A k \in Clients : http[k].status = "answered" =>
    \A snapshot \in http[k].snapshot :
      /\ snapshot.id >= http[k].asked
      /\ http[k].submitted => snapshot.id > http[k].asked

\* An answer reports an encoded telegram only if a BTM of the addressed train took
\* it; equipment that ignores the payload never makes it a success.
EncodedMeansDelivered ==
  \A k \in Clients : http[k].status = "answered" /\ http[k].frame # {} =>
    /\ http[k].submitted
    /\ http[k].request.type = "btm" /\ "known" \in http[k].request.train

\* The telegrams that have been posted to an equipment and answered.
Posted(k) ==
  IF http[k].status = "answered" /\ http[k].request.route = "equipment"
  THEN http[k].request.telegram ELSE {}

\* docs/btm-telegram.md section 1: a telegram is for the BTM of a cab of the train,
\* comes without data, and its cab number, if it has one, must be that cab's.
Addressed(r) ==
  /\ "known" \in r.train /\ r.type = "btm"
  /\ r.data = {}
  /\ "other" \notin r.cab

\* A telegram with consistent lengths reads back from its frame field by field,
\* for every presence of the conditional fields (_encode_packet41, BitWriter).
FrameReadsBack ==
  \A k \in Clients : \A t \in Posted(k) : \A frame \in http[k].frame :
    T!Consistent(t) => T!ReadHeader(frame) = t.header /\ T!ReadPackets(frame) = t.packets

\* A telegram is answered with its frame exactly if it is addressed to a BTM that
\* takes it, is valid and fits the user packet area with its packets, whatever else
\* the request says; and a frame is always 104 bytes, the last two bits of them zero.
FrameHoldsWhatFits ==
  \A k \in Clients : \A t \in Posted(k) :
    /\ http[k].frame # {} <=>
         /\ Addressed(http[k].request)
         /\ T!Accepted(t)
         /\ T!BitsOfPackets(t) <= T!UserPacketAreaBits
    /\ \A frame \in http[k].frame :
         /\ Len(frame) = 8 * T!FrameBytes
         /\ \A i \in T!FrameBits + 1 .. 8 * T!FrameBytes : frame[i] = 0

=============================================================================
