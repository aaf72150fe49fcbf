# A-Train in TLA+

A-Train simulates one train for the development of on-board ATP software.  This
directory holds TLA+ models of the simulator's Python code, TLC configurations
that check them on small instances, and TLAPS proofs of the properties that
should hold for every instance.  Paths below are relative to the repository
root; the Python package is `src/a_train/` there, the browser application is
`web/`.

## 1. Inventory of the system

| Component | State | Operations | Interacts with |
|---|---|---|---|
| **Simulation core** `simulation/core.py` | lifecycle state, time mode and multiplier, simulation time, accumulator, monotonic reference, command queue, result futures, latest snapshot | `run_loop`, `_tick_wall_clock`, `_await_command`, `_dispatch` and its handlers, `_submit` | owns the train; everything else reaches it through `submit_command`, `get_snapshot` and `subscribe` |
| **Snapshot feed** `simulation/core.py` 110-130, 322-339; `adapters/api/websocket.py` | one bounded queue per subscriber | `subscribe`, `unsubscribe`, `_publish_snapshot`, the publisher tasks | core → browser, ATP and CBTC sessions |
| **Train aggregate** `domain/train.py`, `link_cuts.py`, `controls.py` | position, speed, acceleration, active cabs, keys, lever, driver inputs, cut wires | `apply_control`, `set_equipment`, `reset_equipment`, link-cut changes, `step`, `reset`, intent resolution | called by the core only; calls equipment |
| **Equipment** `domain/equipment/*` | doors; driving systems (handles, control mode, targets); STCS ATP (train-in and train-out maps, blocks); switch boxes; BTM | `apply_control`, `step`, `emit_intents`, `apply_intent`, `reset` | only by intents that the train collects and delivers |
| **Physics and driving laws** `domain/physics.py`, `driving_law.py` | none | acceleration rules, integration, two control laws | called by `Train.step` and `DrivingSystem.step` |
| **CBTC WebSocket** `adapters/api/switch_logic_websocket.py` | connected cabs; per session: cab, last inputs, two helper tasks | greeting, `_exchange` loop, clean-up | subscribes to the feed, submits switch-box commands |
| **ATP TCP adapter** `adapters/atp/*` | servers, sessions, publisher tasks, active-peer counts | `start`, `stop`, `_serve_peer`, compound commands | subscribes to the feed, submits up to four commands per message |
| **REST adapter** `adapters/api/routes.py`, `schemas.py` | local variables of each request | validate, encode a telegram, submit, answer with a snapshot | telegram codec, core |
| **Bootstrap** `bootstrap.py`, `__main__.py` | the core task, an environment variable | hand the configuration to the server, start-up and shutdown order | core, ATP adapter |
| **Configuration** `config.py` | none | validation, key generation, encode and decode | the command and the server, which parse it one after the other |
| **Equipment factories** `domain/equipment/registry.py` | none | parameters of an instance, its cab | `Train.__init__` |
| **Telegram codec** `telegram/*` | none | field checks, bit packing, packets, 830-bit frames | called by the REST adapter (`routes.py:203`) |
| **Browser application** `web/app.js` | presentation | | REST and WebSocket client |

Everything runs on one asyncio event loop, so code between two `await`s is
atomic and the awaits are where tasks interleave.  Nothing is persisted: there
is no crash recovery.  What is hard here:

* *time*: the conversion of elapsed wall time to fixed steps, across run, pause,
  reset and mode changes, with a timeout that races the arrival of commands;
* *interleaving*: clients that are cancelled while they wait, snapshots read
  after other commands ran, sessions that come and go for the same cab;
* *bounded queues*: a slow subscriber loses snapshots; it must not lose the
  newest one;
* *chained consequences*: an ATP command cuts off a driving system, whose
  handles mirror into other rows; all intents of one pass are computed from
  the state before it;
* *partial requests*: an STCS request with several fields, one of which is bad;
  an ATP message that becomes several core commands, one of which is refused;
* *shutdown*: `stop()` awaits servers, sessions and publishers that end by
  themselves, or do not, and that clean up the same books;
* *two parses*: the command validates a configuration, the server parses what
  the command wrote; keys generated from entries are read back as cabs;
* *boundaries*: the tolerance of the drain loop, standstill, a target behind the
  train, bit strings of any length, the last bit of a telegram frame.

Correct means, per component: **core** – commands answered once and in order,
simulated time neither lost nor invented, clock and physics in lockstep;
**feed** – ordered, nothing but old snapshots lost, the newest always reachable;
**train** – an accepted operation has taken full effect when it returns, a
cut-off holds, a blocked row keeps its reading, reset forgets everything, no
reversal within a step; **CBTC sessions** – one client per cab, nothing leaks,
the last change of the inputs is on its way and eventually reported; **ATP adapter** – a stop that ends,
no session left behind, a compound command carried out and reported faithfully;
**REST** – answers no older than their requests; **configuration** – unique
keys, one instance per cab and type, the server gets unchanged what was
validated; **telegrams** – frames that read back, up to the limit.

`PROJECT.json` lists each hazard at its line with the properties aimed at it.

## 2. Modules and their correspondence to the code

| Module | Models |
|---|---|
| `SimulationCore` | `simulation/core.py`: loop, commands, clock, feed |
| `Mailbox` | abstract specification of what `subscribe()` promises |
| `SnapshotFeed` | `SimulationCore` seen by one subscriber, and the refinement mapping to `Mailbox` |
| `Physics` | `domain/physics.py`, `domain/equipment/driving_law.py`, the handle mapping of `DrivingSystem.step` |
| `Train` | `domain/train.py`, `link_cuts.py`, doors, BTM, driving systems, STCS Duo and Solo, switch boxes |
| `SwitchLogic` | `adapters/api/switch_logic_websocket.py` over an abstracted core |
| `AtpManager` | `adapters/atp/manager.py`, `connection.py`, the shutdown order of `bootstrap.py`, over an abstracted core |
| `Telegram` | `telegram/*`: operators, no state |
| `RestApi` | `adapters/api/routes.py`, composed with `SimulationCore` and `Telegram` |
| `Config` | `config.py`, the hand-over in `__main__.py` and `bootstrap.py`, the checks of `TrainConfig` and `Train.__init__`, `registry.py` |
| `MC*` | constants and request sets for TLC |
| `*_proofs` | the TLAPS proofs of the module of the same name (`AtpSessions_proofs`: the messages and doors of `AtpManager`; `RestApi_proofs` also holds the proofs about `Telegram`) |

### SimulationCore

`pc` says where `run_loop` is suspended.  An action is a stretch between two
awaits: `HandleNext` is one turn around the blocking `queue.get()`;
`TickWallClock` runs up to the `wait_for`, which ends in `CommandArrives` or
`TickTimeout`; since other tasks may run between the timeout and the loop's
resumption, `RecheckQueue` is an action of its own (the `get_nowait` after the
timeout).  `HandleCommand` is `_handle_command` as a whole: dispatch, fixed
steps, publication, future.  `Submit`, `CancelSubmit` and `ResumeClient` are the
two halves of `_submit` and its cancellation; `Subscribe`, `Unsubscribe` and
`Receive` are the feed's users; `Elapse` is the monotonic clock.

Time is an integer: `FixedStep` units make one fixed step, `Epsilon` units stand
for the drain loop's 1e-9.  Multipliers are integers.  The train is a counter of
steps and the number of the last control that changed it; what happens inside is
`Train`'s subject.  `earned` is a history variable: the simulated time that the
clock and `step()` have granted.  `id` numbers snapshots; the code's snapshots
have no number, and only properties read it.  A handler takes no time of its
own.  Cancellation of `run_loop` itself (shutdown) is not modelled.

### SnapshotFeed and Mailbox

A mailbox has a number of publications and the number last taken; `Take` may
skip but never goes back, and under fairness never stops short of the newest.
The mapping is `published <- latestSnapshot.id`, `taken <- seen[observer]`.  The
queue's capacity and what it dropped disappear in the abstraction.

### Physics and Train

One fixed step is the unit of time and positions are in half units, so
average-velocity integration is exact in integers; quotients are truncated
toward zero, where the code's floats are not rounded.  An effort of 1.0 is
`FullEffort`.

A signal map is the set of its high signals; an optional field of a request is
a set with at most one member.  `Resolve` is one pass of
`_resolve_equipment_intents`: all intents are collected from the state before
and delivered over intact wires.  Delivering them at once is faithful because
no two intents of a pass write the same row.  `ResolveAll` is the two passes of
an operation, a step makes one.  `SetEquipment` keeps the order in which the
STCS applies the fields of a request, so a late refusal leaves the earlier
fields applied.  A refused operation that changed nothing is a stuttering step.

The fit is two doors, and a BTM, a driving system and an STCS per cab; the STCS
of the cabs in `Solos` has the solo layout, switch boxes stand in the cabs of
`Boxes`.  `Solos` and `Boxes` are disjoint because no train with both in one cab
can be built (finding 3).  A bit string is a function from the rows it reaches to
their levels: a short one leaves the rows behind it alone.  Plain train-out rows
that nothing reads are represented by `turnback_button`; `last_command` texts
and arrival times are left out.  A driving system is built with the handles of its
configuration (`InitialHandles`), an effort of any size among them; `reset()` and
`reset_equipment()` turn them off instead (`OffDriving`), as the code does.  Switch
boxes have the default initial position and authorizations.

### SwitchLogic

A session is `closed`, waits for its `hello`, is `greeting`, and then goes round
`waiting`, `submitting`, `answered`, `sending` until it is `leaving`.  Its two
helper tasks are `text` and `held`: empty while the task runs, else its result.
`done` remembers that the snapshot was in the set that `asyncio.wait` returned
before the command was submitted, which decides whether it is looked at in the
same turn.  The core appears by what `SimulationCore` shows of it: commands are
applied in order, every change (and every step) is published to bounded queues.
A snapshot is the state of the subscriber's own box.  `hello_ack` and the first
`cbtc-in` are one send; the error branches for a box that vanishes or refuses a
boolean cannot be reached and are left out.

### AtpManager

`pc` of a session is `reading` (in `readline()`), `submitting` (in
`submit_command`), `unwinding` (in its `finally`, awaiting the publisher),
`closing` (in `writer.wait_closed()`), or `none`.  The five collections of the
manager are variables of their own, because what could go wrong is that they
disagree.  A connection has two ends: `transport` is ours, `peer` says whether
the other one reads.  `phase` is where `start()` and `stop()` are.

The core appears as its command queue: commands are applied in order, and a
session whose command was answered becomes ready at the end of `woken`.  asyncio
resumes ready tasks in that order, and only because of it do the two door
commands of one message stay in the order of those of another (`DoorsAgree`).
`Accept` includes the first stretch of the session task: `stop()` closes the
listeners and then yields often enough for every accepted session to have
started before it is cancelled.  `waits` is what `Server.wait_closed()` does with
open connections, which depends on the Python version (3.12 and later wait);
`pyproject.toml` admits both.  A line that is no valid command changes nothing.
What the train itself refuses is the lever of a cab it does not have and the signal
of a cab without an STCS unit; a signal string that is shorter or longer than the
unit's table is taken as far as both reach, so its length is no part of the model.

### Telegram and RestApi

A handler of the REST adapter is a client of `SimulationCore` (`RestApi` extends
that module), with the local variables of its request in `http`: the request,
the newest snapshot when it came (`asked`, read only by the properties), the
encoded frame while the command is under way, and then the answer.  The actions
are the stretches up to `submit_command` and after it.  The command routes that
differ only in their payload are one action.  An equipment request carries what
decides its fate: the train, the kind of equipment, a telegram or data, a door
command, and the cab number, which may be the one of the equipment, another, or none.
`CommandOf` says which requests the train accepts (`BtmAccepts`, `DoorAccepts`).

`Telegram` encodes what is posted field by field as `telegram/*` does, with each
field given as its coded integer and a nullable field as a set with at most one.
Its second half is a reader of frames that is written from the packet tables, not
from the encoder, and follows `L_PACKET` and `N_ITER`; `FrameReadsBack` compares
the two.

### Config

The start-up is a sequence of four steps: the command parses the file, writes
what it parsed to the environment, the server parses that, and the train is
built.  The interest is in the data: the file is a record, and `Files` enumerates
lists of equipment entries that repeat, disable and move their parameters, and
every field at its edges.  Keys are a name and a list of numbers, so that a
number that was appended to make a key unique and a cab look alike, as they do in
the code.  Left out are cab ids written as text that reads as a number, and the
binding of ports (which is `AtpManager`'s).

## 3. What each run checks

| Run | Question | Result |
|---|---|---|
| `core_requests` | lifecycle, mode and step commands against clock and timeouts: is simulated time lost, invented or leaked?  Are answers fresh while clients, steps and ticks interleave?  Is every telegram answered with a readable frame exactly if a BTM takes it and it fits? | holds; 961 k states |
| `core_feed` | several clients, a slow subscriber: exactly-once answers in order, due steps run, the feed implements the fair mailbox | holds; 309 k states |
| `core_stopped` | does time stand still unless RUNNING? | **violated** (finding 1) |
| `train_cab` | two cabs, a duo with a switch box and a solo: are two passes enough, with wires cut and restored, does a cut-off hold, do blocked rows keep their reading and train-in rows their assertion, does reset forget everything, do handles, lever and the stopping law ever reverse a train? | holds; 39 k states |
| `train_refused` | does a refused request change nothing? | **violated** (finding 2) |
| `train_brake` | does asserting `maximum_service_brake_7` slow a coasting train? | **violated** (finding 4) |
| `switch_sessions` | greeting, failing, leaving, reconnecting sessions: slots, leaks, missed changes; does a client that floods its session still learn the present inputs? | holds; 642 k states |
| `atp_sessions` | peers that command, leave, reconnect and are cancelled at any await; failing starts: are the books exact, are messages carried out whole, is anything left behind? | holds; 1.16 M states |
| `atp_live` | does `stop()` end unless a peer holds it up, is a peer that left forgotten? | holds; 1.7 k states |
| `config_handoff` | are keys and addresses unique, does the server decode exactly the validated configurations that name no foreign cab, and refuse the others? | holds; 6.5 k states |
| `config_validated` | does the server decode whatever the command validated? | **violated** (finding 5) |
| `config_solo` | does a solo ATP ignore a switch box? | **violated** (finding 3) |

### Bounds

* `core_requests`: a behaviour follows one of three plans, so that their products
  need not be explored.  *clock*: one task submits up to four commands, which admits
  run, mode change, pause and another run, and `MaxNow = 5` lets time pass between
  all of them; one task suffices, since handlers of different tasks differ only in
  the order of the queue, which `core_feed` covers.  With `FixedStep = 3`,
  `Epsilon = 1` the deltas 2 and 7 end below, within and above the tolerance; the
  multiplier 4 makes a unit of wall time more than a step, so catch-up batches
  occur.  *interleaved*: two symmetric clients with up to three commands and one
  unit of time.  *payload*: one request with any shape of payload, cab number and
  door command.  The telegrams have every field at its edges and frames of 772 bits
  of packets (the most that fit), 774 and 780.
* `core_feed`: two clients, one subscriber with a queue of two, and a step
  command that publishes a batch of four, so the queue overflows within one
  command.  Three commands admit a mode change, a run and one more; `MaxNow = 2`
  lets due steps accumulate.  Subscribers do not affect each other.
* `train_cab`: two cabs that face opposite ways, a duo and a switch box in cab 1, a
  solo in cab 2, and a configured brake effort of 12 in cab 1, which no request may
  ask for.  A behaviour follows one of four plans: *wiring* (every kind of request,
  accepted and refused, one to a box that is not fitted, cuts in both directions
  between the driving system and the STCS), *fittings* (doors, one telegram per BTM,
  the box, resets of every component), *blocks* (every kind of block and bit string,
  a cut to the STCS) and *motion* (handles, lever, brakes and the stopping law, with
  a target ahead of the backward-facing cab (-12), already passed or behind (12)).
  Only *motion* steps away from the initial position, up to `MaxPosition = 14` in
  both directions; the bound stops stepping, not the operations.
* `train_refused` and `train_brake`: one cab; the second train moves and coasts.
* `switch_sessions`: two sockets contend for one cab, a greeting for a cab
  without a box, queues of two, one command under way, and updates that take the
  inputs through three values.
* `atp_sessions`: two symmetric peers, one endpoint, one reset by others, a
  message of three commands of which the last is refused (its cab has no STCS unit)
  and one of which the first is (the train does not have its cab).  `atp_live`: one peer, two endpoints, a message of two commands; what
  ends one session does not depend on another.
* `config_handoff`: lists of up to four BTM entries and three doors (a key can be
  taken three times), all pairs of rows in two cabs, and every field at its
  edges, with a cab in the parameters that the train has, has not, or is no number.
  `config_validated` and `config_solo` start from the same files.

Deadlock is not checked for `core_*` (their counters end them), `atp_*` (the adapter stops for good) and `config_*` (the start-up ends).
It is checked for the others.

Each property of a passing run is also checked against a mutation of the model
(the definitions marked "Mutation", listed in `PROJECT.json`) that violates it:
a plausible slip in the code would be noticed.

### Fairness

`core_feed` assumes weak fairness of `RunLoop`, `Elapse`, `ResumeClient` and
`Receive`: asyncio runs every ready task, and the monotonic clock advances.
Clients need not submit and nobody must (un)subscribe.  `switch_sessions` assumes
it of `ApplyCommand`, of each `Handler` and of each `TakeSnapshot`, for the same
reason; peers need not send.  Its liveness conclusion is conditional on a box
that is eventually left alone and a client that stays connected.  A send that
blocks for ever (a client that stops reading) is not a fair handler and is
excluded.  `atp_live` assumes it of the core, of every session and publisher that
can go on, and of the two waits in `stop()`.  It assumes strong fairness of the
end of a transport that is closed: a peer that reads now and then lets the finite
rest of the buffer drain.  `StopEnds` is conditional on no peer that holds it up
for ever (`Held`); without that condition it fails, see below.

## 4. What is proved

`SimulationCore_proofs`, for all sets of clients and subscribers, all command
sets, step sizes, capacities and bounds that satisfy `CoreAssumption`:

1. `TaskInv` = types of the tasks + `FuturesMatchQueue`.  The queue's numbers
   are consecutive and end at `sequence - 1`, so its head is the smallest
   registered future: handling it removes exactly that one, and cancelling a
   waiting task disturbs nothing.  Gives `FuturesMatch`.
2. `ClockInv` = types of the clock + `RefOnlyWhileRunning`, `NothingDueLeft`,
   `PhysicsInLockstep`, `NoBorrowedTime`.  None is inductive alone: that a tick
   borrows nothing needs the reference to be valid, which needs every handler
   that ends wall-clock running to clear it; that a mode change leaks nothing
   needs the same of `set_time_mode`.  The arithmetic is in `DueStepsFact`
   (what the drain loop leaves) and `DrainFact`.  Gives `NeverBorrows`,
   `NothingLeft`, `Lockstep`, `RefWhileRunning`, and with them `TimeIsDriven`.
3. `FeedInv` = types of the feed + `FeedKeepsNewest` + `SnapshotCurrent`.  A
   queue is described by position: its i-th entry is publication
   `latestSnapshot.id - Len + i`.  `OfferFact` and `PublishFeed` show that any
   run of consecutive publications preserves this for any capacity.  Gives
   `FeedNewest`, `SnapshotFresh` and, with 1 and 2, `TypeCorrect`.

`SnapshotFeed_proofs`: under `ObserverAssumption`, `FeedRefinesMailbox`: initial
states map to initial states and every step to a mailbox step or a stutter,
using `FeedInv` (what is taken is newer than what was taken before).

`SwitchLogic_proofs`, under `SwitchLogicAssumption`:

1. `SlotInv` adds to `SlotsMatchSessions` that a command's submitter is still
   `submitting` and has no second command (`CommandsAwaited`); without it the
   core could move a session that has already left to `answered` and so revive
   it.  Gives `SlotsAreExact`.
2. `FlowInv` = types + `NothingMissed` + the queue is within its bound, a helper
   task has at most one result, and a socket without a session has neither queue
   entries nor a result (`IdleFlow`); without the last a new session could take
   an old snapshot for the newest.  Given `SlotInv`, an overflowing queue drops
   only its oldest entry, so the last change stays on its way.  Gives
   `LastChangeOnItsWay` and `SwitchTypes`.

`AtpManager_proofs`, under `AtpAssumption`: `BooksAreExact` and
`StopLeavesNothing`.  The invariant `BookInv` adds to `BooksMatchSessions` that a
registered session knows its endpoint (else the peer counts could be lowered at
the wrong one), and what the late phases of `stop()` imply: once it awaits the
cancelled tasks no server accepts, and once it is over no session is left.
`CountAccepted` and `CountCleaned` say what one session does to a count.

`AtpSessions_proofs` builds on it with `SessionInv`, for any number of peers,
endpoints and messages: every session has at most one command with the core and
is answered at most once for it (`OneEach`), it is at the k-th command of some
message with exactly the earlier ones applied (`UnderWay`), only `stop()`
cancels sessions (`EndedLate`), and the reported errors lag behind the refusals by
the one that is on its way (`Reports`).  `DoorsFollow` describes the doors across
sessions: the queued "right" commands, then the answered "left" ones, are what the
right door has still to follow, and the last of them brings it to where the left
one is.  That is inductive only because `woken` keeps the order in which the core
answered.  Gives `EveryCommandOnce`, `DoorsStayTogether` and `AtpTypes`.

`RestApi_proofs`, under `RestAssumption` and the core's assumption:
`RestImplementsCore` (every step of a handler is a step of the core or leaves it
alone), so every invariant of the core holds below the handlers.  `RestInv` adds
what a handler may rely on across its await: the entry that carries its future's
number is the command of its request, and an answer comes with a snapshot newer
than `asked`.  Only `FuturesMatchQueue` keeps another client's command from
answering it.  It also says that an equipment request is answered with exactly
the frame of its telegram, unless it was refused, at the edge or by the train
(`FrameReported`).  Gives
`FreshAnswers` and `TelegramsDelivered`.

The frame is then a matter of counting.  `WidthOf` is the number of bits of a
sequence of fields; it adds up under concatenation (`WidthsAdd`) and therefore over
everything that is joined (`FlattenAdds`), so that items, packets, the header and
the whole telegram take what the tables say (`ItemWidth`, `PacketWidth`,
`HeaderWidth`, `TelegramWidth`), for any number of packets and transitions.  Gives
`FramesHoldWhatFits`: a frame is answered exactly if the request is addressed to a
BTM that takes it (`Addressed`) and its telegram is valid and fits.

That a frame reads back follows the same counting.  A frame `Holds` fields at a
position if their bits stand there.  Fields that are held are found one behind the
other, each where the widths of those before it end (`HoldsConcat`, `HoldsParts`).
Reading is then done from small to large: the value of one field (`FieldValue`: bit
by bit the reader holds the number shifted right by the bits still to come), an item
with or without `NID_STM` (`ItemRead`), the items of a packet (`ItemsRead`), a packet
(`PacketRead`), the header (`HeaderRead`), and the packets one behind the other until
the information end (`PacketsRead`: the reader steps by `L_PACKET`, never takes a
packet number for the end, and has at most one position to stop at).  Gives
`FramesReadBack`, and with it `FramesDiffer`: telegrams with consistent lengths that
share a frame are equal.

`Config_proofs`, under `FilesAssumption` and `TypesAssumption`: `ConfigInv` (`ConfigInvariance`) says how
the values of the four steps depend on each other: what was loaded is the parse of
the file, the environment is what the command wrote of it, and what was decoded is
among what was loaded.

1. *Keys.*  `FreeKeyFact`: of the keys `<base>`, `<base>_2`, ... one more than there
   are keys in use is free, so the loop of `_generated_equipment_key` ends with a new
   one.  `EquipmentMade` describes a list of instances by position (each is made with
   the keys of those before it in use), and there is one such list only
   (`MadeOnce`).  Gives `EveryKeyOnce`.
2. *The hand-over.*  Every instance keeps its type, parameters and flag when it is
   written and parsed again (`FittedAgain`), hence by `MadeOnce` also its key,
   whether the list was given or is the standard fit (`StandardFitted`).  What may
   be lost is the acceptance of a cab that stood in the parameters and stands beside
   the type afterwards: the second parse succeeds exactly if every such cab is
   configured.  Gives `HandedOver`, which covers every file, refused ones included.
3. *Addresses.*  The first number of a key is the cab of its instance, wherever the
   cab comes from (`KeyAndCab`).  Gives `OneInstancePerAddress` and `KeysFindTheirCab`.

`Train_proofs`, for any set of cabs, any fitting with solos and switch boxes, any
wires that are cut, and any payloads, under the assumptions of `Physics` and
`Train`: `TrainInv` (`TrainInvariance`) = types of every component + an armed law
has exactly its targets, each valid + the collected driver inputs are finitely
many whole numbers (a configured effort may have any size).  The properties about one step follow from it:

1. *Resolving.*  `Passed` says what one pass leaves in each component.  A pass
   never writes what the next one reads from an STCS (`Kept`), so the second pass
   sees the final values, a third changes nothing (`ThirdPass`), and a step that
   moves no handle finds the equipment settled (`StepSettles`).  Gives
   `TwoPassesSettle` and `StepsStaySettled`.
2. *STCS.*  `StcsStep`: the blocks, the inputs and the stored derived rows of an
   STCS change only by a request of its own or a reset.  Gives `BlockedRowsHold`,
   `AssertedBitsHold`.  With what two passes make of equipment that was just reset,
   `ResetIsComplete`: no component, wire or input remembers what was before.
3. *Driving.*  Each law of `driving_law.py` returns handles in range
   (`LawFact`), the envelope pulls only towards its target (`EnvelopePulls`).
4. *Motion.*  The forces of all inputs are sums over finite sets.
   `TractionSumFact` and `BrakeSumFact` describe them without induction on an
   operator: the sum is a function with one equation per subset (`Adds`), obtained
   from recursion over the strict subsets of a finite set, and least
   counterexamples (`LeastNatural`) replace the induction.  `IntegrateFact` says
   what a step does with the resulting acceleration.  Gives, with the
   force of the lever at rest (`LeverForce`), `TrainsStopFirst`, `CutOffIsObeyed` and
   `EnvelopesDriveForward`.

Five assumptions on constants serve these proofs, and TLC evaluates them in the
runs.  `RestAssumption`: the commands that the routes submit are among the commands
of the core (they are what `routes.py` constructs), and a request carries at most one
telegram, whose fields are coded integers, whose lists are finite and whose
conditional fields have one value or none (`int | None`).  `PayloadAssumption`: the
payloads have the types of the API and the links, that is a bit string sets rows of
its table (`zip` in `stcs_atp.py:157-166` ignores the bits beyond it, so the model
gives a string as the rows it reaches), a switch box takes booleans, targets are
numbers and a cut names two components.  `HandlesAssumption`: the configured mode and
direction are known ones (`DrivingSystem.__init__` checks them), the effort is any
number (it does not check it).  `FilesAssumption`: the lists of a file are finite, and
a field has one value or none (it is JSON).  `TypesAssumption`: no factory has the
empty name.

The library's induction theorems take an operator as a parameter, which the provers
cannot instantiate.  Where a proof runs over lists of any length (the sums of forces
in `Train_proofs`, the entries in `Config_proofs`, the fields in `RestApi_proofs`),
the induction is over a *set* of naturals instead: `LeastNatural` and `UpTo` follow
from the well-foundedness of the naturals, and what a fold or a recursive function
defines is first shown to exist.

The provers know `2^n` only for single numbers `n`.  All fields are at most 15 bits
wide, so `PowerDoubles` states the doubling for the exponents that occur and
`Halving` does the rest for any number.

Model-checked only: the six liveness properties (`EveryCommandAnswered`,
`DueStepsRun`, the liveness half of `FeedIsMailbox`, `ChangesReported`, `StopEnds`,
`LeftIsForgotten`), because fairness is beyond the prover.

## 5. Findings

1. `simulation/core.py:239` – `step()` is checked against the time mode only, so
   it moves the train and the time while STOPPED or PAUSED;
   `docs/architectural.md:152-154` says time and world are frozen then.
2. `domain/equipment/stcs_atp.py:138` – blocks and the command stay applied when
   a later field of the request is refused; `docs/web-api.md:14-15` says an
   invalid command leaves the state unchanged.
3. `domain/equipment/stcs_atp.py:183` – a switch box asserts rows that a solo ATP
   does not have; the solo refuses the whole request, and `Train.__init__`
   resolves intents without catching that, so a train with both in one cab cannot
   be built; `stcs_atp.py:258-259` says the solo "silently ignores the asserts".
4. `domain/equipment/stcs_atp.py:330` – `maximum_service_brake_7` brakes when
   *low*, with effort 0.7 and only under `cut_off_traction` (see
   `ProtectionBrakes`); `docs/atp-api.md:374-381` says asserting it is applied as a
   brake "on every step the bit remains asserted".
5. `config.py:169` – a `cab_id` beside `type` is checked against the configured cabs,
   one inside `params` is not; `train_config_to_data` (261-262) moves it beside
   `type`, where the server refuses it.  `README.md:117-118` says the equipment is
   validated before the server starts.  `HandoffFaithful` says exactly which
   configurations this befalls.

Met while modelling, without a run of their own:

* `domain/physics.py:66` – a negative lever accelerates a train that rolls
  rearward, as when its handles are released; `docs/web-api.md:240` says it
  decelerates toward zero.  For a train that stands or moves forward the sentence
  holds (`NoUnaskedReversal`, proved).
* `domain/equipment/driving_system.py:174` – `reset()` turns the handles off, whatever
  `initial_mode`, `initial_direction` and `initial_acceleration` the driving system
  was built with; `docs/web-api.md:151` says a reset of the simulation "restores the
  configured initial world state", and `routes.py:250` that of one instance "its
  configured state" (`tests/test_train_config.py` configures a direction).  In
  `train_cab` the first cab has such handles; `ResetForgets` says what a reset leaves
  of them, for any configuration.
* `DrivingSystem.__init__` does not check `initial_acceleration`, so a train can start
  with an effort that no request may ask for.
* `adapters/atp/manager.py:95` – `stop()` waits for the accepted connections
  before it closes any (from Python 3.12), and a session waits for a peer that
  does not read (line 174); a peer can hold up the shutdown for ever (`Held`).
* What a factory refuses (`registry.py`) is found by the server alone, too: the
  command checks the types and keys of the equipment, not its further parameters.
* `domain/equipment/registry.py:37` – an entry without a cab whose key had to
  become `<type>_2` is served for cab 2, configured or not; `registry.py:39`
  requires an explicit `cab_id`.
* `telegram/telegram.py:181` – the information end follows the last packet and
  the padding follows it; `docs/btm-telegram.md:61-62` puts it behind a padded
  user packet area of 772 bits, at the end of the frame.
* `adapters/api/routes.py:114` – a pause that was queued behind a start is
  applied before the handler of the start resumes, whose answer then says PAUSED;
  `docs/web-api.md:110` promises the status "after the transition".
* `docs/architectural.md:272-273` says ATP and train-control commands are buffered
  until the next fixed step; the code applies them at once.
* `docs/web-api.md:311` says a cut-off driving system is reset before each step,
  but the first step after a cut wire is restored still runs on the efforts
  collected before the reset (hence `Settled` in `CutOffHolds`).
* `core.py:234` says a mode change carries nothing over, while the remainder in
  the accumulator is kept (less than one step, see `NothingDueLeft`).
* An armed law that returns neutral handles emits no driver input, so the held
  lever applies again in that step.

## 6. Not modelled, and the plan

The modules were written in the order of section 2: the core and its feed, the
train, the CBTC sessions, the ATP sessions, configuration, telegrams and REST.
Every safety property that a passing run checks is proved for all values of the
constants; nothing of the plan is left.

Not modelled:

* the browser application: it presents the snapshots and keeps no state of the
  simulation;
* JSON encodings, response schemas, `/atp/status`, static files, logging and
  argument parsing: no state, and nothing a property here is about;
* the unsent bytes of a peer that does not read (`connection.py:34`): the code
  bounds them nowhere, so there is no limit to check;
* cancellation of `run_loop` at shutdown: it is the last step of the process;
* writers of telegrams with inconsistent `N_ITER` or `L_PACKET`, which the
  documentation leaves to the caller: they are encoded, and only `FrameReadsBack`
  excludes them.
