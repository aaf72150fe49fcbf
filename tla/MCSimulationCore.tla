-------------------------- MODULE MCSimulationCore --------------------------
(* Instances of SimulationCore for TLC. *)
EXTENDS SimulationCore

Run   == [kind |-> "run"]
Pause == [kind |-> "pause"]
Reset == [kind |-> "reset"]
SetTimeMode(m, x) == [kind |-> "set_time_mode", mode |-> m, multiplier |-> x]
Step(d) == [kind |-> "step", delta |-> d]
Control(ok) == [kind |-> "control", accepted |-> ok]

\* Clock: every lifecycle command, both wall-clock modes, multipliers slower
\* and faster than a step per unit, refused ones, steps shorter than, just
\* below and longer than a fixed step.
ClockCommands ==
  {Run, Pause, Reset, SetTimeMode("REALTIME", 0), SetTimeMode("SCALED", 4),
   SetTimeMode("SCALED", 0), SetTimeMode("MANUAL", 0), SetTimeMode("unknown", 0),
   Step(-1), Step(2), Step(7)}

\* Feed: single steps, catch-up batches that overflow a queue, due ticks and
\* refused controls.
FeedCommands == {Run, SetTimeMode("SCALED", 2), Step(8), Control(FALSE)}
=============================================================================
