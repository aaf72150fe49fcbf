------------------------------ MODULE Physics ------------------------------
(***************************************************************************)
(* domain/physics.py and domain/equipment/driving_law.py: the pure         *)
(* functions that turn a lever, driver efforts or a control law into one   *)
(* fixed step of motion.                                                   *)
(*                                                                         *)
(* Integers replace the floats.  A fixed step is the unit of time,         *)
(* accelerations are in speed units per step, positions are in half speed  *)
(* units times steps (so that average-velocity integration is exact), and  *)
(* an effort of 1.0 is FullEffort.  Quotients are rounded towards zero.    *)
(***************************************************************************)
EXTENDS Integers

CONSTANTS
  FullEffort,       \* the effort 1.0
  TractionFactor,   \* acceleration of one unit of traction effort
  DecelFactor,      \* deceleration of one unit of brake effort
  GainUnit,         \* a speed gain of GainUnit closes the whole gap in a step
  DefaultGain,      \* HoldSpeedLaw._SPEED_GAIN, StoppingEnvelopeLaw.DEFAULT_SPEED_GAIN
  Deadband,         \* _AUTOMATIC_ACCELERATION_DEADBAND
  Tolerance         \* _POSITION_TOLERANCE

ASSUME PhysicsAssumption ==
  /\ {FullEffort, TractionFactor, DecelFactor, GainUnit, DefaultGain} \subseteq Nat \ {0}
  /\ FullEffort % 10 = 0
  /\ {Deadband, Tolerance} \subseteq Nat

MaxTraction == TractionFactor * FullEffort
MaxDecel == DecelFactor * FullEffort

Abs(x) == IF x < 0 THEN -x ELSE x
Sign(x) == IF x > 0 THEN 1 ELSE IF x < 0 THEN -1 ELSE 0
AtMost(x, y) == IF x < y THEN x ELSE y
Clamp(low, high, x) == IF x < low THEN low ELSE IF x > high THEN high ELSE x
Truncate(x, y) == Sign(x) * (Abs(x) \div y)
SquareRoot(n) == CHOOSE r \in 0..n : r * r <= n /\ n < (r + 1) * (r + 1)

-----------------------------------------------------------------------------
\* Mutation: negative demand is a force at standstill, too.
ResolveAccelerationAtRest(demand, speed) ==
  IF demand > 0 THEN TractionFactor * demand ELSE DecelFactor * demand

\* The drive-demand lever, in efforts: negative demand is a brake that does
\* nothing at standstill.
ResolveAcceleration(demand, speed) ==
  IF demand > 0 THEN TractionFactor * demand
  ELSE IF demand < 0 /\ speed # 0 THEN DecelFactor * demand
  ELSE 0

\* Driver intents: signed traction, and a brake that opposes the motion.
ResolveDriverAcceleration(traction, brake, speed) ==
  TractionFactor * traction - Sign(speed) * DecelFactor * brake

\* Mutation: the train is not stopped at the resting point.
IntegrateThroughZero(position, speed, acceleration) ==
  [position |-> position + speed + (speed + acceleration),
   speed |-> speed + acceleration, acceleration |-> acceleration]

\* One step of motion.  A force that would carry the train through standstill
\* stops it at the resting point instead.
Integrate(position, speed, acceleration) ==
  LET v1 == speed + acceleration
  IN  IF speed * v1 >= 0
      THEN [position |-> position + speed + v1, speed |-> v1, acceleration |-> acceleration]
      ELSE [position |-> position + Sign(speed) * ((speed * speed) \div Abs(acceleration)),
            speed |-> 0, acceleration |-> 0]

-----------------------------------------------------------------------------
(* Control laws: the bounded acceleration a law requests, in track terms.  *)

DrivingLaws == {"hold_speed", "stopping_envelope"}

\* The targets each law declares, those with a default, and which values a
\* target takes (_TARGET_VALIDATORS).
LawTargets ==
  [hold_speed |-> {"target_speed"},
   stopping_envelope |-> {"target_position", "max_speed", "speed_gain"}]
TargetDefaults ==
  [hold_speed |-> << >>,
   stopping_envelope |-> [speed_gain |-> DefaultGain]]
ValidTarget(name, value) == name \in {"max_speed", "speed_gain"} => value > 0

TrackAcceleration(desired, speed, gain) ==
  Clamp(-MaxDecel, MaxTraction, Truncate(gain * (desired - speed), GainUnit))

\* Mutation: the remaining distance ignores the side the target is on.
EnvelopeSpeedEitherSide(targets, position, facing) ==
  LET remaining == Abs(targets.target_position - position) - Tolerance
  IN  IF remaining > 0
      THEN Sign(targets.target_position - position)
             * AtMost(targets.max_speed, SquareRoot(MaxDecel * remaining))
      ELSE 0

\* StoppingEnvelopeLaw: the speed from which the train can still stop at the
\* target, if it lies ahead of the cab.
EnvelopeSpeed(targets, position, facing) ==
  LET remaining == (targets.target_position - position) * facing - Tolerance
  IN  IF remaining > 0
      THEN facing * AtMost(targets.max_speed, SquareRoot(MaxDecel * remaining))
      ELSE 0

LawAcceleration(law, targets, position, speed, facing) ==
  IF law = "hold_speed"
  THEN TrackAcceleration(targets.target_speed, speed, DefaultGain)
  ELSE TrackAcceleration(EnvelopeSpeed(targets, position, facing), speed, targets.speed_gain)

Towards(x) == IF x > 0 THEN "forward" ELSE IF x < 0 THEN "backward" ELSE "off"

\* DrivingSystem.step: the handles that carry a requested acceleration.
LawHandles(requested, speed, facing) ==
  IF requested * speed < 0
  THEN [mode |-> "brake", direction |-> Towards(speed * facing),
        effort |-> AtMost(FullEffort, Abs(requested) \div DecelFactor)]
  ELSE IF Abs(requested) < Deadband
  THEN [mode |-> "off", direction |-> Towards(speed * facing), effort |-> 0]
  ELSE [mode |-> "traction",
        direction |-> IF requested * facing > 0 THEN "forward" ELSE "backward",
        effort |-> AtMost(FullEffort, Abs(requested) \div TractionFactor)]
=============================================================================
