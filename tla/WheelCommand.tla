---------------------------- MODULE WheelCommand ----------------------------
(***************************************************************************)
(* The /cmd_vel callback of kinematics_node.py: from the velocity Nav2 or  *)
(* the operator wants to a speed for each motor.  The callback first finds *)
(* a target for each wheel (zero, transit zone or precision zone, raised   *)
(* for a pivot) and then moves at most plc_ramp_rate towards it.           *)
(*                                                                         *)
(* Floats are integers: a velocity counts fractions of a m/s, an output    *)
(* counts fractions of a PLC unit, Unit of them to one.  An angular        *)
(* velocity is given by the rim speed it adds to one wheel and takes from  *)
(* the other, wz * wheel_separation_m / 2.  Quotients are truncated        *)
(* towards zero, where the code rounds to a float.                         *)
(***************************************************************************)
EXTENDS Integers

CONSTANTS
  CmdVels,                       \* velocities <<vx, wz>> of /cmd_vel messages
  MaxLin, MaxRim,                \* max_linear_vel, max_angular_vel
  StopLin, StopRim,              \* stop_lin_eps, stop_ang_eps
  CruiseThreshold, PivotEps,     \* nav2_cruise_threshold, pivot_vx_eps
  Unit,                          \* one PLC unit
  SpeedMin, SpeedMax,            \* speed_min, speed_max
  CruiseMin, CruiseMax,          \* plc_cruise_min, plc_cruise_max
  PrecisionMax, Deadband,        \* plc_precision_max, plc_deadband
  PivotMin, RampRate             \* plc_pivot_min, plc_ramp_rate

ASSUME CommandAssumption ==
  /\ CmdVels \subseteq Int \X Int
  /\ MaxLin \in Nat \ {0} /\ MaxRim \in Nat
  /\ StopLin \in Nat /\ StopRim \in Nat
  /\ CruiseThreshold \in Nat /\ PivotEps \in Nat
  /\ Unit \in Nat \ {0}
  /\ SpeedMin \in Int /\ SpeedMax \in Int /\ SpeedMin <= 0 /\ 0 <= SpeedMax
  /\ CruiseMin \in Nat /\ CruiseMax \in Nat
  /\ PrecisionMax \in Nat /\ Deadband \in Nat /\ Deadband >= Unit
  /\ PivotMin \in Nat /\ RampRate \in Nat \ {0}

VARIABLES
  plcRight, plcLeft,   \* _plc_right, _plc_left
  wheelCmd,            \* the last message on /wheel_cmd_vel, <<0, 0>> before
  last, repeats        \* history: the last command and how often it came in a
                       \* row, counted up to RepeatBound

vars == <<plcRight, plcLeft, wheelCmd, last, repeats>>

Output == SpeedMin .. SpeedMax

\* messages that are sure to take a wheel from one end of its range to the other
RepeatBound == (SpeedMax - SpeedMin) \div RampRate + 1
-----------------------------------------------------------------------------
Abs(x)  == IF x < 0 THEN -x ELSE x
Sign(x) == IF x < 0 THEN -1 ELSE IF x > 0 THEN 1 ELSE 0

clamp(value, lo, hi) ==
  IF value < lo THEN lo ELSE IF value > hi THEN hi ELSE value

\* x * num / den, truncated
Scaled(x, num, den) == Sign(x) * ((Abs(x) * num) \div den)

_ramp_zeroJump(current, target) ==                                 \* mutant
  IF target = 0 \/ Abs(target - current) <= RampRate
  THEN target ELSE current + Sign(target - current) * RampRate

_ramp_short(current, target) ==                                    \* mutant
  IF Abs(target - current) <= RampRate
  THEN current ELSE current + Sign(target - current) * RampRate

_ramp(current, target) ==
  IF Abs(target - current) <= RampRate
  THEN target ELSE current + Sign(target - current) * RampRate

_deadband_affine_forward(raw, hi) ==                               \* mutant
  IF raw < Unit THEN 0
  ELSE clamp(Deadband + ((raw - Unit) * (hi - Deadband)) \div (hi - Unit), Deadband, hi)

_deadband_affine(raw, hi) ==
  LET a    == Abs(raw)
      comp == Deadband + ((a - Unit) * (hi - Deadband)) \div (hi - Unit)
  IN  CASE a < Unit                     -> 0
        [] a >= Unit /\ hi <= Deadband  -> Sign(raw) * Deadband
        [] OTHER                        -> Sign(raw) * clamp(comp, Deadband, hi)

\* a pivot: slow, and the wheels turn against each other
Pivots(t, vx) == Abs(vx) < PivotEps /\ t[1] * t[2] < 0

Floored(x) == IF Abs(x) < PivotMin THEN Sign(x) * PivotMin ELSE x

_apply_pivot_floor_one(t, vx) ==                                   \* mutant
  IF Pivots(t, vx) THEN <<Floored(t[1]), t[2]>> ELSE t

_apply_pivot_floor(t, vx) ==
  IF Pivots(t, vx) THEN <<Floored(t[1]), Floored(t[2])>> ELSE t

Transit_noBoost(vr, vl) ==                                         \* mutant
  <<Scaled(vr, CruiseMax, MaxLin), Scaled(vl, CruiseMax, MaxLin)>>

\* the speed of both wheels in transit: the faster one is lifted to CruiseMin,
\* the other in proportion
Transit(vr, vl) ==
  LET r == Scaled(vr, CruiseMax, MaxLin)
      l == Scaled(vl, CruiseMax, MaxLin)
      m == IF Abs(r) > Abs(l) THEN Abs(r) ELSE Abs(l)
  IN  IF m > 0 /\ m < CruiseMin
      THEN <<Scaled(r, CruiseMin, m), Scaled(l, CruiseMin, m)>>
      ELSE <<r, l>>

Precision_swapped(vr, vl) ==                                       \* mutant
  << _deadband_affine(Scaled(vl, PrecisionMax, MaxLin), PrecisionMax),
     _deadband_affine(Scaled(vr, PrecisionMax, MaxLin), PrecisionMax) >>

Precision(vr, vl) ==
  << _deadband_affine(Scaled(vr, PrecisionMax, MaxLin), PrecisionMax),
     _deadband_affine(Scaled(vl, PrecisionMax, MaxLin), PrecisionMax) >>

Limited(t) == <<clamp(t[1], SpeedMin, SpeedMax), clamp(t[2], SpeedMin, SpeedMax)>>

Stops(vx, wz)     == Abs(vx) < StopLin /\ Abs(wz) < StopRim
InTransit(vx, wz) == Abs(vx) >= CruiseThreshold /\ ~Stops(vx, wz)

\* the speeds the two wheels are to reach, <<right, left>>
Target(vx, wz) ==
  IF Stops(vx, wz) THEN <<0, 0>>
  ELSE Limited(_apply_pivot_floor(
         IF InTransit(vx, wz) THEN Limited(Transit(vx + wz, vx - wz))
                              ELSE Precision(vx + wz, vx - wz), vx))

LimitedCmd(msg) == <<clamp(msg[1], -MaxLin, MaxLin), clamp(msg[2], -MaxRim, MaxRim)>>
-----------------------------------------------------------------------------
Init == /\ plcRight = 0 /\ plcLeft = 0 /\ wheelCmd = <<0, 0>>
        /\ last = <<0, 0>> /\ repeats = 0

_cmd_vel_callback(msg) ==
  LET cmd == LimitedCmd(msg)
      tgt == Target(cmd[1], cmd[2])
  IN  /\ plcRight' = _ramp(plcRight, tgt[1])
      /\ plcLeft'  = _ramp(plcLeft, tgt[2])
      /\ wheelCmd' = Limited(<<plcRight', plcLeft'>>)
      /\ last'     = cmd
      /\ repeats'  = IF cmd # last THEN 1
                     ELSE IF repeats < RepeatBound THEN repeats + 1 ELSE repeats

Next == \E msg \in CmdVels : _cmd_vel_callback(msg)

Spec == Init /\ [][Next]_vars
-----------------------------------------------------------------------------
(* Properties of the ramp                                                  *)

TypeOK == /\ plcRight \in Output /\ plcLeft \in Output
          /\ wheelCmd \in Output \X Output
          /\ last \in Int \X Int /\ repeats \in 0 .. RepeatBound

\* No message moves a motor command by more than plc_ramp_rate, not even the
\* stop of the zero-snap ("anti-trip").
RampBound ==
  [][\A i \in {1, 2} : Abs(wheelCmd'[i] - wheelCmd[i]) <= RampRate]_vars

\* How far a wheel can be from target t after n messages with that target.
Farthest(t)     == IF SpeedMax - t > t - SpeedMin THEN SpeedMax - t ELSE t - SpeedMin
Remaining(n, t) == LET d == Farthest(t) - n * RampRate IN IF d > 0 THEN d ELSE 0

\* A command that is repeated is reached, in a number of messages that depends
\* on nothing else: whatever the wheels were doing before, the tenth zero
\* velocity of an emergency stop finds them at zero.
Converges ==
  \A i \in {1, 2} :
    LET t == Target(last[1], last[2])[i] IN Abs(wheelCmd[i] - t) <= Remaining(repeats, t)
-----------------------------------------------------------------------------
(* Orders of the parameters. Nothing in the node enforces them; those of   *)
(* kinematics_params.yaml and the defaults of the node have them all.      *)

\* The limits of the PLC's registers are the same in both directions.
EvenLimits == SpeedMin = -SpeedMax

\* plc_deadband and plc_pivot_min are speeds the limits allow.
TorqueAllowed ==
  /\ Deadband <= SpeedMax /\ Deadband <= -SpeedMin
  /\ PivotMin <= SpeedMax /\ PivotMin <= -SpeedMin

\* The zones lie one above the other, and the slowest velocity of the transit zone
\* is at least one fraction of a PLC unit.
ZonesApart ==
  /\ CruiseMin <= SpeedMax /\ CruiseMin <= -SpeedMin
  /\ SpeedMax <= CruiseMax /\ -SpeedMin <= CruiseMax
  /\ Deadband <= PrecisionMax /\ PivotMin <= PrecisionMax
  /\ PivotEps <= CruiseThreshold
  /\ MaxLin <= CruiseThreshold * CruiseMax
-----------------------------------------------------------------------------
(* Properties of the target, for the last command                          *)

LastTarget == Target(last[1], last[2])
Faster(t)  == IF Abs(t[1]) > Abs(t[2]) THEN Abs(t[1]) ELSE Abs(t[2])

\* In the transit zone the faster wheel is between plc_cruise_min and
\* plc_cruise_max; in the precision zone no wheel is above plc_precision_max.
ZoneBands ==
  IF InTransit(last[1], last[2]) THEN Faster(LastTarget) \in CruiseMin .. CruiseMax
                                 ELSE Faster(LastTarget) <= PrecisionMax

\* Slow wheels have the torque to turn: outside the transit zone each stands
\* still or gets plc_deadband, and both get plc_pivot_min when they turn against
\* each other in a pivot.
SlowTorque ==
  ~InTransit(last[1], last[2]) =>
    /\ \A i \in {1, 2} : LastTarget[i] = 0 \/ Abs(LastTarget[i]) >= Deadband
    /\ Pivots(LastTarget, last[1]) => \A i \in {1, 2} : Abs(LastTarget[i]) >= PivotMin

\* The robot never turns the wrong way, in spite of the deadband, the boost, the
\* pivot floor and the limits: the wheel on the outside of the turn is not the
\* slower one.
TurnDirection ==
  /\ last[2] >= 0 => LastTarget[1] >= LastTarget[2]
  /\ last[2] <= 0 => LastTarget[1] <= LastTarget[2]

\* Left and right, forward and backward are treated alike.
Mirror ==
  LET back == Target(-last[1], -last[2])
      turn == Target(last[1], -last[2])
  IN  /\ back = <<-LastTarget[1], -LastTarget[2]>>
      /\ turn = <<LastTarget[2], LastTarget[1]>>

\* What _apply_pivot_floor says it is for: when the robot must pivot, both wheels
\* get at least plc_pivot_min, so that the body really turns.
PivotTurns ==
  LET vx == last[1]  wz == last[2] IN
  Abs(vx) < PivotEps /\ Abs(wz) > Abs(vx) /\ ~Stops(vx, wz)
    => \A i \in {1, 2} : Abs(LastTarget[i]) >= PivotMin
=============================================================================
