------------------------- MODULE WheelCommandProofs -------------------------
(***************************************************************************)
(* The /cmd_vel callback of kinematics_node.py for every sequence of       *)
(* messages. Of the ramp, for every parameter set: outputs stay in range,  *)
(* no message moves one by more than plc_ramp_rate, and a repeated command *)
(* is reached. Of the target: the outer wheel of a turn is never the       *)
(* slower one, for every parameter set; the speeds of the zones, the       *)
(* torque of slow wheels and the symmetry, for the parameters whose order  *)
(* is that of kinematics_params.yaml (ZonesApart, TorqueAllowed and        *)
(* EvenLimits of WheelCommand).                                            *)
(*                                                                         *)
(* The target is piecewise linear with truncated quotients, so that its    *)
(* properties are those of its parts: each of Scaled, _deadband_affine,    *)
(* Transit, _apply_pivot_floor and Limited keeps order and sign.           *)
(***************************************************************************)
EXTENDS WheelCommand, TLAPS

\* Any word will do: only the facts about quotients and remainders are cited.
Words == INSTANCE SlmpWordsProofs WITH WordBase <- 2

\* The limits of an output contain zero, and the ramp moves.
LEMMA Constants ==
  /\ SpeedMin \in Int /\ SpeedMax \in Int /\ SpeedMin <= 0 /\ 0 <= SpeedMax
  /\ RampRate \in Int /\ RampRate > 0
  BY CommandAssumption

\* Types of what the target is made of.
LEMMA ScaledInt ==
  ASSUME NEW x \in Int, NEW num \in Int, NEW den \in Nat \ {0}
  PROVE  Scaled(x, num, den) \in Int
  <1> DEFINE p == Abs(x) * num
  <1>1. p \in Int  BY DEF Abs
  <1> HIDE DEF p
  <1>2. p \div den \in Int  BY <1>1, Words!Division
  <1>3. Sign(x) \in Int  BY DEF Sign
  <1>4. Scaled(x, num, den) = Sign(x) * (p \div den)  BY DEF Scaled, p
  <1> QED  BY <1>2, <1>3, <1>4

LEMMA DeadbandInt ==
  ASSUME NEW raw \in Int
  PROVE  _deadband_affine(raw, PrecisionMax) \in Int
  <1> DEFINE a == Abs(raw)
             n == (a - Unit) * (PrecisionMax - Deadband)
             d == PrecisionMax - Unit
             comp == Deadband + n \div d
  <1>1. /\ a \in Int /\ Sign(raw) \in Int /\ PrecisionMax \in Int
        /\ Deadband \in Int /\ Unit \in Int /\ Unit > 0 /\ Deadband >= Unit
    BY CommandAssumption DEF Abs, Sign
  <1>2. n \in Int  BY <1>1
  <1> HIDE DEF a, n
  <1>3. CASE PrecisionMax > Deadband
    <2>1. d \in Nat \ {0}  BY <1>1, <1>3
    <2> HIDE DEF d
    <2>2. comp \in Int  BY <1>1, <1>2, <2>1, Words!Division
    <2> HIDE DEF comp
    <2>3. clamp(comp, Deadband, PrecisionMax) \in Int  BY <1>1, <2>2 DEF clamp
    <2>4. Sign(raw) * clamp(comp, Deadband, PrecisionMax) \in Int  BY <1>1, <2>3
    <2> QED  BY <1>1, <1>3, <2>4 DEF _deadband_affine, comp, n, d, a
  <1>4. CASE PrecisionMax <= Deadband
    <2>1. Sign(raw) * Deadband \in Int  BY <1>1
    <2> QED  BY <1>1, <1>4, <2>1 DEF _deadband_affine, a
  <1> QED  BY <1>1, <1>3, <1>4

LEMMA TransitInt ==
  ASSUME NEW vr \in Int, NEW vl \in Int
  PROVE  /\ Transit(vr, vl) = <<Transit(vr, vl)[1], Transit(vr, vl)[2]>>
         /\ Transit(vr, vl)[1] \in Int /\ Transit(vr, vl)[2] \in Int
  <1> DEFINE r == Scaled(vr, CruiseMax, MaxLin)
             l == Scaled(vl, CruiseMax, MaxLin)
             m == IF Abs(r) > Abs(l) THEN Abs(r) ELSE Abs(l)
  <1>1. MaxLin \in Nat \ {0} /\ CruiseMax \in Int /\ CruiseMin \in Int
    BY CommandAssumption
  <1>2. r \in Int /\ l \in Int  BY <1>1, ScaledInt
  <1> HIDE DEF r, l
  <1>3. m \in Int  BY <1>2 DEF Abs
  <1> HIDE DEF m
  <1>4. CASE m > 0 /\ m < CruiseMin
    <2>1. m \in Nat \ {0}  BY <1>3, <1>4
    <2>2. Scaled(r, CruiseMin, m) \in Int /\ Scaled(l, CruiseMin, m) \in Int
      BY <1>1, <1>2, <2>1, ScaledInt
    <2>3. Transit(vr, vl) = <<Scaled(r, CruiseMin, m), Scaled(l, CruiseMin, m)>>
      BY <1>4 DEF Transit, m, r, l
    <2> QED  BY <2>2, <2>3
  <1>5. CASE ~(m > 0 /\ m < CruiseMin)
    <2>1. Transit(vr, vl) = <<r, l>>  BY <1>5 DEF Transit, m, r, l
    <2> QED  BY <1>2, <2>1
  <1> QED  BY <1>4, <1>5

LEMMA LimitedInRange ==
  ASSUME NEW t, t[1] \in Int, t[2] \in Int
  PROVE  Limited(t) \in Output \X Output
  BY Constants DEF Limited, clamp, Output

\* The limits change nothing that is within them.
LEMMA LimitedIdentity ==
  ASSUME NEW r \in Output, NEW l \in Output
  PROVE  Limited(<<r, l>>) = <<r, l>>
  BY Constants DEF Limited, clamp, Output

LEMMA FloorInt ==
  ASSUME NEW t, t[1] \in Int, t[2] \in Int, NEW vx \in Int
  PROVE  /\ _apply_pivot_floor(t, vx)[1] \in Int
         /\ _apply_pivot_floor(t, vx)[2] \in Int
  <1>1. PivotMin \in Int  BY CommandAssumption
  <1>2. Floored(t[1]) \in Int /\ Floored(t[2]) \in Int
    BY <1>1 DEF Floored, Sign
  <1> QED  BY <1>2 DEF _apply_pivot_floor

\* Every velocity has a target within speed_min .. speed_max.
LEMMA TargetInRange ==
  ASSUME NEW vx \in Int, NEW wz \in Int
  PROVE  Target(vx, wz) \in Output \X Output
  <1>1. CASE Stops(vx, wz)
    BY <1>1, Constants DEF Target, Output
  <1>2. CASE ~Stops(vx, wz)
    <2> DEFINE t == IF InTransit(vx, wz) THEN Limited(Transit(vx + wz, vx - wz))
                                         ELSE Precision(vx + wz, vx - wz)
    <2>1. t[1] \in Int /\ t[2] \in Int
      <3>1. CASE InTransit(vx, wz)
        <4>1. Limited(Transit(vx + wz, vx - wz)) \in Output \X Output
          BY TransitInt, LimitedInRange
        <4> QED  BY <3>1, <4>1 DEF Output
      <3>2. CASE ~InTransit(vx, wz)
        <4>1. PrecisionMax \in Int /\ MaxLin \in Nat \ {0}  BY CommandAssumption
        <4>2. /\ Scaled(vx + wz, PrecisionMax, MaxLin) \in Int
              /\ Scaled(vx - wz, PrecisionMax, MaxLin) \in Int
          BY <4>1, ScaledInt
        <4> QED  BY <3>2, <4>2, DeadbandInt DEF Precision
      <3> QED  BY <3>1, <3>2
    <2> HIDE DEF t
    <2>2. Limited(_apply_pivot_floor(t, vx)) \in Output \X Output
      BY <2>1, FloorInt, LimitedInRange
    <2> QED  BY <1>2, <2>2 DEF Target, t
  <1> QED  BY <1>1, <1>2
-----------------------------------------------------------------------------
(* The target by cases                                                     *)

\* What the target needs to know of the parameters.
LEMMA Parameters ==
  /\ MaxLin \in Nat \ {0} /\ MaxRim \in Nat /\ StopLin \in Nat /\ StopRim \in Nat
  /\ CruiseThreshold \in Nat /\ PivotEps \in Nat
  /\ Unit \in Nat \ {0} /\ SpeedMin \in Int /\ SpeedMax \in Int
  /\ SpeedMin <= 0 /\ 0 <= SpeedMax
  /\ CruiseMin \in Nat /\ CruiseMax \in Nat
  /\ PrecisionMax \in Nat /\ Deadband \in Nat /\ Deadband >= Unit /\ PivotMin \in Nat
  BY CommandAssumption

\* Scaled by cases: a quotient that is not negative, with the sign of x.
LEMMA ScaledCases ==
  ASSUME NEW x \in Int, NEW num \in Nat, NEW den \in Nat \ {0}
  PROVE  LET q == (Abs(x) * num) \div den IN
         /\ q \in Nat
         /\ Scaled(x, num, den) = IF x < 0 THEN -q ELSE IF x > 0 THEN q ELSE 0
         /\ Scaled(x, num, den) \in Int
  <1> DEFINE p == Abs(x) * num  q == p \div den
  <1>1. p \in Int /\ 0 <= p
    BY DEF Abs
  <1>3. Scaled(x, num, den) = Sign(x) * q
    BY DEF Scaled
  <1> HIDE DEF p
  <1>2. q \in Nat
    BY <1>1, Words!Division, Words!DivisionMonotone
  <1> HIDE DEF q
  <1>4. Scaled(x, num, den) = IF x < 0 THEN -q ELSE IF x > 0 THEN q ELSE 0
    BY <1>2, <1>3 DEF Sign
  <1> QED  BY <1>2, <1>4 DEF q, p

\* A larger velocity is not scaled to a smaller speed.
LEMMA ScaledMonotone ==
  ASSUME NEW x \in Int, NEW y \in Int, NEW num \in Nat, NEW den \in Nat \ {0}, x <= y
  PROVE  Scaled(x, num, den) <= Scaled(y, num, den)
  <1> DEFINE q(z) == (Abs(z) * num) \div den
  <1>1. ASSUME NEW a \in Int, NEW b \in Int, Abs(a) <= Abs(b) PROVE q(a) <= q(b)
    <2>1. Abs(a) \in Int /\ Abs(b) \in Int
      BY DEF Abs
    <2>2. Abs(a) * num \in Int /\ Abs(b) * num \in Int /\ Abs(a) * num <= Abs(b) * num
      BY <1>1, <2>1, Words!ProductMonotone
    <2> QED  BY <2>2, Words!DivisionMonotone
  <1>2. \A z \in {x, y} :
          /\ q(z) \in Nat
          /\ Scaled(z, num, den) = IF z < 0 THEN -q(z) ELSE IF z > 0 THEN q(z) ELSE 0
    BY ScaledCases
  <1>3. (Abs(x) <= Abs(y) => q(x) <= q(y)) /\ (Abs(y) <= Abs(x) => q(y) <= q(x))
    BY <1>1
  <1> HIDE DEF q
  <1> QED  BY <1>2, <1>3 DEF Abs

\* Forward and backward are scaled alike.
LEMMA ScaledOdd ==
  ASSUME NEW x \in Int, NEW num \in Nat, NEW den \in Nat \ {0}
  PROVE  Scaled(-x, num, den) = -Scaled(x, num, den)
  <1> DEFINE q == (Abs(x) * num) \div den
  <1>1. Abs(-x) = Abs(x) /\ -x \in Int
    BY DEF Abs
  <1>2. q \in Nat /\ Scaled(x, num, den) = IF x < 0 THEN -q ELSE IF x > 0 THEN q ELSE 0
    BY ScaledCases
  <1>3. Scaled(-x, num, den) = IF -x < 0 THEN -q ELSE IF -x > 0 THEN q ELSE 0
    BY <1>1, ScaledCases
  <1> HIDE DEF q
  <1> QED  BY <1>2, <1>3

\* The deadband by cases: zero, or a speed from the deadband to the top of the
\* zone, with the sign of the input.
LEMMA DeadbandCases ==
  ASSUME NEW raw \in Int
  PROVE  LET s == _deadband_affine(raw, PrecisionMax) IN
         /\ s \in Int
         /\ Abs(raw) < Unit => s = 0
         /\ Abs(raw) >= Unit => /\ Abs(s) >= Deadband
                                /\ raw < 0 => s < 0
                                /\ raw > 0 => s > 0
         /\ Deadband <= PrecisionMax => Abs(s) <= PrecisionMax
  <1> DEFINE a == Abs(raw)
             comp == Deadband + ((a - Unit) * (PrecisionMax - Deadband)) \div (PrecisionMax - Unit)
             c == clamp(comp, Deadband, PrecisionMax)
             s == _deadband_affine(raw, PrecisionMax)
  <1>1. s \in Int /\ a \in Nat
    BY DeadbandInt DEF Abs
  <1>2. CASE a < Unit
    <2>1. s = 0
      BY <1>1, <1>2, Parameters DEF _deadband_affine
    <2> QED  BY <1>2, <2>1, Parameters DEF Abs
  <1>3. CASE a >= Unit /\ PrecisionMax <= Deadband
    <2>1. s = Sign(raw) * Deadband
      BY <1>3, <1>1, Parameters DEF _deadband_affine
    <2>2. raw # 0
      BY <1>3, Parameters DEF Abs
    <2>3. s = IF raw < 0 THEN -Deadband ELSE Deadband
      BY <2>1, <2>2, Parameters DEF Sign
    <2> HIDE DEF s
    <2> QED  BY <1>3, <2>2, <2>3, Parameters DEF Abs, s
  <1>4. CASE a >= Unit /\ PrecisionMax > Deadband
    <2>1. s = Sign(raw) * c
      BY <1>1, <1>4, Parameters DEF _deadband_affine
    <2>2. comp \in Int
      <3>1. (a - Unit) * (PrecisionMax - Deadband) \in Int /\ PrecisionMax - Unit \in Nat \ {0}
        BY <1>1, <1>4, Parameters
      <3>2. ((a - Unit) * (PrecisionMax - Deadband)) \div (PrecisionMax - Unit) \in Int
        BY <3>1, Words!Division
      <3> QED  BY <3>2, Parameters
    <2> HIDE DEF comp
    <2>3. c \in Int /\ c >= Deadband /\ c <= PrecisionMax
      BY <1>4, <2>2, Parameters DEF clamp
    <2> HIDE DEF c
    <2>4. raw # 0
      BY <1>4, Parameters DEF Abs
    <2>5. s = IF raw < 0 THEN -c ELSE c
      BY <2>1, <2>3, <2>4 DEF Sign
    <2> HIDE DEF s
    <2> QED  BY <1>4, <2>3, <2>4, <2>5, Parameters DEF Abs, s
  <1> QED  BY <1>1, <1>2, <1>3, <1>4, Parameters

\* The deadband treats forward and backward alike.
LEMMA DeadbandOdd ==
  ASSUME NEW raw \in Int
  PROVE  _deadband_affine(-raw, PrecisionMax) = -_deadband_affine(raw, PrecisionMax)
  <1>1. Abs(-raw) = Abs(raw) /\ -raw \in Int
    BY DEF Abs
  <1> DEFINE a == Abs(raw)
             comp == Deadband + ((a - Unit) * (PrecisionMax - Deadband)) \div (PrecisionMax - Unit)
             c == clamp(comp, Deadband, PrecisionMax)
  <1>a. a \in Int
    BY DEF Abs
  <1>2. CASE a < Unit
    <2>1. _deadband_affine(raw, PrecisionMax) = 0 /\ _deadband_affine(-raw, PrecisionMax) = 0
      BY <1>1, <1>a, <1>2, Parameters DEF _deadband_affine
    <2> QED  BY <2>1
  <1>3. CASE a >= Unit /\ PrecisionMax <= Deadband
    <2>1. /\ _deadband_affine(raw, PrecisionMax) = Sign(raw) * Deadband
          /\ _deadband_affine(-raw, PrecisionMax) = Sign(-raw) * Deadband
      BY <1>1, <1>3, Parameters DEF _deadband_affine, Abs
    <2> QED  BY <2>1, Parameters DEF Sign
  <1>4. CASE a >= Unit /\ PrecisionMax > Deadband
    <2>1. /\ _deadband_affine(raw, PrecisionMax) = Sign(raw) * c
          /\ _deadband_affine(-raw, PrecisionMax) = Sign(-raw) * c
      BY <1>1, <1>a, <1>4, Parameters DEF _deadband_affine
    <2>2. c \in Int
      <3>1. /\ a \in Int /\ (a - Unit) * (PrecisionMax - Deadband) \in Int
            /\ PrecisionMax - Unit \in Nat \ {0}
        BY <1>4, Parameters DEF Abs
      <3>2. ((a - Unit) * (PrecisionMax - Deadband)) \div (PrecisionMax - Unit) \in Int
        BY <3>1, Words!Division
      <3>3. comp \in Int
        BY <3>2, Parameters
      <3> HIDE DEF comp
      <3> QED  BY <3>3, Parameters DEF clamp
    <2> HIDE DEF c
    <2> QED  BY <2>1, <2>2 DEF Sign
  <1> QED  BY <1>2, <1>3, <1>4, Parameters DEF Abs

\* The deadband keeps the order of two speeds.
LEMMA DeadbandMonotone ==
  ASSUME NEW x \in Int, NEW y \in Int, x <= y
  PROVE  _deadband_affine(x, PrecisionMax) <= _deadband_affine(y, PrecisionMax)
  <1> DEFINE D(z) == _deadband_affine(z, PrecisionMax)
  <1>1. ASSUME NEW z \in Int
        PROVE  /\ D(z) \in Int /\ D(-z) = -D(z)
               /\ z >= 0 => D(z) >= 0
    BY DeadbandCases, DeadbandOdd, Parameters DEF Abs
  <1>2. ASSUME NEW u \in Nat, NEW v \in Nat, u <= v PROVE D(u) <= D(v)
    <2>1. Abs(u) = u /\ Abs(v) = v
      BY DEF Abs
    <2>2. CASE u < Unit
      <3>1. D(u) = 0
        BY <2>1, <2>2, Parameters DEF _deadband_affine
      <3> QED  BY <1>1, <3>1
    <2>3. CASE u >= Unit /\ PrecisionMax <= Deadband
      <3>1. D(u) = Sign(u) * Deadband /\ D(v) = Sign(v) * Deadband
        BY <1>2, <2>1, <2>3, Parameters DEF _deadband_affine
      <3> QED  BY <1>2, <2>3, <3>1, Parameters DEF Sign
    <2>4. CASE u >= Unit /\ PrecisionMax > Deadband
      <3> DEFINE h == PrecisionMax - Deadband  m == PrecisionMax - Unit
                 comp(z) == Deadband + ((z - Unit) * h) \div m
                 c(z) == clamp(comp(z), Deadband, PrecisionMax)
      <3>1. /\ h \in Nat /\ m \in Nat \ {0}
            /\ u - Unit \in Int /\ v - Unit \in Int /\ u - Unit <= v - Unit
        BY <1>2, <2>4, Parameters
      <3>2. D(u) = Sign(u) * c(u) /\ D(v) = Sign(v) * c(v) /\ Sign(u) = 1 /\ Sign(v) = 1
        BY <1>2, <2>1, <2>4, Parameters DEF _deadband_affine, Sign
      <3> HIDE DEF h, m
      <3>3. (u - Unit) * h \in Int /\ (v - Unit) * h \in Int /\ (u - Unit) * h <= (v - Unit) * h
        BY <3>1, Words!ProductMonotone
      <3>4. /\ ((u - Unit) * h) \div m \in Int /\ ((v - Unit) * h) \div m \in Int
            /\ ((u - Unit) * h) \div m <= ((v - Unit) * h) \div m
        <4> DEFINE a == (u - Unit) * h  b == (v - Unit) * h
        <4>1. a \in Int /\ b \in Int /\ a <= b  BY <3>3
        <4> HIDE DEF a, b
        <4>2. a \div m \in Int /\ b \div m \in Int  BY <3>1, <4>1, Words!Division
        <4>3. a \div m <= b \div m  BY <3>1, <4>1, Words!DivisionMonotone
        <4> QED  BY <4>2, <4>3 DEF a, b
      <3>5. comp(u) \in Int /\ comp(v) \in Int /\ comp(u) <= comp(v)
        BY <3>4, Parameters
      <3> HIDE DEF comp
      <3>6. c(u) \in Int /\ c(v) \in Int /\ c(u) <= c(v)
        BY <3>5, <2>4, Parameters DEF clamp
      <3> HIDE DEF c, D
      <3> QED  BY <3>2, <3>6
    <2> QED  BY <2>2, <2>3, <2>4, Parameters
  <1> HIDE DEF D
  <1> SUFFICES D(x) <= D(y)
    BY DEF D
  <1>3. CASE x >= 0
    BY <1>2, <1>3
  <1>4. CASE x < 0 /\ y >= 0
    <2>1. D(-x) >= 0 /\ D(-x) = -D(x) /\ D(x) \in Int /\ D(y) \in Int /\ D(y) >= 0
      BY <1>1, <1>4
    <2> QED  BY <2>1
  <1>5. CASE y < 0
    <2>1. D(-y) <= D(-x)
      BY <1>2, <1>5
    <2>2. D(-x) = -D(x) /\ D(-y) = -D(y) /\ D(x) \in Int /\ D(y) \in Int
      BY <1>1
    <2> QED  BY <2>1, <2>2
  <1> QED  BY <1>3, <1>4, <1>5

Swapped(t) == <<t[2], t[1]>>
Negated(t) == <<-t[1], -t[2]>>
Larger(r, l) == IF Abs(r) > Abs(l) THEN Abs(r) ELSE Abs(l)

\* The wheels' speeds before the pivot floor.
Zone(vx, wz) == IF InTransit(vx, wz) THEN Limited(Transit(vx + wz, vx - wz))
                                     ELSE Precision(vx + wz, vx - wz)

\* Target by cases.
LEMMA ZoneInt ==
  ASSUME NEW vx \in Int, NEW wz \in Int
  PROVE  /\ Zone(vx, wz)[1] \in Int /\ Zone(vx, wz)[2] \in Int
         /\ Target(vx, wz) = IF Stops(vx, wz) THEN <<0, 0>>
                             ELSE Limited(_apply_pivot_floor(Zone(vx, wz), vx))
  <1>1. CASE InTransit(vx, wz)
    <2>1. Limited(Transit(vx + wz, vx - wz)) \in Output \X Output
      BY TransitInt, LimitedInRange
    <2> QED  BY <1>1, <2>1 DEF Output, Zone, Target
  <1>2. CASE ~InTransit(vx, wz)
    <2>1. /\ Scaled(vx + wz, PrecisionMax, MaxLin) \in Int
          /\ Scaled(vx - wz, PrecisionMax, MaxLin) \in Int
      BY Parameters, ScaledInt
    <2> QED  BY <1>2, <2>1, DeadbandInt DEF Precision, Zone, Target
  <1> QED  BY <1>1, <1>2

\* Transit by cases.
LEMMA TransitCases ==
  ASSUME NEW vr \in Int, NEW vl \in Int
  PROVE  LET r == Scaled(vr, CruiseMax, MaxLin)
             l == Scaled(vl, CruiseMax, MaxLin)
             m == Larger(r, l)
         IN  /\ r \in Int /\ l \in Int /\ m \in Nat
             /\ Transit(vr, vl) = IF m > 0 /\ m < CruiseMin
                                  THEN <<Scaled(r, CruiseMin, m), Scaled(l, CruiseMin, m)>>
                                  ELSE <<r, l>>
  <1> DEFINE r == Scaled(vr, CruiseMax, MaxLin)
             l == Scaled(vl, CruiseMax, MaxLin)
             m == Larger(r, l)
  <1>1. Transit(vr, vl) = IF m > 0 /\ m < CruiseMin
                          THEN <<Scaled(r, CruiseMin, m), Scaled(l, CruiseMin, m)>>
                          ELSE <<r, l>>
    BY DEF Transit, Larger
  <1>2. r \in Int /\ l \in Int
    BY Parameters, ScaledInt
  <1> HIDE DEF r, l
  <1>3. m \in Nat
    BY <1>2 DEF Larger, Abs
  <1> QED  BY <1>1, <1>2, <1>3 DEF r, l

\* Transit treats left and right alike.
LEMMA TransitSwapped ==
  ASSUME NEW vr \in Int, NEW vl \in Int
  PROVE  Transit(vl, vr) = Swapped(Transit(vr, vl))
  <1> DEFINE r == Scaled(vr, CruiseMax, MaxLin)
             l == Scaled(vl, CruiseMax, MaxLin)
             m == Larger(r, l)
  <1>1. /\ r \in Int /\ l \in Int /\ m \in Nat
        /\ Transit(vr, vl) = IF m > 0 /\ m < CruiseMin
                             THEN <<Scaled(r, CruiseMin, m), Scaled(l, CruiseMin, m)>>
                             ELSE <<r, l>>
    BY TransitCases
  <1>2. Transit(vl, vr) = IF Larger(l, r) > 0 /\ Larger(l, r) < CruiseMin
                          THEN <<Scaled(l, CruiseMin, Larger(l, r)),
                                  Scaled(r, CruiseMin, Larger(l, r))>>
                          ELSE <<l, r>>
    BY TransitCases
  <1> HIDE DEF r, l
  <1>3. Larger(l, r) = m
    BY <1>1 DEF Larger, Abs
  <1> HIDE DEF m
  <1> QED  BY <1>1, <1>2, <1>3 DEF Swapped

\* Transit treats forward and backward alike.
LEMMA TransitOdd ==
  ASSUME NEW vr \in Int, NEW vl \in Int
  PROVE  Transit(-vr, -vl) = Negated(Transit(vr, vl))
  <1> DEFINE r == Scaled(vr, CruiseMax, MaxLin)
             l == Scaled(vl, CruiseMax, MaxLin)
             m == Larger(r, l)
  <1>1. /\ r \in Int /\ l \in Int /\ m \in Nat
        /\ Transit(vr, vl) = IF m > 0 /\ m < CruiseMin
                             THEN <<Scaled(r, CruiseMin, m), Scaled(l, CruiseMin, m)>>
                             ELSE <<r, l>>
    BY TransitCases
  <1>2. Scaled(-vr, CruiseMax, MaxLin) = -r /\ Scaled(-vl, CruiseMax, MaxLin) = -l
    BY Parameters, ScaledOdd
  <1>3. -vr \in Int /\ -vl \in Int
    OBVIOUS
  <1>4. Transit(-vr, -vl) = IF Larger(-r, -l) > 0 /\ Larger(-r, -l) < CruiseMin
                          THEN <<Scaled(-r, CruiseMin, Larger(-r, -l)),
                                  Scaled(-l, CruiseMin, Larger(-r, -l))>>
                          ELSE <<-r, -l>>
    BY <1>2, <1>3, TransitCases
  <1> HIDE DEF r, l
  <1>5. Larger(-r, -l) = m
    BY <1>1 DEF Larger, Abs
  <1> HIDE DEF m
  <1>6. ASSUME m > 0
        PROVE  /\ Scaled(-r, CruiseMin, m) = -Scaled(r, CruiseMin, m)
               /\ Scaled(-l, CruiseMin, m) = -Scaled(l, CruiseMin, m)
    BY <1>1, <1>6, Parameters, ScaledOdd
  <1> QED  BY <1>1, <1>4, <1>5, <1>6 DEF Negated

\* The outer wheel is not the slower one.
LEMMA TransitMonotone ==
  ASSUME NEW vr \in Int, NEW vl \in Int, vl <= vr
  PROVE  Transit(vr, vl)[2] <= Transit(vr, vl)[1]
  <1> DEFINE r == Scaled(vr, CruiseMax, MaxLin)
             l == Scaled(vl, CruiseMax, MaxLin)
             m == Larger(r, l)
  <1>1. /\ r \in Int /\ l \in Int /\ m \in Nat
        /\ Transit(vr, vl) = IF m > 0 /\ m < CruiseMin
                             THEN <<Scaled(r, CruiseMin, m), Scaled(l, CruiseMin, m)>>
                             ELSE <<r, l>>
    BY TransitCases
  <1>2. l <= r
    BY Parameters, ScaledMonotone
  <1> HIDE DEF r, l, m
  <1>3. m > 0 => Scaled(l, CruiseMin, m) <= Scaled(r, CruiseMin, m)
    BY <1>1, <1>2, Parameters, ScaledMonotone
  <1> QED  BY <1>1, <1>2, <1>3

\* The precision zone treats left and right, forward and backward alike, and
\* keeps the order of the wheels.
LEMMA PrecisionTurns ==
  ASSUME NEW vr \in Int, NEW vl \in Int
  PROVE  /\ Precision(vl, vr) = Swapped(Precision(vr, vl))
         /\ Precision(-vr, -vl) = Negated(Precision(vr, vl))
         /\ vl <= vr => Precision(vr, vl)[2] <= Precision(vr, vl)[1]
  <1> DEFINE S(v) == Scaled(v, PrecisionMax, MaxLin)  D(x) == _deadband_affine(x, PrecisionMax)
  <1>1. ASSUME NEW v \in {vr, vl} PROVE S(v) \in Int /\ S(-v) = -S(v)
    BY Parameters, ScaledInt, ScaledOdd
  <1>2. Precision(vr, vl) = <<D(S(vr)), D(S(vl))>> /\ Precision(vl, vr) = <<D(S(vl)), D(S(vr))>>
        /\ Precision(-vr, -vl) = <<D(S(-vr)), D(S(-vl))>>
    BY DEF Precision
  <1>3. vl <= vr => S(vl) <= S(vr)
    BY Parameters, ScaledMonotone
  <1> HIDE DEF S
  <1>4. D(-S(vr)) = -D(S(vr)) /\ D(-S(vl)) = -D(S(vl))
    BY <1>1, DeadbandOdd
  <1>5. vl <= vr => D(S(vl)) <= D(S(vr))
    BY <1>1, <1>3, DeadbandMonotone
  <1> HIDE DEF D
  <1> QED  BY <1>1, <1>2, <1>4, <1>5 DEF Swapped, Negated

\* The speeds of a zone turn with the robot.
LEMMA ZoneTurns ==
  ASSUME NEW vx \in Int, NEW wz \in Int
  PROVE  /\ Zone(vx, -wz) = Swapped(Zone(vx, wz))
         /\ EvenLimits => Zone(-vx, -wz) = Negated(Zone(vx, wz))
         /\ wz >= 0 => Zone(vx, wz)[2] <= Zone(vx, wz)[1]
  <1> DEFINE vr == vx + wz  vl == vx - wz
  <1>1. /\ vr \in Int /\ vl \in Int /\ vx + (-wz) = vl /\ vx - (-wz) = vr
        /\ (-vx) + (-wz) = -vr /\ (-vx) - (-wz) = -vl /\ (wz >= 0 => vl <= vr)
    OBVIOUS
  <1> HIDE DEF vr, vl
  <1>2. /\ InTransit(vx, -wz) = InTransit(vx, wz) /\ InTransit(-vx, -wz) = InTransit(vx, wz)
    BY DEF InTransit, Stops, Abs
  <1>3. CASE InTransit(vx, wz)
    <2> DEFINE t == Transit(vr, vl)
    <2>1. /\ Zone(vx, wz) = Limited(t) /\ Zone(vx, -wz) = Limited(Transit(vl, vr))
          /\ Zone(-vx, -wz) = Limited(Transit(-vr, -vl))
      BY <1>1, <1>2, <1>3 DEF Zone, vr, vl
    <2>2. /\ t[1] \in Int /\ t[2] \in Int
          /\ Transit(vl, vr) = Swapped(t) /\ Transit(-vr, -vl) = Negated(t)
          /\ vl <= vr => t[2] <= t[1]
      BY <1>1, TransitInt, TransitSwapped, TransitOdd, TransitMonotone
    <2> HIDE DEF t
    <2>3. Limited(Swapped(t)) = Swapped(Limited(t))
      BY DEF Limited, Swapped
    <2>4. EvenLimits => Limited(Negated(t)) = Negated(Limited(t))
      BY <2>2, Parameters DEF Limited, Negated, clamp, EvenLimits
    <2>5. t[2] <= t[1] => Limited(t)[2] <= Limited(t)[1]
      BY <2>2, Parameters DEF Limited, clamp
    <2> QED  BY <1>1, <2>1, <2>2, <2>3, <2>4, <2>5
  <1>4. CASE ~InTransit(vx, wz)
    <2>1. /\ Zone(vx, wz) = Precision(vr, vl) /\ Zone(vx, -wz) = Precision(vl, vr)
          /\ Zone(-vx, -wz) = Precision(-vr, -vl)
      BY <1>1, <1>2, <1>4 DEF Zone, vr, vl
    <2> QED  BY <1>1, <2>1, PrecisionTurns
  <1> QED  BY <1>3, <1>4

\* When a product is negative.
LEMMA OppositeSigns ==
  ASSUME NEW a \in Int, NEW b \in Int
  PROVE  a * b < 0 <=> (a < 0 /\ b > 0) \/ (a > 0 /\ b < 0)
  <1>1. CASE a = 0 \/ b = 0
    BY <1>1
  <1>2. CASE a > 0 /\ b > 0
    BY <1>2
  <1>3. CASE a < 0 /\ b < 0
    <2>1. a * b = (-a) * (-b)
      OBVIOUS
    <2>2. (-a) * (-b) > 0
      BY <1>3
    <2> QED  BY <1>3, <2>1, <2>2
  <1>4. CASE a > 0 /\ b < 0
    <2>1. a * b = -(a * (-b))
      OBVIOUS
    <2>2. a * (-b) > 0
      BY <1>4
    <2> QED  BY <1>4, <2>1, <2>2
  <1>5. CASE a < 0 /\ b > 0
    <2>1. a * b = -((-a) * b)
      OBVIOUS
    <2>2. (-a) * b > 0
      BY <1>5
    <2> QED  BY <1>5, <2>1, <2>2
  <1> QED  BY <1>1, <1>2, <1>3, <1>4, <1>5

\* The pivot floor by cases.
LEMMA FloorCases ==
  ASSUME NEW t, t[1] \in Int, t[2] \in Int, NEW vx \in Int
  PROVE  LET f == _apply_pivot_floor(t, vx) IN
         /\ Pivots(t, vx)
            <=> /\ Abs(vx) < PivotEps
                /\ (t[1] < 0 /\ t[2] > 0) \/ (t[1] > 0 /\ t[2] < 0)
         /\ Pivots(t, vx) => f = <<Floored(t[1]), Floored(t[2])>>
         /\ ~Pivots(t, vx) => f = t
         /\ \A i \in {1, 2} : /\ Floored(t[i]) \in Int
                              /\ Floored(t[i]) = IF Abs(t[i]) >= PivotMin THEN t[i]
                                                 ELSE IF t[i] < 0 THEN -PivotMin
                                                 ELSE IF t[i] > 0 THEN PivotMin ELSE 0
  <1>1. Pivots(t, vx) <=> Abs(vx) < PivotEps /\ ((t[1] < 0 /\ t[2] > 0) \/ (t[1] > 0 /\ t[2] < 0))
    BY OppositeSigns DEF Pivots
  <1>2. ASSUME NEW x \in Int
        PROVE  /\ Floored(x) \in Int
               /\ Floored(x) = IF Abs(x) >= PivotMin THEN x
                               ELSE IF x < 0 THEN -PivotMin ELSE IF x > 0 THEN PivotMin ELSE 0
    BY Parameters DEF Floored, Sign, Abs
  <1> QED  BY <1>1, <1>2 DEF _apply_pivot_floor
-----------------------------------------------------------------------------
(* What the target of every velocity is like                               *)

\* The limits keep the order, the signs and, when they reach that far, the size
\* of a speed.
LEMMA LimitedCases ==
  ASSUME NEW t, t[1] \in Int, t[2] \in Int
  PROVE  /\ t[1] <= t[2] => Limited(t)[1] <= Limited(t)[2]
         /\ t[2] <= t[1] => Limited(t)[2] <= Limited(t)[1]
         /\ \A i \in {1, 2} : /\ Limited(t)[i] \in Int
                              /\ Abs(Limited(t)[i]) <= Abs(t[i])
                              /\ Limited(t)[i] \in Output
                              /\ Limited(t)[i] > 0 => t[i] > 0
                              /\ Limited(t)[i] < 0 => t[i] < 0
                              /\ \A n \in Nat : n <= SpeedMax /\ n <= -SpeedMin /\ n <= Abs(t[i])
                                                  => n <= Abs(Limited(t)[i])
  <1>1. ASSUME NEW x \in Int
        PROVE  LET y == clamp(x, SpeedMin, SpeedMax) IN
               /\ y \in Int /\ y \in Output /\ Abs(y) <= Abs(x)
                /\ (y > 0 => x > 0) /\ (y < 0 => x < 0)
               /\ \A n \in Nat : n <= SpeedMax /\ n <= -SpeedMin /\ n <= Abs(x) => n <= Abs(y)
    BY Parameters DEF clamp, Abs, Output
  <1>2. /\ t[1] <= t[2] => Limited(t)[1] <= Limited(t)[2]
        /\ t[2] <= t[1] => Limited(t)[2] <= Limited(t)[1]
    BY Parameters DEF Limited, clamp
  <1> QED  BY <1>1, <1>2 DEF Limited

\* The whole target: left and right alike, forward and backward alike when the
\* limits are even, and no wheel on the outside of a turn is the slower one.
LEMMA TargetTurns ==
  ASSUME NEW vx \in Int, NEW wz \in Int
  PROVE  /\ Target(vx, -wz) = Swapped(Target(vx, wz))
         /\ EvenLimits => Target(-vx, -wz) = Negated(Target(vx, wz))
         /\ wz >= 0 => Target(vx, wz)[2] <= Target(vx, wz)[1]
  <1>1. /\ (Stops(vx, -wz) <=> Stops(vx, wz)) /\ (Stops(-vx, -wz) <=> Stops(vx, wz))
        /\ -vx \in Int /\ -wz \in Int
    BY DEF Stops, Abs
  <1>2. CASE Stops(vx, wz)
    <2>1. /\ Target(vx, wz) = <<0, 0>> /\ Target(vx, -wz) = <<0, 0>>
          /\ Target(-vx, -wz) = <<0, 0>>
      BY <1>1, <1>2 DEF Target
    <2>2. Swapped(<<0, 0>>) = <<0, 0>> /\ Negated(<<0, 0>>) = <<0, 0>>
      <3>1. -0 = 0
        <4>1. \A a \in Int : -a = 0 - a
          OBVIOUS
        <4>2. 0 - 0 = 0 /\ 0 \in Int
          OBVIOUS
        <4> QED  BY <4>1, <4>2, Zenon
      <3> QED  BY <3>1 DEF Swapped, Negated
    <2> QED  BY <2>1, <2>2
  <1>3. CASE ~Stops(vx, wz)
    <2> DEFINE t == Zone(vx, wz)  f == _apply_pivot_floor(t, vx)
    <2>1. /\ Target(vx, wz) = Limited(f)
          /\ Target(vx, -wz) = Limited(_apply_pivot_floor(Zone(vx, -wz), vx))
          /\ Target(-vx, -wz) = Limited(_apply_pivot_floor(Zone(-vx, -wz), -vx))
          /\ t[1] \in Int /\ t[2] \in Int
      BY <1>1, <1>3, ZoneInt
    <2>2. /\ Zone(vx, -wz) = Swapped(t)
          /\ EvenLimits => Zone(-vx, -wz) = Negated(t)
          /\ wz >= 0 => t[2] <= t[1]
      BY ZoneTurns
    <2> HIDE DEF t
    <2>3. /\ Pivots(t, vx)
             <=> /\ Abs(vx) < PivotEps
                 /\ (t[1] < 0 /\ t[2] > 0) \/ (t[1] > 0 /\ t[2] < 0)
          /\ Pivots(t, vx) => f = <<Floored(t[1]), Floored(t[2])>>
          /\ ~Pivots(t, vx) => f = t
          /\ \A i \in {1, 2} : /\ Floored(t[i]) \in Int
                               /\ Floored(t[i]) = IF Abs(t[i]) >= PivotMin THEN t[i]
                                                  ELSE IF t[i] < 0 THEN -PivotMin
                                                  ELSE IF t[i] > 0 THEN PivotMin ELSE 0
      BY <2>1, FloorCases
    <2>4. f[1] \in Int /\ f[2] \in Int
      BY <2>1, <2>3
    <2>5. t[2] <= t[1] => f[2] <= f[1]
      BY <2>1, <2>3, Parameters DEF Abs
    <2>6. Limited(_apply_pivot_floor(Swapped(t), vx)) = Swapped(Limited(f))
      <3>1. Pivots(Swapped(t), vx) <=> Pivots(t, vx)
        BY <2>1 DEF Pivots, Swapped
      <3> QED  BY <3>1, <2>1 DEF _apply_pivot_floor, Swapped, Limited
    <2>7. EvenLimits => Limited(_apply_pivot_floor(Negated(t), -vx)) = Negated(Limited(f))
      <3>1. Pivots(Negated(t), -vx) <=> Pivots(t, vx)
        <4>1. Abs(-vx) = Abs(vx)
          BY DEF Abs
        <4>2. (-t[1]) * (-t[2]) = t[1] * t[2]
          BY <2>1
        <4> QED  BY <4>1, <4>2 DEF Pivots, Negated
      <3>2. Floored(-t[1]) = -Floored(t[1]) /\ Floored(-t[2]) = -Floored(t[2])
        BY <2>1, Parameters DEF Floored, Sign, Abs
      <3>3. /\ _apply_pivot_floor(Negated(t), -vx)[1] = -f[1]
            /\ _apply_pivot_floor(Negated(t), -vx)[2] = -f[2]
        BY <3>1, <3>2, <2>1 DEF _apply_pivot_floor, Negated
      <3> HIDE DEF f
      <3> QED  BY <2>4, <3>3, Parameters DEF Limited, clamp, EvenLimits, Negated
    <2> HIDE DEF f
    <2>8. wz >= 0 => Limited(f)[2] <= Limited(f)[1]
      BY <2>2, <2>4, <2>5, LimitedCases
    <2> QED  BY <2>1, <2>2, <2>6, <2>7, <2>8 DEF f
  <1> QED  BY <1>2, <1>3

\* Outside the transit zone a wheel that turns has the torque for it.
LEMMA TargetTorque ==
  ASSUME NEW vx \in Int, NEW wz \in Int, TorqueAllowed, ~InTransit(vx, wz)
  PROVE  LET t == Target(vx, wz) IN
         /\ \A i \in {1, 2} : t[i] = 0 \/ Abs(t[i]) >= Deadband
         /\ Pivots(t, vx) => \A i \in {1, 2} : Abs(t[i]) >= PivotMin
  <1>1. CASE Stops(vx, wz)
    BY <1>1 DEF Target, Pivots
  <1>2. CASE ~Stops(vx, wz)
    <2> DEFINE z == Zone(vx, wz)  f == _apply_pivot_floor(z, vx)  t == Limited(f)
    <2>1. Target(vx, wz) = t /\ z[1] \in Int /\ z[2] \in Int
      BY <1>2, ZoneInt
    <2>2. \A i \in {1, 2} : z[i] = 0 \/ Abs(z[i]) >= Deadband
      <3>1. /\ Scaled(vx + wz, PrecisionMax, MaxLin) \in Int
            /\ Scaled(vx - wz, PrecisionMax, MaxLin) \in Int
        BY Parameters, ScaledInt
      <3>2. \A raw \in Int : \/ _deadband_affine(raw, PrecisionMax) = 0
                             \/ Abs(_deadband_affine(raw, PrecisionMax)) >= Deadband
        <4> TAKE raw \in Int
        <4>1. Abs(raw) \in Int
          BY DEF Abs
        <4> QED  BY <4>1, DeadbandCases, Parameters
      <3> QED  BY <3>1, <3>2 DEF Zone, Precision
    <2> HIDE DEF z
    <2>3. /\ Pivots(z, vx)
             <=> /\ Abs(vx) < PivotEps
                 /\ (z[1] < 0 /\ z[2] > 0) \/ (z[1] > 0 /\ z[2] < 0)
          /\ Pivots(z, vx) => f = <<Floored(z[1]), Floored(z[2])>>
          /\ ~Pivots(z, vx) => f = z
          /\ \A i \in {1, 2} : /\ Floored(z[i]) \in Int
                               /\ Floored(z[i]) = IF Abs(z[i]) >= PivotMin THEN z[i]
                                                  ELSE IF z[i] < 0 THEN -PivotMin
                                                  ELSE IF z[i] > 0 THEN PivotMin ELSE 0
      BY <2>1, FloorCases
    <2>4. f[1] \in Int /\ f[2] \in Int
      BY <2>1, <2>3
    <2>5. \A i \in {1, 2} : f[i] = 0 \/ Abs(f[i]) >= Deadband
      BY <2>1, <2>2, <2>3, Parameters DEF Abs
    <2>6. Pivots(z, vx) => \A i \in {1, 2} : Abs(f[i]) >= PivotMin
      BY <2>1, <2>3, Parameters DEF Abs
    <2>7. (f[1] < 0 /\ f[2] > 0) \/ (f[1] > 0 /\ f[2] < 0)
            => (z[1] < 0 /\ z[2] > 0) \/ (z[1] > 0 /\ z[2] < 0)
      BY <2>1, <2>3, Parameters DEF Abs
    <2> HIDE DEF f
    <2>8. \A i \in {1, 2} : /\ t[i] \in Int
                            /\ t[i] > 0 => f[i] > 0
                            /\ t[i] < 0 => f[i] < 0
                            /\ Abs(f[i]) >= Deadband => Abs(t[i]) >= Deadband
                            /\ Abs(f[i]) >= PivotMin => Abs(t[i]) >= PivotMin
                            /\ Abs(t[i]) <= Abs(f[i])
      BY <2>4, LimitedCases, Parameters DEF TorqueAllowed
    <2>9. Pivots(t, vx) => Pivots(z, vx)
      <3>1. t[1] * t[2] < 0 => (t[1] < 0 /\ t[2] > 0) \/ (t[1] > 0 /\ t[2] < 0)
        BY <2>8, OppositeSigns
      <3> HIDE DEF t
      <3> QED  BY <2>3, <2>7, <2>8, <3>1 DEF Pivots
    <2> HIDE DEF t
    <2>10. \A i \in {1, 2} : t[i] = 0 \/ Abs(t[i]) >= Deadband
      BY <2>4, <2>5, <2>8 DEF Abs
    <2> QED  BY <2>1, <2>6, <2>8, <2>9, <2>10
  <1> QED  BY <1>1, <1>2

\* The boost lifts the faster wheel to exactly the speed it aims at.
LEMMA ScaledFull ==
  ASSUME NEW x \in Int, NEW num \in Nat, NEW m \in Nat \ {0}, Abs(x) = m
  PROVE  Abs(Scaled(x, num, m)) = num
  <1>1. (m * num + 0) \div m = num
    BY Words!DivisionUnique
  <1>2. (Abs(x) * num) \div m = num
    BY <1>1
  <1>3. LET q == (Abs(x) * num) \div m IN
        Scaled(x, num, m) = IF x < 0 THEN -q ELSE IF x > 0 THEN q ELSE 0
    BY ScaledCases
  <1> DEFINE y == Scaled(x, num, m)
  <1>4. y = num \/ y = -num
    <2>1. x # 0
      BY DEF Abs
    <2> QED  BY <1>2, <1>3, <2>1
  <1> HIDE DEF y
  <1>5. Abs(y) = num
    BY <1>4 DEF Abs
  <1> QED  BY <1>5 DEF y

\* The faster wheel of a velocity in transit has a speed, and at least CruiseMin.
LEMMA TransitFast ==
  ASSUME NEW vx \in Int, NEW wz \in Int, ZonesApart, InTransit(vx, wz)
  PROVE  LET t == Transit(vx + wz, vx - wz) IN Larger(t[1], t[2]) >= CruiseMin
  <1> DEFINE vr == vx + wz  vl == vx - wz
             S(v) == Scaled(v, CruiseMax, MaxLin)
             r == Scaled(vr, CruiseMax, MaxLin)  l == Scaled(vl, CruiseMax, MaxLin)
             m == Larger(r, l)  t == Transit(vr, vl)
  <1>1. /\ r \in Int /\ l \in Int /\ m \in Nat
        /\ t = IF m > 0 /\ m < CruiseMin
               THEN <<Scaled(r, CruiseMin, m), Scaled(l, CruiseMin, m)>>
               ELSE <<r, l>>
    <2>1. vr \in Int /\ vl \in Int
      OBVIOUS
    <2> HIDE DEF vr, vl
    <2> QED  BY <2>1, TransitCases
  <1>2. m > 0
    <2>1. ASSUME NEW v \in Int, Abs(v) >= CruiseThreshold PROVE S(v) # 0
      <3> DEFINE p == Abs(v) * CruiseMax  q == p \div MaxLin
      <3>1. Abs(v) \in Int /\ CruiseThreshold * CruiseMax <= p /\ p \in Int
            /\ CruiseThreshold * CruiseMax \in Int
        <4>1. Abs(v) \in Int
          BY DEF Abs
        <4> QED  BY <2>1, <4>1, Parameters, Words!ProductMonotone
      <3>2. MaxLin <= p
        BY <3>1, Parameters DEF ZonesApart
      <3> HIDE DEF p
      <3>3. (MaxLin * 1 + 0) \div MaxLin = 1
        BY Parameters, Words!DivisionUnique
      <3>4. MaxLin \div MaxLin = 1
        BY <3>3, Parameters
      <3>5. 1 <= q
        BY <3>1, <3>2, <3>4, Parameters, Words!DivisionMonotone
      <3>6. q \in Int /\ S(v) = IF v < 0 THEN -q ELSE IF v > 0 THEN q ELSE 0
        BY Parameters, ScaledCases DEF p
      <3> HIDE DEF q, S
      <3>7. v # 0
        <4>1. SUFFICES ASSUME v = 0 PROVE FALSE
          OBVIOUS
        <4>2. CruiseThreshold = 0
          BY <2>1, <4>1, Parameters DEF Abs
        <4>3. 0 * CruiseMax = 0
          BY Parameters
        <4> QED  BY <4>2, <4>3, Parameters DEF ZonesApart
      <3> QED  BY <3>5, <3>6, <3>7
    <2>2. /\ vr \in Int /\ vl \in Int
          /\ Abs(vr) >= CruiseThreshold \/ Abs(vl) >= CruiseThreshold
      <3>1. Abs(vx) >= CruiseThreshold
        BY DEF InTransit
      <3>2. CruiseThreshold \in Int
        BY Parameters
      <3> HIDE DEF r, l, m
      <3> QED  BY <3>1, <3>2 DEF Abs
    <2>3. r # 0 \/ l # 0
      BY <2>1, <2>2
    <2> HIDE DEF r, l
    <2> QED  BY <1>1, <2>3 DEF Larger, Abs
  <1> HIDE DEF S
  <1>3. CASE m < CruiseMin
    <2>1. ASSUME NEW x \in Int, Abs(x) = m PROVE Abs(Scaled(x, CruiseMin, m)) = CruiseMin
      <3>1. m \in Nat \ {0} /\ CruiseMin \in Nat
        BY <1>1, <1>2, Parameters
      <3> HIDE DEF m
      <3> QED  BY <2>1, <3>1, ScaledFull
    <2>2. Abs(r) = m \/ Abs(l) = m
      BY DEF Larger
    <2>3. t[1] \in Int /\ t[2] \in Int
      BY TransitInt
    <2>4. Abs(t[1]) >= CruiseMin \/ Abs(t[2]) >= CruiseMin
      BY <1>1, <1>2, <1>3, <2>1, <2>2, Parameters
    <2> HIDE DEF t
    <2>5. Larger(t[1], t[2]) >= CruiseMin
      BY <2>3, <2>4, Parameters DEF Larger, Abs
    <2> QED  BY <2>5 DEF t
  <1>4. CASE m >= CruiseMin
    <2>1. t = <<r, l>>
      BY <1>1, <1>4, Parameters
    <2> QED  BY <1>4, <2>1
  <1> QED  BY <1>1, <1>3, <1>4, Parameters

\* The speeds of both zones, after boost, pivot floor and limits.
LEMMA TargetZones ==
  ASSUME NEW vx \in Int, NEW wz \in Int, ZonesApart
  PROVE  IF InTransit(vx, wz) THEN Faster(Target(vx, wz)) \in CruiseMin .. CruiseMax
                              ELSE Faster(Target(vx, wz)) <= PrecisionMax
  <1> DEFINE z == Zone(vx, wz)  f == _apply_pivot_floor(z, vx)  t == Limited(f)
  <1>1. /\ Target(vx, wz) = IF Stops(vx, wz) THEN <<0, 0>> ELSE t
        /\ z[1] \in Int /\ z[2] \in Int
    BY ZoneInt
  <1>2. /\ Pivots(z, vx)
           <=> /\ Abs(vx) < PivotEps
               /\ (z[1] < 0 /\ z[2] > 0) \/ (z[1] > 0 /\ z[2] < 0)
        /\ Pivots(z, vx) => f = <<Floored(z[1]), Floored(z[2])>>
        /\ ~Pivots(z, vx) => f = z
        /\ \A i \in {1, 2} : /\ Floored(z[i]) \in Int
                             /\ Floored(z[i]) = IF Abs(z[i]) >= PivotMin THEN z[i]
                                                ELSE IF z[i] < 0 THEN -PivotMin
                                                ELSE IF z[i] > 0 THEN PivotMin ELSE 0
    BY <1>1, FloorCases
  <1>3. CASE InTransit(vx, wz)
    <2> DEFINE u == Transit(vx + wz, vx - wz)
    <2>1. z = Limited(u) /\ u[1] \in Int /\ u[2] \in Int /\ ~Stops(vx, wz)
      BY <1>3, TransitInt DEF Zone, InTransit
    <2>2. Larger(u[1], u[2]) >= CruiseMin
      BY <1>3, TransitFast
    <2> HIDE DEF u
    <2>3. Abs(u[1]) >= CruiseMin \/ Abs(u[2]) >= CruiseMin
      BY <2>2 DEF Larger
    <2>4. /\ Abs(u[1]) >= CruiseMin => Abs(z[1]) >= CruiseMin
          /\ Abs(u[2]) >= CruiseMin => Abs(z[2]) >= CruiseMin
          /\ z[1] \in Output /\ z[2] \in Output
      BY <2>1, LimitedCases, Parameters DEF ZonesApart
    <2>5. f = z
      BY <1>2, <1>3, Parameters DEF InTransit, ZonesApart, Abs
    <2>6. t = <<z[1], z[2]>>
      <3> HIDE DEF z, f
      <3> QED  BY <2>4, <2>5, Parameters DEF Limited, clamp, Output
    <2>7. Target(vx, wz) = <<z[1], z[2]>>
      BY <1>1, <2>1, <2>6
    <2> HIDE DEF z
    <2>8. Faster(<<z[1], z[2]>>) \in CruiseMin .. CruiseMax
      BY <1>1, <2>3, <2>4, Parameters DEF Faster, Abs, Output, ZonesApart
    <2> QED  BY <1>3, <2>7, <2>8
  <1>4. CASE ~InTransit(vx, wz)
    <2>1. Abs(z[1]) <= PrecisionMax /\ Abs(z[2]) <= PrecisionMax
      <3>1. /\ Scaled(vx + wz, PrecisionMax, MaxLin) \in Int
            /\ Scaled(vx - wz, PrecisionMax, MaxLin) \in Int
        BY Parameters, ScaledInt
      <3>2. \A raw \in Int : Abs(_deadband_affine(raw, PrecisionMax)) <= PrecisionMax
        BY DeadbandCases DEF ZonesApart
      <3> QED  BY <1>4, <3>1, <3>2 DEF Zone, Precision
    <2> HIDE DEF z
    <2>2. /\ f[1] \in Int /\ f[2] \in Int
          /\ Abs(f[1]) <= PrecisionMax /\ Abs(f[2]) <= PrecisionMax
      BY <1>1, <1>2, <2>1, Parameters DEF Abs, ZonesApart
    <2> HIDE DEF f
    <2>3. \A i \in {1, 2} : t[i] \in Int /\ Abs(t[i]) <= Abs(f[i])
      BY <2>2, LimitedCases
    <2> HIDE DEF t
    <2>4. Faster(t) <= PrecisionMax
      BY <2>2, <2>3, Parameters DEF Faster, Abs
    <2>5. Faster(<<0, 0>>) <= PrecisionMax
      BY Parameters DEF Faster, Abs
    <2> QED  BY <1>1, <1>4, <2>4, <2>5
  <1> QED  BY <1>3, <1>4
-----------------------------------------------------------------------------
(* One step of the ramp                                                    *)

\* _ramp stays between where it is and its target, moves at most RampRate, and
\* closes the gap by RampRate or entirely.
LEMMA RampStep ==
  ASSUME NEW current \in Int, NEW target \in Int
  PROVE  LET next == _ramp(current, target) IN
         /\ next \in Int
         /\ \/ current <= next /\ next <= target
            \/ target <= next /\ next <= current
         /\ Abs(next - current) <= RampRate
         /\ next = target \/ Abs(next - target) = Abs(current - target) - RampRate
  <1> DEFINE diff == target - current
  <1>1. RampRate \in Int /\ RampRate > 0 /\ diff \in Int  BY Constants
  <1>2. CASE Abs(diff) <= RampRate
    BY <1>1, <1>2 DEF _ramp, Abs
  <1>3. CASE diff > RampRate
    <2>1. _ramp(current, target) = current + RampRate
      BY <1>1, <1>3 DEF _ramp, Abs, Sign
    <2> QED  BY <1>1, <1>3, <2>1 DEF Abs
  <1>4. CASE diff < -RampRate
    <2>1. _ramp(current, target) = current - RampRate
      BY <1>1, <1>4 DEF _ramp, Abs, Sign
    <2> QED  BY <1>1, <1>4, <2>1 DEF Abs
  <1> QED  BY <1>1, <1>2, <1>3, <1>4 DEF Abs

\* ... so that it stays in range.
LEMMA RampInRange ==
  ASSUME NEW current \in Output, NEW target \in Output
  PROVE  _ramp(current, target) \in Output
  <1>1. current \in Int /\ target \in Int  BY DEF Output
  <1>2. LET next == _ramp(current, target) IN
        /\ next \in Int
        /\ \/ current <= next /\ next <= target
           \/ target <= next /\ next <= current
    BY <1>1, RampStep
  <1> QED  BY <1>2, Constants DEF Output

\* RepeatBound messages take a wheel across its range.
LEMMA BoundIsEnough ==
  /\ RepeatBound \in Nat /\ RepeatBound >= 1
  /\ SpeedMax - SpeedMin <= RepeatBound * RampRate
  <1> DEFINE d == SpeedMax - SpeedMin  q == d \div RampRate
  <1>1. d \in Nat /\ RampRate \in Nat \ {0}  BY Constants
  <1> HIDE DEF d
  <1>2. q \in Int /\ d % RampRate \in 0 .. (RampRate - 1)
        /\ d = RampRate * q + (d % RampRate)
    BY <1>1, Words!Division
  <1> HIDE DEF q
  <1>3. q >= 0
    <2>1. ASSUME q <= -1 PROVE RampRate * q <= -RampRate  BY <1>1, <1>2, <2>1
    <2> QED  BY <1>1, <1>2, <2>1
  <1>4. (q + 1) * RampRate = RampRate * q + RampRate  BY <1>1, <1>2
  <1>5. d <= (q + 1) * RampRate  BY <1>1, <1>2, <1>4
  <1> QED  BY <1>2, <1>3, <1>5 DEF RepeatBound, d, q
-----------------------------------------------------------------------------
(* The inductive invariant: what is published is what the node remembers   *)

CommandInv ==
  /\ TypeOK
  /\ wheelCmd = <<plcRight, plcLeft>>
  /\ Converges

\* The target of a message, and that both wheels ramp to it.
LEMMA CallbackStep ==
  ASSUME CommandInv, NEW msg \in CmdVels, _cmd_vel_callback(msg)
  PROVE  /\ last' \in Int \X Int
         /\ Target(last'[1], last'[2]) \in Output \X Output
         /\ plcRight' = _ramp(plcRight, Target(last'[1], last'[2])[1])
         /\ plcLeft'  = _ramp(plcLeft, Target(last'[1], last'[2])[2])
         /\ plcRight' \in Output /\ plcLeft' \in Output
         /\ wheelCmd' = <<plcRight', plcLeft'>>
         /\ repeats' = IF last' # last THEN 1
                       ELSE IF repeats < RepeatBound THEN repeats + 1 ELSE repeats
  <1> DEFINE cmd == LimitedCmd(msg)  tgt == Target(cmd[1], cmd[2])
  <1>1. /\ plcRight' = _ramp(plcRight, tgt[1]) /\ plcLeft' = _ramp(plcLeft, tgt[2])
        /\ wheelCmd' = Limited(<<plcRight', plcLeft'>>)
        /\ last' = cmd
        /\ repeats' = IF cmd # last THEN 1
                      ELSE IF repeats < RepeatBound THEN repeats + 1 ELSE repeats
    BY DEF _cmd_vel_callback
  <1>2. cmd \in Int \X Int
    <2>1. /\ msg[1] \in Int /\ msg[2] \in Int /\ MaxLin \in Int /\ MaxRim \in Int
      BY CommandAssumption
    <2> QED  BY <2>1 DEF LimitedCmd, clamp
  <1> HIDE DEF cmd
  <1>3. tgt \in Output \X Output  BY <1>2, TargetInRange
  <1> HIDE DEF tgt
  <1>4. plcRight' \in Output /\ plcLeft' \in Output
    BY <1>1, <1>3, RampInRange DEF CommandInv, TypeOK
  <1>5. wheelCmd' = <<plcRight', plcLeft'>>  BY <1>1, <1>4, LimitedIdentity
  <1> QED  BY <1>1, <1>2, <1>3, <1>4, <1>5 DEF tgt

\* Before the first message both wheels stand.
LEMMA InitCommand == Init => CommandInv
  <1> SUFFICES ASSUME Init PROVE CommandInv  OBVIOUS
  <1>1. TypeOK
    BY Constants, BoundIsEnough DEF Init, TypeOK, Output
  <1>2. Target(0, 0) \in Output \X Output  BY TargetInRange
  <1>3. Converges
    BY <1>2, Constants DEF Init, Converges, Remaining, Farthest, Abs, Output
  <1> QED  BY <1>1, <1>3 DEF Init, CommandInv

\* Moving towards a target with n messages already spent on it.
LEMMA GapCloses ==
  ASSUME NEW current \in Int, NEW target \in Int, NEW n \in Nat,
         Abs(current - target) <= Remaining(n, target)
  PROVE  Abs(_ramp(current, target) - target) <= Remaining(n + 1, target)
  <1> DEFINE next == _ramp(current, target)  d == Farthest(target)
  <1>1. next \in Int /\ (next = target \/ Abs(next - target) = Abs(current - target) - RampRate)
    BY RampStep
  <1> HIDE DEF next
  <1>2. d \in Int /\ RampRate \in Int /\ RampRate > 0
    BY Constants DEF Farthest
  <1> HIDE DEF d
  <1>3. (n + 1) * RampRate = n * RampRate + RampRate /\ n * RampRate \in Int  BY <1>2
  <1>4. Remaining(n, target) = (IF d - n * RampRate > 0 THEN d - n * RampRate ELSE 0)
        /\ Remaining(n + 1, target) = (IF d - (n * RampRate + RampRate) > 0
                                  THEN d - (n * RampRate + RampRate) ELSE 0)
    BY <1>3 DEF Remaining, d
  <1> DEFINE m == n * RampRate
  <1>5. m \in Int  BY <1>3
  <1> HIDE DEF m
  <1>6. Abs(current - target) <= (IF d - m > 0 THEN d - m ELSE 0)
        /\ Remaining(n + 1, target) = (IF d - (m + RampRate) > 0 THEN d - (m + RampRate) ELSE 0)
    BY <1>4 DEF m
  <1>7. Abs(next - target) <= Remaining(n + 1, target)
    BY <1>1, <1>2, <1>5, <1>6 DEF Abs
  <1> QED  BY <1>7 DEF next

\* Every message keeps the invariant.
LEMMA NextCommand == CommandInv /\ [Next]_vars => CommandInv'
  <1> SUFFICES ASSUME CommandInv, [Next]_vars PROVE CommandInv'  OBVIOUS
  <1>1. ASSUME NEW msg \in CmdVels, _cmd_vel_callback(msg) PROVE CommandInv'
    <2> DEFINE tgt == Target(last'[1], last'[2])
    <2>1. /\ last' \in Int \X Int /\ tgt \in Output \X Output
          /\ plcRight' = _ramp(plcRight, tgt[1]) /\ plcLeft' = _ramp(plcLeft, tgt[2])
          /\ plcRight' \in Output /\ plcLeft' \in Output
          /\ wheelCmd' = <<plcRight', plcLeft'>>
          /\ repeats' = IF last' # last THEN 1
                        ELSE IF repeats < RepeatBound THEN repeats + 1 ELSE repeats
      BY <1>1, CallbackStep
    <2>2. /\ plcRight \in Output /\ plcLeft \in Output /\ repeats \in 0 .. RepeatBound
          /\ wheelCmd = <<plcRight, plcLeft>>
      BY DEF CommandInv, TypeOK
    <2>3. TypeOK'
      BY <2>1, <2>2, BoundIsEnough DEF TypeOK
    <2>4. ASSUME NEW w \in Output, NEW t \in Output,
                 last' = last => Abs(w - t) <= Remaining(repeats, t)
          PROVE  Abs(_ramp(w, t) - t) <= Remaining(repeats', t)
      <3>1. w \in Int /\ t \in Int  BY DEF Output
      <3>2. CASE last' # last
        <4>1. Abs(w - t) <= Remaining(0, t)
          BY Constants DEF Output, Abs, Remaining, Farthest
        <4>2. Abs(_ramp(w, t) - t) <= Remaining(0 + 1, t)
          BY <3>1, <4>1, GapCloses
        <4> QED  BY <2>1, <3>2, <4>2
      <3>3. CASE last' = last
        <4>1. Abs(_ramp(w, t) - t) <= Remaining(repeats + 1, t)
          BY <2>2, <2>4, <3>1, <3>3, GapCloses
        <4>2. CASE repeats < RepeatBound
          BY <2>1, <3>3, <4>1, <4>2
        <4>3. CASE ~(repeats < RepeatBound)
          <5>1. repeats' = RepeatBound /\ repeats = RepeatBound
            BY <2>1, <2>2, <3>3, <4>3, BoundIsEnough
          <5>2. Remaining(RepeatBound, t) = 0
            BY <3>1, BoundIsEnough, Constants DEF Remaining, Farthest, Output
          <5>3. Abs(w - t) <= 0  BY <2>4, <3>3, <5>1, <5>2
          <5>4. _ramp(w, t) = t
            BY <3>1, <5>3, Constants DEF _ramp, Abs
          <5> QED  BY <3>1, <5>1, <5>2, <5>4 DEF Abs
        <4> QED  BY <4>2, <4>3
      <3> QED  BY <3>2, <3>3
    <2>5. Converges'
      <3>1. last' = last => /\ Abs(plcRight - tgt[1]) <= Remaining(repeats, tgt[1])
                            /\ Abs(plcLeft - tgt[2]) <= Remaining(repeats, tgt[2])
        BY <2>2 DEF CommandInv, Converges
      <3>2. tgt[1] \in Output /\ tgt[2] \in Output  BY <2>1
      <3> HIDE DEF tgt
      <3>3. Abs(plcRight' - tgt[1]) <= Remaining(repeats', tgt[1])
        BY <2>1, <2>2, <2>4, <3>1, <3>2
      <3>4. Abs(plcLeft' - tgt[2]) <= Remaining(repeats', tgt[2])
        BY <2>1, <2>2, <2>4, <3>1, <3>2
      <3>5. \A i \in {1, 2} : Abs(wheelCmd'[i] - tgt[i]) <= Remaining(repeats', tgt[i])
        BY <2>1, <3>3, <3>4
      <3> QED  BY <3>5 DEF Converges, tgt, Remaining, Farthest
    <2> QED  BY <2>1, <2>3, <2>5 DEF CommandInv
  <1>2. CASE UNCHANGED vars
    BY <1>2 DEF CommandInv, TypeOK, Converges, vars, Remaining, Farthest
  <1> QED  BY <1>1, <1>2 DEF Next

\* The invariant of every run.
LEMMA CommandInvariant == Spec => []CommandInv
  BY InitCommand, NextCommand, PTL DEF Spec
-----------------------------------------------------------------------------
(* The properties                                                          *)

\* Outputs stay within speed_min .. speed_max.
THEOREM OutputTypes == Spec => []TypeOK
  <1>1. CommandInv => TypeOK  BY DEF CommandInv
  <1> QED  BY <1>1, CommandInvariant, PTL

\* A command that keeps coming is reached by both wheels, a stop after as many
\* messages as the ramp takes from full speed.
THEOREM CommandReached == Spec => []Converges
  <1>1. CommandInv => Converges  BY DEF CommandInv
  <1> QED  BY <1>1, CommandInvariant, PTL

\* The anti-trip ramp holds from message to message.
THEOREM RampHolds == Spec => RampBound
  <1>1. ASSUME CommandInv, [Next]_vars
        PROVE  \A i \in {1, 2} : Abs(wheelCmd'[i] - wheelCmd[i]) <= RampRate
    <2>1. wheelCmd = <<plcRight, plcLeft>> /\ plcRight \in Int /\ plcLeft \in Int
      BY <1>1 DEF CommandInv, TypeOK, Output
    <2>2. ASSUME NEW msg \in CmdVels, _cmd_vel_callback(msg)
          PROVE  /\ wheelCmd' = <<plcRight', plcLeft'>>
                 /\ Abs(plcRight' - plcRight) <= RampRate
                 /\ Abs(plcLeft' - plcLeft) <= RampRate
      <3> DEFINE tgt == Target(last'[1], last'[2])
      <3>1. /\ tgt[1] \in Int /\ tgt[2] \in Int
            /\ plcRight' = _ramp(plcRight, tgt[1]) /\ plcLeft' = _ramp(plcLeft, tgt[2])
            /\ wheelCmd' = <<plcRight', plcLeft'>>
        BY <1>1, <2>2, CallbackStep DEF Output
      <3> HIDE DEF tgt
      <3> QED  BY <2>1, <3>1, RampStep
    <2>3. CASE UNCHANGED vars
      BY <2>1, <2>3, Constants DEF vars, Abs
    <2> QED  BY <1>1, <2>1, <2>2, <2>3 DEF Next
  <1> QED  BY <1>1, CommandInvariant, PTL DEF Spec, RampBound

\* The last command is a pair of numbers, of which the lemmas above speak.
LEMMA LastIsVelocity == Spec => [](last \in Int \X Int)
  <1>1. CommandInv => last \in Int \X Int
    BY DEF CommandInv, TypeOK
  <1> QED  BY <1>1, CommandInvariant, PTL

\* Each zone of the velocity has the speeds the parameters give it.
THEOREM ZonesKept == ASSUME ZonesApart PROVE Spec => []ZoneBands
  <1>1. last \in Int \X Int => ZoneBands
    BY TargetZones DEF ZoneBands, LastTarget
  <1> QED  BY <1>1, LastIsVelocity, PTL

\* No wheel gets a speed between standing still and the torque it needs.
THEOREM TorqueKept == ASSUME TorqueAllowed PROVE Spec => []SlowTorque
  <1>1. last \in Int \X Int => SlowTorque
    BY TargetTorque DEF SlowTorque, LastTarget
  <1> QED  BY <1>1, LastIsVelocity, PTL

\* Whatever the parameters are, the outer wheel is never the slower one.
THEOREM TurnsKept == Spec => []TurnDirection
  <1>1. last \in Int \X Int => TurnDirection
    <2> SUFFICES ASSUME last \in Int \X Int PROVE TurnDirection
      OBVIOUS
    <2>1. last[1] \in Int /\ last[2] \in Int /\ -last[2] \in Int
      OBVIOUS
    <2>2. last[2] >= 0 => LastTarget[1] >= LastTarget[2]
      <3>1. LastTarget \in Output \X Output
        BY <2>1, TargetInRange DEF LastTarget
      <3>2. LastTarget[1] \in Int /\ LastTarget[2] \in Int
        BY <3>1 DEF Output
      <3> QED  BY <2>1, <3>2, TargetTurns DEF LastTarget
    <2>3. last[2] <= 0 => LastTarget[1] <= LastTarget[2]
      <3> DEFINE o == Target(last[1], -last[2])
      <3>1. last[2] <= 0 => o[2] <= o[1]
        BY <2>1, TargetTurns
      <3>2. o = Swapped(LastTarget)
        BY <2>1, TargetTurns DEF LastTarget
      <3> HIDE DEF o
      <3> QED  BY <3>1, <3>2 DEF Swapped
    <2> QED  BY <2>2, <2>3 DEF TurnDirection
  <1> QED  BY <1>1, LastIsVelocity, PTL

\* With even limits the node treats left and right, forward and backward alike.
THEOREM MirrorKept == ASSUME EvenLimits PROVE Spec => []Mirror
  <1>1. last \in Int \X Int => Mirror
    <2> SUFFICES ASSUME last \in Int \X Int PROVE Mirror
      OBVIOUS
    <2>1. last[1] \in Int /\ last[2] \in Int
      OBVIOUS
    <2>2. /\ Target(last[1], -last[2]) = Swapped(LastTarget)
          /\ Target(-last[1], -last[2]) = Negated(LastTarget)
      BY <2>1, TargetTurns DEF LastTarget
    <2> QED  BY <2>2 DEF Mirror, Swapped, Negated
  <1> QED  BY <1>1, LastIsVelocity, PTL
=============================================================================
