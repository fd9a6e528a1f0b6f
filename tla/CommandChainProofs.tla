-------------------------- MODULE CommandChainProofs --------------------------
(***************************************************************************)
(* A cancel or an emergency stop brings the motors to zero if nobody       *)
(* speaks against it, for every depth of the two queues, every set of      *)
(* velocities that is published and all parameters of the nodes in which   *)
(* the zero velocities of a stop are enough for the ramp.                  *)
(*                                                                         *)
(* StopReaches is about the end of a stop. StopInv says what is true on    *)
(* the way: the zeros still in the queue and those still to be published   *)
(* are enough, first for every speed that can be asked for (Ending), then, *)
(* once only zeros are left, for the speeds the wheels have (Slowing); and *)
(* the driver has or will get the newest speeds (Delivered).               *)
(*                                                                         *)
(* At the end, the borders of the chain: the registers follow the command  *)
(* as those of the driver do, and the two threads of teleoperation are one *)
(* process to the chain.                                                   *)
(***************************************************************************)
EXTENDS CommandChain, SequenceTheorems, TLAPS

\* WheelCommand with what has been proved of it
Motors == INSTANCE WheelCommandProofs
            WITH CmdVels <- NavVels \cup KeyVels, wheelCmd <- Zero, last <- Zero, repeats <- 0

LEMMA Constants ==
  /\ SpeedMin \in Int /\ SpeedMax \in Int /\ SpeedMin <= 0 /\ 0 <= SpeedMax
  /\ RampRate \in Int /\ RampRate > 0 /\ Unit \in Nat \ {0}
  /\ DriverMin \in Int /\ DriverMax \in Int /\ DriverMin <= 0 /\ 0 <= DriverMax
  /\ CancelZeros \in Nat \ {0} /\ EstopZeros \in Nat \ {0}
  /\ CmdDepth \in Nat \ {0} /\ WheelDepth \in Nat \ {0}
  /\ Vels \subseteq Int \X Int /\ Zero \in Vels /\ Off \notin Int \X Int
  BY ChainAssumption, WheelAssumption DEF Wheels!CommandAssumption, Vels, Zero

\* The speeds are those of WheelCommand, operator by operator.
LEMMA SameTarget ==
  ASSUME NEW vx \in Int, NEW wz \in Int
  PROVE  Wheels!Target(vx, wz) = Motors!Target(vx, wz)
  <1>1. \A x : Wheels!Abs(x) = Motors!Abs(x) /\ Wheels!Sign(x) = Motors!Sign(x)
    BY DEF Wheels!Abs, Motors!Abs, Wheels!Sign, Motors!Sign
  <1>2. \A x, l, h : Wheels!clamp(x, l, h) = Motors!clamp(x, l, h)
    BY DEF Wheels!clamp, Motors!clamp
  <1>3. \A x, n, m : Wheels!Scaled(x, n, m) = Motors!Scaled(x, n, m)
    BY <1>1 DEF Wheels!Scaled, Motors!Scaled
  <1>4. \A t : Wheels!Limited(t) = Motors!Limited(t)
    BY <1>2 DEF Wheels!Limited, Motors!Limited
  <1>5. \A x, h : Wheels!_deadband_affine(x, h) = Motors!_deadband_affine(x, h)
    BY <1>1, <1>2 DEF Wheels!_deadband_affine, Motors!_deadband_affine
  <1>6. \A x, y : Wheels!Transit(x, y) = Motors!Transit(x, y)
    BY <1>1, <1>3 DEF Wheels!Transit, Motors!Transit
  <1>7. \A x, y : Wheels!Precision(x, y) = Motors!Precision(x, y)
    BY <1>3, <1>5 DEF Wheels!Precision, Motors!Precision
  <1>8. \A t, x : Wheels!_apply_pivot_floor(t, x) = Motors!_apply_pivot_floor(t, x)
    BY <1>1
    DEF Wheels!_apply_pivot_floor, Motors!_apply_pivot_floor, Wheels!Pivots, Motors!Pivots,
        Wheels!Floored, Motors!Floored
  <1>9. /\ Wheels!Stops(vx, wz) <=> Motors!Stops(vx, wz)
        /\ Wheels!InTransit(vx, wz) <=> Motors!InTransit(vx, wz)
    BY <1>1 DEF Wheels!Stops, Motors!Stops, Wheels!InTransit, Motors!InTransit
  <1> QED
    BY <1>4, <1>6, <1>7, <1>8, <1>9 DEF Wheels!Target, Motors!Target

\* The speeds asked for are within the limits.
LEMMA TargetTypes ==
  TargetOf \in [Vels -> (SpeedMin .. SpeedMax) \X (SpeedMin .. SpeedMax)]
  <1>1. Motors!CommandAssumption
    BY WheelAssumption DEF Wheels!CommandAssumption, Motors!CommandAssumption
  <1>2. ASSUME NEW v \in Vels
        PROVE  TargetOf[v] \in (SpeedMin .. SpeedMax) \X (SpeedMin .. SpeedMax)
    <2> DEFINE c == Wheels!LimitedCmd(v)
    <2>1. c[1] \in Int /\ c[2] \in Int
      BY Constants, WheelAssumption
      DEF Wheels!LimitedCmd, Wheels!clamp, Wheels!CommandAssumption
    <2>2. TargetOf[v] = Wheels!Target(c[1], c[2])  BY DEF TargetOf, Vels
    <2> HIDE DEF c
    <2>3. Motors!Target(c[1], c[2]) \in Motors!Output \X Motors!Output
      BY <1>1, <2>1, Motors!TargetInRange
    <2>4. Motors!Output = SpeedMin .. SpeedMax  BY DEF Motors!Output
    <2> QED  BY <2>1, <2>2, <2>3, <2>4, SameTarget
  <1> QED  BY <1>2 DEF TargetOf, Vels
-----------------------------------------------------------------------------
(* The operators                                                           *)

\* r is q and a message more, without the oldest s of a q that was full.
Shifted(r, q, depth, s) ==
  /\ s = 0 => Len(r) = Len(q) + 1
  /\ s = 1 => Len(q) = depth /\ Len(r) = depth
  /\ \A j \in 1 .. Len(r) - 1 : j + s \in 1 .. Len(q) /\ r[j] = q[j + s]

\* What is in a queue after a message came in.
LEMMA QueueElements ==
  ASSUME NEW S, NEW q \in Seq(S), NEW m \in S, NEW depth \in Nat \ {0}, Len(q) <= depth,
         NEW r, r = Queue(q, m, depth)
  PROVE  /\ r \in Seq(S) /\ r # <<>> /\ Len(r) \in 1 .. depth /\ r[Len(r)] = m
         /\ \E s \in {0, 1} : Shifted(r, q, depth, s)
  <1>1. Len(q) \in Nat  OBVIOUS
  <1>2. CASE Len(q) < depth
    <2>1. r = Append(q, m)  BY <1>2 DEF Queue
    <2>2. /\ r \in Seq(S) /\ r # <<>> /\ Len(r) \in 1 .. depth /\ r[Len(r)] = m
          /\ Len(r) = Len(q) + 1
          /\ \A j \in 1 .. Len(r) - 1 : j + 0 \in 1 .. Len(q) /\ r[j] = q[j + 0]
      BY <1>1, <1>2, <2>1
    <2> QED  BY <2>2 DEF Shifted
  <1>3. CASE ~(Len(q) < depth)
    <2> DEFINE t == Tail(q)
    <2>1. r = Append(t, m)  BY <1>3 DEF Queue
    <2>2. q # <<>> /\ Len(q) = depth  BY <1>1, <1>3
    <2>3. /\ t \in Seq(S) /\ Len(t) = Len(q) - 1
          /\ \A j \in 1 .. Len(t) : j + 1 \in 1 .. Len(q) /\ t[j] = q[j + 1]
      BY <2>2
    <2> HIDE DEF t
    <2>4. /\ r \in Seq(S) /\ r # <<>> /\ Len(r) \in 1 .. depth /\ r[Len(r)] = m
          /\ Len(r) = depth
          /\ \A j \in 1 .. Len(r) - 1 : j + 1 \in 1 .. Len(q) /\ r[j] = q[j + 1]
      BY <1>1, <2>1, <2>2, <2>3
    <2> QED  BY <2>2, <2>4 DEF Shifted
  <1> QED  BY <1>2, <1>3

\* A step of the ramp ends between where it began and its target, and a step towards
\* zero takes RampRate off the speed.
LEMMA RampStep ==
  ASSUME NEW x \in Int, NEW t \in Int
  PROVE  LET y == Wheels!_ramp(x, t) IN
         /\ y \in Int
         /\ (x <= y /\ y <= t) \/ (t <= y /\ y <= x)
         /\ t = 0 => (Wheels!Abs(y) <= Wheels!Abs(x) - RampRate \/ y = 0)
  <1> DEFINE y == Wheels!_ramp(x, t)
  <1> SUFFICES /\ y \in Int
               /\ (x <= y /\ y <= t) \/ (t <= y /\ y <= x)
               /\ t = 0 => (Wheels!Abs(y) <= Wheels!Abs(x) - RampRate \/ y = 0)
    OBVIOUS
  <1>1. RampRate \in Int /\ RampRate > 0  BY Constants
  <1>2. CASE Wheels!Abs(t - x) <= RampRate
    <2>1. y = t  BY <1>2 DEF Wheels!_ramp
    <2> QED  BY <1>1, <2>1
  <1>3. CASE t - x > RampRate
    <2>1. y = x + RampRate  BY <1>1, <1>3 DEF Wheels!_ramp, Wheels!Abs, Wheels!Sign
    <2> HIDE DEF y
    <2>2. /\ y \in Int /\ x <= y /\ y <= t
          /\ t = 0 => Wheels!Abs(y) <= Wheels!Abs(x) - RampRate
      BY <1>1, <1>3, <2>1 DEF Wheels!Abs
    <2> QED  BY <2>2
  <1>4. CASE x - t > RampRate
    <2>1. y = x - RampRate  BY <1>1, <1>4 DEF Wheels!_ramp, Wheels!Abs, Wheels!Sign
    <2> HIDE DEF y
    <2>2. /\ y \in Int /\ t <= y /\ y <= x
          /\ t = 0 => Wheels!Abs(y) <= Wheels!Abs(x) - RampRate
      BY <1>1, <1>4, <2>1 DEF Wheels!Abs
    <2> QED  BY <2>2
  <1> QED  BY <1>1, <1>2, <1>3, <1>4 DEF Wheels!Abs

\* What the driver and the limits make of speeds.
LEMMA UnitsTypes ==
  /\ \A x \in Int : Units(x) \in DriverMin .. DriverMax
  /\ Units(0) = 0
  /\ \A t \in Int \X Int : Wheels!Limited(t) \in Int \X Int
  /\ Wheels!Limited(Zero) = Zero
  <1>1. ASSUME NEW x \in Int PROVE Wheels!Scaled(x, 1, Unit) \in Int
    <2>1. Wheels!Abs(x) * 1 \in Int  BY DEF Wheels!Abs
    <2>2. (Wheels!Abs(x) * 1) \div Unit \in Int  BY <2>1, Constants
    <2>3. Wheels!Sign(x) \in Int  BY DEF Wheels!Sign
    <2> QED  BY <2>2, <2>3 DEF Wheels!Scaled
  <1>2. Wheels!Scaled(0, 1, Unit) = 0
    <2>1. Wheels!Sign(0) = 0 /\ Wheels!Abs(0) * 1 \in Int  BY DEF Wheels!Sign, Wheels!Abs
    <2>2. (Wheels!Abs(0) * 1) \div Unit \in Int  BY <2>1, Constants
    <2> QED  BY <2>1, <2>2 DEF Wheels!Scaled
  <1>3. \A x \in Int : Units(x) \in DriverMin .. DriverMax
    BY <1>1, Constants DEF Units, Wheels!clamp
  <1>4. Units(0) = 0  BY <1>2, Constants DEF Units, Wheels!clamp
  <1>5. \A t \in Int \X Int : Wheels!Limited(t) \in Int \X Int
    BY Constants DEF Wheels!Limited, Wheels!clamp
  <1>6. Wheels!Limited(Zero) = Zero
    BY Constants DEF Wheels!Limited, Wheels!clamp, Zero
  <1> QED  BY <1>3, <1>4, <1>5, <1>6

\* Zero asks for zero, also where stop_lin or stop_rim is zero.
LEMMA TargetOfZero == TargetOf[Zero] = Zero
  <1>1. /\ MaxLin \in Nat \ {0} /\ MaxRim \in Nat /\ Unit \in Nat \ {0}
        /\ CruiseMax \in Nat /\ PrecisionMax \in Nat
    BY WheelAssumption DEF Wheels!CommandAssumption
  <1>2. Wheels!LimitedCmd(Zero) = <<0, 0>>
    BY <1>1 DEF Wheels!LimitedCmd, Wheels!clamp, Zero
  <1>3. Wheels!Abs(0) = 0 /\ Wheels!Sign(0) = 0 /\ 0 + 0 = 0 /\ 0 - 0 = 0 /\ 0 * 0 = 0
    BY DEF Wheels!Abs, Wheels!Sign
  <1>4. ASSUME NEW n \in Nat PROVE Wheels!Scaled(0, n, MaxLin) = 0
    <2>1. (0 * n) \div MaxLin \in Int  BY <1>1
    <2> QED  BY <1>3, <2>1 DEF Wheels!Scaled
  <1>5. Wheels!Transit(0, 0) = <<0, 0>>
    BY <1>1, <1>3, <1>4 DEF Wheels!Transit
  <1>6. Wheels!Precision(0, 0) = <<0, 0>>
    <2>1. Wheels!_deadband_affine(0, PrecisionMax) = 0
      BY <1>1, <1>3 DEF Wheels!_deadband_affine
    <2> QED  BY <1>1, <1>4, <2>1 DEF Wheels!Precision
  <1>7. Wheels!Limited(<<0, 0>>) = <<0, 0>>
    BY UnitsTypes DEF Zero
  <1>8. Wheels!_apply_pivot_floor(<<0, 0>>, 0) = <<0, 0>>
    BY <1>3 DEF Wheels!_apply_pivot_floor, Wheels!Pivots
  <1>9. Wheels!Target(0, 0) = <<0, 0>>
    BY <1>3, <1>5, <1>6, <1>7, <1>8 DEF Wheels!Target
  <1> QED  BY <1>2, <1>9, Constants DEF TargetOf, Vels, Zero
-----------------------------------------------------------------------------
(* Types                                                                   *)

\* The queue of /cmd_vel after somebody has published.
LEMMA PublishTypes ==
  ASSUME TypeOK, NEW v \in Vels, Publish(v)
  PROVE  cmdVel' \in Seq(Vels) /\ Len(cmdVel') <= CmdDepth /\ alone' \in BOOLEAN
  <1>1. cmdVel \in Seq(Vels) /\ CmdDepth \in Nat \ {0} /\ Len(cmdVel) <= CmdDepth
    BY Constants DEF TypeOK
  <1>2. cmdVel' = Queue(cmdVel, v, CmdDepth)  BY DEF Publish
  <1>3. cmdVel' \in Seq(Vels) /\ Len(cmdVel') \in 1 .. CmdDepth
    BY <1>1, <1>2, QueueElements
  <1>4. alone' \in BOOLEAN  BY DEF Publish
  <1> QED  BY <1>1, <1>3, <1>4

\* kinematics_node turns velocities into speeds within the limits.
LEMMA SpeedTypes ==
  ASSUME TypeOK, _cmd_vel_callback
  PROVE  /\ cmdVel \in Seq(Vels) /\ cmdVel # <<>> /\ Head(cmdVel) \in Vels
         /\ cmdVel' = Tail(cmdVel) /\ cmdVel' \in Seq(Vels)
         /\ Len(cmdVel') = Len(cmdVel) - 1 /\ Len(cmdVel) \in Nat \ {0}
         /\ TargetOf[Head(cmdVel)] \in (SpeedMin .. SpeedMax) \X (SpeedMin .. SpeedMax)
         /\ plcRight' \in SpeedMin .. SpeedMax /\ plcLeft' \in SpeedMin .. SpeedMax
         /\ wheelCmdVel' \in Seq(Int \X Int) /\ Len(wheelCmdVel') \in 1 .. WheelDepth
         /\ wheelCmdVel'[Len(wheelCmdVel')] = Wheels!Limited(<<plcRight', plcLeft'>>)
  <1>1. cmdVel \in Seq(Vels) /\ cmdVel # <<>> /\ cmdVel' = Tail(cmdVel)
    BY DEF TypeOK, _cmd_vel_callback
  <1>2. /\ Head(cmdVel) \in Vels /\ cmdVel' \in Seq(Vels)
        /\ Len(cmdVel') = Len(cmdVel) - 1 /\ Len(cmdVel) \in Nat \ {0}
    BY <1>1
  <1> DEFINE t == TargetOf[Head(cmdVel)]
  <1>3. t \in (SpeedMin .. SpeedMax) \X (SpeedMin .. SpeedMax)  BY <1>2, TargetTypes
  <1>4. plcRight' = Wheels!_ramp(plcRight, t[1]) /\ plcLeft' = Wheels!_ramp(plcLeft, t[2])
    BY DEF _cmd_vel_callback
  <1> HIDE DEF t
  <1>5. plcRight' \in SpeedMin .. SpeedMax /\ plcLeft' \in SpeedMin .. SpeedMax
    <2>1. ASSUME NEW x \in SpeedMin .. SpeedMax, NEW y \in SpeedMin .. SpeedMax
          PROVE  Wheels!_ramp(x, y) \in SpeedMin .. SpeedMax
      <3>1. x \in Int /\ y \in Int  BY Constants
      <3> DEFINE z == Wheels!_ramp(x, y)
      <3>2. z \in Int /\ ((x <= z /\ z <= y) \/ (y <= z /\ z <= x))  BY <3>1, RampStep
      <3> HIDE DEF z
      <3>3. z \in SpeedMin .. SpeedMax  BY <3>1, <3>2, Constants
      <3> QED  BY <3>3 DEF z
    <2> QED  BY <1>3, <1>4, <2>1 DEF TypeOK
  <1> DEFINE m == Wheels!Limited(<<plcRight', plcLeft'>>)
  <1>6. m \in Int \X Int
    <2>1. <<plcRight', plcLeft'>> \in Int \X Int  BY <1>5, Constants
    <2> QED  BY <2>1, UnitsTypes
  <1>7. wheelCmdVel' = Queue(wheelCmdVel, m, WheelDepth)
    BY DEF _cmd_vel_callback
  <1> HIDE DEF m
  <1>8. /\ wheelCmdVel' \in Seq(Int \X Int) /\ Len(wheelCmdVel') \in 1 .. WheelDepth
        /\ wheelCmdVel'[Len(wheelCmdVel')] = m
    <2>1. wheelCmdVel \in Seq(Int \X Int) /\ Len(wheelCmdVel) <= WheelDepth
      BY DEF TypeOK
    <2>2. WheelDepth \in Nat \ {0}  BY Constants
    <2> DEFINE q == wheelCmdVel  S == Int \X Int  r == Queue(q, m, WheelDepth)
    <2>3. q \in Seq(S) /\ m \in S /\ Len(q) <= WheelDepth  BY <1>6, <2>1
    <2> HIDE DEF q, S
    <2>4. r \in Seq(S) /\ Len(r) \in 1 .. WheelDepth /\ r[Len(r)] = m
      BY <2>2, <2>3, QueueElements
    <2> QED  BY <1>7, <2>4 DEF q, S
  <1> QED  BY <1>1, <1>2, <1>3, <1>5, <1>8 DEF t, m

LEMMA TypeInit == Init => TypeOK
  <1>1. <<>> \in Seq(Vels) /\ <<>> \in Seq(Int \X Int) /\ Len(<<>>) = 0  OBVIOUS
  <1>2. Zero \in (DriverMin .. DriverMax) \X (DriverMin .. DriverMax)
        /\ 0 \in SpeedMin .. SpeedMax /\ 0 \in 0 .. CancelZeros
    BY Constants DEF Zero
  <1>3. CmdDepth >= 0 /\ WheelDepth >= 0  BY Constants
  <1> QED  BY <1>1, <1>2, <1>3 DEF Init, TypeOK

LEMMA TypeStep == TypeOK /\ [Next]_vars => TypeOK'
  <1> SUFFICES ASSUME TypeOK, [Next]_vars PROVE TypeOK'  OBVIOUS
  <1>0. NavVels \subseteq Vels /\ KeyVels \subseteq Vels /\ Zero \in Vels
    BY DEF Vels
  <1>1. ASSUME NEW v \in Vels, Publish(v),
               nav' \in {"idle", "driving", "killed"}, key' \in KeyVels \cup {Zero, Off},
               burst' \in 0 .. CancelZeros \/ burst' \in 0 .. EstopZeros,
               UNCHANGED nodes
        PROVE  TypeOK'
    <2>1. cmdVel' \in Seq(Vels) /\ Len(cmdVel') <= CmdDepth /\ alone' \in BOOLEAN
      BY <1>1, PublishTypes
    <2> QED  BY <1>1, <2>1 DEF TypeOK, nodes
  <1>2. ASSUME nav' \in {"idle", "driving", "killed"}, key' \in KeyVels \cup {Zero, Off},
               burst' \in 0 .. CancelZeros \/ burst' \in 0 .. EstopZeros,
               alone' \in BOOLEAN, UNCHANGED <<cmdVel, nodes>>
        PROVE  TypeOK'
    BY <1>2 DEF TypeOK, nodes
  <1>3. CASE Goal \/ stop_nav \/ Release
    BY <1>2, <1>3 DEF Goal, stop_nav, Release, TypeOK
  <1>4. ASSUME NEW v \in KeyVels, Press(v) PROVE TypeOK'
    BY <1>2, <1>4 DEF Press, TypeOK
  <1>5. CASE NavEnds
    BY <1>0, <1>1, <1>5 DEF NavEnds, TypeOK
  <1>6. ASSUME NEW v \in NavVels, NavDrives(v) PROVE TypeOK'
    BY <1>0, <1>1, <1>6 DEF NavDrives, TypeOK
  <1>7. CASE TeleopTimer
    <2>1. key \in Vels  BY <1>7 DEF TeleopTimer, TypeOK, Vels
    <2> QED  BY <1>1, <1>7, <2>1 DEF TeleopTimer, TypeOK
  <1>8. CASE TeleopEnds
    <2>1. CASE Publish(Zero)
      BY <1>0, <1>1, <1>8, <2>1 DEF TeleopEnds, TypeOK
    <2>2. CASE UNCHANGED <<cmdVel, alone>>
      BY <1>2, <1>8, <2>2 DEF TeleopEnds, TypeOK
    <2> QED  BY <1>8, <2>1, <2>2 DEF TeleopEnds
  <1>9. ASSUME NEW times \in {CancelZeros, EstopZeros}, _handle_stop(times) PROVE TypeOK'
    <2>1. burst' \in 0 .. CancelZeros \/ burst' \in 0 .. EstopZeros
      BY <1>9, Constants DEF _handle_stop
    <2> QED  BY <1>2, <1>9, <2>1 DEF _handle_stop, TypeOK
  <1>10. CASE _zero_vel
    <2>1. burst' \in 0 .. CancelZeros \/ burst' \in 0 .. EstopZeros
      <3>1. burst > 0 /\ burst' = burst - 1  BY <1>10 DEF _zero_vel
      <3>2. ASSUME NEW n \in Nat, burst \in 0 .. n PROVE burst' \in 0 .. n
        BY <3>1, <3>2
      <3> QED  BY <3>2, Constants DEF TypeOK
    <2> QED  BY <1>0, <1>1, <1>10, <2>1 DEF _zero_vel, TypeOK
  <1>11. CASE _cmd_vel_callback
    <2>1. Len(cmdVel') <= CmdDepth /\ Len(wheelCmdVel') <= WheelDepth
      <3>1. Len(cmdVel) <= CmdDepth  BY DEF TypeOK
      <3> QED  BY <1>11, <3>1, SpeedTypes, Constants
    <2> QED  BY <1>11, <2>1, SpeedTypes DEF _cmd_vel_callback, publishers, TypeOK
  <1>12. CASE _cmd_callback
    <2>1. /\ wheelCmdVel \in Seq(Int \X Int) /\ wheelCmdVel # <<>>
          /\ Len(wheelCmdVel) <= WheelDepth /\ wheelCmdVel' = Tail(wheelCmdVel)
      BY <1>12 DEF _cmd_callback, TypeOK
    <2>2. /\ Head(wheelCmdVel) \in Int \X Int
          /\ wheelCmdVel' \in Seq(Int \X Int) /\ Len(wheelCmdVel') <= WheelDepth
      BY <2>1, Constants
    <2>3. cmd' \in (DriverMin .. DriverMax) \X (DriverMin .. DriverMax)
      <3>1. cmd' = <<Units(Head(wheelCmdVel)[1]), Units(Head(wheelCmdVel)[2])>>
        BY <1>12 DEF _cmd_callback
      <3>2. Head(wheelCmdVel)[1] \in Int /\ Head(wheelCmdVel)[2] \in Int  BY <2>2
      <3> QED  BY <3>1, <3>2, UnitsTypes
    <2> QED  BY <1>12, <2>2, <2>3 DEF _cmd_callback, publishers, TypeOK
  <1>13. ASSUME NEW writes \in 0 .. 2, _cycle_callback(writes) PROVE TypeOK'
    <2>1. reg' = cmd \/ reg' = <<cmd[1], reg[2]>> \/ reg' = reg
      BY <1>13 DEF _cycle_callback
    <2>2. reg' \in (DriverMin .. DriverMax) \X (DriverMin .. DriverMax)
      BY <2>1 DEF TypeOK
    <2> QED  BY <1>13, <2>2 DEF _cycle_callback, TypeOK
  <1>14. CASE UNCHANGED vars
    BY <1>14 DEF vars, TypeOK
  <1> QED
    BY <1>3, <1>4, <1>5, <1>6, <1>7, <1>8, <1>9, <1>10, <1>11, <1>12, <1>13, <1>14 DEF Next

\* Velocities, speeds and register values keep their ranges and the queues their
\* depths.
THEOREM ChainTypes == Spec => []TypeOK
  <1> QED  BY TypeInit, TypeStep, PTL DEF Spec
-----------------------------------------------------------------------------
(* The stop                                                                *)

\* some velocity asks for a speed that is at least as high
Attained(x) ==
  \E v \in Vels, i \in {1, 2} : Wheels!Abs(x) <= Wheels!Abs(TargetOf[v][i])

\* m messages take the wheels from the speeds they have now to zero
Within(m) == Wheels!Abs(plcRight) <= RampRate * m /\ Wheels!Abs(plcLeft) <= RampRate * m

\* the last n velocities in the queue are zero
ZerosAtEnd(n) == \A j \in 1 .. Len(cmdVel) : j > Len(cmdVel) - n => cmdVel[j] = Zero

\* Behind what is left of other velocities there are zeros enough for any speed, ...
Ending == \E n \in 0 .. Len(cmdVel) : ZerosAtEnd(n) /\ Covered(n + burst)

\* ... or there are only zeros, and enough for the speeds of now.
Slowing == ZerosAtEnd(Len(cmdVel)) /\ Within(Len(cmdVel) + burst)

Speeds == Wheels!Limited(<<plcRight, plcLeft>>)

\* The newest speeds are the last message to the driver, or it has them.
Delivered == /\ wheelCmdVel # <<>> => wheelCmdVel[Len(wheelCmdVel)] = Speeds
             /\ wheelCmdVel = <<>> => cmd = <<Units(Speeds[1]), Units(Speeds[2])>>

StopInv == /\ Attained(plcRight) /\ Attained(plcLeft)
           /\ Delivered
           /\ alone => Ending \/ Slowing

\* More messages take the wheels further.
LEMMA RampTimes ==
  ASSUME NEW m \in Int, NEW k \in Int, m <= k
  PROVE  RampRate * m \in Int /\ RampRate * k \in Int /\ RampRate * m <= RampRate * k
  <1>1. RampRate \in Int /\ RampRate > 0  BY Constants
  <1>2. (k - m) * RampRate >= 0
    <2>1. k - m \in Nat /\ RampRate \in Nat  BY <1>1
    <2> QED  BY <2>1
  <1>3. (k - m) * RampRate = RampRate * k - RampRate * m  BY <1>1
  <1> QED  BY <1>1, <1>2, <1>3

LEMMA TargetInts == \A v \in Vels, i \in {1, 2} : TargetOf[v][i] \in Int
  BY TargetTypes, Constants

LEMMA CoveredMore ==
  ASSUME NEW m \in Int, NEW k \in Int, m <= k
  PROVE  /\ Covered(m) => Covered(k)
         /\ plcRight \in Int /\ plcLeft \in Int /\ Within(m) => Within(k)
  <1>1. RampRate * m \in Int /\ RampRate * k \in Int /\ RampRate * m <= RampRate * k
    BY RampTimes
  <1>2. \A x \in Int : Wheels!Abs(x) \in Int  BY DEF Wheels!Abs
  <1>3. Covered(m) => Covered(k)
    <2> SUFFICES ASSUME Covered(m), NEW v \in Vels, NEW i \in {1, 2}
                 PROVE  Wheels!Abs(TargetOf[v][i]) <= RampRate * k
      BY DEF Covered
    <2>1. PICK a \in Int : a = Wheels!Abs(TargetOf[v][i])  BY <1>2, TargetInts
    <2>2. a <= RampRate * m  BY <2>1 DEF Covered
    <2> QED  BY <1>1, <2>1, <2>2
  <1>4. plcRight \in Int /\ plcLeft \in Int /\ Within(m) => Within(k)
    BY <1>1, <1>2 DEF Within
  <1> QED  BY <1>3, <1>4

\* What covers all speeds that can be asked for covers those of now.
LEMMA CoveredWithin ==
  ASSUME NEW m \in Int, plcRight \in Int, plcLeft \in Int,
         Attained(plcRight), Attained(plcLeft), Covered(m)
  PROVE  Within(m)
  <1>1. ASSUME NEW x \in Int, Attained(x) PROVE Wheels!Abs(x) <= RampRate * m
    <2>1. PICK v \in Vels, i \in {1, 2} : Wheels!Abs(x) <= Wheels!Abs(TargetOf[v][i])
      BY <1>1 DEF Attained
    <2>2. Wheels!Abs(TargetOf[v][i]) <= RampRate * m  BY DEF Covered
    <2>3. PICK a \in Int, b \in Int : a = Wheels!Abs(x) /\ b = Wheels!Abs(TargetOf[v][i])
      BY TargetInts DEF Wheels!Abs
    <2>4. RampRate * m \in Int  BY Constants
    <2> QED  BY <2>1, <2>2, <2>3, <2>4
  <1> QED  BY <1>1 DEF Within

\* A zero velocity more in the queue: from the burst of the bridge or not.
LEMMA ZeroPublished ==
  ASSUME TypeOK, EnoughZeros, Attained(plcRight), Attained(plcLeft), Ending \/ Slowing,
         Publish(Zero), NEW b \in Nat, burst' = b, burst <= b + 1,
         UNCHANGED <<plcRight, plcLeft>>
  PROVE  (Ending \/ Slowing)'
  <1> DEFINE k == Len(cmdVel')
  <1>1. /\ cmdVel \in Seq(Vels) /\ CmdDepth \in Nat \ {0} /\ Len(cmdVel) <= CmdDepth
        /\ Zero \in Vels /\ cmdVel' = Queue(cmdVel, Zero, CmdDepth)
        /\ Len(cmdVel) \in Nat
    BY Constants DEF TypeOK, Publish
  <1>2. k \in Nat \ {0} /\ cmdVel'[k] = Zero
    BY <1>1, QueueElements
  <1>s. PICK s \in {0, 1} : Shifted(cmdVel', cmdVel, CmdDepth, s)
    BY <1>1, QueueElements
  <1>3. /\ s = 0 => k = Len(cmdVel) + 1
        /\ s = 1 => Len(cmdVel) = CmdDepth /\ k = CmdDepth
        /\ \A j \in 1 .. k - 1 : j + s \in 1 .. Len(cmdVel) /\ cmdVel'[j] = cmdVel[j + s]
    BY <1>s DEF Shifted
  <1>4. plcRight \in Int /\ plcLeft \in Int /\ plcRight' = plcRight /\ plcLeft' = plcLeft
        /\ burst \in Nat
    BY Constants DEF TypeOK
  <1> HIDE DEF k
  <1>5. ASSUME NEW n \in 0 .. Len(cmdVel), ZerosAtEnd(n),
               NEW p \in Int, p <= n + 1, p <= k
        PROVE  \A j \in 1 .. k : j > k - p => cmdVel'[j] = Zero
    <2> SUFFICES ASSUME NEW j \in 1 .. k, j > k - p, j # k PROVE cmdVel'[j] = Zero
      BY <1>2
    <2>1. j \in 1 .. k - 1 /\ j + s \in 1 .. Len(cmdVel) /\ cmdVel'[j] = cmdVel[j + s]
      BY <1>2, <1>3
    <2>2. j + s > Len(cmdVel) - n  BY <1>1, <1>2, <1>3, <1>5
    <2> QED  BY <1>5, <2>1, <2>2 DEF ZerosAtEnd
  <1>6. CASE Ending
    <2>1. PICK n \in 0 .. Len(cmdVel) : ZerosAtEnd(n) /\ Covered(n + burst)
      BY <1>6 DEF Ending
    <2>2. PICK p \in 0 .. k : p = IF n + 1 <= k THEN n + 1 ELSE k
      BY <1>1, <1>2
    <2>3. \A j \in 1 .. k : j > k - p => cmdVel'[j] = Zero
      <3>1. p \in Int /\ p <= n + 1 /\ p <= k  BY <1>1, <1>2, <2>2
      <3> QED  BY <1>5, <2>1, <3>1
    <2>4. Covered(p + b)
      <3>1. CASE p = n + 1
        <4>1. n + burst <= p + b /\ n + burst \in Int /\ p + b \in Int
          BY <1>1, <1>2, <1>4, <3>1
        <4> QED  BY <2>1, <4>1, CoveredMore
      <3>2. CASE p # n + 1
        <4>1. p = CmdDepth /\ CmdDepth <= p + b  BY <1>1, <1>2, <1>3, <2>2, <3>2
        <4> QED  BY <1>1, <4>1, CoveredMore DEF EnoughZeros
      <3> QED  BY <3>1, <3>2
    <2>5. Ending'
      BY <2>3, <2>4 DEF Ending, ZerosAtEnd, Covered, k
    <2> QED  BY <2>5
  <1>7. CASE Slowing
    <2>1. \A j \in 1 .. k : j > k - k => cmdVel'[j] = Zero
      <3>1. k <= Len(cmdVel) + 1  BY <1>1, <1>3
      <3>2. Len(cmdVel) \in 0 .. Len(cmdVel) /\ k \in Int /\ k <= k  BY <1>1, <1>2
      <3> QED  BY <1>5, <1>7, <3>1, <3>2 DEF Slowing
    <2>2. Within(k + b)
      <3>1. CASE s = 0
        <4>1. Len(cmdVel) + burst <= k + b /\ Len(cmdVel) + burst \in Int /\ k + b \in Int
          BY <1>1, <1>2, <1>3, <1>4, <3>1
        <4> QED  BY <1>4, <1>7, <4>1, CoveredMore DEF Slowing
      <3>2. CASE s = 1
        <4>1. Within(CmdDepth)  BY <1>1, <1>4, CoveredWithin DEF EnoughZeros
        <4>2. CmdDepth <= k + b /\ k + b \in Int  BY <1>1, <1>3, <3>2
        <4> QED  BY <1>1, <1>4, <4>1, <4>2, CoveredMore
      <3> QED  BY <3>1, <3>2
    <2>3. Slowing'  BY <1>4, <2>1, <2>2 DEF Slowing, ZerosAtEnd, Within, k
    <2> QED  BY <2>3
  <1> QED  BY <1>6, <1>7

LEMMA StopInit == Init => StopInv
  <1> SUFFICES ASSUME Init PROVE StopInv  OBVIOUS
  <1>1. Attained(0)
    <2>1. Zero \in Vels /\ TargetOf[Zero][1] = 0  BY Constants, TargetOfZero DEF Zero
    <2>2. Wheels!Abs(0) <= Wheels!Abs(0)  BY DEF Wheels!Abs
    <2> QED  BY <2>1, <2>2 DEF Attained
  <1>2. Delivered
    <2>1. Speeds = <<0, 0>>  BY UnitsTypes DEF Init, Speeds, Zero
    <2> QED  BY <2>1, UnitsTypes DEF Init, Delivered, Zero
  <1> QED  BY <1>1, <1>2 DEF Init, StopInv

\* One velocity taken off the queue: the speeds go its way, at most by RampRate.
LEMMA StopCallback ==
  ASSUME TypeOK, StopInv, _cmd_vel_callback
  PROVE  StopInv'
  <1> DEFINE v == Head(cmdVel)  t == TargetOf[v]  L == Len(cmdVel)
  <1>1. /\ cmdVel \in Seq(Vels) /\ cmdVel # <<>> /\ v \in Vels /\ v = cmdVel[1]
        /\ cmdVel' = Tail(cmdVel) /\ cmdVel' \in Seq(Vels)
        /\ Len(cmdVel') = L - 1 /\ L \in Nat \ {0}
        /\ \A j \in 1 .. L - 1 : j + 1 \in 1 .. L /\ cmdVel'[j] = cmdVel[j + 1]
    <2>1. /\ cmdVel \in Seq(Vels) /\ cmdVel # <<>> /\ v \in Vels
          /\ cmdVel' = Tail(cmdVel) /\ cmdVel' \in Seq(Vels)
          /\ Len(cmdVel') = L - 1 /\ L \in Nat \ {0}
      BY SpeedTypes
    <2>2. v = cmdVel[1]
          /\ \A j \in 1 .. L - 1 : j + 1 \in 1 .. L /\ Tail(cmdVel)[j] = cmdVel[j + 1]
      BY <2>1
    <2> HIDE DEF v, t, L
    <2> QED  BY <2>1, <2>2
  <1>2. t[1] \in Int /\ t[2] \in Int  BY <1>1, TargetInts
  <1>3. /\ plcRight' = Wheels!_ramp(plcRight, t[1]) /\ plcLeft' = Wheels!_ramp(plcLeft, t[2])
        /\ burst' = burst /\ alone' = alone
    BY DEF _cmd_vel_callback, publishers
  <1>4. /\ plcRight \in Int /\ plcLeft \in Int /\ plcRight' \in Int /\ plcLeft' \in Int
        /\ burst \in Nat
    BY SpeedTypes, Constants DEF TypeOK
  <1>5. Delivered'
    <2>1. /\ Len(wheelCmdVel') # 0
          /\ wheelCmdVel'[Len(wheelCmdVel')] = Wheels!Limited(<<plcRight', plcLeft'>>)
      BY SpeedTypes
    <2>2. wheelCmdVel' # <<>>  BY <2>1
    <2> QED  BY <2>1, <2>2 DEF Delivered, Speeds
  <1> HIDE DEF t, L
  <1>6. \A x \in Int : Wheels!Abs(x) \in Int  BY DEF Wheels!Abs
  <1>7. Attained(plcRight') /\ Attained(plcLeft')
    <2>1. ASSUME NEW x \in Int, NEW i \in {1, 2}, NEW y \in Int, y = Wheels!_ramp(x, t[i]),
                 Attained(x)
          PROVE  Attained(y)
      <3>1. t[i] \in Int  BY <1>2
      <3>2. (x <= y /\ y <= t[i]) \/ (t[i] <= y /\ y <= x)  BY <2>1, <3>1, RampStep
      <3>3. Wheels!Abs(y) <= Wheels!Abs(x) \/ Wheels!Abs(y) <= Wheels!Abs(t[i])
        BY <3>1, <3>2 DEF Wheels!Abs
      <3>4. CASE Wheels!Abs(y) <= Wheels!Abs(t[i])
        BY <1>1, <3>4 DEF Attained, t
      <3>5. CASE Wheels!Abs(y) <= Wheels!Abs(x)
        <4>1. PICK u \in Vels, n \in {1, 2} : Wheels!Abs(x) <= Wheels!Abs(TargetOf[u][n])
          BY <2>1 DEF Attained
        <4>2. PICK a \in Int, b \in Int, c \in Int :
                a = Wheels!Abs(x) /\ b = Wheels!Abs(TargetOf[u][n]) /\ c = Wheels!Abs(y)
          BY <1>6, TargetInts
        <4>3. c <= b  BY <3>5, <4>1, <4>2
        <4> QED  BY <4>2, <4>3 DEF Attained
      <3> QED  BY <3>3, <3>4, <3>5
    <2> QED  BY <1>3, <1>4, <2>1 DEF StopInv
  <1>8. ASSUME v = Zero, NEW m \in Nat, Within(m + 1)
        PROVE  Within(m)'
    <2>1. t = <<0, 0>>  BY <1>8, TargetOfZero DEF t, Zero
    <2>2. RampRate * m \in Int /\ RampRate * m >= 0 /\ RampRate * (m + 1) = RampRate * m + RampRate
      <3>1. RampRate \in Nat  BY Constants
      <3> QED  BY <3>1
    <2>3. ASSUME NEW x \in Int, Wheels!Abs(x) <= RampRate * (m + 1)
          PROVE  Wheels!Abs(Wheels!_ramp(x, 0)) <= RampRate * m
      <3> DEFINE y == Wheels!_ramp(x, 0)
      <3>1. y \in Int /\ (Wheels!Abs(y) <= Wheels!Abs(x) - RampRate \/ y = 0)
        BY RampStep
      <3> HIDE DEF y
      <3>2. Wheels!Abs(0) = 0  BY DEF Wheels!Abs
      <3>3. PICK a \in Int, c \in Int : a = Wheels!Abs(x) /\ c = Wheels!Abs(y)
        BY <1>6, <3>1
      <3>4. c <= RampRate * m
        BY <2>2, <2>3, <3>1, <3>2, <3>3, Constants
      <3> QED  BY <3>3, <3>4 DEF y
    <2> QED  BY <1>3, <1>4, <1>8, <2>1, <2>3 DEF Within
  <1>9. ASSUME NEW n \in Int, ZerosAtEnd(n)
        PROVE  \A j \in 1 .. L - 1 : j > (L - 1) - n => cmdVel'[j] = Zero
    BY <1>1, <1>9 DEF ZerosAtEnd, L
  <1>10. ASSUME alone, Slowing PROVE Slowing'
    <2>1. v = Zero /\ \A j \in 1 .. L - 1 : cmdVel'[j] = Zero
      BY <1>1, <1>10 DEF Slowing, ZerosAtEnd, L
    <2>2. PICK m \in Nat : m = (L - 1) + burst  BY <1>1, <1>4
    <2>3. Within(m + 1)
      <3>1. m + 1 = L + burst  BY <1>1, <1>4, <2>2
      <3> QED  BY <1>10, <3>1 DEF Slowing, L
    <2>4. Within(m)'  BY <1>8, <2>1, <2>3
    <2>5. Len(cmdVel') + burst' = m  BY <1>1, <1>3, <2>2
    <2>6. ZerosAtEnd(Len(cmdVel))'  BY <1>1, <2>1 DEF ZerosAtEnd
    <2> QED  BY <2>4, <2>5, <2>6 DEF Slowing, Within
  <1>11. ASSUME alone, Ending PROVE (Ending \/ Slowing)'
    <2>1. PICK n \in 0 .. L : ZerosAtEnd(n) /\ Covered(n + burst)
      BY <1>11 DEF Ending, L
    <2>2. CASE n < L
      <3>1. n \in 0 .. Len(cmdVel') /\ n + burst' = n + burst  BY <1>1, <1>3, <2>2
      <3>2. ZerosAtEnd(n)'  BY <1>1, <1>9, <2>1 DEF ZerosAtEnd
      <3>3. Covered(n + burst)'  BY <1>3, <2>1 DEF Covered
      <3> QED  BY <3>1, <3>2, <3>3 DEF Ending
    <2>3. CASE n = L
      <3>1. Within(L + burst)
        <4>1. L + burst \in Int  BY <1>1, <1>4
        <4> QED  BY <1>4, <2>1, <2>3, <4>1, CoveredWithin DEF StopInv
      <3>2. Slowing  BY <2>1, <2>3, <3>1 DEF Slowing, L
      <3> QED  BY <1>10, <1>11, <3>2
    <2> QED  BY <1>1, <2>2, <2>3
  <1> QED  BY <1>3, <1>5, <1>7, <1>10, <1>11 DEF StopInv

\* The driver takes a message: the last one stays the last, or is the one it has.
LEMMA StopDelivered ==
  ASSUME TypeOK, Delivered, _cmd_callback
  PROVE  Delivered'
  <1>1. /\ wheelCmdVel \in Seq(Int \X Int) /\ wheelCmdVel # <<>>
        /\ wheelCmdVel' = Tail(wheelCmdVel)
        /\ cmd' = <<Units(Head(wheelCmdVel)[1]), Units(Head(wheelCmdVel)[2])>>
        /\ plcRight' = plcRight /\ plcLeft' = plcLeft
    BY DEF TypeOK, _cmd_callback
  <1>2. wheelCmdVel[Len(wheelCmdVel)] = Speeds /\ Speeds' = Speeds
    BY <1>1 DEF Delivered, Speeds
  <1>3. CASE Len(wheelCmdVel) = 1
    <2>1. Head(wheelCmdVel) = wheelCmdVel[1]  BY <1>1, HeadTailProperties
    <2>2. Head(wheelCmdVel) = Speeds  BY <1>2, <1>3, <2>1
    <2>3. wheelCmdVel' = <<>>
      <3>1. /\ Tail(wheelCmdVel) \in Seq(Int \X Int)
            /\ Len(Tail(wheelCmdVel)) = Len(wheelCmdVel) - 1
        BY <1>1, HeadTailProperties
      <3>2. Len(Tail(wheelCmdVel)) = 0  BY <1>3, <3>1
      <3> QED  BY <1>1, <3>1, <3>2, EmptySeq
    <2> QED  BY <1>1, <1>2, <2>2, <2>3 DEF Delivered
  <1>4. CASE Len(wheelCmdVel) # 1
    <2>1. wheelCmdVel' # <<>> /\ wheelCmdVel'[Len(wheelCmdVel')] = wheelCmdVel[Len(wheelCmdVel)]
      <3> DEFINE q == wheelCmdVel  n == Len(q)  r == Tail(q)
      <3>1. n \in Nat /\ n # 0  BY <1>1, EmptySeq
      <3>2. n > 1
        <4>1. n # 1  BY <1>4
        <4> HIDE DEF n
        <4> QED  BY <3>1, <4>1
      <3>3. /\ r \in Seq(Int \X Int) /\ Len(r) = n - 1
            /\ \A j \in 1 .. Len(r) : r[j] = q[j + 1]
        BY <1>1, HeadTailProperties
      <3>4. wheelCmdVel' = r  BY <1>1
      <3> HIDE DEF n, q, r
      <3>5. n - 1 \in 1 .. Len(r) /\ (n - 1) + 1 = n  BY <3>1, <3>2, <3>3
      <3>6. r[n - 1] = q[n] /\ Len(r) # 0  BY <3>3, <3>5
      <3>7. r # <<>>  BY <3>3, <3>6, EmptySeq
      <3> QED  BY <3>3, <3>4, <3>6, <3>7 DEF q, n
    <2> QED  BY <1>2, <2>1 DEF Delivered
  <1> QED  BY <1>3, <1>4

LEMMA StopStep == EnoughZeros /\ TypeOK /\ StopInv /\ [Next]_vars => StopInv'
  <1> SUFFICES ASSUME EnoughZeros, TypeOK, StopInv, [Next]_vars PROVE StopInv'  OBVIOUS
  <1>0. Attained(plcRight) /\ Attained(plcLeft) /\ Delivered /\ burst \in Nat
    BY Constants DEF StopInv, TypeOK
  <1>1. ASSUME NEW b \in Nat, burst' = b, burst <= b + 1, NEW u \in Vels, Publish(u),
               UNCHANGED nodes
        PROVE  StopInv'
    <2>1. Attained(plcRight)' /\ Attained(plcLeft)' /\ Delivered'
      BY <1>0, <1>1 DEF nodes, Attained, Delivered, Speeds
    <2>2. alone' => u = Zero /\ (Ending \/ Slowing)
      BY <1>1 DEF Publish, StopInv, TypeOK
    <2>3. alone' => (Ending \/ Slowing)'
      BY <1>0, <1>1, <2>2, ZeroPublished DEF nodes
    <2> QED  BY <2>1, <2>3 DEF StopInv
  <1>2. ASSUME UNCHANGED <<burst, cmdVel, alone, plcRight, plcLeft, wheelCmdVel, cmd>>
        PROVE  StopInv'
    BY <1>2 DEF StopInv, Attained, Delivered, Speeds, Ending, Slowing, ZerosAtEnd, Within,
                Covered
  <1>3. CASE Goal \/ stop_nav \/ Release \/ (\E u \in KeyVels : Press(u))
             \/ (\E writes \in 0 .. 2 : _cycle_callback(writes)) \/ UNCHANGED vars
    BY <1>2, <1>3 DEF Goal, stop_nav, Release, Press, _cycle_callback, vars, nodes
  <1>4. CASE NavEnds
    BY <1>0, <1>1, <1>4, Constants DEF NavEnds
  <1>5. ASSUME NEW u \in NavVels, NavDrives(u) PROVE StopInv'
    BY <1>0, <1>1, <1>5 DEF NavDrives, Vels
  <1>6. CASE TeleopTimer
    <2>1. key \in Vels  BY <1>6 DEF TeleopTimer, TypeOK, Vels
    <2> QED  BY <1>0, <1>1, <1>6, <2>1 DEF TeleopTimer
  <1>7. CASE TeleopEnds
    <2>1. CASE Publish(Zero)
      BY <1>0, <1>1, <1>7, <2>1, Constants DEF TeleopEnds
    <2>2. CASE UNCHANGED <<cmdVel, alone>>
      BY <1>2, <1>7, <2>2 DEF TeleopEnds, nodes
    <2> QED  BY <1>7, <2>1, <2>2 DEF TeleopEnds
  <1>8. ASSUME NEW times \in {CancelZeros, EstopZeros}, _handle_stop(times) PROVE StopInv'
    <2>1. UNCHANGED <<cmdVel, nodes>> /\ burst' = times  BY <1>8 DEF _handle_stop
    <2>2. Attained(plcRight)' /\ Attained(plcLeft)' /\ Delivered'
      BY <1>0, <2>1 DEF nodes, Attained, Delivered, Speeds
    <2>3. Ending'
      <3>1. cmdVel \in Seq(Vels) /\ Len(cmdVel) \in Nat /\ times \in Nat  BY Constants DEF TypeOK
      <3>2. ZerosAtEnd(0)'  BY <2>1, <3>1 DEF ZerosAtEnd
      <3>3. Covered(0 + times)
        <4>1. 0 + times = times  BY <3>1
        <4> QED  BY <4>1 DEF EnoughZeros
      <3> QED  BY <2>1, <3>1, <3>2, <3>3 DEF Ending, Covered
    <2> QED  BY <2>2, <2>3 DEF StopInv
  <1>9. CASE _zero_vel
    <2>1. burst > 0 /\ burst' = burst - 1 /\ Publish(Zero) /\ UNCHANGED nodes
      BY <1>9 DEF _zero_vel
    <2>2. burst - 1 \in Nat /\ burst <= (burst - 1) + 1  BY <1>0, <2>1
    <2> QED  BY <1>1, <2>1, <2>2, Constants
  <1>10. CASE _cmd_vel_callback  BY <1>10, StopCallback
  <1>11. CASE _cmd_callback
    <2>1. UNCHANGED <<burst, cmdVel, alone, plcRight, plcLeft>>
      BY <1>11 DEF _cmd_callback, publishers
    <2>2. Delivered'  BY <1>0, <1>11, StopDelivered
    <2> QED
      BY <2>1, <2>2 DEF StopInv, Attained, Ending, Slowing, ZerosAtEnd, Within, Covered
  <1> QED
    BY <1>3, <1>4, <1>5, <1>6, <1>7, <1>8, <1>9, <1>10, <1>11 DEF Next

\* With zero velocities enough, a stop nobody speaks against has brought both motors
\* to zero when its last message is through, whatever was in the queues before it.
THEOREM StopIsReached == ASSUME EnoughZeros PROVE Spec => []StopReaches
  <1>1. TypeOK /\ StopInv => StopReaches
    <2> SUFFICES ASSUME TypeOK, StopInv, alone, burst = 0, cmdVel = <<>>
                 PROVE  /\ plcRight = 0 /\ plcLeft = 0
                        /\ wheelCmdVel = <<>> => cmd = Zero
      BY DEF StopReaches
    <2>1. plcRight \in Int /\ plcLeft \in Int  BY Constants DEF TypeOK
    <2>2. Within(0)
      <3>1. CASE Ending
        <4>1. PICK n \in 0 .. Len(cmdVel) : Covered(n + burst)  BY <3>1 DEF Ending
        <4>2. n + burst = 0  BY <4>1
        <4> QED  BY <2>1, <4>1, <4>2, CoveredWithin DEF StopInv
      <3>2. CASE Slowing
        <4>1. Len(cmdVel) + burst = 0  OBVIOUS
        <4> QED  BY <3>2, <4>1 DEF Slowing
      <3> QED  BY <3>1, <3>2 DEF StopInv
    <2>3. RampRate * 0 = 0  BY Constants
    <2>4. plcRight = 0 /\ plcLeft = 0  BY <2>1, <2>2, <2>3 DEF Within, Wheels!Abs
    <2>5. Speeds = <<0, 0>>  BY <2>4, UnitsTypes DEF Speeds, Zero
    <2> QED  BY <2>4, <2>5, UnitsTypes DEF StopInv, Delivered, Zero
  <1>2. TypeOK /\ StopInv /\ [Next]_vars => StopInv'  BY StopStep
  <1> QED  BY <1>1, <1>2, TypeInit, TypeStep, StopInit, PTL DEF Spec
-----------------------------------------------------------------------------
(* The end of the chain                                                    *)

\* What the driver makes of a message is a command of MotorRegisters.
LEMMA CallbackCommands ==
  ASSUME TypeOK, _cmd_callback
  PROVE  Registers!Command
  <1>1. wheelCmdVel \in Seq(Int \X Int) /\ wheelCmdVel # <<>>
    BY DEF TypeOK, _cmd_callback
  <1>2. Head(wheelCmdVel)[1] \in Int /\ Head(wheelCmdVel)[2] \in Int
    <2>1. Head(wheelCmdVel) \in Int \X Int  BY <1>1
    <2> QED  BY <2>1
  <1>3. cmd' \in (DriverMin .. DriverMax) \X (DriverMin .. DriverMax)
    BY <1>2, UnitsTypes DEF _cmd_callback
  <1> QED  BY <1>3 DEF _cmd_callback, Registers!Command

\* The chain ends in two registers that follow the command as those of the real
\* driver do: the interface at which CommandChain and PlcDriver meet.
THEOREM CycleIsDriver == Spec => CycleFollowsCommand
  <1>1. Init => Registers!Init
    BY Constants DEF Init, Registers!Init, Registers!Zero, Zero
  <1>2. TypeOK /\ [Next]_vars => [Registers!Next]_(Registers!vars)
    <2> SUFFICES ASSUME TypeOK, [Next]_vars PROVE [Registers!Next]_(Registers!vars)
      OBVIOUS
    <2>1. CASE _cmd_callback
      BY <2>1, CallbackCommands DEF Registers!Next
    <2>2. ASSUME NEW writes \in 0 .. 2, _cycle_callback(writes) PROVE Registers!Write
      BY <2>2 DEF _cycle_callback, Registers!Write, Registers!Written
    <2>3. ASSUME ~_cmd_callback, ~\E writes \in 0 .. 2 : _cycle_callback(writes)
          PROVE  UNCHANGED <<cmd, reg>>
      BY <2>3
      DEF Next, Goal, NavEnds, stop_nav, Release, TeleopTimer, TeleopEnds, NavDrives, Press,
          _handle_stop, _zero_vel, _cmd_vel_callback, nodes, publishers, vars
    <2> QED  BY <2>1, <2>2, <2>3 DEF Registers!Next, Registers!vars
  <1> QED
    BY <1>1, <1>2, TypeInit, TypeStep, PTL DEF Spec, CycleFollowsCommand, Registers!Spec
-----------------------------------------------------------------------------
(* The threads of teleoperation in the chain                               *)

CONSTANTS Moves, NoKey, Twist                                   \* see TeleopChain
VARIABLES main, k, keyboard, typed, _run, _key, _lock, ok, shown, quit

\* CommandChain with the two threads in place of its teleoperation
Threaded == INSTANCE TeleopChain

\* The keys that are remembered have a velocity.
Remembered ==
  /\ k \in Moves \cup {NoKey} /\ _key \in Moves \cup {NoKey}
  /\ typed \in Moves \cup {NoKey, "QUIT"}

\* held is Off or a velocity, and what is going to be said is one.
LEMMA HeldTypes ==
  ASSUME Threaded!TwistAssumption, Remembered
  PROVE  /\ \A c \in Moves \cup {NoKey} : Twist[c] \in KeyVels \cup {Zero} /\ Twist[c] # Off
         /\ Twist[NoKey] = Zero /\ Zero # Off
  BY Constants DEF Remembered, Threaded!TwistAssumption, Threaded!Chain!Zero, Zero, Vels

LEMMA ThreadedInit == Threaded!Init => Remembered /\ Threaded!Chain!Init
  BY DEF Threaded!Init, Remembered, Threaded!Chain!Init, Threaded!held, Threaded!Chain!Zero, Zero

\* One thread goes on and says nothing: a press, a release or the end of the process
\* in the chain if the timer has read another key or the node is gone, else nothing.
LEMMA SilentStep ==
  ASSUME Threaded!TwistAssumption, Remembered, Threaded!Silent
  PROVE  Remembered' /\ [Threaded!Chain!Next]_(Threaded!Chain!vars)
  <1> USE DEF Threaded!Node!mainVars, Threaded!Node!keyboardVars, Threaded!Node!alive
  <1>1. ASSUME Remembered', main' = main, k' = k
        PROVE  Remembered' /\ [Threaded!Chain!Next]_(Threaded!Chain!vars)
    BY <1>1 DEF Threaded!Silent, Threaded!chain, Threaded!held, Threaded!Chain!vars
  <1>2. ASSUME k' = k, _key' = _key, typed' = typed,
               main \in {"stopped", "gone"} <=> main' \in {"stopped", "gone"}
        PROVE  Remembered' /\ [Threaded!Chain!Next]_(Threaded!Chain!vars)
    BY <1>2 DEF Remembered, Threaded!Silent, Threaded!chain, Threaded!held, Threaded!Chain!vars
  <1>3. CASE Threaded!Node!Keyboard
    <2>1. CASE Threaded!Node!Loop  BY <1>1, <2>1 DEF Remembered, Threaded!Node!Loop
    <2>2. CASE Threaded!Node!Lock  BY <1>1, <2>2 DEF Remembered, Threaded!Node!Lock
    <2>3. CASE Threaded!Node!StoreKey  BY <1>1, <2>3 DEF Remembered, Threaded!Node!StoreKey
    <2>4. CASE Threaded!Node!Quit  BY <1>1, <2>4 DEF Remembered, Threaded!Node!Quit
    <2>5. ASSUME NEW c \in Moves \cup {NoKey, "QUIT"}, Threaded!Node!get_key(c)
          PROVE  Remembered' /\ main' = main /\ k' = k
      BY <2>5 DEF Remembered, Threaded!Node!get_key
    <2> QED  BY <1>1, <1>3, <2>1, <2>2, <2>3, <2>4, <2>5 DEF Threaded!Node!Keyboard
  <1>4. CASE Threaded!Node!Timer  BY <1>2, <1>4 DEF Threaded!Node!Timer
  <1>5. CASE Threaded!Node!SpinEnds  BY <1>2, <1>5 DEF Threaded!Node!SpinEnds
  <1>6. CASE Threaded!Node!Interrupt  BY <1>2, <1>6 DEF Threaded!Node!Interrupt
  <1>7. CASE Threaded!Node!Exit  BY <1>2, <1>7 DEF Threaded!Node!Exit
  <1>8. CASE ~ok /\ Threaded!Node!_publish  BY <1>2, <1>8 DEF Threaded!Node!_publish
  <1>9. CASE Threaded!Node!ReadKey
    <2>1. /\ Remembered' /\ Threaded!held = Twist[k] /\ Threaded!held' = Twist[_key]
          /\ UNCHANGED <<nav, burst, cmdVel, plcRight, plcLeft, wheelCmdVel, cmd, reg, alone>>
      BY <1>9
      DEF Remembered, Threaded!Node!ReadKey, Threaded!held, Threaded!Silent, Threaded!chain
    <2>2. CASE Twist[_key] = Twist[k]  BY <2>1, <2>2 DEF Threaded!Chain!vars
    <2>3. CASE Twist[_key] # Twist[k] /\ Twist[_key] = Threaded!Chain!Zero
      <3>1. Threaded!Chain!Release  BY <2>1, <2>3 DEF Threaded!Chain!Release, Threaded!Chain!nodes
      <3> QED  BY <2>1, <3>1 DEF Threaded!Chain!Next
    <2>4. CASE Twist[_key] # Twist[k] /\ Twist[_key] # Threaded!Chain!Zero
      <3>1. Twist[_key] \in KeyVels  BY <2>4 DEF Remembered, Threaded!TwistAssumption
      <3>2. Threaded!Chain!Press(Twist[_key])
        BY <2>1, <2>4, <3>1 DEF Threaded!Chain!Press, Threaded!Chain!nodes
      <3> QED  BY <2>1, <3>1, <3>2 DEF Threaded!Chain!Next
    <2> QED  BY <2>2, <2>3, <2>4
  <1>10. CASE ~ok /\ Threaded!Node!destroy_node
    <2>1. Remembered' /\ Threaded!held # Off /\ Threaded!held' = Off
      BY <1>10, HeldTypes DEF Remembered, Threaded!Node!destroy_node, Threaded!held
    <2>2. Threaded!Chain!TeleopEnds
      BY <2>1 DEF Threaded!Silent, Threaded!chain, Threaded!Chain!TeleopEnds, Threaded!Chain!nodes
    <2> QED  BY <2>1, <2>2 DEF Threaded!Chain!Next
  <1> QED  BY <1>3, <1>4, <1>5, <1>6, <1>7, <1>8, <1>9, <1>10 DEF Threaded!Silent

\* A message of the node is one of the timer, or the last one.
LEMMA SpeakStep ==
  ASSUME Threaded!TwistAssumption, Remembered, Threaded!Speak
  PROVE  Remembered' /\ Threaded!Chain!Next
  <1> USE DEF Threaded!Node!mainVars, Threaded!Node!keyboardVars
  <1>1. CASE Threaded!Node!_publish
    <2>1. /\ main = "read" /\ main' = "spin" /\ shown' = k
          /\ UNCHANGED <<k, _key, typed>> /\ Threaded!Chain!Publish(Twist[shown'])
          /\ UNCHANGED <<nav, burst, plcRight, plcLeft, wheelCmdVel, cmd, reg>>
      BY <1>1 DEF Threaded!Speak, Threaded!Node!_publish
    <2>2. Threaded!held = Twist[k] /\ Threaded!held' = Threaded!held
      BY <2>1 DEF Threaded!held
    <2>3. Remembered' /\ Threaded!held # Off  BY <2>1, <2>2, HeldTypes DEF Remembered
    <2>4. Threaded!Chain!TeleopTimer
      BY <2>1, <2>2, <2>3 DEF Threaded!Chain!TeleopTimer, Threaded!Chain!nodes
    <2> QED  BY <2>3, <2>4 DEF Threaded!Chain!Next
  <1>2. CASE Threaded!Node!destroy_node
    <2>1. /\ main = "finally" /\ main' = "stopped" /\ shown' = NoKey
          /\ UNCHANGED <<k, _key, typed>> /\ Threaded!Chain!Publish(Twist[shown'])
          /\ UNCHANGED <<nav, burst, plcRight, plcLeft, wheelCmdVel, cmd, reg>>
      BY <1>2 DEF Threaded!Speak, Threaded!Node!destroy_node
    <2>2. Threaded!held = Twist[k] /\ Threaded!held' = Off
      BY <2>1 DEF Threaded!held
    <2>3. /\ Remembered' /\ Threaded!held # Off
          /\ Twist[NoKey] = Threaded!Chain!Zero
      BY <2>1, <2>2, HeldTypes DEF Remembered, Threaded!TwistAssumption
    <2>4. Threaded!Chain!TeleopEnds
      BY <2>1, <2>2, <2>3 DEF Threaded!Chain!TeleopEnds, Threaded!Chain!nodes
    <2> QED  BY <2>3, <2>4 DEF Threaded!Chain!Next
  <1> QED  BY <1>1, <1>2 DEF Threaded!Speak

\* Nobody else sees a difference.
LEMMA OthersStep ==
  ASSUME Threaded!TwistAssumption, Remembered, Threaded!Others
  PROVE  Remembered' /\ Threaded!Chain!Next
  <1>1. Remembered'  BY DEF Threaded!Others, Threaded!node, Remembered
  <1>2. Threaded!Chain!Next  BY DEF Threaded!Others, Threaded!Chain!Next
  <1> QED  BY <1>1, <1>2

\* A node that starts is teleoperation with no key held.
LEMMA StartStep ==
  ASSUME Threaded!TwistAssumption, Remembered, Threaded!Start
  PROVE  Remembered' /\ Threaded!Chain!Next
  <1>1. Remembered'  BY DEF Threaded!Start, Remembered
  <1>2. Threaded!held = Off /\ Threaded!held' = Threaded!Chain!Zero
    BY DEF Threaded!Start, Threaded!held, Threaded!TwistAssumption
  <1>3. Threaded!Chain!Zero # Off  BY HeldTypes DEF Threaded!Chain!Zero, Zero
  <1>4. Threaded!Chain!Release
    BY <1>2, <1>3
    DEF Threaded!Start, Threaded!chain, Threaded!Chain!Release, Threaded!Chain!nodes
  <1> QED  BY <1>1, <1>4 DEF Threaded!Chain!Next

\* Teleoperation as one process in CommandChain stands for its two threads, with all
\* that a keyboard, an interrupt and a new start can bring about between them, for
\* every set of keys with a velocity each: what is true of the chain with the one
\* process (StopReaches, say) is true of the chain with the threads.
THEOREM ThreadsAreOneProcess ==
  ASSUME Threaded!TwistAssumption
  PROVE  Threaded!Spec => Threaded!ImplementsChain
  <1>1. Remembered /\ [Threaded!Next]_(Threaded!vars)
          => Remembered' /\ [Threaded!Chain!Next]_(Threaded!Chain!vars)
    <2> SUFFICES ASSUME Remembered, [Threaded!Next]_(Threaded!vars)
                 PROVE  Remembered' /\ [Threaded!Chain!Next]_(Threaded!Chain!vars)
      OBVIOUS
    <2>1. CASE UNCHANGED Threaded!vars
      BY <2>1
      DEF Threaded!vars, Threaded!chain, Threaded!node, Threaded!Chain!vars, Threaded!held,
          Remembered
    <2> QED  BY <2>1, SilentStep, SpeakStep, OthersStep, StartStep DEF Threaded!Next
  <1>2. Threaded!Init => Remembered /\ Threaded!Chain!Init  BY ThreadedInit
  <1> QED
    BY <1>1, <1>2, PTL DEF Threaded!Spec, Threaded!Chain!Spec, Threaded!ImplementsChain
===============================================================================
