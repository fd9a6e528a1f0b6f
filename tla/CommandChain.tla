---------------------------- MODULE CommandChain ----------------------------
(***************************************************************************)
(* From a velocity to the motor registers: Nav2, teleoperation and the     *)
(* MQTT bridge publish on one topic, /cmd_vel; kinematics_node turns each  *)
(* message into motor speeds, one ramp step away from the last ones;       *)
(* plc_driver_node keeps the newest speeds and writes them once a cycle.   *)
(* Nobody arbitrates between the publishers, and no command expires.       *)
(*                                                                         *)
(* The limits, zones and the ramp are those of WheelCommand.  The cycle    *)
(* is reduced to its two writes, each of which may fail: PlcDriver has     *)
(* the rest of it.                                                         *)
(***************************************************************************)
EXTENDS Sequences, Integers

CONSTANTS
  MaxLin, MaxRim, StopLin, StopRim, CruiseThreshold, PivotEps, Unit,
  SpeedMin, SpeedMax, CruiseMin, CruiseMax, PrecisionMax, Deadband,
  PivotMin, RampRate,             \* kinematics_node, see WheelCommand
  DriverMin, DriverMax,           \* speed_min, speed_max of plc_driver_node
  NavVels,                        \* what Nav2 may ask for on its way to a goal
  KeyVels,                        \* what the keys of teleoperation ask for
  CancelZeros, EstopZeros,        \* zero velocities of a cancel, of an e-stop
  CmdDepth, WheelDepth,           \* depth of /cmd_vel and of /wheel_cmd_vel
  Off                             \* no teleoperation

ASSUME ChainAssumption ==
  /\ DriverMin \in Int /\ DriverMax \in Nat /\ DriverMin <= 0
  /\ NavVels \subseteq Int \X Int /\ KeyVels \subseteq Int \X Int
  /\ CancelZeros \in Nat \ {0} /\ EstopZeros \in Nat \ {0}
  /\ CmdDepth \in Nat \ {0} /\ WheelDepth \in Nat \ {0}
  /\ Off \notin Int \X Int

VARIABLES
  nav,          \* Nav2: "idle", "driving" to a goal, or "killed"
  key,          \* velocity of the key that is held, or Off
  burst,        \* zero velocities the bridge still has to publish
  cmdVel,       \* queue of /cmd_vel
  plcRight, plcLeft, \* _plc_right, _plc_left
  wheelCmdVel,  \* queue of /wheel_cmd_vel
  cmd,          \* _cmd_right, _cmd_left
  reg,          \* the motor registers, <<right, left>>
  alone         \* history: no velocity but zero since the last stop began

vars == <<nav, key, burst, cmdVel, plcRight, plcLeft, wheelCmdVel, cmd, reg,
          alone>>

Zero == <<0, 0>>

Wheels == INSTANCE WheelCommand
            WITH CmdVels <- NavVels \cup KeyVels, wheelCmd <- Zero, last <- Zero, repeats <- 0

ASSUME WheelAssumption == Wheels!CommandAssumption

\* the speeds each velocity asks of the wheels
TargetOf == [v \in NavVels \cup KeyVels \cup {Zero} |->
               LET c == Wheels!LimitedCmd(v) IN Wheels!Target(c[1], c[2])]

\* KEEP_LAST: a full queue loses its oldest message
Queue(q, m, depth) == Append(IF Len(q) < depth THEN q ELSE Tail(q), m)

\* int(max(speed_min, min(speed_max, x))): whole units, within the driver's limits
Units(x) == Wheels!clamp(Wheels!Scaled(x, 1, Unit), DriverMin, DriverMax)

Publish(v) ==
  /\ cmdVel' = Queue(cmdVel, v, CmdDepth)
  /\ alone'  = (alone /\ v = Zero)
-----------------------------------------------------------------------------
Init ==
  /\ nav = "idle" /\ key = Off /\ burst = 0
  /\ cmdVel = <<>> /\ wheelCmdVel = <<>>
  /\ plcRight = 0 /\ plcLeft = 0 /\ cmd = Zero /\ reg = Zero
  /\ alone = FALSE

nodes == <<plcRight, plcLeft, wheelCmdVel, cmd, reg>>

(* Nav2 *)

\* _handle_goal, or a goal from another client
Goal == /\ nav # "driving"
        /\ nav' = "driving"
        /\ UNCHANGED <<key, burst, cmdVel, alone, nodes>>

NavDrives(v) == /\ nav = "driving"
                /\ Publish(v)
                /\ UNCHANGED <<nav, key, burst, nodes>>

\* the goal is reached or given up, which Nav2 ends with a zero velocity
NavEnds == /\ nav = "driving"
           /\ nav' = "idle"
           /\ Publish(Zero)
           /\ UNCHANGED <<key, burst, nodes>>

\* stop_nav.sh kills controller_server and bt_navigator
stop_nav == /\ nav # "killed"
            /\ nav' = "killed"
            /\ UNCHANGED <<key, burst, cmdVel, alone, nodes>>

(* Teleoperation *)

Press(v) == /\ v # key /\ v \in KeyVels
            /\ key' = v
            /\ UNCHANGED <<nav, burst, cmdVel, alone, nodes>>

\* No key is held (any more): teleoperation starts, or a key was released.
Release == /\ key # Zero
           /\ key' = Zero
           /\ UNCHANGED <<nav, burst, cmdVel, alone, nodes>>

TeleopTimer_onKey ==                                                 \* mutant
  /\ key \notin {Off, Zero}
  /\ Publish(key)
  /\ UNCHANGED <<nav, key, burst, nodes>>

TeleopTimer == /\ key # Off
               /\ Publish(key)
               /\ UNCHANGED <<nav, key, burst, nodes>>

\* The last zero velocity goes out unless ROS is shut down before.
TeleopEnds == /\ key # Off
              /\ key' = Off
              /\ Publish(Zero) \/ UNCHANGED <<cmdVel, alone>>
              /\ UNCHANGED <<nav, burst, nodes>>

(* The MQTT bridge, on its network thread *)

_handle_stop_one(times) ==                                           \* mutant
  /\ burst = 0
  /\ burst' = 1 /\ alone' = TRUE
  /\ UNCHANGED <<nav, key, cmdVel, nodes>>

\* _handle_cancel or _handle_estop
_handle_stop(times) ==
  /\ burst = 0
  /\ burst' = times /\ alone' = TRUE
  /\ UNCHANGED <<nav, key, cmdVel, nodes>>

_zero_vel == /\ burst > 0
             /\ burst' = burst - 1
             /\ Publish(Zero)
             /\ UNCHANGED <<nav, key, nodes>>
-----------------------------------------------------------------------------
publishers == <<nav, key, burst, alone>>

_cmd_vel_callback_held ==                                            \* mutant
  /\ cmdVel # <<>>
  /\ plcRight' = Wheels!_ramp_short(plcRight, TargetOf[Head(cmdVel)][1])
  /\ plcLeft'  = Wheels!_ramp_short(plcLeft, TargetOf[Head(cmdVel)][2])
  /\ wheelCmdVel' = Queue(wheelCmdVel, Wheels!Limited(<<plcRight', plcLeft'>>), WheelDepth)
  /\ cmdVel' = Tail(cmdVel)
  /\ UNCHANGED <<publishers, cmd, reg>>

_cmd_vel_callback ==
  /\ cmdVel # <<>>
  /\ plcRight' = Wheels!_ramp(plcRight, TargetOf[Head(cmdVel)][1])
  /\ plcLeft'  = Wheels!_ramp(plcLeft, TargetOf[Head(cmdVel)][2])
  /\ wheelCmdVel' = Queue(wheelCmdVel, Wheels!Limited(<<plcRight', plcLeft'>>), WheelDepth)
  /\ cmdVel' = Tail(cmdVel)
  /\ UNCHANGED <<publishers, cmd, reg>>

_cmd_callback ==
  /\ wheelCmdVel # <<>>
  /\ cmd' = <<Units(Head(wheelCmdVel)[1]), Units(Head(wheelCmdVel)[2])>>
  /\ wheelCmdVel' = Tail(wheelCmdVel)
  /\ UNCHANGED <<publishers, cmdVel, plcRight, plcLeft, reg>>

\* A cycle executes both writes, the first one only, or none.
_cycle_callback(writes) ==
  /\ reg' = CASE writes = 2 -> cmd
              [] writes = 1 -> <<cmd[1], reg[2]>>
              [] OTHER      -> reg
  /\ UNCHANGED <<nav, key, burst, alone, cmdVel, plcRight, plcLeft, wheelCmdVel, cmd>>

Next == \/ Goal \/ NavEnds \/ stop_nav \/ Release \/ TeleopTimer \/ TeleopEnds
        \/ \E v \in NavVels : NavDrives(v)
        \/ \E v \in KeyVels : Press(v)
        \/ \E times \in {CancelZeros, EstopZeros} : _handle_stop(times)
        \/ _zero_vel \/ _cmd_vel_callback \/ _cmd_callback
        \/ \E writes \in 0 .. 2 : _cycle_callback(writes)

Spec == Init /\ [][Next]_vars

\* Executors, timers and the network thread run; the PLC answers again and again.
FairSpec == /\ Spec
            /\ WF_vars(TeleopTimer) /\ WF_vars(_zero_vel)
            /\ WF_vars(_cmd_vel_callback) /\ WF_vars(_cmd_callback)
            /\ WF_vars(_cycle_callback(2))
-----------------------------------------------------------------------------
(* Properties                                                              *)

Vels == NavVels \cup KeyVels \cup {Zero}

TypeOK ==
  /\ nav \in {"idle", "driving", "killed"}
  /\ key \in KeyVels \cup {Zero, Off}
  /\ burst \in 0 .. CancelZeros \/ burst \in 0 .. EstopZeros
  /\ cmdVel \in Seq(Vels) /\ Len(cmdVel) <= CmdDepth
  /\ plcRight \in SpeedMin .. SpeedMax /\ plcLeft \in SpeedMin .. SpeedMax
  /\ wheelCmdVel \in Seq(Int \X Int) /\ Len(wheelCmdVel) <= WheelDepth
  /\ cmd \in (DriverMin .. DriverMax) \X (DriverMin .. DriverMax)
  /\ reg \in (DriverMin .. DriverMax) \X (DriverMin .. DriverMax)
  /\ alone \in BOOLEAN

\* m messages take the wheels from any speed that can be asked for to zero.
Covered(m) == \A v \in Vels, i \in {1, 2} : Wheels!Abs(TargetOf[v][i]) <= RampRate * m

\* An order of the parameters: a cancel, an e-stop and a full queue have enough zero
\* velocities for the speeds asked for. Nothing in the nodes enforces it; with the
\* ramp and the cruise speed of kinematics_params.yaml three are just enough.
EnoughZeros == Covered(CancelZeros) /\ Covered(EstopZeros) /\ Covered(CmdDepth)

\* The zero velocities of a cancel are enough: once they have passed through the
\* nodes, and nobody else asked for a velocity, the driver has zero for both motors,
\* from any speed Nav2 or the keys can have brought about and however many messages
\* the queues have lost.
StopReaches ==
  alone /\ burst = 0 /\ cmdVel = <<>> =>
    /\ plcRight = 0 /\ plcLeft = 0
    /\ wheelCmdVel = <<>> => cmd = Zero

\* The cycle of this module is one a driver with all its failures can stand in for:
\* both follow the command as MotorRegisters says (FollowsCommand of PlcDriver).
Registers == INSTANCE MotorRegisters WITH Speeds <- DriverMin .. DriverMax

CycleFollowsCommand == Registers!Spec

\* A stop nobody speaks against arrives at the registers.
StopArrives == (alone /\ burst = 0) ~> (reg = Zero \/ ~alone \/ burst > 0)

\* With no key held and nobody else on the topic teleoperation brings the robot to
\* rest: it repeats the zero velocity.
ReleaseStops ==
  <>[](key = Zero /\ nav # "driving") => <>[](reg = Zero)

\* What reaches the motors changes by plc_ramp_rate at most ("per tick, anti-trip").
RegisterRamp ==
  [][\A i \in {1, 2} : Wheels!Abs(reg'[i] - reg[i]) * Unit <= RampRate]_vars

\* "Navigation stopped." after stop_nav.sh
StopNavStops == nav = "killed" ~> (reg = Zero \/ nav # "killed")
=============================================================================
