----------------------------- MODULE TeleopChain -----------------------------
(***************************************************************************)
(* The command chain with manual_control_node as it is. CommandChain has   *)
(* one process with a velocity that is held; here are the two threads of   *)
(* Teleop, a node that is started again after its end, and what it         *)
(* publishes goes into the queue of /cmd_vel. ImplementsChain is what      *)
(* allows CommandChain to leave the threads out.                           *)
(***************************************************************************)
EXTENDS Sequences, Integers

CONSTANTS
  MaxLin, MaxRim, StopLin, StopRim, CruiseThreshold, PivotEps, Unit,
  SpeedMin, SpeedMax, CruiseMin, CruiseMax, PrecisionMax, Deadband,
  PivotMin, RampRate, DriverMin, DriverMax, NavVels, KeyVels,
  CancelZeros, EstopZeros, CmdDepth, WheelDepth, Off,  \* see CommandChain
  Moves, NoKey,                                        \* see Teleop
  Twist                                                \* the velocity of a key

VARIABLES
  nav, burst, cmdVel, plcRight, plcLeft, wheelCmdVel, cmd, reg, alone,  \* CommandChain
  main, k, keyboard, typed, _run, _key, _lock, ok, shown, quit          \* Teleop

Node == INSTANCE Teleop WITH Stop <- NoKey, key <- typed, cmdVel <- shown

\* For the chain a key is held from when the timer reads it until it reads another
\* one, and while the node may still publish.
held == IF main \in {"stopped", "gone"} THEN Off ELSE Twist[k]

Chain == INSTANCE CommandChain WITH key <- held

\* manual_control_node has one velocity for each key, and zero for no key.
TwistAssumption ==
  /\ Twist \in [Moves \cup {NoKey} -> KeyVels \cup {Chain!Zero}]
  /\ Twist[NoKey] = Chain!Zero

node  == <<main, k, keyboard, typed, _run, _key, _lock, ok, shown, quit>>
chain == <<nav, burst, cmdVel, plcRight, plcLeft, wheelCmdVel, cmd, reg, alone>>
vars  == <<chain, node>>
-----------------------------------------------------------------------------
\* At first there is no node, as after the end of one.
Init ==
  /\ main = "gone" /\ k = NoKey /\ keyboard = "done" /\ typed = NoKey
  /\ _run = FALSE /\ _key = NoKey /\ _lock = "nobody" /\ ok = FALSE
  /\ shown = NoKey /\ quit = FALSE
  /\ nav = "idle" /\ burst = 0 /\ cmdVel = <<>> /\ wheelCmdVel = <<>>
  /\ plcRight = 0 /\ plcLeft = 0 /\ cmd = Chain!Zero /\ reg = Chain!Zero
  /\ alone = FALSE

Start ==
  /\ main = "gone"
  /\ main' = "spin" /\ k' = NoKey /\ keyboard' = "loop" /\ typed' = NoKey
  /\ _run' = TRUE /\ _key' = NoKey /\ _lock' = "nobody" /\ ok' = TRUE
  /\ shown' = NoKey /\ quit' = FALSE
  /\ UNCHANGED chain

\* The timer and destroy_node publish while ROS is up.
Speak ==
  /\ ok
  /\ Node!_publish \/ Node!destroy_node
  /\ Chain!Publish(Twist[shown'])
  /\ UNCHANGED <<nav, burst, plcRight, plcLeft, wheelCmdVel, cmd, reg>>

\* Nothing else in the node goes out, publishing after a shutdown included.
Silent ==
  /\ \/ Node!Keyboard \/ Node!Timer \/ Node!ReadKey \/ Node!SpinEnds \/ Node!Exit
     \/ Node!Interrupt
     \/ ~ok /\ (Node!_publish \/ Node!destroy_node)
  /\ UNCHANGED chain

\* Nav2, the bridge, and the nodes behind the topic
Others ==
  /\ UNCHANGED node
  /\ \/ Chain!Goal \/ Chain!NavEnds \/ Chain!stop_nav
     \/ \E v \in NavVels : Chain!NavDrives(v)
     \/ \E times \in {CancelZeros, EstopZeros} : Chain!_handle_stop(times)
     \/ Chain!_zero_vel \/ Chain!_cmd_vel_callback \/ Chain!_cmd_callback
     \/ \E writes \in 0 .. 2 : Chain!_cycle_callback(writes)

Next == Start \/ Speak \/ Silent \/ Others

Spec == Init /\ [][Next]_vars
-----------------------------------------------------------------------------
(* Properties                                                              *)

\* Two threads are no more than one process to the command chain: a key overtaken by
\* the timer, an interrupt between reading a key and publishing it, and Q while a key
\* is held are presses, releases and ends of the teleoperation there.
ImplementsChain == Chain!Spec
=============================================================================
