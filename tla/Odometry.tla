------------------------------ MODULE Odometry ------------------------------
(***************************************************************************)
(* The /wheel_ticks callback of kinematics_node.py: from the encoder       *)
(* counters of the PLC, which wrap around, to the odometry.                *)
(*                                                                         *)
(* The pose is kept as the ticks each wheel was seen to travel, which give *)
(* the heading; x and y depend on the order of the increments as well and  *)
(* are left out, as are the float conversions from ticks to metres.  The   *)
(* twist is the increment, before its division by dt.  _jump_count is left *)
(* out: nothing but its own reset reads it.                                *)
(***************************************************************************)
EXTENDS SlmpWords, Sequences

CONSTANTS
  JumpTicks,      \* jump_filter_m in ticks
  TopicDepth,     \* depth of the queue of /wheel_ticks
  Steps,          \* how the two wheels can turn at a time
  FirstCounters,  \* counters the encoders may start with
  Span,           \* bound: the wheels travel in -Span .. Span
  MaxResets,      \* bound: how often the PLC may lose its counters
  None

ASSUME OdometryAssumption ==
  /\ JumpTicks \in Nat \ {0} /\ JumpTicks <= U32Base \div 2
  /\ TopicDepth \in Nat \ {0}
  /\ Steps \subseteq Int \X Int
  /\ FirstCounters \subseteq U32 \X U32
  /\ Span \in Nat /\ MaxResets \in Nat
  /\ None \notin Int \X Int

Wheel == {1, 2}    \* in /wheel_ticks: left, right

VARIABLES
  travel,     \* how far the wheels have really turned
  counters,   \* the encoder counters in the PLC
  queue,      \* /wheel_ticks: what the driver read, and the travel it stands for
  lastTicks,  \* _last_left_ticks, _last_right_ticks
  pose,       \* the travel in _x, _y, _yaw
  odom,       \* the last message on /odom
  origin, lastTravel,   \* history: the travel of the first and last message used
  resets      \* history: how often the PLC lost its counters

nodeVars == <<lastTicks, pose, odom, origin, lastTravel>>
vars == <<travel, counters, queue, nodeVars, resets>>

NoMotion == <<0, 0>>
Plus(a, b)  == <<a[1] + b[1], a[2] + b[2]>>
Minus(a, b) == <<a[1] - b[1], a[2] - b[2]>>
Abs(x)      == IF x < 0 THEN -x ELSE x
Near(a, b)  == \A w \in Wheel : Abs(a[w] - b[w]) < JumpTicks

Increment_plain(now, before) == Minus(now, before)                 \* mutant
\* the difference of two readings, as the callback computes it
Increment(now, before) == <<SignedDelta(now[1], before[1]), SignedDelta(now[2], before[2])>>

IsJump_off(inc) == FALSE                                           \* mutant
IsJump(inc) == \E w \in Wheel : Abs(inc[w]) >= JumpTicks
-----------------------------------------------------------------------------
Init ==
  /\ travel = NoMotion /\ counters \in FirstCounters
  /\ queue = <<>> /\ lastTicks = None /\ pose = NoMotion
  /\ odom = [pose |-> NoMotion, twist |-> NoMotion]
  /\ origin = None /\ lastTravel = None /\ resets = 0

\* The wheels never turn by jump_filter_m (5 m) while the messages that are
\* under way wait, nor since the last one that was used.
Turn(step) ==
  LET to == Plus(travel, step) IN
  /\ \A w \in Wheel : to[w] \in -Span .. Span
  /\ \A i \in DOMAIN queue : Near(to, queue[i].travel)
  /\ lastTravel # None => Near(to, lastTravel)
  /\ travel' = to
  /\ counters' = <<(counters[1] + step[1]) % U32Base, (counters[2] + step[2]) % U32Base>>
  /\ UNCHANGED <<queue, nodeVars, resets>>

\* The PLC loses power: the counters start again from zero.
Reset ==
  /\ resets < MaxResets
  /\ counters' = <<0, 0>> /\ resets' = resets + 1
  /\ UNCHANGED <<travel, queue, nodeVars>>

\* The driver reads the counters and publishes them.  A full queue drops its
\* oldest message, a driver that is down publishes nothing.
Publish ==
  /\ queue' = Append(IF Len(queue) < TopicDepth THEN queue ELSE Tail(queue),
                     [ticks |-> counters, travel |-> travel])
  /\ UNCHANGED <<travel, counters, nodeVars, resets>>

\* dt <= 0: the wall clock was set back
Ignored == UNCHANGED nodeVars

Baseline(msg) ==
  /\ lastTicks' = msg.ticks
  /\ origin' = msg.travel /\ lastTravel' = msg.travel
  /\ UNCHANGED <<pose, odom>>

Jump(msg) ==
  /\ lastTicks' = msg.ticks
  /\ odom' = [pose |-> pose, twist |-> NoMotion]
  /\ lastTravel' = msg.travel
  /\ UNCHANGED <<pose, origin>>

Integrate_early(msg) ==                                            \* mutant
  LET inc == Increment(msg.ticks, lastTicks) IN
  /\ pose' = Plus(pose, inc)
  /\ odom' = [pose |-> pose, twist |-> inc]
  /\ lastTicks' = msg.ticks
  /\ lastTravel' = msg.travel
  /\ UNCHANGED origin

Integrate(msg) ==
  LET inc == Increment(msg.ticks, lastTicks) IN
  /\ pose' = Plus(pose, inc)
  /\ odom' = [pose |-> pose', twist |-> inc]
  /\ lastTicks' = msg.ticks
  /\ lastTravel' = msg.travel
  /\ UNCHANGED origin

_ticks_callback ==
  /\ queue # <<>>
  /\ queue' = Tail(queue)
  /\ LET msg == Head(queue) IN
     \/ lastTicks = None /\ Baseline(msg)
     \/ lastTicks # None /\ Ignored
     \/ lastTicks # None /\ IsJump(Increment(msg.ticks, lastTicks)) /\ Jump(msg)
     \/ lastTicks # None /\ ~IsJump(Increment(msg.ticks, lastTicks)) /\ Integrate(msg)
  /\ UNCHANGED <<travel, counters, resets>>

\* kinematics_node is started again
Restart ==
  /\ queue' = <<>> /\ lastTicks' = None /\ pose' = NoMotion
  /\ odom' = [pose |-> NoMotion, twist |-> NoMotion]
  /\ origin' = None /\ lastTravel' = None
  /\ UNCHANGED <<travel, counters, resets>>

Next == \/ \E step \in Steps : Turn(step)
        \/ Reset \/ Publish \/ _ticks_callback \/ Restart

Spec == Init /\ [][Next]_vars
-----------------------------------------------------------------------------
(* Properties                                                              *)

Reading == [ticks : U32 \X U32, travel : Int \X Int]

TypeOK ==
  /\ travel \in Int \X Int /\ counters \in U32 \X U32
  /\ queue \in Seq(Reading) /\ Len(queue) <= TopicDepth
  /\ lastTicks \in (U32 \X U32) \cup {None}
  /\ pose \in Int \X Int /\ odom \in [pose : Int \X Int, twist : S32 \X S32]
  /\ origin \in (Int \X Int) \cup {None} /\ lastTravel \in (Int \X Int) \cup {None}
  /\ resets \in 0 .. MaxResets

\* The odometry is off by less than two jumps for each time the PLC lost its
\* counters, and by nothing otherwise: neither a counter that wraps around, nor a
\* message that was dropped or ignored leaves a trace.
Drift ==
  origin # None =>
    \A w \in Wheel :
      Abs(pose[w] - (lastTravel[w] - origin[w])) <= 2 * JumpTicks * resets

\* The twist published is the change of the pose published, so that a consumer
\* that integrates one agrees with a consumer of the other.
TwistIsChange ==
  [][odom' # odom /\ origin' # None => odom'.pose = Plus(odom.pose, odom'.twist)]_vars

Travels(q) == [i \in 1 .. Len(q) |-> q[i].travel]
Abstract == INSTANCE Odometer WITH samples <- Travels(queue), shown <- pose

\* Until the PLC loses its counters this is the odometer one would like to have:
\* every behaviour of the node is one of Odometer up to the first reset.
Implements ==
  Abstract!Init /\ [][resets' = 0 => [Abstract!Next]_(Abstract!vars)]_vars
=============================================================================
