----------------------------- MODULE HwInterface -----------------------------
(***************************************************************************)
(* polebot_hardware_interface.cpp: the plug-in through which a             *)
(* ros2_control controller manager drives the robot. The manager's thread  *)
(* calls configure, start, write and stop and reads the exported           *)
(* positions; a thread of the plug-in runs the executor that receives      *)
(* /wheel_ticks.                                                           *)
(*                                                                         *)
(* A position is the ticks a wheel was seen to travel, a velocity the      *)
(* ticks of the last message (before the division by dt). The constant     *)
(* factor from ticks to radians is left out, and so is hw_commands_, which *)
(* the same thread sets just before write reads it. Wheels are left,       *)
(* right; a message on /wheel_cmd_vel is right, left. state_mutex_ is      *)
(* taken by the callback only, so that nobody ever waits for it.           *)
(***************************************************************************)
EXTENDS Integers, Sequences

CONSTANTS
  TickBase,     \* 2^32: the counters count modulo TickBase
  MaxVel,       \* max_vel_rad_s_
  Commands,     \* wheel velocities the controller may ask for
  Steps,        \* how the two wheels can turn at a time
  FirstTicks,   \* counters the encoders may start with
  TopicDepth,   \* depth of the queue of /wheel_ticks
  Span,         \* bound: the wheels travel in -Span .. Span
  Short,        \* a message with fewer than two values
  None

ASSUME HwAssumption ==
  /\ TickBase \in Nat \ {0} /\ TickBase % 2 = 0
  /\ MaxVel \in Nat
  /\ Commands \subseteq Int \X Int /\ Steps \subseteq Int \X Int
  /\ FirstTicks \in Int \X Int
  /\ TopicDepth \in Nat \ {0}
  /\ Span \in Nat
  /\ None \notin Int \X Int /\ Short \notin (Int \X Int) \cup {None}

VARIABLES
  pc,                   \* where the manager's thread stands
  spinning_,            \* the flag the executor thread polls
  spin,                 \* where the executor thread stands
  msg,                  \* the message in its callback
  moved,                \* wheels the callback has moved
  hw_positions_, hw_velocities_,
  last_ticks_,          \* None while ~ticks_initialized_
  sent,                 \* the last message on /wheel_cmd_vel
  queue,                \* /wheel_ticks, as travel
  travel,               \* how far the wheels have really turned
  first, used           \* history: travel of the first and last message used

managerVars == <<pc, spinning_, sent>>
stateVars   == <<hw_positions_, hw_velocities_, last_ticks_, first, used>>
vars == <<managerVars, stateVars, spin, msg, moved, queue, travel>>

Zero == <<0, 0>>
Plus(a, b)  == <<a[1] + b[1], a[2] + b[2]>>
Minus(a, b) == <<a[1] - b[1], a[2] - b[2]>>

\* the uint32_t counters at a travel
Ticks(t) == <<(FirstTicks[1] + t[1]) % TickBase, (FirstTicks[2] + t[2]) % TickBase>>

sdelta(c, p) ==
  LET d == (c - p) % TickBase
  IN  IF d < TickBase \div 2 THEN d ELSE d - TickBase

Increment(t) == LET now == Ticks(t)
                IN  <<sdelta(now[1], last_ticks_[1]), sdelta(now[2], last_ticks_[2])>>

Abs(x) == IF x < 0 THEN -x ELSE x

\* x / max_vel_rad_s_ * 100, truncated and limited to -100 .. 100
Percent(x) == LET p == (Abs(x) * 100) \div MaxVel
              IN  CASE MaxVel = 0         -> 0
                    [] MaxVel # 0 /\ p > 100  -> IF x < 0 THEN -100 ELSE 100
                    [] OTHER              -> IF x < 0 THEN -p ELSE p
-----------------------------------------------------------------------------
Init ==
  /\ pc = "unconfigured" /\ spinning_ = FALSE /\ spin = "none" /\ msg = None
  /\ moved = {}
  /\ hw_positions_ = Zero /\ hw_velocities_ = Zero
  /\ last_ticks_ = None /\ first = None /\ used = None
  /\ sent = Zero /\ queue = <<>> /\ travel = Zero

\* With another number of joints it returns an error and nothing changes.
configure(joints) ==
  /\ pc \in {"unconfigured", "stopped"}
  /\ joints = 2
  /\ pc' = "stopped"
  /\ hw_positions_' = Zero /\ hw_velocities_' = Zero
  /\ last_ticks_' = IF last_ticks_ = None THEN None ELSE Zero
  /\ first' = None /\ used' = None
  /\ UNCHANGED <<moved, spinning_, spin, msg, sent, queue, travel>>

start ==
  /\ pc = "stopped"
  /\ hw_positions_' = Zero /\ hw_velocities_' = Zero
  /\ last_ticks_' = None /\ first' = None /\ used' = None
  /\ spinning_' = TRUE /\ spin' = "loop" /\ msg' = None /\ queue' = <<>>
  /\ pc' = "running"
  /\ UNCHANGED <<moved, sent, travel>>

\* The controller sets its commands and the manager calls write.
write(cmd) ==
  /\ pc = "running"
  /\ sent' = <<Percent(cmd[2]), Percent(cmd[1])>>
  /\ UNCHANGED <<moved, pc, spinning_, stateVars, spin, msg, queue, travel>>

StopZero_silent ==                                                   \* mutant
  /\ pc = "running"
  /\ pc' = "zeroed"
  /\ UNCHANGED <<moved, spinning_, sent, stateVars, spin, msg, queue, travel>>

\* stop, as far as the 100 ms it sleeps after the zero message
StopZero ==
  /\ pc = "running"
  /\ sent' = Zero
  /\ pc' = "zeroed"
  /\ UNCHANGED <<moved, spinning_, stateVars, spin, msg, queue, travel>>

StopFlag_forgotten ==                                                \* mutant
  /\ pc = "zeroed"
  /\ pc' = "joining"
  /\ UNCHANGED <<moved, spinning_, sent, stateVars, spin, msg, queue, travel>>

StopFlag ==
  /\ pc = "zeroed"
  /\ spinning_' = FALSE
  /\ pc' = "joining"
  /\ UNCHANGED <<moved, sent, stateVars, spin, msg, queue, travel>>

StopJoin_detach ==                                                   \* mutant
  /\ pc = "joining"
  /\ queue' = <<>>
  /\ pc' = "stopped"
  /\ UNCHANGED <<moved, spinning_, sent, stateVars, spin, msg, travel>>

\* join returns, node, subscription and publisher are destroyed
StopJoin ==
  /\ pc = "joining"
  /\ spin = "none"
  /\ queue' = <<>>
  /\ pc' = "stopped"
  /\ UNCHANGED <<moved, spinning_, sent, stateVars, spin, msg, travel>>
-----------------------------------------------------------------------------
(* The executor thread                                                     *)

\* while (spinning_.load()) spin_some(...)
Poll ==
  /\ spin = "loop"
  /\ spin' = IF spinning_ THEN "some" ELSE "none"
  /\ UNCHANGED <<moved, managerVars, stateVars, msg, queue, travel>>

\* spin_some has run for its 10 ms, or found nothing to do
Leave ==
  /\ spin = "some"
  /\ spin' = "loop"
  /\ UNCHANGED <<moved, managerVars, stateVars, msg, queue, travel>>

Take ==
  /\ spin = "some" /\ queue # <<>>
  /\ msg' = Head(queue) /\ queue' = Tail(queue)
  /\ spin' = "callback"
  /\ UNCHANGED <<moved, managerVars, stateVars, travel>>

\* too short, or no time has passed since the last message
Ignored ==
  /\ spin = "callback" /\ moved = {} /\ (msg = Short \/ last_ticks_ # None)
  /\ spin' = "some" /\ msg' = None
  /\ UNCHANGED <<moved, managerVars, stateVars, queue, travel>>

Baseline ==
  /\ spin = "callback" /\ msg # Short /\ last_ticks_ = None
  /\ last_ticks_' = Ticks(msg)
  /\ first' = msg /\ used' = msg
  /\ spin' = "some" /\ msg' = None
  /\ UNCHANGED <<moved, managerVars, hw_positions_, hw_velocities_, queue, travel>>

Move_other(w) ==                                                     \* mutant
  /\ spin = "callback" /\ msg # Short /\ last_ticks_ # None /\ w \notin moved
  /\ hw_positions_' = [hw_positions_ EXCEPT ![3 - w] = @ + Increment(msg)[3 - w]]
  /\ moved' = moved \cup {w}
  /\ UNCHANGED <<managerVars, hw_velocities_, last_ticks_, first, used, spin, msg, queue, travel>>

\* hw_positions_[w] += ...: the manager, which takes no mutex, may read between
\* the two stores, and may see them in either order
Move(w) ==
  /\ spin = "callback" /\ msg # Short /\ last_ticks_ # None /\ w \notin moved
  /\ hw_positions_' = [hw_positions_ EXCEPT ![w] = @ + Increment(msg)[w]]
  /\ moved' = moved \cup {w}
  /\ UNCHANGED <<managerVars, hw_velocities_, last_ticks_, first, used, spin, msg, queue, travel>>

Remember ==
  /\ spin = "callback" /\ moved = {1, 2}
  /\ hw_velocities_' = Increment(msg)
  /\ last_ticks_' = Ticks(msg) /\ used' = msg
  /\ spin' = "some" /\ msg' = None /\ moved' = {}
  /\ UNCHANGED <<managerVars, hw_positions_, first, queue, travel>>

ticks_callback == Ignored \/ Baseline \/ (\E w \in {1, 2} : Move(w)) \/ Remember
-----------------------------------------------------------------------------
(* The robot and the driver                                                *)

\* less than half of the counters' range apart
Near(t, u) == \A w \in {1, 2} : 2 * Abs(t[w] - u[w]) < TickBase

\* what the ticks of a later message may be compared with
Compared == IF pc \in {"unconfigured", "stopped"} THEN {}
            ELSE ({used, msg} \cup {queue[i] : i \in DOMAIN queue}) \ {None, Short}

\* The wheels never turn by half of the counters' range while the messages that
\* are under way wait, nor since the last one that was used; their whole travel
\* may be any number of ranges.
Turn(step) ==
  LET to == Plus(travel, step) IN
  /\ \A w \in {1, 2} : to[w] \in -Span .. Span
  /\ \A t \in Compared : Near(to, t)
  /\ travel' = to
  /\ UNCHANGED <<moved, managerVars, stateVars, spin, msg, queue>>

\* A full queue drops its oldest message, nobody subscribes before start.
Publish(m) ==
  /\ pc \notin {"unconfigured", "stopped"}
  /\ queue' = Append(IF Len(queue) < TopicDepth THEN queue ELSE Tail(queue), m)
  /\ UNCHANGED <<moved, managerVars, stateVars, spin, msg, travel>>

Manager == \/ \E joints \in 1 .. 2 : configure(joints)
           \/ start \/ StopZero \/ StopFlag \/ StopJoin
           \/ \E cmd \in Commands : write(cmd)

Executor == Poll \/ Leave \/ Take \/ ticks_callback

Next == \/ Manager \/ Executor
        \/ \E step \in Steps : Turn(step)
        \/ \E m \in {travel, Short} : Publish(m)

Spec == Init /\ [][Next]_vars

\* The thread is scheduled, spin_some ends after 10 ms, a stop that has begun
\* goes on.
FairSpec == /\ Spec
            /\ WF_vars(Poll) /\ SF_vars(Leave) /\ WF_vars(ticks_callback)
            /\ WF_vars(StopFlag) /\ WF_vars(StopJoin)
-----------------------------------------------------------------------------
(* Properties                                                              *)

Travels == (-Span .. Span) \X (-Span .. Span)
Ints    == Int \X Int
Counters == (0 .. TickBase - 1) \X (0 .. TickBase - 1)

TypeOK ==
  /\ pc \in {"unconfigured", "stopped", "running", "zeroed", "joining"}
  /\ spinning_ \in BOOLEAN
  /\ spin \in {"none", "loop", "some", "callback"}
  /\ msg \in Travels \cup {Short, None} /\ moved \subseteq {1, 2}
  /\ hw_positions_ \in Ints /\ hw_velocities_ \in Ints
  /\ last_ticks_ \in Counters \cup {None}
  /\ sent \in (-100 .. 100) \X (-100 .. 100)
  /\ queue \in Seq(Travels \cup {Short}) /\ Len(queue) <= TopicDepth
  /\ travel \in Travels
  /\ first \in Travels \cup {None} /\ used \in Travels \cup {None}

\* What the controller can read without the mutex, at any time, is for each wheel
\* the distance from the first message to the last one used, or to the message in
\* the callback.  Counters that wrap around, however often, and messages that were
\* lost, short or without a time step leave no error, and a reader sees no distance
\* that the wheel did not travel.
ReadablePositions ==
  used # None =>
    \A w \in {1, 2} :
      hw_positions_[w] = (IF w \in moved THEN msg[w] ELSE used[w]) - first[w]

\* The motors are at zero when stop has returned ("motor di-nol").
StopZeroes == pc = "stopped" => sent = Zero

\* Nothing moves behind the manager's back after stop: no callback of the old
\* thread runs into the next start.
StoppedIsQuiet == [][pc = "stopped" => UNCHANGED spin \/ pc' = "running"]_vars

\* stop returns, whatever the executor thread is doing when it is called.
StopReturns == pc = "zeroed" ~> pc = "stopped"
=============================================================================
