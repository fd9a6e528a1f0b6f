------------------------------ MODULE PlcDriver ------------------------------
(***************************************************************************)
(* plc_driver_node.py: the only node that talks to the Mitsubishi PLC.     *)
(*                                                                         *)
(* The node's executor runs one callback at a time.  The cycle callback is *)
(* split at its requests, because between two of them the PLC runs its own *)
(* program, time passes, the link may break and the process may be         *)
(* interrupted or killed.  A request is answered when the PLC is reachable *)
(* and still holds the session of this socket.  During an outage it raises *)
(* an exception and the PLC may or may not have executed it before.        *)
(*                                                                         *)
(* Time is a number of ticks.  The code compares times only in             *)
(* now >= _next_reconnect, so the model keeps the differences, counted up  *)
(* to ReconnectS: backoff is _next_reconnect - time.time(), elapsed is the *)
(* age of the local variable now.                                          *)
(***************************************************************************)
EXTENDS SlmpWords, Sequences

CONSTANTS
  SpeedMin, SpeedMax,   \* parameters speed_min, speed_max
  Scale,                \* a float in /wheel_cmd_vel is a multiple of 1/Scale
  CmdMsgs,              \* the data of a /wheel_cmd_vel message: <<right, left>>
  EncoderReads,         \* readings of one encoder: <<low word, high word>>
  JumpTicks,            \* parameter jump_filter_m, as a number of ticks
  ReconnectS,           \* parameter reconnect_s, in clock ticks
  None

ASSUME DriverAssumption ==
  /\ SpeedMin \in S32 /\ SpeedMax \in S32
  /\ SpeedMin <= 0 /\ 0 <= SpeedMax
  /\ Scale \in Nat \ {0}
  /\ CmdMsgs \subseteq Seq(Int)
  /\ EncoderReads \subseteq Word \X Word
  /\ JumpTicks \in Nat
  /\ ReconnectS \in Nat \ {0}
  /\ None \notin U32 \X U32
  /\ None \notin BOOLEAN

VARIABLES
  \* attributes of the node
  cmdRight, cmdLeft,    \* _cmd_right, _cmd_left: the last accepted command
  lastTicks,            \* _last_left_ticks, _last_right_ticks
  plcConnected,         \* _plc_connected
  backoff,              \* time left until _next_reconnect
  hbBit,                \* _hb_bit
  sockOpen,             \* _client has a connected socket
  \* control and locals of the running callback
  pc, out, elapsed,     \* where it stands; <<out_r, out_l>>; age of now
  \* topics
  statusTopic, ticksTopic,
  \* the PLC and the link (external)
  plc,                  \* command registers and relays
  session,              \* its one connection: "none", "current" (the driver's),
                        \* "orphan" (the driver closed it, the PLC does not know
                        \* yet), "stuck" (left behind by a dead driver)
  reachable,            \* the link is up and the PLC answers
  \* history, read by properties only
  synced,               \* a cycle has completed on this connection
  failed, sinceFail     \* kind of the last failure, and its age

nodeVars == <<cmdRight, cmdLeft, lastTicks, plcConnected, backoff, hbBit>>
extVars  == <<session, reachable>>
histVars == <<synced, failed, sinceFail>>
vars == <<nodeVars, sockOpen, pc, out, elapsed, statusTopic, ticksTopic,
          plc, extVars, histVars>>

CyclePc    == {"connect", "read", "write_right", "write_left", "heartbeat",
               "servo_lock"}
ShutdownPc == {"zero_right", "zero_left", "release_servo", "close"}
AlivePc    == {"init", "spin"} \cup CyclePc \cup ShutdownPc
DownPc     == {"closed", "stopped", "killed"}

Bit       == {0, 1}
ZeroWords == <<0, 0>>
Speed     == SpeedMin .. SpeedMax
Cold      == [right |-> ZeroWords, left |-> ZeroWords,
              hb |-> 0, enable |-> 0, servo |-> 0]
PlcState  == [right : Word \X Word, left : Word \X Word,
              hb : Bit, enable : Bit, servo : Bit]
AtRest(p) == p.right = ZeroWords /\ p.left = ZeroWords

Running == pc \notin ShutdownPc \cup DownPc
-----------------------------------------------------------------------------
(* Conversions of the callbacks                                            *)

Clamp(x, lo, hi) == IF x < lo THEN lo ELSE IF x > hi THEN hi ELSE x

\* int(x) of a float x / Scale: truncation towards zero
Truncated(x) == IF x >= 0 THEN x \div Scale ELSE -((-x) \div Scale)

ToSpeed(x) == Truncated(Clamp(x, SpeedMin * Scale, SpeedMax * Scale))

Magnitude(d) == IF d < 0 THEN -d ELSE d

\* the test that logs "[ JUMP ] ... cycle ignored" and does nothing else
JumpDetected(before, now) ==
  \E i \in {1, 2} : Magnitude(SignedDelta(now[i], before[i])) >= JumpTicks
-----------------------------------------------------------------------------
(* Requests.  Each operator is the PLC's state after it executed one.      *)

RightWritten  == [plc EXCEPT !.right = speed_to_mc_words(out[1])]
LeftWritten_rightHead  == [plc EXCEPT !.right = speed_to_mc_words(out[2])] \* mutant
HeartbeatSent_constant == [plc EXCEPT !.hb = 1, !.enable = 1]              \* mutant
LeftZeroed_rightHead   == [plc EXCEPT !.right = ZeroWords]                 \* mutant
LeftWritten   == [plc EXCEPT !.left  = speed_to_mc_words(out[2])]
HeartbeatSent == [plc EXCEPT !.hb = hbBit, !.enable = 1]
ServoLocked   == [plc EXCEPT !.servo = 1]
RightZeroed   == [plc EXCEPT !.right = ZeroWords]
LeftZeroed    == [plc EXCEPT !.left  = ZeroWords]
ServoReleased == [plc EXCEPT !.servo = 0]

\* the PLC reads this socket; it also answers
Delivered == sockOpen /\ session = "current"
Answered  == Delivered /\ reachable

\* what a request that is not answered can leave behind
Unanswered(after) == /\ ~Answered
                     /\ plc' \in IF Delivered THEN {plc, after} ELSE {plc}

\* the request the callback is waiting for, executed or not, when the
\* callback is abandoned there
InFlight ==
  CASE pc = "write_right"   -> {plc, RightWritten}
    [] pc = "write_left"    -> {plc, LeftWritten}
    [] pc = "heartbeat"     -> {plc, HeartbeatSent}
    [] pc = "servo_lock"    -> {plc, ServoLocked}
    [] pc = "zero_right"    -> {plc, RightZeroed}
    [] pc = "zero_left"     -> {plc, LeftZeroed}
    [] pc = "release_servo" -> {plc, ServoReleased}
    [] OTHER                -> {plc}
Abandoned == plc' \in IF Delivered THEN InFlight ELSE {plc}

\* _client.close()
Closed == session' = IF session = "current" THEN "orphan" ELSE session

\* the process ended and closed nothing
LeftBehind == session' = IF session = "none" THEN "none" ELSE "stuck"
-----------------------------------------------------------------------------
(* The process                                                             *)

\* The first run may find a PLC that was left with any command: by a driver
\* that was killed, for instance.
Init ==
  /\ cmdRight = 0 /\ cmdLeft = 0 /\ lastTicks = None
  /\ plcConnected = FALSE /\ backoff = 0 /\ hbBit = 0
  /\ sockOpen = FALSE /\ pc = "init" /\ out = <<0, 0>> /\ elapsed = 0
  /\ statusTopic = None /\ ticksTopic = None
  /\ plc \in {Cold} \cup
             [right : {speed_to_mc_words(s) : s \in Speed},
              left  : {speed_to_mc_words(s) : s \in Speed},
              hb : Bit, enable : {1}, servo : {1}]
  /\ session \in {"none", "stuck"} /\ reachable \in BOOLEAN
  /\ synced = FALSE /\ failed = "never" /\ sinceFail = ReconnectS

CmdCallback(msg) ==
  /\ pc = "spin"
  /\ Len(msg) >= 2
  /\ cmdRight' = ToSpeed(msg[1])
  /\ cmdLeft'  = ToSpeed(msg[2])
  /\ UNCHANGED <<lastTicks, plcConnected, backoff, hbBit, sockOpen, pc, out,
                 elapsed, statusTopic, ticksTopic, plc, extVars, histVars>>

\* _try_connect.  The PLC accepts one connection and refuses the next.
ConnectAccepted ==
  /\ reachable /\ session = "none"
  /\ sockOpen' = TRUE /\ session' = "current"
  /\ plcConnected' = TRUE /\ backoff' = 0
  /\ UNCHANGED <<failed, sinceFail>>

\* mutant: a refused connection does not postpone the next one
ConnectRefused_noBackoff ==
  /\ ~(reachable /\ session = "none")
  /\ plcConnected' = FALSE /\ UNCHANGED backoff
  /\ failed' = "connect" /\ sinceFail' = 0
  /\ UNCHANGED <<sockOpen, session>>

ConnectRefused ==
  /\ ~(reachable /\ session = "none")
  /\ plcConnected' = FALSE /\ backoff' = ReconnectS
  /\ failed' = "connect" /\ sinceFail' = 0
  /\ UNCHANGED <<sockOpen, session>>

\* the rest of the cycle up to its first request
PublishStatus ==
  /\ statusTopic' = plcConnected'
  /\ IF plcConnected' THEN pc' = "read" /\ out' = <<cmdRight, cmdLeft>>
                      ELSE pc' = "spin" /\ UNCHANGED out

\* The constructor connects before the timer exists.
InitConnect ==
  /\ pc = "init"
  /\ ConnectAccepted \/ ConnectRefused
  /\ pc' = "spin" /\ synced' = FALSE
  /\ UNCHANGED <<cmdRight, cmdLeft, lastTicks, hbBit, out, elapsed,
                 statusTopic, ticksTopic, plc, reachable>>

\* mutant: the old socket is not closed
CycleReconnect_leak ==
  /\ pc = "spin"
  /\ ~plcConnected /\ backoff = 0
  /\ pc' = "connect" /\ elapsed' = 0
  /\ UNCHANGED <<nodeVars, sockOpen, out, statusTopic, ticksTopic, plc, extVars,
                 histVars>>

\* _try_reconnect_if_needed with the retry due: the old socket is closed
CycleReconnect ==
  /\ pc = "spin"
  /\ ~plcConnected /\ backoff = 0
  /\ sockOpen' = FALSE /\ Closed
  /\ pc' = "connect" /\ elapsed' = 0
  /\ UNCHANGED <<nodeVars, out, statusTopic, ticksTopic, plc, reachable,
                 histVars>>

Reconnect ==
  /\ pc = "connect"
  /\ ConnectAccepted \/ ConnectRefused
  /\ PublishStatus /\ synced' = FALSE
  /\ UNCHANGED <<cmdRight, cmdLeft, lastTicks, hbBit, elapsed, ticksTopic,
                 plc, reachable>>

\* a cycle with nothing to reconnect, or too early for it
CycleStart ==
  /\ pc = "spin"
  /\ plcConnected \/ backoff > 0
  /\ elapsed' = 0
  /\ UNCHANGED <<plcConnected, backoff>> /\ PublishStatus
  /\ UNCHANGED <<cmdRight, cmdLeft, lastTicks, hbBit, sockOpen, ticksTopic,
                 plc, extVars, histVars>>

\* mutant: the failure is not noted
CycleError_ignored ==
  /\ pc' = "spin"
  /\ synced' = FALSE /\ failed' = "cycle" /\ sinceFail' = 0
  /\ UNCHANGED <<nodeVars, sockOpen, out, elapsed, statusTopic, ticksTopic,
                 extVars>>

\* except Exception of the cycle: now is still the time the cycle started
CycleError ==
  /\ plcConnected' = FALSE
  /\ backoff' = ReconnectS - elapsed
  /\ pc' = "spin"
  /\ synced' = FALSE /\ failed' = "cycle" /\ sinceFail' = 0
  /\ UNCHANGED <<cmdRight, cmdLeft, lastTicks, hbBit, sockOpen, out, elapsed,
                 statusTopic, ticksTopic, extVars>>

\* Both encoders are in one answer.  A jump is logged and changes nothing.
ReadEncoders ==
  /\ pc = "read"
  /\ \/ /\ Answered
        /\ \E left, right \in EncoderReads :
             lastTicks' = <<u16pair_to_u32(left[1], left[2]),
                            u16pair_to_u32(right[1], right[2])>>
        /\ ticksTopic' = lastTicks'
        /\ pc' = "write_right"
        /\ UNCHANGED <<cmdRight, cmdLeft, plcConnected, backoff, hbBit,
                       sockOpen, out, elapsed, statusTopic, plc, extVars,
                       histVars>>
     \/ Unanswered(plc) /\ CycleError

\* one batch write of the cycle: the next request, or the except clause
Written(after, next) ==
  \/ /\ Answered
     /\ plc' = after /\ pc' = next
     /\ UNCHANGED <<nodeVars, sockOpen, out, elapsed, statusTopic, ticksTopic,
                    extVars, histVars>>
  \/ Unanswered(after) /\ CycleError

WriteRight == pc = "write_right" /\ Written(RightWritten, "write_left")
WriteLeft  == pc = "write_left"  /\ Written(LeftWritten, "heartbeat")
Heartbeat  == pc = "heartbeat"   /\ Written(HeartbeatSent, "servo_lock")

ServoLock ==
  /\ pc = "servo_lock"
  /\ \/ /\ Answered
        /\ plc' = ServoLocked /\ pc' = "spin"
        /\ hbBit' = 1 - hbBit /\ plcConnected' = TRUE
        /\ synced' = TRUE
        /\ UNCHANGED <<cmdRight, cmdLeft, lastTicks, backoff, sockOpen, out,
                       elapsed, statusTopic, ticksTopic, extVars, failed,
                       sinceFail>>
     \/ Unanswered(ServoLocked) /\ CycleError
-----------------------------------------------------------------------------
(* destroy_node: the first exception skips what is left of the shutdown    *)

\* mutant: every request has an except clause of its own
ShutdownStep_each(after, next) ==
  /\ pc' = next
  /\ \/ Answered /\ plc' = after
     \/ Unanswered(after)
  /\ UNCHANGED <<nodeVars, sockOpen, out, elapsed, statusTopic, ticksTopic,
                 extVars, histVars>>

ShutdownStep(after, next) ==
  /\ \/ Answered /\ plc' = after /\ pc' = next /\ UNCHANGED <<sockOpen, session>>
     \/ Unanswered(after) /\ pc' = "stopped" /\ sockOpen' = FALSE /\ LeftBehind
  /\ UNCHANGED <<nodeVars, out, elapsed, statusTopic, ticksTopic, reachable,
                 histVars>>

ZeroRight    == pc = "zero_right"    /\ ShutdownStep(RightZeroed, "zero_left")
ZeroLeft     == pc = "zero_left"     /\ ShutdownStep(LeftZeroed, "release_servo")
ReleaseServo == pc = "release_servo" /\ ShutdownStep(ServoReleased, "close")

Close ==
  /\ pc = "close"
  /\ pc' = "closed" /\ sockOpen' = FALSE /\ Closed
  /\ UNCHANGED <<nodeVars, out, elapsed, statusTopic, ticksTopic, plc,
                 reachable, histVars>>

\* KeyboardInterrupt, anywhere in main.  It is no Exception, so the except
\* clause of the cycle does not see it; in the constructor, outside main's try,
\* it ends the process without destroy_node.
Interrupt ==
  /\ pc \in {"init", "spin"} \cup CyclePc
  /\ pc' = IF pc = "init" THEN "stopped" ELSE "zero_right"
  /\ Abandoned
  /\ UNCHANGED <<nodeVars, sockOpen, out, elapsed, statusTopic, ticksTopic,
                 extVars, histVars>>

\* SIGKILL or a power cut, and a second KeyboardInterrupt inside destroy_node
Kill ==
  /\ pc \in AlivePc
  /\ pc' = "killed" /\ sockOpen' = FALSE /\ LeftBehind /\ Abandoned
  /\ UNCHANGED <<nodeVars, out, elapsed, statusTopic, ticksTopic, reachable,
                 histVars>>

Restart ==
  /\ pc \in DownPc
  /\ pc' = "init"
  /\ cmdRight' = 0 /\ cmdLeft' = 0 /\ lastTicks' = None
  /\ plcConnected' = FALSE /\ backoff' = 0 /\ hbBit' = 0
  /\ out' = <<0, 0>> /\ elapsed' = 0
  /\ failed' = "never" /\ sinceFail' = ReconnectS /\ synced' = FALSE
  /\ UNCHANGED <<sockOpen, statusTopic, ticksTopic, plc, extVars>>
-----------------------------------------------------------------------------
(* The link, the PLC and the clock                                         *)

linkUnchanged == UNCHANGED <<nodeVars, sockOpen, pc, out, elapsed,
                             statusTopic, ticksTopic, histVars>>

Outage  == reachable /\ reachable' = FALSE /\ UNCHANGED <<plc, session>> /\ linkUnchanged
Recover == ~reachable /\ reachable' = TRUE /\ UNCHANGED <<plc, session>> /\ linkUnchanged

\* the PLC forgets a connection: the one it lost, one the driver closed, or, if it
\* is lucky, one that a dead driver left
PlcFrees ==
  /\ session \in {"orphan", "stuck"} \/ (session = "current" /\ ~reachable)
  /\ session' = "none"
  /\ UNCHANGED <<plc, reachable>> /\ linkUnchanged

PlcRestart ==
  /\ ~reachable
  /\ plc' = Cold /\ session' = "none"
  /\ UNCHANGED reachable /\ linkUnchanged

Older(n) == IF n < ReconnectS THEN n + 1 ELSE ReconnectS

Tick ==
  /\ pc \in AlivePc
  /\ backoff' = IF backoff > 0 THEN backoff - 1 ELSE 0
  /\ elapsed' = IF pc \in CyclePc THEN Older(elapsed) ELSE elapsed
  /\ sinceFail' = Older(sinceFail)
  /\ UNCHANGED <<cmdRight, cmdLeft, lastTicks, plcConnected, hbBit, sockOpen,
                 pc, out, statusTopic, ticksTopic, plc, extVars, synced, failed>>
-----------------------------------------------------------------------------
Cycle == \/ CycleReconnect \/ Reconnect \/ CycleStart
         \/ ReadEncoders \/ WriteRight \/ WriteLeft \/ Heartbeat \/ ServoLock

Shutdown == ZeroRight \/ ZeroLeft \/ ReleaseServo \/ Close

Environment == Outage \/ Recover \/ PlcFrees \/ PlcRestart \/ Tick

Next == \/ \E msg \in CmdMsgs : CmdCallback(msg)
        \/ InitConnect \/ Cycle \/ Shutdown
        \/ Interrupt \/ Kill \/ Restart
        \/ Environment

Spec == Init /\ [][Next]_vars

\* The executor keeps serving the timer and a request returns or times out;
\* time passes; a PLC that can be reached ends up freeing a connection the driver
\* has closed.  It may keep the one of a driver that crashed until its power is
\* cycled (README.md, Troubleshooting: "The PLC socket is stuck ... from a previous
\* crash").  Nothing is promised about power cycles, commands, interrupts, kills,
\* restarts or outages.
Fairness == /\ WF_vars(InitConnect) /\ WF_vars(Cycle) /\ WF_vars(Shutdown)
            /\ WF_vars(Tick)
            /\ WF_vars(session = "orphan" /\ reachable /\ PlcFrees)

FairSpec == Spec /\ Fairness
-----------------------------------------------------------------------------
(* Properties                                                              *)

TypeOK ==
  /\ cmdRight \in Speed /\ cmdLeft \in Speed
  /\ lastTicks \in (U32 \X U32) \cup {None}
  /\ plcConnected \in BOOLEAN /\ backoff \in 0 .. ReconnectS /\ hbBit \in Bit
  /\ sockOpen \in BOOLEAN
  /\ pc \in AlivePc \cup DownPc
  /\ out \in Speed \X Speed /\ elapsed \in 0 .. ReconnectS
  /\ statusTopic \in BOOLEAN \cup {None}
  /\ ticksTopic \in (U32 \X U32) \cup {None}
  /\ plc \in PlcState
  /\ session \in {"none", "current", "orphan", "stuck"} /\ reachable \in BOOLEAN
  /\ synced \in BOOLEAN /\ failed \in {"never", "connect", "cycle"}
  /\ sinceFail \in 0 .. ReconnectS

\* Between cycles of a connection whose last cycle completed, both motors have
\* the speeds of one snapshot of the command and the drive is enabled: no cycle
\* of _cycle_callback leaves one wheel behind.
RegistersMatch ==
  synced /\ session = "current" /\ pc = "spin" =>
    /\ <<MotorSpeed(plc.right), MotorSpeed(plc.left)>> = out
    /\ plc.enable = 1 /\ plc.servo = 1

\* destroy_node reports a safe stop ("Koneksi ditutup dengan aman") only when
\* both motors have the zero speed and the servo is released, whatever the
\* interrupted cycle, the link and the PLC did before.
SafeShutdown == pc = "closed" => AtRest(plc) /\ plc.servo = 0

\* The servo of a motor that was told to turn is never released: destroy_node
\* zeroes both motors first, and a PLC that lost power starts at rest.
ServoReleasedAtRest ==
  [][plc.servo = 1 /\ plc'.servo = 0 => AtRest(plc')]_vars

\* After a completed cycle the next heartbeat shows the PLC the other bit, on
\* any connection: a failed cycle may repeat the bit, a completed one may not.
HeartbeatToggles ==
  [][synced /\ pc = "heartbeat" /\ pc' = "servo_lock" => plc'.hb # plc.hb]_vars

\* A connection that was refused is retried no sooner than reconnect_s later.
RetrySpacing ==
  [][pc = "spin" /\ pc' = "connect" /\ failed = "connect"
       => sinceFail = ReconnectS]_vars

\* To the rest of the command chain the driver is two registers that follow the
\* command, the right one first: no request, answered, lost or under way when the
\* process ends, and no shutdown, restart or power cycle of the PLC leaves anything
\* else in them.
command == IF Running THEN <<cmdRight, cmdLeft>> ELSE <<0, 0>>
motors  == <<MotorSpeed(plc.right), MotorSpeed(plc.left)>>

Registers == INSTANCE MotorRegisters WITH Speeds <- Speed, cmd <- command, reg <- motors

FollowsCommand == Registers!Spec

\* Once the PLC stays reachable the driver completes cycles again, whatever
\* connection, session or backoff it was left with after outages, failed cycles and
\* restarts of its own.  Only a PLC that keeps the session of a driver that died is
\* in its way, and nothing but the PLC can end that.
Recovers == <>[](reachable /\ Running) => []<>synced \/ <>[](session = "stuck")

\* A command that stays is the speed both motors end up with, for good, unless the
\* PLC keeps the session of a driver that died.
Commands == {<<0, 0>>} \cup {<<ToSpeed(m[1]), ToSpeed(m[2])>> :
                               m \in {m \in CmdMsgs : Len(m) >= 2}}
CommandDelivered ==
  \A c \in Commands :
    <>[](reachable /\ Running /\ <<cmdRight, cmdLeft>> = c)
      => \/ <>[](<<MotorSpeed(plc.right), MotorSpeed(plc.left)>> = c)
         \/ <>[](session = "stuck")

\* Once the PLC stays unreachable, /plc_status ends up saying so for good.
DisconnectReported == <>[](~reachable /\ Running) => <>[](statusTopic = FALSE)
-----------------------------------------------------------------------------
(* What the documentation says and the code does not do                    *)

\* README.md: "Atomic Batch Write to ensure Left & Right motor speeds enter
\* PLC memory simultaneously".
AtomicPair ==
  [][pc = "write_right" /\ plc'.right # plc.right
       => plc'.left = speed_to_mc_words(out[2])]_vars

\* README.md: "Auto-reconnect with 2.0-second backoff"
BackoffAfterFailure ==
  [][pc = "spin" /\ pc' = "connect" /\ failed = "cycle"
       => sinceFail = ReconnectS]_vars

\* README.md: "safe motor zeroing on shutdown": destroy_node of a driver that
\* had a connection does not give up with the motors turning while the PLC is
\* reachable.
ShutdownZeroesMotors ==
  [][failed = "cycle" /\ reachable /\ pc \in ShutdownPc /\ pc' = "stopped"
       => AtRest(plc')]_vars

\* The log of the jump test says the cycle is ignored ("siklus diabaikan").
JumpCycleIgnored ==
  [][(pc = "read" /\ pc' = "write_right" /\ lastTicks # None)
       => (JumpDetected(lastTicks, lastTicks') => ticksTopic' = ticksTopic)]_vars
=============================================================================
