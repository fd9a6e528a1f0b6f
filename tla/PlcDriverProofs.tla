--------------------------- MODULE PlcDriverProofs ---------------------------
(***************************************************************************)
(* Safety of the driver for every word width, speed range, reconnect_s and *)
(* set of messages.  TypeOK is inductive.  The other properties follow     *)
(* from RegisterInv, which says what the PLC's registers are at each       *)
(* request of the cycle and of destroy_node.                               *)
(***************************************************************************)
EXTENDS PlcDriver, SlmpWordsProofs

-----------------------------------------------------------------------------
(* Conversions                                                             *)

LEMMA WordSpeeds == Speed \subseteq S32 /\ 0 \in Speed
  BY DriverAssumption, Halves DEF Speed, S32

\* A command never leaves the range of speed_min and speed_max.
LEMMA ToSpeedInRange ==
  ASSUME NEW x \in Int
  PROVE  ToSpeed(x) \in Speed
  <1>1. /\ SpeedMin \in Int /\ SpeedMax \in Int /\ SpeedMin <= 0 /\ 0 <= SpeedMax
        /\ Scale \in Nat \ {0}
    BY DriverAssumption DEF S32
  <1> DEFINE lo == SpeedMin * Scale  hi == SpeedMax * Scale  c == Clamp(x, lo, hi)
  <1>2. lo \in Int /\ hi \in Int /\ lo <= 0 /\ 0 <= hi  BY <1>1
  <1>3. c \in Int /\ lo <= c /\ c <= hi
    <2> HIDE DEF lo, hi
    <2> QED  BY <1>2 DEF Clamp
  <1> HIDE DEF c
  <1>4. CASE c >= 0
    <2> DEFINE q == c \div Scale
    <2>1. q \in Int /\ c % Scale \in 0 .. (Scale - 1) /\ c = Scale * q + (c % Scale)
      BY <1>1, <1>3, Division
    <2> HIDE DEF q
    <2>2. q >= 0
      <3>1. ASSUME q <= -1 PROVE Scale * q <= -Scale  BY <1>1, <2>1, <3>1
      <3> QED  BY <1>1, <1>4, <2>1, <3>1
    <2>3. q <= SpeedMax
      <3>1. ASSUME q >= SpeedMax + 1 PROVE Scale * q >= Scale * SpeedMax + Scale
        BY <1>1, <2>1, <3>1
      <3>2. hi = Scale * SpeedMax  BY <1>1
      <3> QED  BY <1>1, <1>3, <2>1, <3>1, <3>2
    <2> QED  BY <1>1, <1>4, <2>1, <2>2, <2>3 DEF ToSpeed, Truncated, Speed, c, q
  <1>5. CASE c < 0
    <2> DEFINE q == (-c) \div Scale
    <2>1. q \in Int /\ (-c) % Scale \in 0 .. (Scale - 1)
          /\ -c = Scale * q + ((-c) % Scale)
      <3>1. -c \in Int  BY <1>3
      <3> QED  BY <1>1, <3>1, Division
    <2> HIDE DEF q
    <2>2. q >= 0
      <3>1. ASSUME q <= -1 PROVE Scale * q <= -Scale  BY <1>1, <2>1, <3>1
      <3> QED  BY <1>1, <1>3, <1>5, <2>1, <3>1
    <2>3. -q >= SpeedMin
      <3>1. ASSUME q >= -SpeedMin + 1 PROVE Scale * q >= -(Scale * SpeedMin) + Scale
        BY <1>1, <2>1, <3>1
      <3>2. lo = Scale * SpeedMin  BY <1>1
      <3> QED  BY <1>1, <1>3, <2>1, <3>1, <3>2
    <2> QED  BY <1>1, <1>3, <1>5, <2>1, <2>2, <2>3
             DEF ToSpeed, Truncated, Speed, c, q
  <1> QED  BY <1>3, <1>4, <1>5

\* Two words of zero are the zero speed.
LEMMA ZeroIsWords == ZeroWords \in Word \X Word
  BY Halves DEF ZeroWords, Word

LEMMA SpeedWords ==
  ASSUME NEW s \in Speed
  PROVE  speed_to_mc_words(s) \in Word \X Word
  BY WordSpeeds, SpeedRoundTrip

\* Every request leaves the PLC in one of its states.
LEMMA RequestTypes ==
  ASSUME plc \in PlcState, out \in Speed \X Speed, hbBit \in Bit
  PROVE  /\ RightWritten \in PlcState /\ LeftWritten \in PlcState
         /\ HeartbeatSent \in PlcState /\ ServoLocked \in PlcState
         /\ RightZeroed \in PlcState /\ LeftZeroed \in PlcState
         /\ ServoReleased \in PlcState /\ Cold \in PlcState
  <1>1. /\ speed_to_mc_words(out[1]) \in Word \X Word
        /\ speed_to_mc_words(out[2]) \in Word \X Word
    <2>1. out[1] \in Speed /\ out[2] \in Speed  OBVIOUS
    <2> QED  BY <2>1, SpeedWords
  <1>2. \A w \in Word \X Word : /\ [plc EXCEPT !.right = w] \in PlcState
                               /\ [plc EXCEPT !.left = w] \in PlcState
    BY DEF PlcState
  <1>3. RightWritten \in PlcState /\ LeftWritten \in PlcState
    BY <1>1, <1>2 DEF RightWritten, LeftWritten
  <1>4. RightZeroed \in PlcState /\ LeftZeroed \in PlcState
    BY <1>2, ZeroIsWords DEF RightZeroed, LeftZeroed
  <1>5. /\ HeartbeatSent \in PlcState
        /\ ServoLocked \in PlcState /\ ServoReleased \in PlcState
    BY DEF PlcState, Bit, HeartbeatSent, ServoLocked, ServoReleased
  <1>6. Cold \in PlcState
    BY ZeroIsWords DEF PlcState, Bit, Cold
  <1> QED  BY <1>3, <1>4, <1>5, <1>6

\* So do the requests that may or may not have been executed.
LEMMA AbandonedTypes ==
  ASSUME TypeOK, Abandoned
  PROVE  plc' \in PlcState
  <1>1. plc \in PlcState /\ out \in Speed \X Speed /\ hbBit \in Bit
    BY DEF TypeOK
  <1> QED  BY <1>1, RequestTypes DEF Abandoned, InFlight
-----------------------------------------------------------------------------
(* Type correctness                                                        *)

LEMMA InitTypes == Init => TypeOK
  <1> SUFFICES ASSUME Init PROVE TypeOK  OBVIOUS
  <1>1. plc \in PlcState
    <2>1. CASE plc = Cold
      BY <2>1, ZeroIsWords DEF PlcState, Bit, Cold
    <2>2. CASE plc \in [right : {speed_to_mc_words(s) : s \in Speed},
                       left  : {speed_to_mc_words(s) : s \in Speed},
                       hb : Bit, enable : {1}, servo : {1}]
      <3>1. {speed_to_mc_words(s) : s \in Speed} \subseteq Word \X Word
        BY SpeedWords
      <3> QED  BY <2>2, <3>1 DEF PlcState, Bit
    <2> QED  BY <2>1, <2>2 DEF Init
  <1>2. ReconnectS \in Nat \ {0}  BY DriverAssumption
  <1>3. /\ plcConnected \in BOOLEAN /\ sockOpen \in BOOLEAN
        /\ reachable \in BOOLEAN /\ synced \in BOOLEAN
    BY Zenon DEF Init
  <1> QED  BY <1>1, <1>2, <1>3, WordSpeeds DEF Init, TypeOK, Bit, AlivePc

LEMMA CycleErrorTypes ==
  ASSUME TypeOK, CycleError, plc' \in PlcState
  PROVE  TypeOK'
  <1>1. ReconnectS \in Nat \ {0}  BY DriverAssumption
  <1>2. backoff' \in 0 .. ReconnectS  BY <1>1 DEF TypeOK, CycleError
  <1>3. plcConnected' \in BOOLEAN /\ synced' \in BOOLEAN
    BY Zenon DEF CycleError
  <1> QED  BY <1>1, <1>2, <1>3 DEF TypeOK, CycleError, AlivePc, extVars

LEMMA ConnectTypes ==
  ASSUME TypeOK, ConnectAccepted \/ ConnectRefused
  PROVE  /\ plcConnected' \in BOOLEAN /\ backoff' \in 0 .. ReconnectS
         /\ sockOpen' \in BOOLEAN /\ session' \in {"none", "current", "orphan", "stuck"}
         /\ failed' \in {"never", "connect", "cycle"}
         /\ sinceFail' \in 0 .. ReconnectS
  <1>1. ReconnectS \in Nat \ {0}  BY DriverAssumption
  <1>2. plcConnected' \in BOOLEAN /\ sockOpen' \in BOOLEAN
    BY Zenon DEF TypeOK, ConnectAccepted, ConnectRefused
  <1> QED  BY <1>1, <1>2 DEF TypeOK, ConnectAccepted, ConnectRefused

LEMMA WriteTypes ==
  ASSUME TypeOK, NEW after \in PlcState, NEW next \in CyclePc,
         Written(after, next)
  PROVE  TypeOK'
  <1>1. CASE Answered /\ plc' = after /\ pc' = next
             /\ UNCHANGED <<nodeVars, sockOpen, out, elapsed, statusTopic,
                            ticksTopic, extVars, histVars>>
    BY <1>1 DEF TypeOK, AlivePc, nodeVars, extVars, histVars
  <1>2. CASE Unanswered(after) /\ CycleError
    <2>1. plc' \in PlcState  BY <1>2 DEF TypeOK, Unanswered
    <2> QED  BY <1>2, <2>1, CycleErrorTypes
  <1> QED  BY <1>1, <1>2 DEF Written

LEMMA ShutdownTypes ==
  ASSUME TypeOK, NEW after \in PlcState, NEW next \in ShutdownPc,
         ShutdownStep(after, next)
  PROVE  TypeOK'
  <1>1. UNCHANGED <<cmdRight, cmdLeft, lastTicks, plcConnected, backoff, hbBit, out,
                    elapsed, statusTopic, ticksTopic, reachable, synced, failed,
                    sinceFail>>
    BY DEF ShutdownStep, nodeVars, histVars
  <1>2. sockOpen' \in BOOLEAN
    BY Zenon DEF TypeOK, ShutdownStep
  <1>3. plc' \in PlcState
    BY DEF TypeOK, ShutdownStep, Unanswered
  <1>4. pc' \in AlivePc \cup DownPc
    BY DEF ShutdownStep, AlivePc, DownPc
  <1>5. session' \in {"none", "current", "orphan", "stuck"}
    BY DEF TypeOK, ShutdownStep, Closed, LeftBehind
  <1> QED  BY <1>1, <1>2, <1>3, <1>4, <1>5 DEF TypeOK

THEOREM StepTypes == TypeOK /\ [Next]_vars => TypeOK'
  <1> SUFFICES ASSUME TypeOK, [Next]_vars PROVE TypeOK'  OBVIOUS
  <1> USE DEF linkUnchanged, nodeVars, extVars, histVars
  <1>r. ReconnectS \in Nat \ {0}  BY DriverAssumption
  <1>p. /\ RightWritten \in PlcState /\ LeftWritten \in PlcState
        /\ HeartbeatSent \in PlcState /\ ServoLocked \in PlcState
        /\ RightZeroed \in PlcState /\ LeftZeroed \in PlcState
        /\ ServoReleased \in PlcState /\ Cold \in PlcState
    BY RequestTypes DEF TypeOK
  <1>1. ASSUME NEW msg \in CmdMsgs, CmdCallback(msg) PROVE TypeOK'
    <2>1. msg \in Seq(Int) /\ Len(msg) >= 2
      BY <1>1, DriverAssumption DEF CmdCallback
    <2>2. ToSpeed(msg[1]) \in Speed /\ ToSpeed(msg[2]) \in Speed
      BY <2>1, ToSpeedInRange
    <2> QED  BY <1>1, <2>2 DEF TypeOK, CmdCallback
  <1>2. CASE InitConnect
    BY <1>2, ConnectTypes DEF TypeOK, InitConnect, AlivePc
  <1>3. CASE CycleReconnect
    BY <1>3, <1>r DEF TypeOK, CycleReconnect, Closed, AlivePc, CyclePc
  <1>4. CASE Reconnect
    <2>1. synced' \in BOOLEAN /\ statusTopic' \in BOOLEAN \cup {None}
      BY <1>4, ConnectTypes, Zenon DEF Reconnect, PublishStatus
    <2> QED
      BY <1>4, <2>1, ConnectTypes
         DEF TypeOK, Reconnect, PublishStatus, AlivePc, CyclePc
  <1>5. CASE CycleStart
    BY <1>5, <1>r DEF TypeOK, CycleStart, PublishStatus, AlivePc, CyclePc
  <1>6. CASE ReadEncoders
    <2>1. CASE Unanswered(plc) /\ CycleError
      <3>1. plc' \in PlcState  BY <2>1 DEF TypeOK, Unanswered
      <3> QED  BY <2>1, <3>1, CycleErrorTypes
    <2>2. CASE Answered /\ pc' = "write_right"
      <3>1. PICK left, right \in EncoderReads :
              lastTicks' = <<u16pair_to_u32(left[1], left[2]),
                             u16pair_to_u32(right[1], right[2])>>
        BY <1>6, <2>2 DEF ReadEncoders, Unanswered
      <3>2. /\ left[1] \in Int /\ left[2] \in Int
            /\ right[1] \in Int /\ right[2] \in Int
        BY DriverAssumption DEF Word
      <3>3. lastTicks' \in U32 \X U32  BY <3>1, <3>2, PairIsU32
      <3> QED  BY <1>6, <2>2, <3>3
               DEF TypeOK, ReadEncoders, Unanswered, AlivePc, CyclePc
    <2> QED  BY <1>6, <2>1, <2>2 DEF ReadEncoders
  <1>7. CASE WriteRight \/ WriteLeft \/ Heartbeat
    BY <1>7, <1>p, WriteTypes DEF WriteRight, WriteLeft, Heartbeat, CyclePc
  <1>8. CASE ServoLock
    <2>1. CASE Unanswered(ServoLocked) /\ CycleError
      <3>1. plc' \in PlcState  BY <2>1, <1>p DEF TypeOK, Unanswered
      <3> QED  BY <2>1, <3>1, CycleErrorTypes
    <2>2. CASE ~(Unanswered(ServoLocked) /\ CycleError)
      <3>1. plcConnected' \in BOOLEAN /\ synced' \in BOOLEAN
        BY <1>8, <2>2, Zenon DEF ServoLock
      <3> QED  BY <1>8, <2>2, <3>1, <1>p DEF TypeOK, ServoLock, AlivePc, Bit
    <2> QED  BY <2>1, <2>2
  <1>9. CASE ZeroRight \/ ZeroLeft \/ ReleaseServo
    BY <1>9, <1>p, ShutdownTypes DEF ZeroRight, ZeroLeft, ReleaseServo, ShutdownPc
  <1>10. CASE Close
    BY <1>10 DEF TypeOK, Close, Closed, DownPc
  <1>11. CASE Interrupt
    BY <1>11, AbandonedTypes DEF TypeOK, Interrupt, AlivePc, ShutdownPc, DownPc
  <1>12. CASE Kill
    BY <1>12, AbandonedTypes DEF TypeOK, Kill, LeftBehind, DownPc
  <1>13. CASE Restart
    <2>1. plcConnected' \in BOOLEAN /\ synced' \in BOOLEAN
      BY <1>13, Zenon DEF Restart
    <2> QED  BY <1>13, <2>1, <1>r, WordSpeeds DEF TypeOK, Restart, AlivePc, Bit
  <1>14. CASE Outage \/ Recover
    BY <1>14 DEF TypeOK, Outage, Recover
  <1>15. CASE PlcFrees \/ PlcRestart
    BY <1>15, <1>p DEF TypeOK, PlcFrees, PlcRestart
  <1>16. CASE Tick
    BY <1>16, <1>r DEF TypeOK, Tick, Older
  <1>17. CASE UNCHANGED vars
    BY <1>17 DEF TypeOK, vars
  <1> QED
    BY <1>1, <1>2, <1>3, <1>4, <1>5, <1>6, <1>7, <1>8, <1>9, <1>10, <1>11, <1>12,
       <1>13, <1>14, <1>15, <1>16, <1>17
       DEF Next, Cycle, Shutdown, Environment

\* Every variable keeps its type, whatever the commands, the outages and the
\* kills: in particular no command outside speed_min .. speed_max reaches the
\* registers and the words written fit the MC protocol.
THEOREM TypeCorrect == Spec => []TypeOK
  BY InitTypes, StepTypes, PTL DEF Spec
-----------------------------------------------------------------------------
(* The registers                                                           *)

ShowsRight == plc.right = speed_to_mc_words(out[1])
ShowsLeft  == plc.left  = speed_to_mc_words(out[2])

\* On the connection in use, at each request of the cycle, what the requests
\* before it have written.
CycleInv ==
  session = "current" =>
    /\ pc \in {"write_left", "heartbeat", "servo_lock"} => ShowsRight
    /\ pc \in {"heartbeat", "servo_lock"} => ShowsLeft
    /\ pc = "servo_lock" => plc.hb = hbBit /\ plc.enable = 1

\* ... and what a completed cycle leaves to the next.
SyncedInv ==
  session = "current" /\ synced =>
    /\ pc = "spin" => ShowsRight /\ ShowsLeft /\ plc.enable = 1 /\ plc.servo = 1
    /\ pc \in {"spin", "read", "write_right", "write_left", "heartbeat"}
         => plc.hb = 1 - hbBit

\* The same for the requests of destroy_node, on any connection.
ShutdownInv ==
  /\ pc \in {"zero_left", "release_servo", "close", "closed"} => plc.right = ZeroWords
  /\ pc \in {"release_servo", "close", "closed"} => plc.left = ZeroWords
  /\ pc \in {"close", "closed"} => plc.servo = 0

\* The wait for the next connection is not shorter than what is left of
\* reconnect_s after the last refused one.
BackoffInv ==
  failed = "connect" /\ ~plcConnected => backoff + sinceFail >= ReconnectS

RegisterInv == TypeOK /\ CycleInv /\ SyncedInv /\ ShutdownInv /\ BackoffInv

\* What the PLC's state is after each request, field by field.
LEMMA RequestEffects ==
  ASSUME TypeOK
  PROVE  /\ RightWritten.right = speed_to_mc_words(out[1])
         /\ RightWritten.hb = plc.hb
         /\ LeftWritten.left = speed_to_mc_words(out[2])
         /\ LeftWritten.right = plc.right /\ LeftWritten.hb = plc.hb
         /\ HeartbeatSent.right = plc.right /\ HeartbeatSent.left = plc.left
         /\ HeartbeatSent.hb = hbBit /\ HeartbeatSent.enable = 1
         /\ ServoLocked.right = plc.right /\ ServoLocked.left = plc.left
         /\ ServoLocked.hb = plc.hb /\ ServoLocked.enable = plc.enable
         /\ ServoLocked.servo = 1
         /\ RightZeroed.right = ZeroWords
         /\ LeftZeroed.right = plc.right /\ LeftZeroed.left = ZeroWords
         /\ ServoReleased.right = plc.right /\ ServoReleased.left = plc.left
         /\ ServoReleased.servo = 0
         /\ Cold.right = ZeroWords /\ Cold.left = ZeroWords /\ Cold.servo = 0
         /\ RightWritten.servo = plc.servo /\ LeftWritten.servo = plc.servo
         /\ HeartbeatSent.servo = plc.servo
         /\ RightZeroed.servo = plc.servo /\ LeftZeroed.servo = plc.servo
  <1>1. plc \in PlcState  BY DEF TypeOK
  <1> QED
    BY <1>1 DEF PlcState, RightWritten, LeftWritten, HeartbeatSent, ServoLocked,
                RightZeroed, LeftZeroed, ServoReleased, Cold

LEMMA InitRegisters == Init => RegisterInv
  BY InitTypes DEF Init, RegisterInv, CycleInv, SyncedInv, ShutdownInv, BackoffInv

LEMMA CycleStep == RegisterInv /\ [Next]_vars => CycleInv'
  <1> SUFFICES ASSUME RegisterInv, [Next]_vars PROVE CycleInv'  OBVIOUS
  <1> USE DEF RegisterInv, CycleInv, ShowsRight, ShowsLeft
  <1>t. TypeOK  OBVIOUS
  <1>e. /\ RightWritten.right = speed_to_mc_words(out[1])
        /\ LeftWritten.left = speed_to_mc_words(out[2])
        /\ LeftWritten.right = plc.right
        /\ HeartbeatSent.right = plc.right /\ HeartbeatSent.left = plc.left
        /\ HeartbeatSent.hb = hbBit /\ HeartbeatSent.enable = 1
    BY <1>t, RequestEffects
  <1>1. ASSUME NEW msg \in CmdMsgs, CmdCallback(msg) PROVE CycleInv'
    BY <1>1 DEF CmdCallback
  <1>2. CASE InitConnect \/ CycleReconnect \/ Reconnect \/ CycleStart
    BY <1>2 DEF InitConnect, CycleReconnect, Reconnect, CycleStart, PublishStatus
  <1>3. CASE ReadEncoders
    BY <1>3 DEF ReadEncoders, CycleError
  <1>4. CASE WriteRight
    BY <1>4, <1>e DEF WriteRight, Written, CycleError
  <1>5. CASE WriteLeft
    BY <1>5, <1>e DEF WriteLeft, Written, CycleError, extVars, Answered, Delivered
  <1>6. CASE Heartbeat
    BY <1>6, <1>e DEF Heartbeat, Written, CycleError, extVars, nodeVars, Answered,
                      Delivered
  <1>7. CASE ServoLock
    BY <1>7 DEF ServoLock, CycleError
  <1>8. CASE ZeroRight \/ ZeroLeft \/ ReleaseServo \/ Close
    BY <1>8 DEF ZeroRight, ZeroLeft, ReleaseServo, Close, ShutdownStep
  <1>9. CASE Interrupt \/ Kill \/ Restart
    BY <1>9 DEF Interrupt, Kill, Restart
  <1>10. CASE Outage \/ Recover \/ PlcFrees \/ PlcRestart
    BY <1>10 DEF Outage, Recover, PlcFrees, PlcRestart, linkUnchanged, nodeVars
  <1>11. CASE Tick
    BY <1>11 DEF Tick, extVars
  <1>12. CASE UNCHANGED vars
    BY <1>12 DEF vars, nodeVars, extVars
  <1> QED
    BY <1>1, <1>2, <1>3, <1>4, <1>5, <1>6, <1>7, <1>8, <1>9, <1>10, <1>11, <1>12
       DEF Next, Cycle, Shutdown, Environment

LEMMA SyncedStep == RegisterInv /\ [Next]_vars => SyncedInv'
  <1> SUFFICES ASSUME RegisterInv, [Next]_vars PROVE SyncedInv'  OBVIOUS
  <1> USE DEF RegisterInv, SyncedInv, ShowsRight, ShowsLeft
  <1>t. TypeOK  OBVIOUS
  <1>e. /\ RightWritten.hb = plc.hb /\ LeftWritten.hb = plc.hb
        /\ ServoLocked.right = plc.right /\ ServoLocked.left = plc.left
        /\ ServoLocked.hb = plc.hb /\ ServoLocked.enable = plc.enable
        /\ ServoLocked.servo = 1
    BY <1>t, RequestEffects
  <1>1. ASSUME NEW msg \in CmdMsgs, CmdCallback(msg) PROVE SyncedInv'
    BY <1>1 DEF CmdCallback, extVars, histVars
  <1>2. CASE InitConnect \/ Reconnect
    BY <1>2, Zenon DEF InitConnect, Reconnect
  <1>3. CASE CycleReconnect
    BY <1>3 DEF CycleReconnect, Closed
  <1>4. CASE CycleStart
    BY <1>4 DEF CycleStart, PublishStatus, extVars, histVars
  <1>5. CASE ReadEncoders
    <2>1. CASE CycleError
      BY <2>1, Zenon DEF CycleError
    <2> QED
      BY <1>5, <2>1 DEF ReadEncoders, extVars, histVars, Answered, Delivered
  <1>6. CASE WriteRight \/ WriteLeft \/ Heartbeat
    <2>1. CASE CycleError
      BY <2>1, Zenon DEF CycleError
    <2> QED
      BY <1>6, <2>1, <1>e
         DEF WriteRight, WriteLeft, Heartbeat, Written, extVars, histVars, nodeVars
  <1>7. CASE ServoLock
    <2>1. CASE CycleError
      BY <2>1, Zenon DEF CycleError
    <2>2. CASE ~CycleError
      <3>1. /\ plc' = ServoLocked /\ pc' = "spin" /\ hbBit' = 1 - hbBit
            /\ out' = out /\ session = "current" /\ pc = "servo_lock"
        BY <1>7, <2>2 DEF ServoLock, Answered, Delivered
      <3>2. ShowsRight /\ ShowsLeft /\ plc.hb = hbBit /\ plc.enable = 1
        BY <3>1 DEF CycleInv
      <3>3. hbBit \in {0, 1}  BY DEF TypeOK, Bit
      <3> QED  BY <3>1, <3>2, <3>3, <1>e
    <2> QED  BY <2>1, <2>2
  <1>8. CASE ZeroRight \/ ZeroLeft \/ ReleaseServo \/ Close
    BY <1>8 DEF ZeroRight, ZeroLeft, ReleaseServo, Close, ShutdownStep
  <1>9. CASE Interrupt \/ Kill \/ Restart
    BY <1>9 DEF Interrupt, Kill, Restart
  <1>10. CASE Outage \/ Recover \/ PlcFrees \/ PlcRestart
    BY <1>10 DEF Outage, Recover, PlcFrees, PlcRestart, linkUnchanged, nodeVars,
                 histVars
  <1>11. CASE Tick
    BY <1>11 DEF Tick, extVars
  <1>12. CASE UNCHANGED vars
    BY <1>12 DEF vars, nodeVars, extVars, histVars
  <1> QED
    BY <1>1, <1>2, <1>3, <1>4, <1>5, <1>6, <1>7, <1>8, <1>9, <1>10, <1>11, <1>12
       DEF Next, Cycle, Shutdown, Environment

LEMMA ShutdownInvStep == RegisterInv /\ [Next]_vars => ShutdownInv'
  <1> SUFFICES ASSUME RegisterInv, [Next]_vars PROVE ShutdownInv'  OBVIOUS
  <1> USE DEF RegisterInv, ShutdownInv
  <1>t. TypeOK  OBVIOUS
  <1>e. /\ RightZeroed.right = ZeroWords
        /\ LeftZeroed.right = plc.right /\ LeftZeroed.left = ZeroWords
        /\ ServoReleased.right = plc.right /\ ServoReleased.left = plc.left
        /\ ServoReleased.servo = 0
        /\ Cold.right = ZeroWords /\ Cold.left = ZeroWords /\ Cold.servo = 0
    BY <1>t, RequestEffects
  <1>1. ASSUME NEW msg \in CmdMsgs, CmdCallback(msg) PROVE ShutdownInv'
    BY <1>1 DEF CmdCallback
  <1>2. CASE InitConnect \/ CycleReconnect \/ Reconnect \/ CycleStart
    BY <1>2 DEF InitConnect, CycleReconnect, Reconnect, CycleStart, PublishStatus
  <1>3. CASE ReadEncoders \/ WriteRight \/ WriteLeft \/ Heartbeat \/ ServoLock
    BY <1>3 DEF ReadEncoders, WriteRight, WriteLeft, Heartbeat, ServoLock, Written,
                CycleError
  <1>4. CASE ZeroRight
    BY <1>4, <1>e DEF ZeroRight, ShutdownStep
  <1>5. CASE ZeroLeft
    BY <1>5, <1>e DEF ZeroLeft, ShutdownStep
  <1>6. CASE ReleaseServo
    BY <1>6, <1>e DEF ReleaseServo, ShutdownStep
  <1>7. CASE Close
    BY <1>7 DEF Close
  <1>8. CASE Interrupt \/ Kill \/ Restart
    BY <1>8 DEF Interrupt, Kill, Restart
  <1>9. CASE Outage \/ Recover \/ PlcFrees \/ PlcRestart
    BY <1>9, <1>e DEF Outage, Recover, PlcFrees, PlcRestart, linkUnchanged
  <1>10. CASE Tick
    BY <1>10 DEF Tick
  <1>11. CASE UNCHANGED vars
    BY <1>11 DEF vars
  <1> QED
    BY <1>1, <1>2, <1>3, <1>4, <1>5, <1>6, <1>7, <1>8, <1>9, <1>10, <1>11
       DEF Next, Cycle, Shutdown, Environment

LEMMA BackoffStep == RegisterInv /\ [Next]_vars => BackoffInv'
  <1> SUFFICES ASSUME RegisterInv, [Next]_vars PROVE BackoffInv'  OBVIOUS
  <1> USE DEF RegisterInv, BackoffInv
  <1>r. /\ ReconnectS \in Nat /\ backoff \in 0 .. ReconnectS
        /\ sinceFail \in 0 .. ReconnectS
    BY DriverAssumption DEF TypeOK
  <1>1. ASSUME NEW msg \in CmdMsgs, CmdCallback(msg) PROVE BackoffInv'
    BY <1>1 DEF CmdCallback, histVars
  <1>2. CASE InitConnect \/ Reconnect
    <2>1. CASE ConnectAccepted
      BY <2>1, Zenon DEF ConnectAccepted
    <2>2. CASE ConnectRefused
      BY <1>r, <2>2 DEF ConnectRefused
    <2> QED  BY <1>2, <2>1, <2>2 DEF InitConnect, Reconnect
  <1>3. CASE CycleReconnect \/ CycleStart
    BY <1>3 DEF CycleReconnect, CycleStart, nodeVars, histVars
  <1>4. CASE ReadEncoders \/ WriteRight \/ WriteLeft \/ Heartbeat \/ ServoLock
    <2>1. CASE CycleError
      BY <2>1 DEF CycleError
    <2>2. CASE ServoLock /\ ~CycleError
      BY <2>2, Zenon DEF ServoLock
    <2>3. CASE ~ServoLock /\ ~CycleError
      BY <1>4, <2>3 DEF ReadEncoders, WriteRight, WriteLeft, Heartbeat, Written,
                        nodeVars, histVars
    <2> QED  BY <2>1, <2>2, <2>3
  <1>5. CASE ZeroRight \/ ZeroLeft \/ ReleaseServo \/ Close
    BY <1>5 DEF ZeroRight, ZeroLeft, ReleaseServo, Close, ShutdownStep, nodeVars,
                histVars
  <1>6. CASE Interrupt \/ Kill \/ Restart
    BY <1>6 DEF Interrupt, Kill, Restart, nodeVars, histVars
  <1>7. CASE Outage \/ Recover \/ PlcFrees \/ PlcRestart
    BY <1>7 DEF Outage, Recover, PlcFrees, PlcRestart, linkUnchanged, nodeVars,
                histVars
  <1>8. CASE Tick
    BY <1>8, <1>r DEF Tick, Older
  <1>9. CASE UNCHANGED vars
    BY <1>9 DEF vars, nodeVars, histVars
  <1> QED
    BY <1>1, <1>2, <1>3, <1>4, <1>5, <1>6, <1>7, <1>8, <1>9
       DEF Next, Cycle, Shutdown, Environment

LEMMA RegistersInvariant == Spec => []RegisterInv
  <1>1. RegisterInv /\ [Next]_vars => RegisterInv'
    BY StepTypes, CycleStep, SyncedStep, ShutdownInvStep, BackoffStep
       DEF RegisterInv
  <1> QED  BY <1>1, InitRegisters, PTL DEF Spec
-----------------------------------------------------------------------------
(* The properties                                                          *)

\* Between cycles both motors have the two speeds of one snapshot of the
\* command, and the drive is enabled, however the requests, outages and
\* restarts before were interleaved.
THEOREM MotorsMatch == Spec => []RegistersMatch
  <1>1. ASSUME RegisterInv PROVE RegistersMatch
    <2> SUFFICES ASSUME synced, session = "current", pc = "spin"
                 PROVE  /\ <<MotorSpeed(plc.right), MotorSpeed(plc.left)>> = out
                        /\ plc.enable = 1 /\ plc.servo = 1
      BY DEF RegistersMatch
    <2>1. /\ ShowsRight /\ ShowsLeft /\ plc.enable = 1 /\ plc.servo = 1
          /\ out \in Speed \X Speed
      BY <1>1 DEF RegisterInv, SyncedInv, TypeOK
    <2>2. out[1] \in S32 /\ out[2] \in S32 /\ out = <<out[1], out[2]>>
      BY <2>1, WordSpeeds
    <2>3. MotorSpeed(plc.right) = out[1] /\ MotorSpeed(plc.left) = out[2]
      BY <2>1, <2>2, SpeedRoundTrip DEF ShowsRight, ShowsLeft
    <2> QED  BY <2>1, <2>2, <2>3
  <1> QED  BY <1>1, RegistersInvariant, PTL

\* A shutdown that reports success has zeroed both motors and released the
\* servo.
THEOREM ShutdownIsSafe == Spec => []SafeShutdown
  <1>1. RegisterInv => SafeShutdown
    BY DEF RegisterInv, ShutdownInv, SafeShutdown, AtRest
  <1> QED  BY <1>1, RegistersInvariant, PTL

\* No step of the cycle, of the shutdown, of a kill in the middle of either, or
\* of the PLC releases the servo of a motor that has a speed.
THEOREM ServoReleasedOnlyAtRest == Spec => ServoReleasedAtRest
  <1>1. ASSUME RegisterInv, [Next]_vars, plc.servo = 1, plc'.servo = 0
        PROVE  AtRest(plc')
    <2>t. TypeOK  BY <1>1 DEF RegisterInv
    <2>e. /\ RightWritten.servo = plc.servo /\ LeftWritten.servo = plc.servo
          /\ HeartbeatSent.servo = plc.servo /\ ServoLocked.servo = 1
          /\ RightZeroed.servo = plc.servo /\ LeftZeroed.servo = plc.servo
          /\ ServoReleased.right = plc.right /\ ServoReleased.left = plc.left
          /\ Cold.right = ZeroWords /\ Cold.left = ZeroWords
      BY <2>t, RequestEffects
    <2>1. plc' \in {plc, RightWritten, LeftWritten, HeartbeatSent, ServoLocked,
                    RightZeroed, LeftZeroed}
          \/ (pc = "release_servo" /\ plc' = ServoReleased) \/ plc' = Cold
      BY <1>1
         DEF Next, Cycle, Shutdown, Environment, CmdCallback, InitConnect,
             CycleReconnect, Reconnect, CycleStart, ReadEncoders, WriteRight,
             WriteLeft, Heartbeat, ServoLock, Written, Unanswered, ZeroRight,
             ZeroLeft, ReleaseServo, Close, ShutdownStep, Interrupt, Kill, Restart,
             Abandoned, InFlight, Outage, Recover, PlcFrees, PlcRestart, Tick, vars
    <2>2. (plc' = ServoReleased /\ pc = "release_servo") \/ plc' = Cold
      BY <1>1, <2>1, <2>e
    <2> QED  BY <1>1, <2>2, <2>e DEF RegisterInv, ShutdownInv, AtRest
  <1> QED  BY <1>1, RegistersInvariant, PTL DEF Spec, ServoReleasedAtRest

\* After a completed cycle the PLC's watchdog sees the heartbeat change.
THEOREM HeartbeatAlternates == Spec => HeartbeatToggles
  <1>1. ASSUME RegisterInv, [Next]_vars, synced, pc = "heartbeat",
               pc' = "servo_lock"
        PROVE  plc'.hb # plc.hb
    <2>1. plc' = HeartbeatSent /\ session = "current"
      BY <1>1
         DEF Next, Cycle, Shutdown, Environment, CmdCallback, InitConnect,
             CycleReconnect, Reconnect, CycleStart, ReadEncoders, WriteRight,
             WriteLeft, Heartbeat, ServoLock, Written, CycleError, ZeroRight,
             ZeroLeft, ReleaseServo, Close, ShutdownStep, Interrupt, Kill, Restart,
             Outage, Recover, PlcFrees, PlcRestart, linkUnchanged, Tick, vars,
             Answered, Delivered, PublishStatus
    <2>2. plc.hb = 1 - hbBit /\ hbBit \in {0, 1}
      BY <1>1, <2>1 DEF RegisterInv, SyncedInv, TypeOK, Bit
    <2>3. HeartbeatSent.hb = hbBit
      BY <1>1, RequestEffects DEF RegisterInv
    <2> QED  BY <2>1, <2>2, <2>3
  <1> QED  BY <1>1, RegistersInvariant, PTL DEF Spec, HeartbeatToggles

\* A refused connection is not tried again before reconnect_s has passed.
THEOREM RetriesSpaced == Spec => RetrySpacing
  <1>1. ASSUME RegisterInv, [Next]_vars, pc = "spin", pc' = "connect",
               failed = "connect"
        PROVE  sinceFail = ReconnectS
    <2>1. CycleReconnect
      BY <1>1
         DEF Next, Cycle, Shutdown, Environment, CmdCallback, InitConnect,
             Reconnect, CycleStart, ReadEncoders, WriteRight, WriteLeft, Heartbeat,
             ServoLock, Written, CycleError, ZeroRight, ZeroLeft, ReleaseServo,
             Close, ShutdownStep, Interrupt, Kill, Restart, Outage, Recover,
             PlcFrees, PlcRestart, linkUnchanged, Tick, vars, PublishStatus
    <2>2. ~plcConnected /\ backoff = 0  BY <2>1 DEF CycleReconnect
    <2>3. sinceFail \in 0 .. ReconnectS /\ ReconnectS \in Nat
      BY <1>1, DriverAssumption DEF RegisterInv, TypeOK
    <2> QED  BY <1>1, <2>2, <2>3 DEF RegisterInv, BackoffInv
  <1> QED  BY <1>1, RegistersInvariant, PTL DEF Spec, RetrySpacing
-----------------------------------------------------------------------------
(* The driver as the command chain sees it                                 *)

\* The callbacks of a node exclude each other: the command a cycle has read is
\* still the command when it writes.
Snapshot == pc \in CyclePc \ {"connect"} => out = <<cmdRight, cmdLeft>>

LEMMA SnapshotInit == Init => Snapshot
  BY DEF Init, Snapshot, CyclePc

LEMMA SnapshotStep == Snapshot /\ [Next]_vars => Snapshot'
  <1> SUFFICES ASSUME Snapshot, [Next]_vars PROVE Snapshot'  OBVIOUS
  <1> USE DEF Snapshot, CyclePc, nodeVars
  <1>1. ASSUME NEW msg \in CmdMsgs, CmdCallback(msg) PROVE Snapshot'
    BY <1>1 DEF CmdCallback
  <1>2. CASE InitConnect \/ CycleReconnect
    BY <1>2 DEF InitConnect, CycleReconnect
  <1>3. CASE Reconnect \/ CycleStart
    BY <1>3 DEF Reconnect, CycleStart, PublishStatus
  <1>4. CASE ReadEncoders \/ WriteRight \/ WriteLeft \/ Heartbeat \/ ServoLock
    BY <1>4 DEF ReadEncoders, WriteRight, WriteLeft, Heartbeat, ServoLock, Written,
                CycleError
  <1>5. CASE ZeroRight \/ ZeroLeft \/ ReleaseServo \/ Close
    BY <1>5 DEF ZeroRight, ZeroLeft, ReleaseServo, Close, ShutdownStep
  <1>6. CASE Interrupt \/ Kill \/ Restart
    BY <1>6 DEF Interrupt, Kill, Restart
  <1>7. CASE Outage \/ Recover \/ PlcFrees \/ PlcRestart
    BY <1>7 DEF Outage, Recover, PlcFrees, PlcRestart, linkUnchanged
  <1>8. CASE Tick
    BY <1>8 DEF Tick
  <1>9. CASE UNCHANGED vars
    BY <1>9 DEF vars
  <1> QED
    BY <1>1, <1>2, <1>3, <1>4, <1>5, <1>6, <1>7, <1>8, <1>9
       DEF Next, Cycle, Shutdown, Environment

\* the speeds the motors are told by the registers p
Shown(p) == <<MotorSpeed(p.right), MotorSpeed(p.left)>>

LEMMA ZeroShown == MotorSpeed(ZeroWords) = 0
  <1>1. WordBase \in Nat \ {0} /\ 0 \in 0 .. (WordBase - 1) /\ WordBase * 0 + 0 = 0
    BY Halves
  <1>2. 0 % WordBase = 0
    <2>1. (WordBase * 0 + 0) % WordBase = 0  BY <1>1, DivisionUnique
    <2> QED  BY <1>1, <2>1
  <1>3. u16pair_to_u32(0, 0) = 0  BY <1>1, <1>2 DEF u16pair_to_u32
  <1>4. u32_to_signed(0) = 0  BY Halves DEF u32_to_signed
  <1> QED  BY <1>3, <1>4 DEF MotorSpeed, ZeroWords

\* What each request does to the speeds.
LEMMA SpeedEffects ==
  ASSUME TypeOK
  PROVE  /\ Shown(RightWritten) = <<out[1], motors[2]>>
         /\ Shown(LeftWritten) = <<motors[1], out[2]>>
         /\ Shown(HeartbeatSent) = motors /\ Shown(ServoLocked) = motors
         /\ Shown(RightZeroed) = <<0, motors[2]>> /\ Shown(LeftZeroed) = <<motors[1], 0>>
         /\ Shown(ServoReleased) = motors /\ Shown(Cold) = <<0, 0>> /\ Shown(plc) = motors
  <1>1. plc \in PlcState /\ out \in Speed \X Speed
    BY DEF TypeOK
  <1>2. /\ MotorSpeed(speed_to_mc_words(out[1])) = out[1]
        /\ MotorSpeed(speed_to_mc_words(out[2])) = out[2]
    <2>1. out[1] \in S32 /\ out[2] \in S32  BY <1>1, WordSpeeds
    <2> QED  BY <2>1, SpeedRoundTrip
  <1>3. /\ RightWritten.left = plc.left /\ LeftWritten.right = plc.right
        /\ RightZeroed.left = plc.left
    BY <1>1 DEF PlcState, RightWritten, LeftWritten, RightZeroed
  <1>4. Shown(RightWritten) = <<out[1], motors[2]>> /\ Shown(LeftWritten) = <<motors[1], out[2]>>
    BY <1>2, <1>3, RequestEffects DEF Shown, motors
  <1>5. Shown(RightZeroed) = <<0, motors[2]>> /\ Shown(LeftZeroed) = <<motors[1], 0>>
    BY <1>3, RequestEffects, ZeroShown DEF Shown, motors
  <1>6. /\ Shown(HeartbeatSent) = motors /\ Shown(ServoLocked) = motors
        /\ Shown(ServoReleased) = motors /\ Shown(plc) = motors
    BY RequestEffects DEF Shown, motors
  <1>7. Shown(Cold) = <<0, 0>>
    BY RequestEffects, ZeroShown DEF Shown
  <1> QED  BY <1>4, <1>5, <1>6, <1>7

\* A request that is executed on the connection in use, whether the driver learns
\* of it or not, is one of the two writes of a command, or of zero.
LEMMA InFlightWrites ==
  ASSUME RegisterInv, Snapshot, Delivered, NEW p \in InFlight
  PROVE  Shown(p) \in Registers!Written
  <1> USE DEF Registers!Written
  <1>0. TypeOK  BY DEF RegisterInv
  <1>1. session = "current"  BY DEF Delivered
  <1>2. CASE pc = "write_right"
    <2>1. command = out /\ p \in {plc, RightWritten}
      BY <1>2 DEF Snapshot, command, Running, CyclePc, ShutdownPc, DownPc, InFlight
    <2> QED  BY <1>0, <2>1, SpeedEffects
  <1>3. CASE pc = "write_left"
    <2>1. command = out /\ p \in {plc, LeftWritten}
      BY <1>3 DEF Snapshot, command, Running, CyclePc, ShutdownPc, DownPc, InFlight
    <2>2. out \in Speed \X Speed /\ plc.right = speed_to_mc_words(out[1])
      BY <1>1, <1>3 DEF RegisterInv, CycleInv, ShowsRight, TypeOK
    <2>3. out[1] \in S32 /\ out = <<out[1], out[2]>>  BY <2>2, WordSpeeds
    <2>4. motors[1] = out[1]  BY <2>2, <2>3, SpeedRoundTrip DEF motors
    <2> QED  BY <1>0, <2>1, <2>3, <2>4, SpeedEffects
  <1>4. CASE pc = "zero_right"
    <2>1. command = <<0, 0>> /\ p \in {plc, RightZeroed}
      BY <1>4 DEF command, Running, ShutdownPc, InFlight
    <2> QED  BY <1>0, <2>1, SpeedEffects
  <1>5. CASE pc = "zero_left"
    <2>1. command = <<0, 0>> /\ p \in {plc, LeftZeroed}
      BY <1>5 DEF command, Running, ShutdownPc, InFlight
    <2>2. motors[1] = 0
      BY <1>5, ZeroShown DEF RegisterInv, ShutdownInv, motors
    <2> QED  BY <1>0, <2>1, <2>2, SpeedEffects
  <1>6. CASE pc \notin {"write_right", "write_left", "zero_right", "zero_left"}
    <2>1. p \in {plc, HeartbeatSent, ServoLocked, ServoReleased}
      BY <1>6 DEF InFlight
    <2> QED  BY <1>0, <2>1, SpeedEffects
  <1> QED  BY <1>2, <1>3, <1>4, <1>5, <1>6

\* A step that keeps the command and sends at most the request it stands at.
LEMMA RequestIsWrite ==
  ASSUME RegisterInv, Snapshot, command' = command,
         plc' = plc \/ (Delivered /\ plc' \in InFlight)
  PROVE  Registers!Write
  <1>1. motors' = Shown(plc')  BY DEF motors, Shown
  <1>2. motors' \in Registers!Written
    <2>1. CASE plc' = plc
      BY <1>1, <2>1 DEF motors, Shown, Registers!Written
    <2>2. CASE Delivered /\ plc' \in InFlight
      BY <1>1, <2>2, InFlightWrites
    <2> QED  BY <2>1, <2>2
  <1> QED  BY <1>2 DEF Registers!Write

\* A driver that ends, in the middle of a request or not.
LEMMA AbandonedIsEnd ==
  ASSUME RegisterInv, Snapshot, command' = <<0, 0>>, Abandoned
  PROVE  Registers!End
  <1>1. motors' = Shown(plc')  BY DEF motors, Shown
  <1>2. motors' \in Registers!Written
    <2>1. CASE Delivered
      BY <1>1, <2>1, InFlightWrites DEF Abandoned
    <2>2. CASE ~Delivered
      BY <1>1, <2>2 DEF Abandoned, motors, Shown, Registers!Written
    <2> QED  BY <2>1, <2>2
  <1> QED  BY <1>2 DEF Registers!End, Registers!Zero

\* Every step of the driver, the link and the PLC is one of MotorRegisters.
LEMMA RegistersStep ==
  RegisterInv /\ Snapshot /\ [Next]_vars => [Registers!Next]_(Registers!vars)
  <1> SUFFICES ASSUME RegisterInv, Snapshot, [Next]_vars
               PROVE  [Registers!Next]_(Registers!vars)
    OBVIOUS
  <1> USE DEF nodeVars, CyclePc, ShutdownPc, DownPc
  <1>1. ASSUME NEW msg \in CmdMsgs, CmdCallback(msg) PROVE Registers!Command
    <2>1. msg \in Seq(Int) /\ Len(msg) >= 2
      BY <1>1, DriverAssumption DEF CmdCallback
    <2>2. ToSpeed(msg[1]) \in Speed /\ ToSpeed(msg[2]) \in Speed
      BY <2>1, ToSpeedInRange
    <2> QED  BY <1>1, <2>2 DEF CmdCallback, command, Running, motors, Registers!Command
  <1>2. CASE InitConnect \/ CycleReconnect \/ Reconnect \/ CycleStart
    <2>1. command' = command /\ plc' = plc
      BY <1>2
      DEF InitConnect, CycleReconnect, Reconnect, CycleStart, PublishStatus, command, Running
    <2> QED  BY <2>1, RequestIsWrite DEF Registers!Next
  <1>3. CASE ReadEncoders \/ WriteRight \/ WriteLeft \/ Heartbeat \/ ServoLock
    <2>1. command' = command
      BY <1>3
      DEF ReadEncoders, WriteRight, WriteLeft, Heartbeat, ServoLock, Written, CycleError,
          command, Running
    <2>2. plc' = plc \/ (Delivered /\ plc' \in InFlight)
      BY <1>3
      DEF ReadEncoders, WriteRight, WriteLeft, Heartbeat, ServoLock, Written, Unanswered,
          Answered, InFlight
    <2> QED  BY <2>1, <2>2, RequestIsWrite DEF Registers!Next
  <1>4. CASE ZeroRight \/ ZeroLeft \/ ReleaseServo \/ Close
    <2>1. command' = command
      BY <1>4 DEF ZeroRight, ZeroLeft, ReleaseServo, Close, ShutdownStep, command, Running
    <2>2. plc' = plc \/ (Delivered /\ plc' \in InFlight)
      BY <1>4
      DEF ZeroRight, ZeroLeft, ReleaseServo, Close, ShutdownStep, Unanswered, Answered,
          InFlight
    <2> QED  BY <2>1, <2>2, RequestIsWrite DEF Registers!Next
  <1>5. CASE Interrupt \/ Kill
    <2>1. command' = <<0, 0>> /\ Abandoned
      BY <1>5 DEF Interrupt, Kill, command, Running
    <2> QED  BY <2>1, AbandonedIsEnd DEF Registers!Next
  <1>6. CASE Restart
    <2>1. command' = command /\ plc' = plc
      BY <1>6 DEF Restart, command, Running
    <2> QED  BY <2>1, RequestIsWrite DEF Registers!Next
  <1>7. CASE Outage \/ Recover \/ PlcFrees \/ Tick
    <2>1. command' = command /\ plc' = plc
      BY <1>7 DEF Outage, Recover, PlcFrees, Tick, linkUnchanged, command, Running
    <2> QED  BY <2>1, RequestIsWrite DEF Registers!Next
  <1>8. CASE PlcRestart
    <2>1. command' = command /\ motors' = Shown(Cold)
      BY <1>8 DEF PlcRestart, linkUnchanged, command, Running, motors, Shown
    <2>2. Shown(Cold) = <<0, 0>>  BY SpeedEffects DEF RegisterInv
    <2> QED  BY <2>1, <2>2 DEF Registers!Next, Registers!PowerLoss, Registers!Zero
  <1>9. CASE UNCHANGED vars
    BY <1>9 DEF vars, command, Running, motors, Registers!vars
  <1> QED
    BY <1>1, <1>2, <1>3, <1>4, <1>5, <1>6, <1>7, <1>8, <1>9
    DEF Next, Cycle, Shutdown, Environment, Registers!Next

\* A PLC may show the speeds another driver has left, and a new driver has none.
LEMMA RegistersInit == Init => Registers!Init
  <1> SUFFICES ASSUME Init PROVE Registers!Init  OBVIOUS
  <1>1. command = <<0, 0>>  BY DEF Init, command
  <1>2. motors \in Speed \X Speed
    <2>1. CASE plc = Cold
      BY <2>1, ZeroShown, WordSpeeds DEF Cold, motors
    <2>2. CASE plc \in [right : {speed_to_mc_words(s) : s \in Speed},
                       left  : {speed_to_mc_words(s) : s \in Speed},
                       hb : Bit, enable : {1}, servo : {1}]
      <3>1. PICK r \in Speed, l \in Speed :
              plc.right = speed_to_mc_words(r) /\ plc.left = speed_to_mc_words(l)
        BY <2>2
      <3>2. r \in S32 /\ l \in S32  BY WordSpeeds
      <3> QED  BY <3>1, <3>2, SpeedRoundTrip DEF motors
    <2> QED  BY <2>1, <2>2 DEF Init
  <1> QED  BY <1>1, <1>2 DEF Registers!Init, Registers!Zero

\* Whatever fails in between, the registers the motors obey follow the command, the
\* right one first, or go to zero: a driver with its connection, its retries, its
\* shutdowns and restarts implements the two writes of a cycle.
THEOREM DriverFollowsCommand == Spec => FollowsCommand
  <1>1. /\ Init => Registers!Init /\ Snapshot
        /\ Snapshot /\ [Next]_vars => Snapshot'
        /\ RegisterInv /\ Snapshot /\ [Next]_vars => [Registers!Next]_(Registers!vars)
    BY RegistersInit, SnapshotInit, SnapshotStep, RegistersStep
  <1> QED  BY <1>1, RegistersInvariant, PTL DEF Spec, FollowsCommand, Registers!Spec
=============================================================================
