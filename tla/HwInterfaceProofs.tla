-------------------------- MODULE HwInterfaceProofs --------------------------
(***************************************************************************)
(* What the controller manager reads from the plug-in without the mutex is *)
(* a distance each wheel travelled, what it sends is a percentage, a stop  *)
(* leaves zero behind, and no thread of the plug-in outlives it: for every *)
(* width of the counters, first reading, limit of the velocity, queue      *)
(* depth and interleaving of the two threads.                              *)
(*                                                                         *)
(* ReadablePositions speaks of the history variables only. Baselined says  *)
(* what the callback relies on: the stored counters are those of the last  *)
(* message used, a wheel moves only in a callback with a proper message,   *)
(* and no thread is left when start forgets the baseline. Close is what    *)
(* makes the difference of two counters a way: whatever the callback will  *)
(* compare was never half of the counters' range apart, however far the    *)
(* wheels have gone. Zeroed carries the zero that stop sends through the   *)
(* rest of stop, where no write can come between.                          *)
(***************************************************************************)
EXTENDS HwInterface, TLAPS

\* Any word will do: only the facts about quotients and remainders are cited.
Words == INSTANCE SlmpWordsProofs WITH WordBase <- 2

Idle == pc \in {"unconfigured", "stopped"}

Baselined ==
  /\ Idle => spin = "none"
  /\ moved # {} => spin = "callback" /\ msg # Short /\ used # None
  /\ spin = "callback" => msg # None
  /\ used # None => first # None /\ last_ticks_ = Ticks(used)
  /\ ~Idle /\ used = None => last_ticks_ = None /\ hw_positions_ = Zero

Zeroed == pc \in {"unconfigured", "zeroed", "joining", "stopped"} => sent = Zero

Close == ~Idle => \A t, u \in Compared \cup {travel} : Near(t, u)

IInv == TypeOK /\ Baselined /\ Close /\ Zeroed /\ ReadablePositions

(* Half of the counters' range is a whole number.                          *)
LEMMA Half ==
  /\ TickBase \in Nat \ {0} /\ Span \in Nat
  /\ TickBase \div 2 \in Int /\ TickBase = 2 * (TickBase \div 2)
<1>1. TickBase \in Nat \ {0} /\ Span \in Nat /\ TickBase % 2 = 0
  BY HwAssumption
<1>2. TickBase \div 2 \in Int /\ TickBase = 2 * (TickBase \div 2) + (TickBase % 2)
  BY <1>1, Words!Division
<1> QED  BY <1>1, <1>2

(* sdelta: the difference of two readings of a counter, wrapped around or  *)
(* not, is the way between them when that is less than half of the range,  *)
(* however far the wheel had gone before.                                  *)
LEMMA DeltaIsWay ==
  ASSUME NEW f \in Int, NEW a \in Int, NEW b \in Int, 2 * Abs(a - b) < TickBase
  PROVE  sdelta((f + a) % TickBase, (f + b) % TickBase) = a - b
<1> DEFINE c == (f + a) % TickBase  qc == (f + a) \div TickBase
           p == (f + b) % TickBase  qp == (f + b) \div TickBase
           d == a - b  k == qp - qc  h == TickBase \div 2
<1>1. TickBase \in Nat \ {0} /\ h \in Int /\ TickBase = 2 * h /\ d \in Int /\ -h < d /\ d < h
  <2>1. TickBase \in Nat \ {0} /\ h \in Int /\ TickBase = 2 * h
    BY Half
  <2>2. d \in Int /\ 2 * Abs(d) < TickBase
    OBVIOUS
  <2> HIDE DEF h, d
  <2> QED  BY <2>1, <2>2 DEF Abs
<1>2. c \in Int /\ qc \in Int /\ f + a = TickBase * qc + c
  BY <1>1, Words!Division, Half
<1>3. p \in Int /\ qp \in Int /\ f + b = TickBase * qp + p
  BY <1>1, Words!Division, Half
<1> HIDE DEF c, p, qc, qp, h
<1>4. c - p = d + TickBase * k /\ k \in Int
  BY <1>1, <1>2, <1>3
<1> HIDE DEF k, d
<1>5. (c - p) % TickBase = d % TickBase
  <2>1. (d + TickBase * k) % TickBase = d % TickBase
    <3>1. TickBase \in Nat \ {0} /\ d \in Int /\ k \in Int  BY <1>1, <1>4
    <3>2. Words!WordAssumption  BY DEF Words!WordAssumption
    <3> QED  BY <3>1, <3>2, Words!ModPlusMultiple, Zenon
  <2> QED  BY <1>4, <2>1
<1>6. CASE d >= 0
  <2>1. (TickBase * 0 + d) % TickBase = d
    BY <1>1, <1>6, Words!DivisionUnique
  <2>2. d % TickBase = d
    BY <1>1, <2>1
  <2> QED  BY <1>1, <1>5, <1>6, <2>2 DEF sdelta, c, p, d, h
<1>7. CASE d < 0
  <2> DEFINE r == d + TickBase
  <2>1. r \in 0 .. (TickBase - 1) /\ d = TickBase * (-1) + r /\ ~(r < h) /\ d = r - TickBase
    <3>1. TickBase * (-1) = -TickBase
      BY <1>1
    <3> QED  BY <1>1, <1>7, <3>1
  <2> HIDE DEF r
  <2>2. (TickBase * (-1) + r) % TickBase = r
    BY <1>1, <2>1, Words!DivisionUnique
  <2>3. (c - p) % TickBase = r
    BY <1>5, <2>1, <2>2
  <2> QED  BY <2>1, <2>3 DEF sdelta, c, p, d, h
<1> QED  BY <1>1, <1>6, <1>7

(* What the callback adds to a wheel is its way from the last message used. *)
LEMMA IncrementIsWay ==
  ASSUME NEW t \in Travels, NEW w \in {1, 2}, used \in Travels, last_ticks_ = Ticks(used),
         Near(t, used)
  PROVE  Increment(t)[w] = t[w] - used[w]
<1>1. FirstTicks[1] \in Int /\ FirstTicks[2] \in Int
  BY HwAssumption
<1>2. /\ t[1] \in Int /\ t[2] \in Int /\ used[1] \in Int /\ used[2] \in Int
      /\ 2 * Abs(t[1] - used[1]) < TickBase /\ 2 * Abs(t[2] - used[2]) < TickBase
  BY Half DEF Travels, Near
<1>3. CASE w = 1
  <2>1. sdelta((FirstTicks[1] + t[1]) % TickBase, (FirstTicks[1] + used[1]) % TickBase)
          = t[1] - used[1]
    BY <1>1, <1>2, DeltaIsWay
  <2> QED  BY <1>3, <2>1 DEF Increment, Ticks
<1>4. CASE w = 2
  <2>1. sdelta((FirstTicks[2] + t[2]) % TickBase, (FirstTicks[2] + used[2]) % TickBase)
          = t[2] - used[2]
    BY <1>1, <1>2, DeltaIsWay
  <2> QED  BY <1>4, <2>1 DEF Increment, Ticks
<1> QED  BY <1>3, <1>4

(* The counters are pairs of numbers, and ways are, too. *)
LEMMA Pairs ==
  /\ \A t \in Travels : Ticks(t) \in Counters
  /\ Travels \subseteq Ints /\ None \notin Ints /\ Zero \in Ints
  /\ Short \notin Ints /\ Short # None
  /\ Zero \in Counters /\ Counters \subseteq Ints
<1>1. ASSUME NEW t \in Travels PROVE Ticks(t) \in Counters
  <2>1. FirstTicks[1] + t[1] \in Int /\ FirstTicks[2] + t[2] \in Int
    BY HwAssumption DEF Travels
  <2>2. /\ (FirstTicks[1] + t[1]) % TickBase \in 0 .. (TickBase - 1)
        /\ (FirstTicks[2] + t[2]) % TickBase \in 0 .. (TickBase - 1)
    <3>1. ASSUME NEW c \in Int PROVE c % TickBase \in 0 .. (TickBase - 1)
      BY Half, Words!Division
    <3> QED  BY <2>1, <3>1
  <2> QED  BY <2>2 DEF Ticks, Counters
<1>2. Zero \in Counters /\ Counters \subseteq Ints
  BY HwAssumption DEF Zero, Counters, Ints
<1> QED  BY <1>1, <1>2, HwAssumption DEF Ints, Travels, Zero

(* What the callback stores as velocities are numbers. *)
LEMMA IncrementIsPair ==
  ASSUME NEW t \in Travels, last_ticks_ \in Counters
  PROVE  Increment(t) \in Ints
<1>1. ASSUME NEW c \in Int, NEW p \in Int PROVE sdelta(c, p) \in Int
  <2>1. (c - p) % TickBase \in Int
    BY Half, Words!Division
  <2> QED  BY <2>1, Half DEF sdelta
<1>2. Ticks(t)[1] \in Int /\ Ticks(t)[2] \in Int
  BY Pairs DEF Ints
<1>3. last_ticks_[1] \in Int /\ last_ticks_[2] \in Int
  BY DEF Counters
<1> QED  BY <1>1, <1>2, <1>3 DEF Increment, Ints

(* Whatever the controller asks for, write sends -100 .. 100 percent. *)
LEMMA PercentLimited == ASSUME NEW x \in Int PROVE Percent(x) \in -100 .. 100
<1>1. CASE MaxVel = 0
  BY <1>1 DEF Percent
<1>2. CASE MaxVel # 0
  <2> DEFINE a == Abs(x) * 100  p == a \div MaxVel  r == a % MaxVel
  <2>1. MaxVel \in Nat \ {0} /\ a \in Nat
    BY <1>2, HwAssumption DEF Abs
  <2>2. p \in Int /\ p >= 0
    <3> HIDE DEF a
    <3>1. p \in Int /\ r \in 0 .. (MaxVel - 1) /\ a = MaxVel * p + r
      BY <2>1, Words!Division
    <3> HIDE DEF p, r
    <3>2. p < 0 => MaxVel * p <= -MaxVel
      BY <2>1, <3>1
    <3> QED  BY <2>1, <3>1, <3>2
  <2> HIDE DEF p
  <2>4. CASE p > 100
    <3>1. Percent(x) = IF x < 0 THEN -100 ELSE 100
      BY <1>2, <2>4 DEF Percent, p
    <3> QED  BY <3>1
  <2>5. CASE ~(p > 100)
    <3>1. Percent(x) = IF x < 0 THEN -p ELSE p
      BY <1>2, <2>5 DEF Percent, p
    <3> QED  BY <2>2, <2>5, <3>1
  <2> QED  BY <2>4, <2>5
<1> QED  BY <1>1, <1>2

(* Being near is mutual, and every place is near itself. *)
LEMMA NearIsMutual ==
  ASSUME NEW t \in Travels, NEW u \in Travels
  PROVE  Near(t, t) /\ (Near(t, u) => Near(u, t))
<1>1. \A w \in {1, 2} : t[w] \in Int /\ u[w] \in Int
  BY Half DEF Travels
<1> QED  BY <1>1, Half DEF Near, Abs

(* While the wheels stand still, only the place where they stand can be    *)
(* added to what is compared.                                              *)
LEMMA CloseKept ==
  ASSUME IInv, travel' = travel,
         ~Idle' => Compared' = {} \/ (~Idle /\ Compared' \subseteq Compared \cup {travel})
  PROVE  Close'
<1>1. Near(travel, travel)
  BY NearIsMutual DEF IInv, TypeOK
<1> QED  BY <1>1 DEF IInv, Close

(* Before configure there is nothing. *)
LEMMA InitBaselined == Init => IInv
<1> SUFFICES ASSUME Init PROVE IInv
  OBVIOUS
<1>1. Zero \in Travels /\ Zero \in Ints /\ Zero \in (-100 .. 100) \X (-100 .. 100)
  BY Half DEF Zero, Travels, Ints
<1>2. TypeOK
  <2>1. queue \in Seq(Travels \cup {Short}) /\ Len(queue) <= TopicDepth
    BY HwAssumption DEF Init
  <2> QED  BY <1>1, <2>1 DEF Init, TypeOK
<1> QED  BY <1>2 DEF Init, IInv, Baselined, Close, Zeroed, ReadablePositions, Idle

(* configure and start forget the baseline, the other calls keep it. *)
LEMMA ManagerBaselined == ASSUME IInv, Manager PROVE IInv'
<1>c. Close'
  <2>1. travel' = travel /\ (~Idle' => Compared' = {} \/ (~Idle /\ Compared' \subseteq Compared))
    BY DEF Manager, configure, start, write, StopZero, StopFlag, StopJoin, Compared, Idle, stateVars
  <2> QED  BY <2>1, CloseKept
<1> USE DEF IInv, TypeOK, Baselined, Zeroed, ReadablePositions, Idle
<1>1. CASE \E joints \in 1 .. 2 : configure(joints)
  BY <1>1, <1>c, Pairs DEF configure
<1>2. CASE start
  BY <1>2, <1>c, Pairs, HwAssumption DEF start
<1>3. CASE StopZero \/ StopFlag
  <2>1. sent' \in (-100 .. 100) \X (-100 .. 100)
    BY <1>3 DEF StopZero, StopFlag, Zero
  <2>2. CASE StopZero
    BY <2>1, <2>2, <1>c DEF StopZero, stateVars
  <2>3. CASE StopFlag
    BY <2>1, <2>3, <1>c DEF StopFlag, stateVars
  <2> QED  BY <1>3, <2>2, <2>3
<1>4. CASE StopJoin
  BY <1>4, <1>c, HwAssumption DEF StopJoin, stateVars
<1>5. CASE \E cmd \in Commands : write(cmd)
  <2>1. PICK cmd \in Commands : write(cmd)
    BY <1>5
  <2>2. Percent(cmd[1]) \in -100 .. 100 /\ Percent(cmd[2]) \in -100 .. 100
    BY HwAssumption, PercentLimited
  <2>3. sent' \in (-100 .. 100) \X (-100 .. 100)
    BY <2>1, <2>2 DEF write
  <2>4. UNCHANGED <<moved, pc, spinning_, stateVars, spin, msg, queue, travel>> /\ pc = "running"
    BY <2>1 DEF write
  <2> QED  BY <2>3, <2>4, <1>c DEF stateVars
<1> QED  BY <1>1, <1>2, <1>3, <1>4, <1>5 DEF Manager

(* The executor thread between its callbacks. *)
LEMMA LoopBaselined == ASSUME IInv, Poll \/ Leave \/ Take PROVE IInv'
<1>c. Close'
  <2>1. CASE Poll \/ Leave
    <3>1. travel' = travel /\ (Idle' <=> Idle) /\ Compared' = Compared
      BY <2>1 DEF Poll, Leave, Compared, Idle, managerVars, stateVars
    <3> QED  BY <3>1, CloseKept
  <2>2. CASE Take
    <3>1. Head(queue) = queue[1] /\ 1 \in DOMAIN queue
      BY <2>2 DEF Take, IInv, TypeOK
    <3>2. \A i \in DOMAIN Tail(queue) : i + 1 \in DOMAIN queue /\ Tail(queue)[i] = queue[i + 1]
      BY <2>2 DEF Take, IInv, TypeOK
    <3>3. /\ msg' = Head(queue) /\ queue' = Tail(queue) /\ used' = used
          /\ travel' = travel /\ pc' = pc
      BY <2>2 DEF Take, managerVars, stateVars
    <3>4. {queue'[i] : i \in DOMAIN queue'} \subseteq {queue[i] : i \in DOMAIN queue}
      BY <3>2, <3>3
    <3>5. Compared' \subseteq Compared
      BY <3>1, <3>3, <3>4 DEF Compared
    <3> QED  BY <3>3, <3>5, CloseKept DEF Idle
  <2> QED  BY <2>1, <2>2
<1> USE DEF IInv, TypeOK, Baselined, Zeroed, ReadablePositions, Idle
<1>1. CASE Poll
  BY <1>1, <1>c DEF Poll, managerVars, stateVars
<1>2. CASE Leave
  BY <1>2, <1>c DEF Leave, managerVars, stateVars
<1>3. CASE Take
  <2>1. Head(queue) \in Travels \cup {Short} /\ Tail(queue) \in Seq(Travels \cup {Short})
    BY <1>3 DEF Take
  <2>3. Len(Tail(queue)) <= TopicDepth
    BY <1>3, HwAssumption DEF Take
  <2>2. Head(queue) # None
    BY <2>1, Pairs
  <2> QED  BY <1>3, <1>c, <2>1, <2>2, <2>3 DEF Take, managerVars, stateVars
<1> QED  BY <1>1, <1>2, <1>3

(* The callback. *)
LEMMA CallbackBaselined == ASSUME IInv, ticks_callback PROVE IInv'
<1>c. Close'
  <2>1. /\ travel' = travel /\ pc' = pc /\ queue' = queue
        /\ {used', msg'} \subseteq {used, msg, None}
    BY DEF ticks_callback, Ignored, Baseline, Move, Remember, managerVars, stateVars
  <2>2. Compared' \subseteq Compared
    BY <2>1 DEF Compared
  <2> QED  BY <2>1, <2>2, CloseKept DEF Idle
<1> USE DEF IInv, TypeOK, Baselined, Zeroed, ReadablePositions, Idle
<1>1. CASE Ignored
  BY <1>1, <1>c DEF Ignored, managerVars, stateVars
<1>2. CASE Baseline
  <2>1. msg \in Travels /\ msg # None /\ Ticks(msg) \in Counters
    BY <1>2, Pairs DEF Baseline
  <2>2. used = None /\ hw_positions_ = Zero /\ moved = {}
    BY <1>2, Pairs DEF Baseline
  <2>3. \A w \in {1, 2} : Zero[w] = msg[w] - msg[w]
    BY <2>1 DEF Zero, Travels
  <2> QED  BY <1>2, <1>c, <2>1, <2>2, <2>3 DEF Baseline, managerVars
<1>3. ASSUME NEW w \in {1, 2}, Move(w) PROVE IInv'
  <2>1. /\ msg \in Travels /\ used \in Travels /\ first \in Travels
        /\ last_ticks_ = Ticks(used) /\ w \notin moved
    BY <1>3, Pairs DEF Move
  <2>n. Near(msg, used)
    <3>1. msg \in Compared /\ used \in Compared
      BY <1>3, <2>1, Pairs DEF Compared, Move
    <3> QED  BY <1>3, <3>1 DEF Close, Move
  <2>2. Increment(msg)[w] = msg[w] - used[w]
    BY <2>1, <2>n, IncrementIsWay
  <2>3. hw_positions_[w] = used[w] - first[w]
    BY <2>1, Pairs
  <2>4. /\ hw_positions_' = [hw_positions_ EXCEPT ![w] = @ + Increment(msg)[w]]
        /\ moved' = moved \cup {w}
    BY <1>3 DEF Move
  <2>5. hw_positions_'[w] = msg[w] - first[w] /\ msg[w] - first[w] \in Int
    <3>1. msg[w] \in Int /\ used[w] \in Int /\ first[w] \in Int
      BY <2>1, Half DEF Travels
    <3>2. hw_positions_'[w] = hw_positions_[w] + Increment(msg)[w]
      BY <2>4 DEF Ints
    <3> QED  BY <2>2, <2>3, <3>1, <3>2
  <2>6. \A v \in {1, 2} \ {w} : hw_positions_'[v] = hw_positions_[v]
    BY <2>4 DEF Ints
  <2>7. hw_positions_' \in Ints
    BY <2>4, <2>5, <2>6 DEF Ints
  <2> QED
    BY <1>3, <1>c, <2>1, <2>4, <2>5, <2>6, <2>7 DEF Move, managerVars
<1>4. CASE Remember
  <2>1. msg \in Travels /\ msg # None /\ Ticks(msg) \in Counters /\ used # None
    BY <1>4, Pairs DEF Remember
  <2>2. \A w \in {1, 2} : hw_positions_[w] = msg[w] - first[w]
    BY <1>4, <2>1 DEF Remember
  <2>3. Increment(msg) \in Ints
    BY <2>1, Pairs, IncrementIsPair
  <2> QED  BY <1>4, <1>c, <2>1, <2>2, <2>3 DEF Remember, managerVars
<1> QED  BY <1>1, <1>2, <1>3, <1>4 DEF ticks_callback

(* The wheels turn and messages arrive or are lost. *)
LEMMA RobotBaselined ==
  ASSUME IInv, (\E step \in Steps : Turn(step)) \/ (\E m \in {travel, Short} : Publish(m))
  PROVE  IInv'
<1>c. Close'
  <2>1. CASE \E step \in Steps : Turn(step)
    <3>1. Compared' = Compared /\ (Idle' <=> Idle)
      BY <2>1 DEF Turn, Compared, Idle, managerVars, stateVars
    <3>2. travel' \in Travels /\ \A t \in Compared : Near(travel', t)
      BY <2>1, HwAssumption DEF Turn, Plus, Travels
    <3>3. \A t \in Compared : t \in Travels
      BY DEF IInv, TypeOK, Compared
    <3>4. \A t \in Compared : Near(t, travel')
      BY <3>2, <3>3, NearIsMutual
    <3>5. Near(travel', travel')
      BY <3>2, NearIsMutual
    <3> QED  BY <3>1, <3>2, <3>4, <3>5 DEF IInv, Close
  <2>2. CASE \E m \in {travel, Short} : Publish(m)
    <3>1. PICK m \in {travel, Short} : Publish(m)
      BY <2>2
    <3>2. /\ used' = used /\ msg' = msg /\ travel' = travel /\ pc' = pc /\ ~Idle
          /\ queue' = Append(IF Len(queue) < TopicDepth THEN queue ELSE Tail(queue), m)
      BY <3>1 DEF Publish, Idle, managerVars, stateVars
    <3> DEFINE kept == IF Len(queue) < TopicDepth THEN queue ELSE Tail(queue)
    <3>3. /\ kept \in Seq(Travels \cup {Short})
          /\ \A i \in DOMAIN kept : kept[i] \in {queue[j] : j \in DOMAIN queue}
      <4>1. CASE Len(queue) < TopicDepth
        BY <4>1 DEF IInv, TypeOK
      <4>2. CASE ~(Len(queue) < TopicDepth)
        <5>1. queue # <<>> /\ queue \in Seq(Travels \cup {Short})
          BY <4>2, HwAssumption DEF IInv, TypeOK
        <5>2. \A i \in DOMAIN Tail(queue) :
                 i + 1 \in DOMAIN queue /\ Tail(queue)[i] = queue[i + 1]
          BY <5>1
        <5> QED  BY <4>2, <5>1, <5>2
      <4> QED  BY <4>1, <4>2
    <3> HIDE DEF kept
    <3>4. \A i \in DOMAIN queue' : queue'[i] = m \/ (i \in DOMAIN kept /\ queue'[i] = kept[i])
      <4>1. queue' = Append(kept, m)
        BY <3>2 DEF kept
      <4> QED  BY <3>3, <4>1
    <3>5. {queue'[i] : i \in DOMAIN queue'} \subseteq {queue[i] : i \in DOMAIN queue} \cup {m}
      BY <3>3, <3>4
    <3>6. Compared' \subseteq Compared \cup {travel}
      BY <3>2, <3>5 DEF Compared
    <3> QED  BY <3>2, <3>6, CloseKept DEF Idle
  <2> QED  BY <2>1, <2>2
<1> USE DEF IInv, TypeOK, Baselined, Zeroed, ReadablePositions, Idle
<1>1. CASE \E step \in Steps : Turn(step)
  <2>1. travel' \in Travels
    BY <1>1, HwAssumption DEF Turn, Plus, Travels
  <2> QED  BY <1>1, <1>c, <2>1 DEF Turn, managerVars, stateVars
<1>2. CASE \E m \in {travel, Short} : Publish(m)
  <2>1. PICK m \in {travel, Short} : Publish(m)
    BY <1>2
  <2>2. queue' \in Seq(Travels \cup {Short}) /\ Len(queue') <= TopicDepth
    <3>1. CASE Len(queue) < TopicDepth
      BY <2>1, <3>1, HwAssumption DEF Publish
    <3>2. CASE ~(Len(queue) < TopicDepth)
      <4>1. queue # <<>> /\ TopicDepth \in Nat
        BY <3>2, HwAssumption
      <4>2. Tail(queue) \in Seq(Travels \cup {Short}) /\ Len(Tail(queue)) = Len(queue) - 1
        BY <4>1
      <4> QED  BY <2>1, <3>2, <4>1, <4>2 DEF Publish
    <3> QED  BY <3>1, <3>2
  <2> QED  BY <2>1, <1>c, <2>2 DEF Publish, managerVars, stateVars
<1> QED  BY <1>1, <1>2

(* What is said of every step. *)
LEMMA StepBaselined == IInv /\ [Next]_vars => IInv'
<1> SUFFICES ASSUME IInv, [Next]_vars PROVE IInv'
  OBVIOUS
<1>1. CASE Next
  BY <1>1, ManagerBaselined, LoopBaselined, CallbackBaselined, RobotBaselined
     DEF Next, Executor
<1>2. CASE UNCHANGED vars
  BY <1>2 DEF vars, managerVars, stateVars, IInv, TypeOK, Baselined, Close, Compared, Zeroed,
              ReadablePositions, Idle
<1> QED  BY <1>1, <1>2

THEOREM Invariance == Spec => []IInv
  BY InitBaselined, StepBaselined, PTL DEF Spec

(* Every variable keeps its type: what is published is -100 .. 100 percent, *)
(* the stored counters are counters, and the queue keeps its depth.         *)
THEOREM TypeCorrect == Spec => []TypeOK
<1>1. IInv => TypeOK
  BY DEF IInv
<1> QED  BY <1>1, Invariance, PTL

(* Whatever the controller reads while the other thread is in its callback *)
(* is for each wheel a distance it travelled since the first message, also *)
(* after any number of wrap-arounds of its counter: nothing is assumed of  *)
(* the whole way, only that it was short while a message waited (Turn).    *)
THEOREM PositionsReadable == Spec => []ReadablePositions
<1>1. IInv => ReadablePositions
  BY DEF IInv
<1> QED  BY <1>1, Invariance, PTL

(* When stop has returned the last message on the topic is zero: no write  *)
(* comes after the zero that stop sends.                                   *)
THEOREM StopLeavesZero == Spec => []StopZeroes
<1>1. IInv => StopZeroes
  BY DEF IInv, Zeroed, StopZeroes
<1> QED  BY <1>1, Invariance, PTL

(* Between stop and start the executor thread takes no step: there is none. *)
THEOREM QuietAfterStop == Spec => StoppedIsQuiet
<1> DEFINE Quiet == pc = "stopped" => UNCHANGED spin \/ pc' = "running"
<1>1. IInv /\ [Next]_vars => [Quiet]_vars
  <2> SUFFICES ASSUME IInv, Next, pc = "stopped" PROVE UNCHANGED spin \/ pc' = "running"
    OBVIOUS
  <2>1. spin = "none"
    BY DEF IInv, Baselined, Idle
  <2>2. CASE Manager
    BY <2>2 DEF Manager, configure, start, StopZero, StopFlag, StopJoin, write
  <2>3. CASE Executor
    BY <2>1, <2>3 DEF Executor, Poll, Leave, Take, ticks_callback, Ignored, Baseline, Move, Remember
  <2>4. CASE (\E step \in Steps : Turn(step)) \/ (\E m \in {travel, Short} : Publish(m))
    BY <2>4 DEF Turn, Publish
  <2> QED  BY <2>2, <2>3, <2>4 DEF Next
<1> QED  BY <1>1, Invariance, PTL DEF Spec, StoppedIsQuiet
=============================================================================
