--------------------------- MODULE OdometryProofs ---------------------------
(***************************************************************************)
(* The odometry of kinematics_node.py implements Odometer until the PLC    *)
(* loses its counters, and is off by less than two jumps for every time it *)
(* does, for every width of a counter, every depth of the queue and every  *)
(* jump filter of at most half the range of a counter.                     *)
(***************************************************************************)
EXTENDS Odometry, SlmpWordsProofs, SequenceTheorems

Pair == Int \X Int

LEMMA Constants ==
  /\ JumpTicks \in Int /\ JumpTicks > 0 /\ JumpTicks <= U32Base \div 2
  /\ U32Base \in Nat \ {0} /\ TopicDepth \in Nat \ {0}
  /\ None \notin Pair /\ Steps \subseteq Pair /\ FirstCounters \subseteq U32 \X U32
  BY OdometryAssumption, Halves DEF Pair
-----------------------------------------------------------------------------
(* Sequences of readings and the travels they stand for                    *)

LEMMA TravelsEmpty == Travels(<<>>) = <<>>
  BY DEF Travels

LEMMA TravelsAppend ==
  ASSUME NEW q \in Seq(Reading), NEW m \in Reading
  PROVE  Travels(Append(q, m)) = Append(Travels(q), m.travel)
  BY DEF Travels, Reading

\* What Travels makes of a queue, element by element.
LEMMA TravelsElements ==
  ASSUME NEW q \in Seq(Reading)
  PROVE  /\ Travels(q) \in Seq(Pair) /\ Len(Travels(q)) = Len(q)
         /\ \A i \in 1 .. Len(q) : Travels(q)[i] = q[i].travel
  <1>1. Len(q) \in Nat /\ \A i \in 1 .. Len(q) : q[i].travel \in Pair
    <2>1. Len(q) \in Nat /\ \A i \in 1 .. Len(q) : q[i] \in Reading
      BY LenProperties, ElementOfSeq
    <2>2. \A m \in Reading : m.travel \in Pair  BY DEF Reading, Pair
    <2> QED  BY <2>1, <2>2
  <1> QED  BY <1>1 DEF Travels

LEMMA TravelsTail ==
  ASSUME NEW q \in Seq(Reading), q # <<>>
  PROVE  /\ Travels(Tail(q)) = Tail(Travels(q))
         /\ Head(Travels(q)) = Head(q).travel
         /\ Travels(q) # <<>>
  <1> DEFINE t == Travels(q)  u == Travels(Tail(q))
  <1>1. Len(q) \in Nat \ {0} /\ Head(q) = q[1]  BY EmptySeq
  <1>2. t \in Seq(Pair) /\ Len(t) = Len(q) /\ \A i \in 1 .. Len(q) : t[i] = q[i].travel
    BY TravelsElements
  <1>3. /\ Tail(q) \in Seq(Reading) /\ Len(Tail(q)) = Len(q) - 1
        /\ \A i \in 1 .. Len(Tail(q)) : Tail(q)[i] = q[i + 1]
    BY HeadTailProperties
  <1>4. /\ u \in Seq(Pair) /\ Len(u) = Len(q) - 1
        /\ \A i \in 1 .. Len(q) - 1 : u[i] = q[i + 1].travel
    <2>1. /\ u \in Seq(Pair) /\ Len(u) = Len(Tail(q))
          /\ \A i \in 1 .. Len(Tail(q)) : u[i] = Tail(q)[i].travel
      BY <1>3, TravelsElements
    <2> HIDE DEF u
    <2> QED  BY <2>1, <1>3
  <1> HIDE DEF t, u
  <1>5. t # <<>>  BY <1>1, <1>2, EmptySeq
  <1>6. /\ Tail(t) \in Seq(Pair) /\ Len(Tail(t)) = Len(t) - 1
        /\ \A i \in 1 .. Len(Tail(t)) : Tail(t)[i] = t[i + 1]
    BY <1>2, <1>5, HeadTailProperties
  <1>7. \A i \in 1 .. Len(u) : u[i] = Tail(t)[i]
    BY <1>1, <1>2, <1>4, <1>6
  <1>8. u = Tail(t)
    BY <1>1, <1>2, <1>4, <1>6, <1>7, SeqEqual
  <1>9. Head(t) = t[1] /\ t[1] = q[1].travel
    BY <1>1, <1>2, <1>5
  <1> QED  BY <1>1, <1>5, <1>8, <1>9 DEF t, u

\* What is in a queue after a reading was taken out or put in.
LEMMA TailElements ==
  ASSUME NEW q \in Seq(Reading), q # <<>>
  PROVE  /\ Tail(q) \in Seq(Reading) /\ Len(Tail(q)) = Len(q) - 1
         /\ Head(q) \in Reading /\ Head(q) = q[1] /\ 1 \in DOMAIN q
         /\ \A i \in DOMAIN Tail(q) : i + 1 \in DOMAIN q /\ Tail(q)[i] = q[i + 1]
  OBVIOUS
-----------------------------------------------------------------------------
(* Types, and the twist                                                    *)

\* The difference of two readings is a signed 32-bit number.
LEMMA IncrementType ==
  ASSUME NEW a \in U32 \X U32, NEW b \in U32 \X U32
  PROVE  Increment(a, b) \in S32 \X S32
  <1>1. ASSUME NEW x \in U32, NEW y \in U32 PROVE SignedDelta(x, y) \in S32
    <2>1. x - y \in Int  BY Halves DEF U32
    <2>2. (x - y) % U32Base \in U32
      <3> DEFINE z == x - y
      <3>1. z \in Int /\ U32Base \in Nat \ {0}  BY <2>1, Constants
      <3> HIDE DEF z
      <3>2. z % U32Base \in 0 .. (U32Base - 1)  BY <3>1, Division
      <3> QED  BY <3>2 DEF U32, z
    <2> QED  BY <2>2, SignedOfU32 DEF SignedDelta
  <1>2. a[1] \in U32 /\ a[2] \in U32 /\ b[1] \in U32 /\ b[2] \in U32  OBVIOUS
  <1> QED  BY <1>1, <1>2 DEF Increment

LEMMA IntegersWithin == U32 \subseteq Int /\ S32 \subseteq Int
  BY Halves DEF U32, S32

\* Besides the types: the pose published last is the pose.
TwistInv == TypeOK /\ odom.pose = pose

LEMMA TwistInit == Init => TwistInv
  <1> SUFFICES ASSUME Init PROVE TwistInv  OBVIOUS
  <1>1. NoMotion \in S32 \X S32 /\ NoMotion \in Int \X Int
    BY Halves DEF NoMotion, S32
  <1>2. <<>> \in Seq(Reading) /\ Len(<<>>) = 0  OBVIOUS
  <1> QED
    BY <1>1, <1>2, Constants, OdometryAssumption DEF Init, TwistInv, TypeOK

\* The queue after a message was taken, and the message.
LEMMA TakenType ==
  ASSUME TypeOK, queue # <<>>
  PROVE  /\ Tail(queue) \in Seq(Reading) /\ Len(Tail(queue)) \in 0 .. TopicDepth
         /\ Head(queue).ticks \in U32 \X U32 /\ Head(queue).travel \in Int \X Int
  <1>1. queue \in Seq(Reading) /\ Len(queue) <= TopicDepth /\ TopicDepth \in Nat
    BY Constants DEF TypeOK
  <1>2. Len(queue) \in Nat \ {0}  BY <1>1, EmptySeq
  <1>3. Head(queue) \in Reading  BY <1>1, HeadTailProperties
  <1>4. Tail(queue) \in Seq(Reading) /\ Len(Tail(queue)) = Len(queue) - 1
    BY <1>1, HeadTailProperties
  <1> QED  BY <1>1, <1>2, <1>3, <1>4 DEF Reading

LEMMA TwistStep == TwistInv /\ [Next]_vars => TwistInv'
  <1> SUFFICES ASSUME TwistInv, [Next]_vars PROVE TwistInv'  OBVIOUS
  <1> USE DEF TwistInv
  <1>0. TypeOK /\ TopicDepth \in Nat \ {0}  BY Constants
  <1>1. ASSUME NEW step \in Steps, Turn(step) PROVE TwistInv'
    <2>1. step \in Int \X Int  BY Constants DEF Pair
    <2>2. travel' \in Int \X Int  BY <1>0, <1>1, <2>1 DEF Turn, Plus, TypeOK
    <2>3. ASSUME NEW c \in U32, NEW d \in Int PROVE (c + d) % U32Base \in U32
      <3>1. c + d \in Int  BY IntegersWithin
      <3> QED  BY <3>1, Division, Halves DEF U32
    <2>4. counters' \in U32 \X U32
      <3>1. counters[1] \in U32 /\ counters[2] \in U32 /\ step[1] \in Int /\ step[2] \in Int
        BY <1>0, <2>1 DEF TypeOK
      <3> QED  BY <1>1, <2>3, <3>1 DEF Turn
    <2> QED  BY <1>0, <1>1, <2>2, <2>4 DEF Turn, TypeOK, nodeVars
  <1>2. CASE Reset
    <2>1. <<0, 0>> \in U32 \X U32  BY Halves DEF U32
    <2>2. resets' \in 0 .. MaxResets  BY <1>0, <1>2, OdometryAssumption DEF Reset, TypeOK
    <2> QED  BY <1>0, <1>2, <2>1, <2>2 DEF Reset, TypeOK, nodeVars
  <1>3. CASE Publish
    <2> DEFINE m == [ticks |-> counters, travel |-> travel]
    <2>1. m \in Reading  BY <1>0 DEF TypeOK, Reading
    <2> HIDE DEF m
    <2>2. queue \in Seq(Reading) /\ Len(queue) \in Nat /\ Len(queue) <= TopicDepth
      BY <1>0, LenProperties DEF TypeOK
    <2>3. CASE Len(queue) < TopicDepth
      <3>1. queue' = Append(queue, m)  BY <1>3, <2>3 DEF Publish, m
      <3>2. queue' \in Seq(Reading) /\ Len(queue') <= TopicDepth
        BY <1>0, <2>1, <2>2, <2>3, <3>1
      <3> QED  BY <1>0, <1>3, <3>2 DEF Publish, TypeOK, nodeVars
    <2>4. CASE Len(queue) >= TopicDepth
      <3>1. queue' = Append(Tail(queue), m)  BY <1>0, <1>3, <2>2, <2>4 DEF Publish, m
      <3>2. queue # <<>>  BY <1>0, <2>2, <2>4, EmptySeq
      <3>3. Tail(queue) \in Seq(Reading) /\ Len(Tail(queue)) = Len(queue) - 1
        BY <2>2, <3>2, HeadTailProperties
      <3>4. queue' \in Seq(Reading) /\ Len(queue') <= TopicDepth
        BY <1>0, <2>1, <2>2, <3>1, <3>3
      <3> QED  BY <1>0, <1>3, <3>4 DEF Publish, TypeOK, nodeVars
    <2> QED  BY <1>0, <2>2, <2>3, <2>4
  <1>4. CASE _ticks_callback
    <2> DEFINE msg == Head(queue)  inc == Increment(msg.ticks, lastTicks)
    <2>0. queue # <<>> /\ queue' = Tail(queue) /\ UNCHANGED <<travel, counters, resets>>
      BY <1>4 DEF _ticks_callback
    <2>1. /\ queue' \in Seq(Reading) /\ Len(queue') <= TopicDepth
          /\ msg.ticks \in U32 \X U32 /\ msg.travel \in Int \X Int
      BY <1>0, <2>0, TakenType
    <2>2. \/ Baseline(msg)
          \/ Ignored
          \/ Jump(msg)
          \/ lastTicks # None /\ Integrate(msg)
      BY <1>4, Zenon DEF _ticks_callback
    <2> HIDE DEF msg
    <2>3. CASE Baseline(msg)
      BY <1>0, <2>0, <2>1, <2>3 DEF Baseline, TypeOK
    <2>4. CASE Ignored
      BY <1>0, <2>0, <2>1, <2>4 DEF Ignored, TypeOK, nodeVars
    <2>5. CASE Jump(msg)
      <3>1. NoMotion \in S32 \X S32  BY Halves DEF NoMotion, S32
      <3> QED  BY <1>0, <2>0, <2>1, <2>5, <3>1 DEF Jump, TypeOK
    <2>6. CASE lastTicks # None /\ Integrate(msg)
      <3>1. inc \in S32 \X S32  BY <1>0, <2>1, <2>6, IncrementType DEF TypeOK
      <3>2. pose' = Plus(pose, inc) /\ odom' = [pose |-> pose', twist |-> inc]
        BY <2>6 DEF Integrate
      <3> HIDE DEF inc
      <3>3. pose' \in Int \X Int
        <4>1. inc \in Int \X Int  BY <3>1, IntegersWithin
        <4> QED  BY <1>0, <3>2, <4>1 DEF Plus, TypeOK
      <3> QED  BY <1>0, <2>0, <2>1, <2>6, <3>1, <3>2, <3>3 DEF Integrate, TypeOK
    <2> QED  BY <2>2, <2>3, <2>4, <2>5, <2>6
  <1>5. CASE Restart
    <2>1. NoMotion \in S32 \X S32 /\ NoMotion \in Int \X Int
      BY Halves DEF NoMotion, S32
    <2>2. <<>> \in Seq(Reading) /\ Len(<<>>) = 0  OBVIOUS
    <2> QED  BY <1>0, <1>5, <2>1, <2>2 DEF Restart, TypeOK
  <1>6. CASE UNCHANGED vars
    BY <1>0, <1>6 DEF vars, nodeVars, TypeOK
  <1> QED  BY <1>1, <1>2, <1>3, <1>4, <1>5, <1>6 DEF Next

\* Counters stay 32-bit values, the queue within its depth and twists within
\* what a signed 32-bit difference can show.
THEOREM ReadingTypes == Spec => []TypeOK
  <1>1. TwistInv => TypeOK  BY DEF TwistInv
  <1> QED  BY <1>1, TwistInit, TwistStep, PTL DEF Spec

\* The twist on /odom is always the change of the pose on /odom.
THEOREM TwistMatchesPose == Spec => TwistIsChange
  <1> DEFINE Agrees == odom' # odom /\ origin' # None
                         => odom'.pose = Plus(odom.pose, odom'.twist)
  <1>1. TwistInv /\ [Next]_vars => [Agrees]_vars
    <2> SUFFICES ASSUME TwistInv, Next, odom' # odom, origin' # None
                 PROVE  odom'.pose = Plus(odom.pose, odom'.twist)
      BY Zenon
    <2> DEFINE msg == Head(queue)
    <2>1. Jump(msg) \/ Integrate(msg)
      BY DEF Next, Turn, Reset, Publish, _ticks_callback, Baseline, Ignored, Restart,
             nodeVars
    <2> HIDE DEF msg
    <2>2. CASE Jump(msg)
      BY <2>2 DEF Jump, TwistInv, TypeOK, Plus, NoMotion
    <2>3. CASE Integrate(msg)
      BY <2>3 DEF Integrate, TwistInv
    <2> QED  BY <2>1, <2>2, <2>3
  <1> QED  BY <1>1, TwistInit, TwistStep, PTL DEF Spec, TwistIsChange
-----------------------------------------------------------------------------
(* The travel behind a reading                                             *)

\* The counters went from y to x while the wheels went from b to a: no counter
\* was lost between the two readings.
Apart(y, b, x, a) == \A w \in Wheel : x[w] = (y[w] + (a[w] - b[w])) % U32Base

\* ticks is what the counters would show now if the wheels went back to at.
Stands(ticks, at) == Apart(counters, travel, ticks, at)

\* all that is remembered of the wheels is less than a jump apart
AllNear ==
  /\ \A i \in DOMAIN queue : Near(travel, queue[i].travel)
  /\ \A i, j \in DOMAIN queue : Near(queue[i].travel, queue[j].travel)
  /\ lastTravel # None => /\ Near(travel, lastTravel)
                          /\ \A i \in DOMAIN queue : Near(queue[i].travel, lastTravel)

KnownTogether ==
  /\ lastTicks = None <=> lastTravel = None
  /\ lastTicks = None <=> origin = None
  /\ origin = None => pose = NoMotion

\* Every reading is as old as the number of resets before it, e of the readings in
\* the queue and l of the one used last. Between two of the same age no counter was
\* lost, and the odometry is off by less than two jumps for each reset it has seen.
Ages(e, l) ==
  /\ e \in [DOMAIN queue -> 0 .. resets] /\ l \in 0 .. resets
  /\ \A i \in DOMAIN queue : e[i] = resets => Stands(queue[i].ticks, queue[i].travel)
  /\ \A i, j \in DOMAIN queue :
       i < j => /\ e[i] <= e[j]
                /\ e[i] = e[j] => Apart(queue[i].ticks, queue[i].travel,
                                        queue[j].ticks, queue[j].travel)
  /\ lastTicks # None =>
       /\ l = resets => Stands(lastTicks, lastTravel)
       /\ \A i \in DOMAIN queue :
            /\ l <= e[i]
            /\ l = e[i] => Apart(lastTicks, lastTravel, queue[i].ticks, queue[i].travel)
       /\ \A w \in Wheel :
            Abs(pose[w] - (lastTravel[w] - origin[w])) <= 2 * JumpTicks * l

DriftInv == AllNear /\ KnownTogether /\ \E e, l : Ages(e, l)

\* Near does not depend on the order of the two.
LEMMA NearFacts ==
  ASSUME NEW a \in Pair, NEW b \in Pair
  PROVE  Near(a, a) /\ (Near(a, b) => Near(b, a))
  BY Constants DEF Pair, Near, Abs, Wheel

\* A reading is apart from itself by nothing.
LEMMA ApartItself ==
  ASSUME NEW x \in U32 \X U32, NEW a \in Pair
  PROVE  Apart(x, a, x, a)
  <1>1. ASSUME NEW w \in Wheel PROVE x[w] = (x[w] + (a[w] - a[w])) % U32Base
    <2>1. PICK c \in U32, t \in Int : c = x[w] /\ t = a[w]
      BY DEF Wheel, Pair
    <2>2. c + (t - t) = c /\ c \in 0 .. (U32Base - 1) /\ U32Base \in Nat \ {0}
      BY Constants DEF U32
    <2>3. (U32Base * 0 + c) % U32Base = c  BY <2>2, DivisionUnique
    <2>4. U32Base * 0 + c = c  BY <2>2
    <2> QED  BY <2>1, <2>2, <2>3, <2>4
  <1> QED  BY <1>1 DEF Apart

\* What holds of the way from y to x holds of the way back.
LEMMA ApartBack ==
  ASSUME NEW x \in U32 \X U32, NEW y \in U32 \X U32, NEW a \in Pair, NEW b \in Pair,
         Apart(y, b, x, a)
  PROVE  Apart(x, a, y, b)
  <1>1. ASSUME NEW w \in Wheel PROVE y[w] = (x[w] + (b[w] - a[w])) % U32Base
    <2>1. PICK u \in U32, v \in U32, p \in Int, q \in Int :
            u = x[w] /\ v = y[w] /\ p = a[w] /\ q = b[w]
      BY DEF Wheel, Pair
    <2>2. U32Base \in Nat \ {0} /\ u \in Int /\ v \in Int /\ v \in 0 .. (U32Base - 1)
      BY Constants, IntegersWithin DEF U32
    <2> DEFINE f == v + (p - q)  k == -(f \div U32Base)
    <2>3. f \in Int /\ u = f % U32Base
      BY <2>1, <2>2 DEF Apart
    <2>4. k \in Int /\ u + (q - p) = v + U32Base * k
      <3> DEFINE g == f \div U32Base  r == f % U32Base
      <3>1. g \in Int /\ r \in Int /\ f = U32Base * g + r
        BY <2>2, <2>3, Division
      <3>2. f - (p - q) = v
        BY <2>2
      <3>3. u = r
        BY <2>3
      <3> HIDE DEF f, g, r
      <3> DEFINE h == U32Base * g  n == U32Base * (-g)
      <3>4. h \in Int /\ r \in Int /\ n = -h /\ f = h + r
        <4>1. h \in Int  BY <2>2, <3>1
        <4>2. n = -h  BY <2>2, <3>1
        <4>3. f = h + r  BY <3>1
        <4> QED  BY <3>1, <4>1, <4>2, <4>3
      <3> HIDE DEF h, n
      <3>5. u + (q - p) = v + n
        <4>1. v \in Int /\ u = r /\ v = h + r - (p - q)  BY <2>2, <3>2, <3>3, <3>4
        <4> QED  BY <3>4, <4>1
      <3>6. -g \in Int  BY <3>1
      <3> QED  BY <3>5, <3>6 DEF n, g
    <2> HIDE DEF f, k
    <2>5. (v + U32Base * k) % U32Base = v % U32Base
      BY <2>2, <2>4, ModPlusMultiple
    <2>6. v % U32Base = v
      <3>1. (U32Base * 0 + v) % U32Base = v  BY <2>2, DivisionUnique
      <3>2. U32Base * 0 + v = v  BY <2>2
      <3> QED  BY <3>1, <3>2
    <2> QED  BY <2>1, <2>4, <2>5, <2>6
  <1> QED  BY <1>1 DEF Apart

\* Between readings of the same age the increment is the travel, and no jump.
LEMMA IncrementIsTravel ==
  ASSUME NEW x \in U32 \X U32, NEW y \in U32 \X U32, NEW a \in Pair, NEW b \in Pair,
         Apart(y, b, x, a), Near(a, b)
  PROVE  Increment(x, y) = Minus(a, b) /\ ~IsJump(Increment(x, y))
  <1>1. ASSUME NEW w \in Wheel
        PROVE  SignedDelta(x[w], y[w]) = a[w] - b[w] /\ Abs(a[w] - b[w]) < JumpTicks
    <2>1. PICK u \in U32, v \in U32, p \in Int, q \in Int :
            u = x[w] /\ v = y[w] /\ p = a[w] /\ q = b[w]
      BY DEF Wheel, Pair
    <2> DEFINE d == p - q
    <2>2. Abs(d) < JumpTicks /\ u = (v + d) % U32Base
      BY <2>1 DEF Near, Apart
    <2>3. d \in S32 /\ v \in Int
      BY <2>2, Constants, Halves, IntegersWithin DEF S32, Abs
    <2>4. v % U32Base = v
      <3>1. U32Base \in Nat \ {0} /\ v \in 0 .. (U32Base - 1)
        BY Constants DEF U32
      <3>2. (U32Base * 0 + v) % U32Base = v  BY <3>1, DivisionUnique
      <3>3. U32Base * 0 + v = v  BY <3>1
      <3> QED  BY <3>2, <3>3
    <2> HIDE DEF d
    <2>5. SignedDelta((v + d) % U32Base, v % U32Base) = d
      BY <2>3, WrappedDistance
    <2>6. SignedDelta(u, v) = d
      BY <2>2, <2>4, <2>5
    <2> QED  BY <2>1, <2>2, <2>6 DEF d
  <1>2. Increment(x, y) = Minus(a, b)  BY <1>1 DEF Increment, Minus, Wheel
  <1>3. \A w \in Wheel : Minus(a, b)[w] = a[w] - b[w]  BY DEF Minus, Wheel
  <1>4. \A w \in Wheel : Abs(a[w] - b[w]) \in Int /\ Abs(a[w] - b[w]) < JumpTicks
    BY <1>1 DEF Abs, Wheel, Pair
  <1> QED  BY <1>2, <1>3, <1>4, Constants DEF IsJump

\* Turning the wheels moves counter and travel alike.
LEMMA TurnKeepsReadings ==
  ASSUME TypeOK, NEW step \in Pair, Turn(step),
         NEW x, NEW a \in Pair, Stands(x, a)
  PROVE  Stands(x, a)'
  <1> SUFFICES ASSUME NEW w \in Wheel
               PROVE  x[w] = (counters'[w] + (a[w] - travel'[w])) % U32Base
    BY DEF Stands, Apart
  <1>1. PICK c \in Int, t \in Int, p \in Int, d \in Int :
          c = counters[w] /\ t = travel[w] /\ p = a[w] /\ d = step[w]
    BY IntegersWithin DEF TypeOK, Pair, Wheel
  <1>2. travel'[w] = t + d /\ counters'[w] = (c + d) % U32Base
    BY <1>1 DEF Turn, Plus, Wheel
  <1>3. x[w] = (c + (p - t)) % U32Base  BY <1>1 DEF Stands, Apart
  <1> DEFINE r == (c + d) % U32Base  k == -((c + d) \div U32Base)  e == c + (p - t)
  <1>4. U32Base \in Nat \ {0}  BY Constants
  <1>5. r \in Int /\ k \in Int /\ e \in Int /\ r + (p - (t + d)) = e + U32Base * k
    <2> DEFINE q == (c + d) \div U32Base
    <2>1. c + d \in Int  OBVIOUS
    <2>2. r \in Int /\ q \in Int /\ c + d = U32Base * q + r  BY <1>4, <2>1, Division
    <2> HIDE DEF r, q
    <2>3. r + (p - (t + d)) = (c + (p - t)) + U32Base * (-q)  BY <1>4, <2>2
    <2> QED  BY <2>2, <2>3 DEF q
  <1> HIDE DEF r, k, e
  <1>6. (e + U32Base * k) % U32Base = e % U32Base  BY <1>4, <1>5, ModPlusMultiple
  <1>7. x[w] = e % U32Base  BY <1>3 DEF e
  <1>8. counters'[w] = r  BY <1>2 DEF r
  <1> QED  BY <1>1, <1>2, <1>5, <1>6, <1>7, <1>8

\* The readings and travels in the queue have their types.
LEMMA QueueTypes ==
  ASSUME TypeOK
  PROVE  /\ \A i \in DOMAIN queue : /\ queue[i] \in Reading
                                    /\ queue[i].ticks \in U32 \X U32
                                    /\ queue[i].travel \in Pair
         /\ travel \in Pair /\ counters \in U32 \X U32 /\ pose \in Pair
         /\ lastTicks # None => lastTicks \in U32 \X U32
         /\ lastTravel # None => lastTravel \in Pair
         /\ origin # None => origin \in Pair
         /\ DOMAIN queue = 1 .. Len(queue) /\ Len(queue) \in Nat
  <1>1. \A i \in DOMAIN queue : queue[i] \in Reading
    BY LenProperties, ElementOfSeq DEF TypeOK
  <1> QED  BY <1>1, LenProperties DEF TypeOK, Reading, Pair
-----------------------------------------------------------------------------
(* What each action does to the readings and their ages                    *)

\* A queue after Publish: what is left of the old one, by s, and the new message.
LEMMA PublishElements ==
  ASSUME TypeOK, Publish
  PROVE  \E s \in {0, 1} :
           /\ Len(queue') \in Nat \ {0} /\ DOMAIN queue' = 1 .. Len(queue')
           /\ queue'[Len(queue')] = [ticks |-> counters, travel |-> travel]
           /\ \A i \in 1 .. Len(queue') - 1 : i + s \in DOMAIN queue /\ queue'[i] = queue[i + s]
  <1> DEFINE m == [ticks |-> counters, travel |-> travel]
  <1>1. queue \in Seq(Reading) /\ m \in Reading /\ TopicDepth \in Nat \ {0}
    BY Constants DEF TypeOK, Reading
  <1>2. \A q \in Seq(Reading) :
          /\ Len(Append(q, m)) = Len(q) + 1 /\ Len(q) \in Nat
          /\ DOMAIN Append(q, m) = 1 .. Len(Append(q, m)) /\ DOMAIN q = 1 .. Len(q)
          /\ Append(q, m)[Len(q) + 1] = m
          /\ \A i \in 1 .. Len(q) : Append(q, m)[i] = q[i]
    BY <1>1
  <1>3. CASE Len(queue) < TopicDepth
    <2>1. queue' = Append(queue, m)  BY <1>3 DEF Publish
    <2> HIDE DEF m
    <2>2. /\ Len(queue') \in Nat \ {0} /\ DOMAIN queue' = 1 .. Len(queue')
          /\ queue'[Len(queue')] = m
          /\ \A i \in 1 .. Len(queue') - 1 : i + 0 \in DOMAIN queue /\ queue'[i] = queue[i + 0]
      BY <1>1, <1>2, <2>1
    <2> QED  BY <2>2 DEF m
  <1>4. CASE ~(Len(queue) < TopicDepth)
    <2>1. queue' = Append(Tail(queue), m)  BY <1>4 DEF Publish
    <2>2. queue # <<>>  BY <1>1, <1>4, EmptySeq
    <2>3. /\ Tail(queue) \in Seq(Reading)
          /\ \A i \in DOMAIN Tail(queue) : i + 1 \in DOMAIN queue /\ Tail(queue)[i] = queue[i + 1]
      BY <1>1, <2>2, TailElements
    <2> HIDE DEF m
    <2>4. /\ Len(queue') \in Nat \ {0} /\ DOMAIN queue' = 1 .. Len(queue')
          /\ queue'[Len(queue')] = m
          /\ \A i \in 1 .. Len(queue') - 1 : i + 1 \in DOMAIN queue /\ queue'[i] = queue[i + 1]
      BY <1>1, <1>2, <2>1, <2>3
    <2> QED  BY <2>4 DEF m
  <1> QED  BY <1>3, <1>4

LEMMA DriftInit == Init => DriftInv
  <1> SUFFICES ASSUME Init PROVE DriftInv  OBVIOUS
  <1>2. queue = <<>> /\ DOMAIN queue = {}  BY DEF Init
  <1>3. AllNear /\ KnownTogether  BY <1>2 DEF Init, AllNear, KnownTogether
  <1>4. Ages(<<>>, 0)
    <2>1. lastTicks = None /\ resets = 0  BY DEF Init
    <2>2. <<>> \in [DOMAIN queue -> 0 .. resets] /\ 0 \in 0 .. resets  BY <1>2, <2>1
    <2> QED  BY <1>2, <2>1, <2>2 DEF Ages
  <1> QED  BY <1>3, <1>4 DEF DriftInv

LEMMA DriftTurn ==
  ASSUME TypeOK, AllNear, KnownTogether, NEW e, NEW l, Ages(e, l),
         NEW step \in Steps, Turn(step)
  PROVE  AllNear' /\ KnownTogether' /\ Ages(e, l)'
  <1>1. UNCHANGED <<queue, lastTicks, pose, origin, lastTravel, resets>>
    BY DEF Turn, nodeVars
  <1>2. step \in Pair  BY Constants
  <1>3. AllNear' /\ KnownTogether'
    BY <1>1 DEF Turn, AllNear, KnownTogether
  <1>4. \A i \in DOMAIN queue : e[i] = resets => Stands(queue[i].ticks, queue[i].travel)'
    BY <1>1, <1>2, QueueTypes, TurnKeepsReadings DEF Ages, Stands
  <1>5. lastTicks # None /\ l = resets => Stands(lastTicks, lastTravel)'
    BY <1>1, <1>2, QueueTypes, TurnKeepsReadings DEF Ages, KnownTogether, Stands
  <1>6. Ages(e, l)'
    BY <1>1, <1>4, <1>5 DEF Ages, Apart
  <1> QED  BY <1>3, <1>6

LEMMA DriftReset ==
  ASSUME TypeOK, AllNear, KnownTogether, NEW e, NEW l, Ages(e, l), Reset
  PROVE  AllNear' /\ KnownTogether' /\ Ages(e, l)'
  <1>1. UNCHANGED <<travel, queue, lastTicks, pose, origin, lastTravel>> /\ resets' = resets + 1
    BY DEF Reset, nodeVars
  <1>2. AllNear' /\ KnownTogether'  BY <1>1 DEF AllNear, KnownTogether
  <1>3. resets \in Nat /\ e \in [DOMAIN queue -> 0 .. resets] /\ l \in 0 .. resets
    BY OdometryAssumption DEF Ages, TypeOK
  <1>4. /\ e \in [DOMAIN queue -> 0 .. resets'] /\ l \in 0 .. resets' /\ l # resets'
        /\ \A i \in DOMAIN queue : e[i] # resets'
    BY <1>1, <1>3
  <1> QED  BY <1>1, <1>2, <1>4 DEF Ages, Apart

LEMMA DriftRestart ==
  ASSUME TypeOK, Restart
  PROVE  AllNear' /\ KnownTogether' /\ \E e, l : Ages(e, l)'
  <1>1. queue' = <<>> /\ DOMAIN queue' = {}  BY DEF Restart
  <1>2. /\ lastTicks' = None /\ origin' = None /\ lastTravel' = None
        /\ pose' = NoMotion /\ resets' = resets
    BY DEF Restart
  <1>3. AllNear' /\ KnownTogether'  BY <1>1, <1>2 DEF AllNear, KnownTogether
  <1>4. Ages(<<>>, 0)'
    <2>1. <<>> \in [DOMAIN queue' -> 0 .. resets'] /\ 0 \in 0 .. resets'
      BY <1>1, <1>2, OdometryAssumption DEF TypeOK
    <2> QED  BY <1>1, <1>2, <2>1 DEF Ages
  <1> QED  BY <1>3, <1>4

LEMMA DriftPublish ==
  ASSUME TypeOK, AllNear, KnownTogether, NEW e, NEW l, Ages(e, l), Publish
  PROVE  AllNear' /\ KnownTogether' /\ \E f : Ages(f, l)'
  <1>1. UNCHANGED <<travel, counters, lastTicks, pose, origin, lastTravel, resets>>
    BY DEF Publish, nodeVars
  <1> DEFINE n == Len(queue')  m == [ticks |-> counters, travel |-> travel]
  <1>2. PICK s \in {0, 1} :
          /\ n \in Nat \ {0} /\ DOMAIN queue' = 1 .. n /\ queue'[n] = m
          /\ \A i \in 1 .. n - 1 : i + s \in DOMAIN queue /\ queue'[i] = queue[i + s]
    BY PublishElements
  <1>3. /\ counters \in U32 \X U32 /\ travel \in Pair
        /\ m.ticks = counters /\ m.travel = travel
    BY QueueTypes
  <1> HIDE DEF n, m
  <1>4. AllNear'
    <2>1. \A i \in DOMAIN queue' : \/ queue'[i].travel = travel
                                   \/ \E j \in DOMAIN queue : queue'[i] = queue[j]
      BY <1>2, <1>3
    <2>2. Near(travel, travel) /\ \A j \in DOMAIN queue : Near(queue[j].travel, travel)
      BY <1>3, QueueTypes, NearFacts DEF AllNear
    <2> QED  BY <1>1, <2>1, <2>2 DEF AllNear
  <1>5. KnownTogether'  BY <1>1 DEF KnownTogether
  <1>6. /\ e \in [DOMAIN queue -> 0 .. resets] /\ l \in 0 .. resets /\ resets \in Nat
    BY OdometryAssumption DEF Ages, TypeOK
  <1>7. PICK f :
        f \in [DOMAIN queue' -> 0 .. resets'] /\ f[n] = resets
          /\ \A i \in 1 .. n - 1 : f[i] = e[i + s]
    <2> DEFINE f == [i \in 1 .. n |-> IF i = n THEN resets ELSE e[i + s]]
    <2>1. \A i \in 1 .. n : i # n => i \in 1 .. n - 1  BY <1>2
    <2>2. \A i \in 1 .. n - 1 : e[i + s] \in 0 .. resets  BY <1>2, <1>6
    <2>3. resets \in 0 .. resets /\ n \in 1 .. n  BY <1>2, <1>6
    <2>4. f \in [1 .. n -> 0 .. resets]  BY <2>1, <2>2, <2>3
    <2>5. \A i \in 1 .. n - 1 : i \in 1 .. n /\ i # n  BY <1>2
    <2>6. /\ f \in [DOMAIN queue' -> 0 .. resets'] /\ f[n] = resets
          /\ \A i \in 1 .. n - 1 : f[i] = e[i + s]
      BY <1>1, <1>2, <2>3, <2>4, <2>5
    <2> QED  BY <2>6
  <1>8. ASSUME NEW i \in DOMAIN queue', f[i] = resets
        PROVE  Stands(queue[i].ticks, queue[i].travel)'
    <2>1. CASE i = n
      BY <1>1, <1>2, <1>3, <2>1, ApartItself DEF Stands, Apart
    <2>2. CASE i # n
      <3>1. i \in 1 .. n - 1  BY <1>2, <2>2
      <3>2. Stands(queue[i + s].ticks, queue[i + s].travel)
        BY <1>2, <1>7, <1>8, <3>1 DEF Ages
      <3> QED  BY <1>1, <1>2, <3>1, <3>2 DEF Stands, Apart
    <2> QED  BY <2>1, <2>2
  <1>9. ASSUME NEW i \in DOMAIN queue', NEW j \in DOMAIN queue', i < j
        PROVE  /\ f[i] <= f[j]
               /\ f[i] = f[j] => Apart(queue'[i].ticks, queue'[i].travel,
                                       queue'[j].ticks, queue'[j].travel)
    <2>0. i \in 1 .. n - 1 /\ i + s \in DOMAIN queue /\ i \in Int /\ s \in Int /\ j \in Int
      BY <1>2, <1>9
    <2>1. CASE j = n
      <3>1. f[i] <= f[j]  BY <1>6, <1>7, <2>0, <2>1
      <3>2. ASSUME f[i] = f[j] PROVE Stands(queue'[i].ticks, queue'[i].travel)
        BY <1>2, <1>7, <2>0, <2>1, <3>2 DEF Ages
      <3>3. queue'[i].ticks \in U32 \X U32 /\ queue'[i].travel \in Pair
        BY <1>2, <2>0, QueueTypes
      <3> QED
        BY <1>2, <1>3, <2>1, <3>1, <3>2, <3>3, ApartBack DEF Stands
    <2>2. CASE j # n
      <3>1. j \in 1 .. n - 1 /\ j + s \in DOMAIN queue  BY <1>2, <2>2
      <3>2. i + s < j + s  BY <1>9, <2>0
      <3> QED  BY <1>2, <1>7, <2>0, <3>1, <3>2 DEF Ages
    <2> QED  BY <2>1, <2>2
  <1>10. ASSUME lastTicks # None, NEW i \in DOMAIN queue'
         PROVE  /\ l <= f[i]
                /\ l = f[i] => Apart(lastTicks, lastTravel, queue'[i].ticks, queue'[i].travel)
    <2>1. CASE i = n
      <3>1. l = f[i] => Stands(lastTicks, lastTravel)
        BY <1>7, <1>10, <2>1 DEF Ages
      <3>2. lastTicks \in U32 \X U32 /\ lastTravel \in Pair
        BY <1>10, QueueTypes DEF KnownTogether
      <3> QED
        BY <1>2, <1>3, <1>6, <1>7, <2>1, <3>1, <3>2, ApartBack DEF Stands
    <2>2. CASE i # n
      <3>1. i \in 1 .. n - 1  BY <1>2, <2>2
      <3> QED  BY <1>2, <1>7, <1>10, <3>1 DEF Ages
    <2> QED  BY <2>1, <2>2
  <1>11. lastTicks # None =>
           /\ l = resets => Stands(lastTicks, lastTravel)
           /\ \A w \in Wheel :
                Abs(pose[w] - (lastTravel[w] - origin[w])) <= 2 * JumpTicks * l
    BY DEF Ages
  <1>12. Ages(f, l)'
    <2>1. (f \in [DOMAIN queue -> 0 .. resets] /\ l \in 0 .. resets)'
      BY <1>1, <1>6, <1>7
    <2>2. (\A i \in DOMAIN queue : f[i] = resets => Stands(queue[i].ticks, queue[i].travel))'
      BY <1>1, <1>8
    <2>3. (\A i, j \in DOMAIN queue :
             i < j => /\ f[i] <= f[j]
                      /\ f[i] = f[j] => Apart(queue[i].ticks, queue[i].travel,
                                              queue[j].ticks, queue[j].travel))'
      BY <1>9 DEF Apart
    <2>4. (lastTicks # None =>
             /\ l = resets => Stands(lastTicks, lastTravel)
             /\ \A i \in DOMAIN queue :
                  /\ l <= f[i]
                  /\ l = f[i] => Apart(lastTicks, lastTravel, queue[i].ticks, queue[i].travel)
             /\ \A w \in Wheel :
                  Abs(pose[w] - (lastTravel[w] - origin[w])) <= 2 * JumpTicks * l)'
      BY <1>1, <1>10, <1>11 DEF Stands, Apart
    <2> QED  BY <2>1, <2>2, <2>3, <2>4, Zenon DEF Ages
  <1> QED  BY <1>4, <1>5, <1>12

\* What remains in the queue after a message was taken.
LEMMA TakenElements ==
  ASSUME TypeOK, _ticks_callback
  PROVE  /\ queue # <<>> /\ 1 \in DOMAIN queue /\ Head(queue) = queue[1]
         /\ \A i \in DOMAIN queue' : /\ i \in Int /\ 1 < i + 1 /\ i + 1 \in DOMAIN queue
                                     /\ queue'[i] = queue[i + 1]
         /\ UNCHANGED <<travel, counters, resets>>
  <1>1. queue # <<>> /\ queue' = Tail(queue) /\ UNCHANGED <<travel, counters, resets>>
    BY DEF _ticks_callback
  <1>2. queue \in Seq(Reading)  BY DEF TypeOK
  <1>3. \A i \in DOMAIN Tail(queue) : i \in Nat \ {0}
    BY <1>1, <1>2
  <1> QED  BY <1>1, <1>2, <1>3, TailElements

\* A step of less than a jump on each side costs less than two jumps.
LEMMA ErrorGrows ==
  ASSUME NEW p \in Int, NEW t \in Int, NEW o \in Int, NEW inc \in Int, NEW d \in Int,
         NEW l \in Nat, NEW k \in Nat, l < k,
         Abs(p - (t - o)) <= 2 * JumpTicks * l,
         Abs(inc) < JumpTicks, Abs(d) < JumpTicks
  PROVE  Abs((p + inc) - ((t + d) - o)) <= 2 * JumpTicks * k
  <1> DEFINE j == JumpTicks  a == 2 * JumpTicks * l  b == 2 * JumpTicks * k
  <1>1. j \in Int /\ j > 0  BY Constants
  <1>2. a \in Int /\ b \in Int /\ a + 2 * j <= b
    <2>1. 2 * j \in Nat /\ l + 1 \in Int /\ k \in Int /\ l + 1 <= k  BY <1>1
    <2> DEFINE m == 2 * j
    <2>2. (l + 1) * m <= k * m
      <3> HIDE DEF m, j
      <3>1. m \in Nat  BY <2>1 DEF m
      <3> QED  BY <2>1, <3>1, ProductMonotone
    <2>3. (l + 1) * m = a + m /\ k * m = b  BY <1>1
    <2> QED  BY <1>1, <2>2, <2>3
  <1>3. Abs(p - (t - o)) <= a /\ Abs(inc) < j /\ Abs(d) < j  OBVIOUS
  <1> HIDE DEF j, a, b
  <1>4. Abs((p + inc) - ((t + d) - o)) <= b  BY <1>1, <1>2, <1>3 DEF Abs
  <1> QED  BY <1>4 DEF b

LEMMA DriftTicks ==
  ASSUME TypeOK, AllNear, KnownTogether, NEW e, NEW l, Ages(e, l), _ticks_callback
  PROVE  AllNear' /\ KnownTogether' /\ \E f, k : Ages(f, k)'
  <1> DEFINE msg == queue[1]
  <1>1. /\ \A i \in DOMAIN queue' : /\ i \in Int /\ 1 < i + 1 /\ i + 1 \in DOMAIN queue
                                    /\ queue'[i] = queue[i + 1]
        /\ 1 \in DOMAIN queue /\ UNCHANGED <<travel, counters, resets>>
    BY TakenElements
  <1>2. \/ lastTicks = None /\ Baseline(msg)
        \/ lastTicks # None /\ Ignored
        \/ lastTicks # None /\ IsJump(Increment(msg.ticks, lastTicks)) /\ Jump(msg)
        \/ lastTicks # None /\ ~IsJump(Increment(msg.ticks, lastTicks)) /\ Integrate(msg)
    <2>1. Head(queue) = msg  BY TakenElements
    <2> HIDE DEF msg
    <2> QED  BY <2>1, Zenon DEF _ticks_callback
  <1>3. msg.ticks \in U32 \X U32 /\ msg.travel \in Pair
    BY <1>1, QueueTypes
  <1>4. e \in [DOMAIN queue -> 0 .. resets] /\ l \in 0 .. resets /\ resets \in Nat
    BY OdometryAssumption DEF Ages, TypeOK
  <1>5. PICK f : f \in [DOMAIN queue' -> 0 .. resets]
                 /\ \A i \in DOMAIN queue' : f[i] = e[i + 1]
    <2> DEFINE g == [i \in DOMAIN queue' |-> e[i + 1]]
    <2>1. g \in [DOMAIN queue' -> 0 .. resets]  BY <1>1, <1>4
    <2>2. \A i \in DOMAIN queue' : g[i] = e[i + 1]  OBVIOUS
    <2> QED  BY <2>1, <2>2
  <1>6. (\A i \in DOMAIN queue : f[i] = resets => Stands(queue[i].ticks, queue[i].travel))'
    <2>1. \A i \in DOMAIN queue' : f[i] = resets => Stands(queue[i + 1].ticks, queue[i + 1].travel)
      BY <1>1, <1>5 DEF Ages
    <2> QED  BY <1>1, <2>1 DEF Stands, Apart
  <1>7. (\A i, j \in DOMAIN queue :
           i < j => /\ f[i] <= f[j]
                    /\ f[i] = f[j] => Apart(queue[i].ticks, queue[i].travel,
                                            queue[j].ticks, queue[j].travel))'
    <2>1. ASSUME NEW i \in DOMAIN queue', NEW j \in DOMAIN queue', i < j
          PROVE  /\ f[i] <= f[j]
                 /\ f[i] = f[j] => Apart(queue[i + 1].ticks, queue[i + 1].travel,
                                         queue[j + 1].ticks, queue[j + 1].travel)
      <3>1. i + 1 \in DOMAIN queue /\ j + 1 \in DOMAIN queue /\ i + 1 < j + 1
        BY <1>1, <2>1
      <3> QED  BY <1>5, <3>1 DEF Ages
    <2> QED  BY <1>1, <2>1 DEF Apart
  <1>8. \A i \in DOMAIN queue' :
          /\ e[1] <= f[i]
          /\ e[1] = f[i] => Apart(msg.ticks, msg.travel, queue'[i].ticks, queue'[i].travel)
    BY <1>1, <1>5 DEF Ages
  <1>9. /\ e[1] \in 0 .. resets /\ e[1] \in Nat /\ l \in Nat
        /\ e[1] = resets => Stands(msg.ticks, msg.travel)
    BY <1>1, <1>4 DEF Ages
  <1>10. lastTicks # None =>
           /\ lastTicks \in U32 \X U32 /\ lastTravel \in Pair /\ lastTravel # None
           /\ origin \in Pair /\ origin # None
           /\ Near(msg.travel, lastTravel)
           /\ l <= e[1]
           /\ l = e[1] => Apart(lastTicks, lastTravel, msg.ticks, msg.travel)
           /\ \A w \in Wheel :
                Abs(pose[w] - (lastTravel[w] - origin[w])) <= 2 * JumpTicks * l
    BY <1>1, QueueTypes DEF Ages, KnownTogether, AllNear
  <1>11. \A i \in DOMAIN queue' :
            /\ Near(travel', queue'[i].travel)
            /\ Near(queue'[i].travel, msg.travel)
            /\ Near(travel', msg.travel)
            /\ \A j \in DOMAIN queue' : Near(queue'[i].travel, queue'[j].travel)
    BY <1>1 DEF AllNear
  <1>12. pose \in Pair /\ Near(travel', msg.travel)
    BY <1>1, QueueTypes DEF AllNear
  <1> HIDE DEF msg
  <1>13. ASSUME lastTicks' = msg.ticks, lastTravel' = msg.travel, origin' # None,
                \A w \in Wheel :
                  Abs(pose'[w] - (msg.travel[w] - origin'[w])) <= 2 * JumpTicks * e[1]
         PROVE  AllNear' /\ KnownTogether' /\ \E g, k : Ages(g, k)'
    <2>1. msg.ticks # None /\ msg.travel # None
      BY <1>3, Constants DEF U32, Pair
    <2>2. AllNear'  BY <1>11, <1>12, <1>13 DEF AllNear
    <2>3. KnownTogether'  BY <1>13, <2>1 DEF KnownTogether
    <2>4. PICK k : k = e[1]  OBVIOUS
    <2>5. (f \in [DOMAIN queue -> 0 .. resets] /\ k \in 0 .. resets)'
      BY <1>1, <1>5, <1>9, <2>4
    <2>6. (lastTicks # None =>
             /\ k = resets => Stands(lastTicks, lastTravel)
             /\ \A i \in DOMAIN queue :
                  /\ k <= f[i]
                  /\ k = f[i] => Apart(lastTicks, lastTravel, queue[i].ticks, queue[i].travel)
             /\ \A w \in Wheel :
                  Abs(pose[w] - (lastTravel[w] - origin[w])) <= 2 * JumpTicks * k)'
      BY <1>1, <1>8, <1>9, <1>13, <2>4 DEF Stands, Apart
    <2>7. Ages(f, k)'  BY <1>6, <1>7, <2>5, <2>6, Zenon DEF Ages
    <2> QED  BY <2>2, <2>3, <2>7
  <1>14. CASE lastTicks = None /\ Baseline(msg)
    <2>1. /\ lastTicks' = msg.ticks /\ lastTravel' = msg.travel
          /\ origin' = msg.travel /\ pose' = NoMotion
      BY <1>14 DEF Baseline, KnownTogether
    <2>2. msg.travel # None  BY <1>3, Constants
    <2>3. ASSUME NEW w \in Wheel
          PROVE  Abs(pose'[w] - (msg.travel[w] - origin'[w])) <= 2 * JumpTicks * e[1]
      <3>1. PICK t \in Int : t = msg.travel[w]  BY <1>3 DEF Wheel, Pair
      <3>2. pose'[w] = 0 /\ origin'[w] = t  BY <2>1, <3>1 DEF NoMotion, Wheel
      <3>3. 0 - (t - t) = 0 /\ Abs(0) = 0  BY DEF Abs
      <3>4. 0 <= 2 * JumpTicks * e[1]
        <4>1. 2 * JumpTicks \in Nat  BY Constants
        <4> QED  BY <1>9, <4>1
      <3> QED  BY <3>1, <3>2, <3>3, <3>4
    <2> QED  BY <1>13, <2>1, <2>2, <2>3
  <1>15. CASE lastTicks # None /\ Ignored
    <2>1. UNCHANGED <<lastTicks, pose, odom, origin, lastTravel>>
      BY <1>15 DEF Ignored, nodeVars
    <2>2. AllNear'
      BY <1>1, <2>1 DEF AllNear
    <2>3. KnownTogether'  BY <2>1 DEF KnownTogether
    <2>4. (f \in [DOMAIN queue -> 0 .. resets] /\ l \in 0 .. resets)'
      BY <1>1, <1>4, <1>5
    <2>5. \A i \in DOMAIN queue' :
            /\ l <= f[i]
            /\ l = f[i] => Apart(lastTicks, lastTravel, queue'[i].ticks, queue'[i].travel)
      BY <1>1, <1>5, <1>15 DEF Ages
    <2>6. l = resets => Stands(lastTicks, lastTravel)
      BY <1>15 DEF Ages
    <2>7. (lastTicks # None =>
             /\ l = resets => Stands(lastTicks, lastTravel)
             /\ \A i \in DOMAIN queue :
                  /\ l <= f[i]
                  /\ l = f[i] => Apart(lastTicks, lastTravel, queue[i].ticks, queue[i].travel)
             /\ \A w \in Wheel :
                  Abs(pose[w] - (lastTravel[w] - origin[w])) <= 2 * JumpTicks * l)'
      BY <1>1, <1>10, <2>1, <2>5, <2>6 DEF Stands, Apart
    <2>8. Ages(f, l)'  BY <1>6, <1>7, <2>4, <2>7, Zenon DEF Ages
    <2> QED  BY <2>2, <2>3, <2>8
  <1>16. lastTicks # None /\ l = e[1] =>
           /\ Increment(msg.ticks, lastTicks) = Minus(msg.travel, lastTravel)
           /\ ~IsJump(Increment(msg.ticks, lastTicks))
    BY <1>3, <1>10, IncrementIsTravel
  <1>17. ASSUME lastTicks # None, NEW inc \in Pair,
                lastTicks' = msg.ticks, lastTravel' = msg.travel, origin' = origin,
                pose' = Plus(pose, inc), ~IsJump(inc),
                l = e[1] => inc = Minus(msg.travel, lastTravel)
         PROVE  AllNear' /\ KnownTogether' /\ \E g, k : Ages(g, k)'
    <2>1. ASSUME NEW w \in Wheel
          PROVE  Abs(pose'[w] - (msg.travel[w] - origin'[w])) <= 2 * JumpTicks * e[1]
      <3>0. PICK p \in Int, t \in Int, o \in Int, c \in Int, u \in Int :
              /\ p = pose[w] /\ t = lastTravel[w] /\ o = origin[w] /\ c = inc[w]
              /\ u = msg.travel[w]
        BY <1>3, <1>10, <1>12, <1>17 DEF Pair, Wheel
      <3>1. PICK d \in Int : d = u - t  OBVIOUS
      <3>2. msg.travel[w] = t + d  BY <3>0, <3>1
      <3>3. pose'[w] = p + c  BY <1>17, <3>0 DEF Plus, Wheel
      <3>4. Abs(p - (t - o)) <= 2 * JumpTicks * l  BY <1>10, <1>17, <3>0
      <3>5. Abs(d) < JumpTicks  BY <1>10, <1>17, <3>0, <3>1 DEF Near
      <3>6. Abs(c) < JumpTicks
        <4>1. ~(Abs(c) >= JumpTicks) /\ Abs(c) \in Int  BY <1>17, <3>0 DEF IsJump, Abs
        <4> QED  BY <4>1, Constants
      <3>7. CASE l < e[1]
        <4>1. Abs((p + c) - ((t + d) - o)) <= 2 * JumpTicks * e[1]
          BY <1>9, <3>4, <3>5, <3>6, <3>7, ErrorGrows
        <4> QED  BY <1>17, <3>0, <3>2, <3>3, <4>1
      <3>8. CASE l = e[1]
        <4>1. c = d  BY <1>17, <3>0, <3>1, <3>8 DEF Minus, Wheel
        <4>2. (p + c) - ((t + d) - o) = p - (t - o)  BY <4>1
        <4> QED  BY <1>17, <3>0, <3>2, <3>3, <3>4, <3>8, <4>2
      <3> QED  BY <1>9, <1>10, <1>17, <3>7, <3>8
    <2>2. origin' # None  BY <1>10, <1>17
    <2> QED  BY <1>13, <1>17, <2>1, <2>2
  <1>18. CASE lastTicks # None /\ IsJump(Increment(msg.ticks, lastTicks)) /\ Jump(msg)
    <2>1. /\ lastTicks' = msg.ticks /\ lastTravel' = msg.travel
          /\ origin' = origin /\ pose' = pose
      BY <1>18 DEF Jump
    <2>2. NoMotion \in Pair /\ ~IsJump(NoMotion)
      BY Constants DEF NoMotion, Pair, IsJump, Wheel, Abs
    <2>3. pose = Plus(pose, NoMotion)  BY <1>12 DEF Plus, NoMotion, Pair
    <2> QED  BY <1>16, <1>17, <1>18, <2>1, <2>2, <2>3
  <1>19. CASE lastTicks # None /\ ~IsJump(Increment(msg.ticks, lastTicks)) /\ Integrate(msg)
    <2>1. Increment(msg.ticks, lastTicks) \in Pair
      BY <1>3, <1>10, <1>19, IncrementType, IntegersWithin DEF Pair
    <2>2. /\ lastTicks' = msg.ticks /\ lastTravel' = msg.travel
          /\ origin' = origin /\ pose' = Plus(pose, Increment(msg.ticks, lastTicks))
      BY <1>19 DEF Integrate
    <2> QED  BY <1>16, <1>17, <1>19, <2>1, <2>2
  <1> QED  BY <1>2, <1>14, <1>15, <1>18, <1>19

LEMMA DriftStep == TwistInv /\ DriftInv /\ [Next]_vars => DriftInv'
  <1> SUFFICES ASSUME TwistInv, DriftInv, [Next]_vars PROVE DriftInv'  OBVIOUS
  <1>1. TypeOK /\ AllNear /\ KnownTogether  BY DEF TwistInv, DriftInv
  <1>2. PICK e, l : Ages(e, l)  BY DEF DriftInv
  <1>3. AllNear' /\ KnownTogether' /\ \E f, k : Ages(f, k)'
    <2>1. ASSUME NEW step \in Steps, Turn(step) 
          PROVE  AllNear' /\ KnownTogether' /\ \E f, k : Ages(f, k)'
      BY <1>1, <1>2, <2>1, DriftTurn
    <2>2. CASE Reset  BY <1>1, <1>2, <2>2, DriftReset
    <2>3. CASE Publish  BY <1>1, <1>2, <2>3, DriftPublish
    <2>4. CASE _ticks_callback  BY <1>1, <1>2, <2>4, DriftTicks
    <2>5. CASE Restart  BY <1>1, <2>5, DriftRestart
    <2>6. CASE UNCHANGED vars
      <3>1. /\ UNCHANGED <<travel, counters, queue, lastTicks, pose, origin, lastTravel>>
            /\ resets' = resets
        BY <2>6 DEF vars, nodeVars
      <3>2. AllNear' /\ KnownTogether'  BY <1>1, <3>1 DEF AllNear, KnownTogether
      <3>3. Ages(e, l)'  BY <1>2, <3>1 DEF Ages, Stands, Apart
      <3> QED  BY <3>2, <3>3
    <2> QED  BY <2>1, <2>2, <2>3, <2>4, <2>5, <2>6 DEF Next
  <1> QED  BY <1>3 DEF DriftInv

\* The odometry is off by less than two jumps for each time the PLC lost its
\* counters, whatever the depth of the queue and the width of a counter, and
\* however often messages were dropped, ignored or used.
THEOREM DriftBounded == Spec => []Drift
  <1>1. TwistInv /\ DriftInv => Drift
    <2> SUFFICES ASSUME TwistInv, DriftInv, origin # None, NEW w \in Wheel
                 PROVE  Abs(pose[w] - (lastTravel[w] - origin[w]))
                          <= 2 * JumpTicks * resets
      BY DEF Drift
    <2>1. TypeOK /\ KnownTogether  BY DEF TwistInv, DriftInv
    <2>2. PICK e, l : Ages(e, l)  BY DEF DriftInv
    <2>3. PICK d \in Int : d = Abs(pose[w] - (lastTravel[w] - origin[w]))
      <3>1. pose \in Pair /\ lastTravel \in Pair /\ origin \in Pair
        BY <2>1, QueueTypes DEF KnownTogether
      <3>2. PICK p \in Int, t \in Int, o \in Int :
              p = pose[w] /\ t = lastTravel[w] /\ o = origin[w]
        BY <3>1 DEF Pair, Wheel
      <3> QED  BY <3>2 DEF Abs
    <2>4. d <= 2 * JumpTicks * l  BY <2>1, <2>2, <2>3 DEF Ages, KnownTogether
    <2>5. l \in Int /\ resets \in Int /\ l <= resets
      BY <2>2, <2>1, OdometryAssumption DEF Ages, TypeOK
    <2>6. 2 * JumpTicks * l <= 2 * JumpTicks * resets
      <3> DEFINE m == 2 * JumpTicks
      <3>1. m \in Nat  BY Constants
      <3> HIDE DEF m
      <3>2. l * m <= resets * m /\ l * m = m * l /\ resets * m = m * resets
        BY <2>5, <3>1, ProductMonotone
      <3> QED  BY <3>2 DEF m
    <2>7. 2 * JumpTicks * l \in Int /\ 2 * JumpTicks * resets \in Int
      BY <2>5, Constants
    <2> QED  BY <2>3, <2>4, <2>6, <2>7
  <1> QED  BY <1>1, TwistInit, TwistStep, DriftInit, DriftStep, PTL DEF Spec
-----------------------------------------------------------------------------
(* The odometer                                                            *)

\* Before the first reset all readings are of one age: nothing is lost.
LEMMA NothingLost ==
  ASSUME TypeOK, DriftInv, resets = 0, lastTicks # None
  PROVE  /\ pose = Minus(lastTravel, origin)
         /\ \A i \in DOMAIN queue :
              Apart(lastTicks, lastTravel, queue[i].ticks, queue[i].travel)
  <1>1. PICK e, l : Ages(e, l)  BY DEF DriftInv
  <1>2. l = 0 /\ \A i \in DOMAIN queue : e[i] = 0  BY <1>1 DEF Ages
  <1>3. pose \in Pair /\ lastTravel \in Pair /\ origin \in Pair
    BY QueueTypes DEF DriftInv, KnownTogether
  <1>4. ASSUME NEW w \in Wheel PROVE pose[w] = lastTravel[w] - origin[w]
    <2>1. PICK p \in Int, t \in Int, o \in Int :
            p = pose[w] /\ t = lastTravel[w] /\ o = origin[w]
      BY <1>3 DEF Pair, Wheel
    <2>2. Abs(p - (t - o)) <= 2 * JumpTicks * 0  BY <1>1, <1>2, <2>1 DEF Ages
    <2>3. 2 * JumpTicks * 0 = 0  BY Constants
    <2>4. p = t - o  BY <2>2, <2>3 DEF Abs
    <2> QED  BY <2>1, <2>4
  <1>5. pose = Minus(lastTravel, origin)
    <2>1. pose = <<pose[1], pose[2]>>  BY <1>3 DEF Pair
    <2> QED  BY <1>4, <2>1 DEF Minus, Wheel
  <1> QED  BY <1>1, <1>2, <1>5 DEF Ages

\* A step of the node is a step of the odometer or leaves it alone.
LEMMA OdometerStep ==
  ASSUME TypeOK, DriftInv, resets = 0, [Next]_vars, ~Reset
  PROVE  [Abstract!Next]_(Abstract!vars)
  <1>0. TypeOK /\ AllNear /\ KnownTogether /\ queue \in Seq(Reading)
    BY DEF DriftInv, TypeOK
  <1>1. ASSUME NEW step \in Steps, Turn(step) PROVE Abstract!Turn
    <2>1. step \in Pair /\ travel \in Pair  BY <1>0, Constants DEF TypeOK, Pair
    <2>2. Plus(travel, step) \in Int \X Int  BY <2>1 DEF Plus, Pair
    <2>3. UNCHANGED <<Travels(queue), origin, pose>>
      BY <1>1 DEF Turn, nodeVars, Travels
    <2> QED  BY <1>1, <2>2, <2>3 DEF Turn, Abstract!Turn
  <1>2. ASSUME Publish PROVE Abstract!Sample \/ Abstract!Lose
    <2> DEFINE m == [ticks |-> counters, travel |-> travel]
    <2>1. m \in Reading /\ m.travel = travel  BY <1>0 DEF TypeOK, Reading
    <2>2. UNCHANGED <<travel, origin, pose>>  BY <1>2 DEF Publish, nodeVars
    <2> HIDE DEF m
    <2>3. CASE Len(queue) < TopicDepth
      <3>1. queue' = Append(queue, m)  BY <1>2, <2>3 DEF Publish, m
      <3>2. Travels(queue)' = Append(Travels(queue), travel)
        <4>1. Travels(queue)' = Travels(Append(queue, m))  BY <3>1 DEF Travels
        <4> QED  BY <1>0, <2>1, <4>1, TravelsAppend
      <3> QED  BY <2>2, <3>2 DEF Abstract!Sample
    <2>4. CASE ~(Len(queue) < TopicDepth)
      <3>1. queue # <<>>  BY <1>0, <2>4, Constants, EmptySeq
      <3>2. queue' = Append(Tail(queue), m)  BY <1>2, <2>4 DEF Publish, m
      <3>3. Tail(queue) \in Seq(Reading)  BY <1>0, <3>1, HeadTailProperties
      <3>4. Travels(queue)' = Append(Tail(Travels(queue)), travel)
        <4>1. Travels(queue)' = Travels(Append(Tail(queue), m))  BY <3>2 DEF Travels
        <4>2. Travels(queue)' = Append(Travels(Tail(queue)), travel)
          BY <2>1, <3>3, <4>1, TravelsAppend
        <4> QED  BY <1>0, <3>1, <4>2, TravelsTail
      <3>5. Travels(queue) # <<>>  BY <1>0, <3>1, TravelsTail
      <3> QED  BY <2>2, <3>4, <3>5 DEF Abstract!Lose
    <2> QED  BY <2>3, <2>4
  <1>3. ASSUME _ticks_callback
        PROVE  Abstract!Start \/ Abstract!Lose \/ Abstract!Show
    <2> DEFINE msg == Head(queue)
    <2>1. queue # <<>> /\ queue' = Tail(queue) /\ travel' = travel
      BY <1>3 DEF _ticks_callback
    <2>2. /\ Travels(queue)' = Tail(Travels(queue))
          /\ Head(Travels(queue)) = msg.travel
          /\ Travels(queue) # <<>>
      <3>1. Travels(queue)' = Travels(Tail(queue))  BY <2>1 DEF Travels
      <3> QED  BY <1>0, <2>1, <3>1, TravelsTail
    <2>3. \/ lastTicks = None /\ Baseline(msg)
          \/ Ignored
          \/ lastTicks # None /\ IsJump(Increment(msg.ticks, lastTicks))
          \/ lastTicks # None /\ Integrate(msg)
      BY <1>3, Zenon DEF _ticks_callback
    <2>4. /\ msg.ticks \in U32 \X U32 /\ msg.travel \in Pair
          /\ lastTicks # None => Apart(lastTicks, lastTravel, msg.ticks, msg.travel)
          /\ lastTravel # None => Near(msg.travel, lastTravel)
      <3>1. 1 \in DOMAIN queue /\ msg = queue[1]  BY <1>0, <2>1, TailElements
      <3> QED  BY <1>0, <3>1, QueueTypes, NothingLost DEF AllNear
    <2> HIDE DEF msg
    <2>5. CASE lastTicks = None /\ Baseline(msg)
      <3>1. origin = None  BY <1>0, <2>5 DEF KnownTogether
      <3> QED  BY <2>1, <2>2, <2>5, <3>1 DEF Baseline, Abstract!Start
    <2>6. CASE Ignored
      BY <2>1, <2>2, <2>6 DEF Ignored, nodeVars, Abstract!Lose
    <2>7. ASSUME lastTicks # None
          PROVE  /\ lastTravel \in Pair /\ origin \in Pair /\ origin # None
                 /\ Increment(msg.ticks, lastTicks) = Minus(msg.travel, lastTravel)
                 /\ ~IsJump(Increment(msg.ticks, lastTicks))
      <3>1. /\ lastTicks \in U32 \X U32 /\ lastTravel \in Pair
            /\ origin \in Pair /\ origin # None
            /\ Near(msg.travel, lastTravel)
        BY <1>0, <2>4, <2>7, QueueTypes DEF KnownTogether
      <3> QED  BY <2>4, <2>7, <3>1, IncrementIsTravel
    <2>8. CASE lastTicks # None /\ Integrate(msg)
      <3>1. pose = Minus(lastTravel, origin)
        BY <2>8, NothingLost
      <3>2. pose' = Minus(msg.travel, origin)
        BY <2>4, <2>7, <2>8, <3>1 DEF Integrate, Plus, Minus, Pair
      <3>3. Abstract!Minus(msg.travel, origin) = Minus(msg.travel, origin)
        BY DEF Minus, Abstract!Minus
      <3>4. origin' = origin  BY <2>8 DEF Integrate
      <3> QED  BY <2>1, <2>2, <2>7, <2>8, <3>2, <3>3, <3>4 DEF Abstract!Show
    <2> QED  BY <2>3, <2>5, <2>6, <2>7, <2>8
  <1>4. ASSUME Restart PROVE Abstract!Restart
    <2>1. Travels(queue)' = <<>>
      <3>1. Travels(queue)' = Travels(<<>>)  BY <1>4 DEF Restart, Travels
      <3> QED  BY <3>1, TravelsEmpty
    <2> QED  BY <1>4, <2>1 DEF Restart, NoMotion, Abstract!Restart
  <1>5. ASSUME UNCHANGED vars PROVE UNCHANGED Abstract!vars
    BY <1>5 DEF vars, nodeVars, Travels, Abstract!vars
  <1> QED
    BY <1>1, <1>2, <1>3, <1>4, <1>5 DEF Next, Abstract!Next

\* A run without a reset so far had none in its last step either.
LEMMA NoResetYet ==
  ASSUME TypeOK, [Next]_vars, resets' = 0
  PROVE  resets = 0 /\ ~Reset
  BY DEF TypeOK, Next, Turn, Reset, Publish, _ticks_callback, Restart, vars

\* While the PLC keeps its counters, what is shown on /odom is the travel
\* between the first sample used and the last, whatever was lost on the way and
\* however often the counters wrapped around.
THEOREM OdometryIsOdometer == Spec => Implements
  <1> DEFINE Shown == resets' = 0 => [Abstract!Next]_(Abstract!vars)
  <1>1. Init => Abstract!Init
    BY TravelsEmpty DEF Init, Abstract!Init, NoMotion, Travels
  <1>2. TwistInv /\ DriftInv /\ [Next]_vars => [Shown]_vars
    BY NoResetYet, OdometerStep DEF TwistInv
  <1> HIDE DEF Shown
  <1> QED
    BY <1>1, <1>2, TwistInit, TwistStep, DriftInit, DriftStep, PTL
    DEF Spec, Implements, Shown
=============================================================================
