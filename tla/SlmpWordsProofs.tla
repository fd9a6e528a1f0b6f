--------------------------- MODULE SlmpWordsProofs ---------------------------
(***************************************************************************)
(* What the conversions of SlmpWords compute, for every width of a word,   *)
(* and before that what the provers do not find by themselves about div    *)
(* and mod. Modules without words cite the latter from an instance with    *)
(* some width.                                                             *)
(***************************************************************************)
EXTENDS SlmpWords, TLAPS

-----------------------------------------------------------------------------
(* div and mod                                                             *)

\* Euclidean division: what the provers know of div and mod.
LEMMA Division ==
  ASSUME NEW a \in Int, NEW m \in Nat \ {0}
  PROVE  /\ a \div m \in Int /\ a % m \in 0 .. (m - 1)
         /\ a = m * (a \div m) + (a % m)
  BY Z3

\* A multiple of m lies strictly between -m and m only if it is zero.
LEMMA SmallMultiple ==
  ASSUME NEW m \in Nat \ {0}, NEW k \in Int, -m < m * k, m * k < m
  PROVE  k = 0
  <1>1. ~(k >= 1)
    <2>1. ASSUME k >= 1 PROVE m * k >= m  BY <2>1
    <2> QED  BY <2>1
  <1>2. ~(k <= -1)
    <2>1. ASSUME k <= -1 PROVE m * k <= -m  BY <2>1
    <2> QED  BY <2>1
  <1> QED  BY <1>1, <1>2

\* Quotient and remainder are unique.
LEMMA DivisionUnique ==
  ASSUME NEW m \in Nat \ {0}, NEW q \in Int, NEW r \in 0 .. (m - 1)
  PROVE  (m * q + r) \div m = q /\ (m * q + r) % m = r
  <1> DEFINE a == m * q + r
  <1>1. a \in Int  OBVIOUS
  <1>2. /\ a \div m \in Int /\ a % m \in 0 .. (m - 1)
        /\ a = m * (a \div m) + (a % m)
    BY <1>1, Division
  <1> DEFINE d == (a \div m) - q
  <1>3. d \in Int /\ m * d = r - (a % m)  BY <1>1, <1>2
  <1>4. -m < m * d /\ m * d < m  BY <1>2, <1>3
  <1> HIDE DEF d
  <1>5. d = 0  BY <1>3, <1>4, SmallMultiple
  <1> QED  BY <1>2, <1>3, <1>5 DEF d

\* Adding a multiple of m changes no remainder.
LEMMA ModPlusMultiple ==
  ASSUME NEW m \in Nat \ {0}, NEW a \in Int, NEW k \in Int
  PROVE  (a + m * k) % m = a % m
  <1> DEFINE q == (a \div m) + k
  <1>1. a % m \in 0 .. (m - 1) /\ q \in Int /\ a \div m \in Int  BY Division
  <1>2. a = m * (a \div m) + (a % m)  BY Division
  <1>3. a + m * k = m * q + (a % m)  BY <1>1, <1>2
  <1> HIDE DEF q
  <1> QED  BY <1>1, <1>3, DivisionUnique

\* A larger number has the larger quotient, and one that is not negative has a
\* quotient that is not.
LEMMA DivisionMonotone ==
  ASSUME NEW m \in Nat \ {0}, NEW a \in Int, NEW b \in Int, a <= b
  PROVE  a \div m <= b \div m /\ (0 <= a => 0 <= a \div m)
  <1> DEFINE q == a \div m  r == a % m  u == b \div m  v == b % m
  <1>1. q \in Int /\ r \in 0 .. (m - 1) /\ a = m * q + r  BY Division
  <1>2. u \in Int /\ v \in 0 .. (m - 1) /\ b = m * u + v  BY Division
  <1> HIDE DEF q, r, u, v
  <1>3. ~(q >= u + 1)
    <2>1. ASSUME q >= u + 1 PROVE m * q >= m * (u + 1)  BY <1>1, <1>2, <2>1
    <2>2. m * (u + 1) = m * u + m  BY <1>2
    <2>3. m * q \in Int /\ m * u \in Int  BY <1>1, <1>2
    <2> QED  BY <1>1, <1>2, <2>1, <2>2, <2>3
  <1>4. 0 <= a => ~(q <= -1)
    <2>1. ASSUME q <= -1 PROVE m * q <= -m  BY <1>1, <2>1
    <2> QED  BY <1>1, <2>1
  <1> QED  BY <1>1, <1>2, <1>3, <1>4 DEF q, u

\* Products keep the order of their factors.
LEMMA ProductMonotone ==
  ASSUME NEW a \in Int, NEW b \in Int, NEW n \in Nat, a <= b
  PROVE  a * n \in Int /\ b * n \in Int /\ a * n <= b * n
  <1>1. (b - a) * n = b * n - a * n  OBVIOUS
  <1>2. b - a \in Nat  OBVIOUS
  <1>3. (b - a) * n >= 0  BY <1>2
  <1> QED  BY <1>1, <1>3
-----------------------------------------------------------------------------
(* The sets                                                                *)

\* Half a word and half of a u32 are whole numbers.
LEMMA Halves ==
  /\ WordBase \in Nat /\ WordBase > 1
  /\ WordBase \div 2 \in Nat /\ WordBase = 2 * (WordBase \div 2)
  /\ U32Base \in Nat /\ U32Base > 1
  /\ U32Base \div 2 \in Nat /\ U32Base = 2 * (U32Base \div 2)
  <1> DEFINE h == WordBase \div 2
  <1>1. WordBase \in Nat /\ WordBase > 1 /\ WordBase % 2 = 0
    BY WordAssumption
  <1>2. h \in Int /\ WordBase = 2 * h  BY <1>1, Division, Z3
  <1>3. h \in Nat  BY <1>1, <1>2
  <1> DEFINE k == WordBase * h
  <1>4. k \in Nat /\ U32Base = 2 * k + 0
    <2> HIDE DEF h
    <2> QED  BY <1>1, <1>2, <1>3 DEF U32Base
  <1>5. U32Base > 1
    <2>1. WordBase * WordBase >= WordBase  BY <1>1
    <2> QED  BY <2>1, <1>1 DEF U32Base
  <1>6. U32Base \div 2 = k
    <2> HIDE DEF k
    <2> QED  BY <1>4, DivisionUnique
  <1> QED  BY <1>1, <1>2, <1>3, <1>4, <1>5, <1>6

\* u32_to_signed maps u32 values to s32 values, a multiple of U32Base away.
LEMMA SignedOfU32 ==
  ASSUME NEW u \in U32
  PROVE  /\ u32_to_signed(u) \in S32
         /\ u32_to_signed(u) = u \/ u32_to_signed(u) = u - U32Base
  BY Halves DEF U32, S32, u32_to_signed

\* ... and is the only s32 value there.
LEMMA SignedUnique ==
  ASSUME NEW s \in S32
  PROVE  s % U32Base \in U32 /\ u32_to_signed(s % U32Base) = s
  <1>1. s \in Int /\ U32Base \in Nat \ {0}  BY Halves DEF S32
  <1>2. s % U32Base \in U32  BY <1>1, Division DEF U32
  <1>3. CASE s >= 0
    <2>1. s % U32Base = s
      <3>1. s \in 0 .. (U32Base - 1)  BY <1>3, Halves DEF S32
      <3>2. (U32Base * 0 + s) % U32Base = s  BY <1>1, <3>1, DivisionUnique
      <3> QED  BY <1>1, <3>2
    <2> QED  BY <1>2, <1>3, <2>1, Halves DEF S32, u32_to_signed
  <1>4. CASE s < 0
    <2> DEFINE r == s + U32Base
    <2>1. s % U32Base = r
      <3>1. r \in 0 .. (U32Base - 1)  BY <1>1, <1>4, Halves DEF S32
      <3>2. (U32Base * (-1) + r) % U32Base = r  BY <1>1, <3>1, DivisionUnique
      <3>3. s = U32Base * (-1) + r  BY <1>1
      <3> QED  BY <3>2, <3>3
    <2>2. r >= U32Base \div 2  BY <1>1, Halves DEF S32
    <2> QED  BY <1>1, <1>2, <2>1, <2>2 DEF u32_to_signed
  <1> QED  BY <1>1, <1>3, <1>4

\* The two registers of an encoder hold a u32.
LEMMA PairIsU32 ==
  ASSUME NEW lo \in Int, NEW hi \in Int
  PROVE  u16pair_to_u32(lo, hi) \in U32
  <1> DEFINE l == lo % WordBase  h == hi % WordBase
  <1>1. WordBase \in Nat \ {0} /\ l \in 0 .. (WordBase - 1) /\ h \in 0 .. (WordBase - 1)
    BY Halves, Division
  <1> HIDE DEF l, h
  <1>2. h * WordBase + l \in Int /\ h * WordBase + l >= 0  BY <1>1
  <1>3. h * WordBase =< (WordBase - 1) * WordBase  BY <1>1
  <1>4. h * WordBase + l < WordBase * WordBase  BY <1>1, <1>3
  <1>5. u16pair_to_u32(lo, hi) = h * WordBase + l  BY DEF u16pair_to_u32, l, h
  <1>6. h * WordBase + l \in 0 .. (WordBase * WordBase - 1)  BY <1>1, <1>2, <1>4
  <1> QED  BY <1>5, <1>6 DEF U32, U32Base

\* The bytes of a word do not change when it is read as a signed one.
LEMMA WordOfUnsigned ==
  ASSUME NEW u \in 0 .. (WordBase - 1)
  PROVE  word_to_signed(u) \in Word /\ word_to_signed(u) % WordBase = u
  <1>1. WordBase \in Nat \ {0} /\ u \in Int  BY Halves
  <1>2. word_to_signed(u) \in Word  BY Halves DEF Word, word_to_signed
  <1>3. (WordBase * 0 + u) % WordBase = u /\ (WordBase * (-1) + u) % WordBase = u
    BY <1>1, DivisionUnique
  <1>4. WordBase * 0 + u = u /\ WordBase * (-1) + u = u - WordBase  BY <1>1
  <1> QED  BY <1>2, <1>3, <1>4 DEF word_to_signed

\* speed_to_mc_words: the command registers get two words, and a motor driver
\* that reads them back as one 32-bit signed value has the speed that was sent.
THEOREM SpeedRoundTrip ==
  ASSUME NEW s \in S32
  PROVE  /\ speed_to_mc_words(s) \in Word \X Word
         /\ MotorSpeed(speed_to_mc_words(s)) = s
  <1> DEFINE v == s % U32Base  q == v \div WordBase  r == v % WordBase
  <1>1. WordBase \in Nat \ {0}  BY Halves
  <1>2. v \in Int /\ 0 =< v /\ v < WordBase * WordBase
    <2>1. v \in U32  BY SignedUnique
    <2> HIDE DEF v
    <2> QED  BY <2>1, <1>1 DEF U32, U32Base
  <1> HIDE DEF v
  <1>3. q \in Int /\ r \in 0 .. (WordBase - 1) /\ v = WordBase * q + r
    BY <1>1, <1>2, Division
  <1> HIDE DEF q, r
  <1>4. q \in 0 .. (WordBase - 1)
    <2>1. q >= 0
      <3>1. ASSUME q <= -1 PROVE WordBase * q <= -WordBase  BY <1>1, <1>3, <3>1
      <3> QED  BY <1>1, <1>2, <1>3, <3>1
    <2>2. q < WordBase
      <3>1. ASSUME q >= WordBase PROVE WordBase * q >= WordBase * WordBase
        BY <1>1, <1>3, <3>1
      <3> QED  BY <1>1, <1>2, <1>3, <3>1
    <2> QED  BY <1>1, <1>3, <2>1, <2>2
  <1>5. q % WordBase = q
    <2>1. (WordBase * 0 + q) % WordBase = q  BY <1>1, <1>4, DivisionUnique
    <2> QED  BY <1>1, <1>3, <2>1
  <1>6. speed_to_mc_words(s) = <<word_to_signed(r), word_to_signed(q)>>
    BY <1>5 DEF speed_to_mc_words, v, q, r
  <1>7. u16pair_to_u32(word_to_signed(r), word_to_signed(q)) = q * WordBase + r
    BY <1>3, <1>4, WordOfUnsigned DEF u16pair_to_u32
  <1>8. q * WordBase + r = v  BY <1>1, <1>3
  <1>9. MotorSpeed(speed_to_mc_words(s)) = u32_to_signed(v)
    BY <1>6, <1>7, <1>8 DEF MotorSpeed
  <1> QED  BY <1>3, <1>4, <1>6, <1>9, WordOfUnsigned, SignedUnique DEF v

\* A counter that wraps around still shows the distance it moved, as long as
\* that is less than half its range: the difference masked to 32 bits and read
\* as a signed number, in both nodes.
THEOREM WrappedDistance ==
  ASSUME NEW before \in Int, NEW d \in S32
  PROVE  SignedDelta((before + d) % U32Base, before % U32Base) = d
  <1> DEFINE b == before % U32Base  n == (before + d) % U32Base
             qb == before \div U32Base  qn == (before + d) \div U32Base
  <1>1. U32Base \in Nat \ {0} /\ d \in Int  BY Halves DEF S32
  <1>2. b \in Int /\ qb \in Int /\ before = U32Base * qb + b  BY <1>1, Division
  <1>3. n \in Int /\ qn \in Int /\ before + d = U32Base * qn + n
    BY <1>1, Division
  <1> HIDE DEF b, n, qb, qn
  <1>4. n - b = d + U32Base * (qb - qn)  BY <1>1, <1>2, <1>3
  <1> DEFINE k == qb - qn
  <1>5. (d + U32Base * k) % U32Base = d % U32Base
    <2>1. k \in Int  BY <1>2, <1>3
    <2> HIDE DEF k
    <2> QED  BY <1>1, <2>1, ModPlusMultiple
  <1>6. (n - b) % U32Base = d % U32Base  BY <1>4, <1>5
  <1> QED  BY <1>6, SignedUnique DEF SignedDelta, b, n
=============================================================================
