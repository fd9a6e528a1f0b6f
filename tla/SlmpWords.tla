------------------------------ MODULE SlmpWords ------------------------------
(***************************************************************************)
(* The 16-bit words of the MC protocol and the 32-bit values carried by    *)
(* two of them: the conversions of plc_driver_node.py and                  *)
(* kinematics_node.py.  They are parameterised by the number of values of  *)
(* a word, so that TLC can use a narrow word and the proofs hold for the   *)
(* real one (WordBase = 65536).                                            *)
(***************************************************************************)
EXTENDS Integers

CONSTANT WordBase   \* number of values of a word

ASSUME WordAssumption == /\ WordBase \in Nat \ {0, 1}
                         /\ WordBase % 2 = 0

U32Base == WordBase * WordBase      \* the masks 0xFFFFFFFF keep v % U32Base
Word    == (-(WordBase \div 2)) .. (WordBase \div 2 - 1)   \* a signed word
U32     == 0 .. (U32Base - 1)
S32     == (-(U32Base \div 2)) .. (U32Base \div 2 - 1)

\* lo_s16 / hi_s16: the unsigned word u read as a signed one
word_to_signed(u) == IF u < WordBase \div 2 THEN u ELSE u - WordBase

\* u32_to_signed, and the same expression in the driver's jump test
u32_to_signed(u) == IF u < U32Base \div 2 THEN u ELSE u - U32Base

\* the two registers lo, hi (signed words) as one unsigned value
u16pair_to_u32(lo, hi) == ((hi % WordBase) * WordBase) + (lo % WordBase)

\* mutant: the high word is not sign-extended
speed_to_mc_words_short(speed) ==
  << word_to_signed((speed % U32Base) % WordBase), 0 >>

\* the two words, low word first, that carry the integer speed
speed_to_mc_words(speed) ==
  LET val == speed % U32Base
  IN  << word_to_signed(val % WordBase),
         word_to_signed((val \div WordBase) % WordBase) >>

\* signed distance from an earlier to a later reading of a u32 counter
SignedDelta(now, before) == u32_to_signed((now - before) % U32Base)

\* the speed a motor driver reads back from its two command registers
MotorSpeed(words) == u32_to_signed(u16pair_to_u32(words[1], words[2]))
=============================================================================
