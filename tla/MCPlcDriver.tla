----------------------------- MODULE MCPlcDriver -----------------------------
(***************************************************************************)
(* Small instances of PlcDriver: a word has 4 values, a u32 has 16.        *)
(***************************************************************************)
EXTENDS PlcDriver

SlowestSpeed == -3

\* to turn on the spot, with fractions and beyond both limits; to stop; a short one
MsgsMixed   == {<<9, -9>>, <<0, 0>>, <<3>>}
\* one command, or to stop
MsgsOne     == {<<2, -3>>, <<0, 0>>}
ReadsZero   == {<<0, 0>>}
ReadsOne    == {<<1, -1>>}
ReadsAround == {<<1, 0>>, <<-1, -1>>, <<-2, 1>>}
=============================================================================
