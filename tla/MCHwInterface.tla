---------------------------- MODULE MCHwInterface ----------------------------
(* Instances of HwInterface for TLC. *)
EXTENDS HwInterface
MCCommands == {<<9, -1>>}
MCSteps == {<<1, -1>>, <<-1, 1>>}
\* one wheel next to the wrap-around, the other next to the sign change
MCFirstTicks == <<0, 2>>
=============================================================================
