----------------------------- MODULE MCOdometry -----------------------------
(***************************************************************************)
(* Odometry with counters of 16 values that start next to their wrap-      *)
(* around, and jumps of 3 ticks.                                           *)
(***************************************************************************)
EXTENDS Odometry

Around   == {<<15, 7>>}
Straight == {<<1, 1>>, <<-1, -1>>, <<2, -1>>}
=============================================================================
