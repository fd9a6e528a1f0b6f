------------------------------ MODULE Odometer ------------------------------
(***************************************************************************)
(* What odometry promises, without counters, wrap-around or differences:   *)
(* samples of the wheels' travel are sent, some are lost, and what is      *)
(* shown is the travel from the first sample used to the latest one.  A    *)
(* pair is <<left, right>>.                                                *)
(***************************************************************************)
EXTENDS Integers, Sequences

CONSTANTS None

VARIABLES travel,    \* how far the wheels have really turned
          samples,   \* samples under way, oldest first
          origin,    \* the first sample used, None before
          shown      \* the travel shown

vars == <<travel, samples, origin, shown>>

Minus(a, b) == <<a[1] - b[1], a[2] - b[2]>>

Init == travel = <<0, 0>> /\ samples = <<>> /\ origin = None /\ shown = <<0, 0>>

Turn == travel' \in Int \X Int /\ UNCHANGED <<samples, origin, shown>>

Sample == samples' = Append(samples, travel) /\ UNCHANGED <<travel, origin, shown>>

\* the oldest sample is lost, maybe because a new one takes its place
Lose == /\ samples # <<>>
        /\ samples' \in {Tail(samples), Append(Tail(samples), travel)}
        /\ UNCHANGED <<travel, origin, shown>>

\* the first sample is where counting starts
Start == /\ samples # <<>> /\ origin = None
         /\ origin' = Head(samples) /\ samples' = Tail(samples)
         /\ UNCHANGED <<travel, shown>>

Show == /\ samples # <<>> /\ origin # None
        /\ shown' = Minus(Head(samples), origin) /\ samples' = Tail(samples)
        /\ UNCHANGED <<travel, origin>>

Restart == /\ samples' = <<>> /\ origin' = None /\ shown' = <<0, 0>>
           /\ UNCHANGED travel

Next == Turn \/ Sample \/ Lose \/ Start \/ Show \/ Restart

Spec == Init /\ [][Next]_vars
=============================================================================
