---------------------------- MODULE MotorRegisters ----------------------------
(***************************************************************************)
(* What the command chain may rely on at its end: how the two motor        *)
(* registers of the PLC follow the command, without connections, words,    *)
(* sessions, answers or a shutdown.  A pair is <<right, left>>.            *)
(***************************************************************************)
EXTENDS Integers

CONSTANT Speeds

VARIABLES cmd,    \* the command the driver works with, zero without a driver
          reg     \* the speeds the registers stand for

vars == <<cmd, reg>>

Zero == <<0, 0>>

\* A driver that was killed may have left any speeds.
Init == cmd = Zero /\ reg \in Speeds \X Speeds

\* What one cycle leaves behind: the right motor is written first.
Written == {reg, <<cmd[1], reg[2]>>, cmd}

Command == cmd' \in Speeds \X Speeds /\ UNCHANGED reg

Write == reg' \in Written /\ UNCHANGED cmd

\* The driver ends, and from now on it only zeroes. A request may be under way.
End == cmd' = Zero /\ reg' \in Written

\* The PLC loses its power.
PowerLoss == reg' = Zero /\ UNCHANGED cmd

Next == Command \/ Write \/ End \/ PowerLoss

Spec == Init /\ [][Next]_vars
=============================================================================
