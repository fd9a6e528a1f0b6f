--------------------------- MODULE MCCommandChain ---------------------------
(***************************************************************************)
(* CommandChain with the parameters of kinematics_params.yaml and          *)
(* plc_driver_params.yaml, in the units of MCWheelCommand.                 *)
(***************************************************************************)
EXTENDS CommandChain

Slowest   == -3500
DriverLow == -250

\* Half of max_vel_x, and what teleoperation drives at: both are boosted to
\* plc_cruise_min, as every velocity up to max_vel_x is.
Ahead   == {<<300, 0>>}
Nothing == {}

\* The zeros of a stop suffice, as the proof of StopReaches assumes: 120 units are three
\* steps of the ramp. At full speed it takes nine, and an e-stop sends ten.
ASSUME ZerosEnough == EnoughZeros
=============================================================================
