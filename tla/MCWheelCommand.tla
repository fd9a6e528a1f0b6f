--------------------------- MODULE MCWheelCommand ---------------------------
(***************************************************************************)
(* WheelCommand with the node's default parameters: velocities in mm/s,    *)
(* outputs in tenths of a PLC unit.                                        *)
(***************************************************************************)
EXTENDS WheelCommand

Slowest == -3500

ASSUME DefaultsInOrder == EvenLimits /\ TorqueAllowed /\ ZonesApart

\* on both sides of every threshold, and beyond the limits
Lins == {0, 29, 30, 49, 50, 99, 100, 333, 1028, 1029, 2999, 3200}
Rims == {0, 17, 18, 37, 38, 60, 99, 101, 180, 200}
Grid == {<<s * v, t * w>> : v \in Lins, w \in Rims, s \in {-1, 1}, t \in {-1, 1}}

\* turning on the spot, from just above stop_ang_eps to beyond max_angular_vel
Turns == {<<0, t * w>> : w \in Rims, t \in {-1, 1}}

\* to ramp between: a stop, both directions, a curve, a pivot and its reverse
Drive == {<<0, 0>>, <<3000, 0>>, <<-3000, 0>>, <<1000, 180>>, <<0, 100>>, <<0, -100>>}

Inputs == Grid \cup Drive

\* Bound: a command that is not in Drive is only given to a robot that has not
\* moved yet, and only repeated then.
MCNext == \E msg \in CmdVels :
            /\ msg \in Drive => last \in Drive
            /\ msg \notin Drive => repeats = 0 \/ LimitedCmd(msg) = last
            /\ _cmd_vel_callback(msg)

MCSpec == Init /\ [][MCNext]_vars
=============================================================================
