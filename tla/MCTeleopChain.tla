--------------------------- MODULE MCTeleopChain ---------------------------
(***************************************************************************)
(* TeleopChain with one key and a short queue, in the units of             *)
(* MCCommandChain. The ramp takes the wheels to any speed in one message:  *)
(* ImplementsChain is about the publishers.                                *)
(***************************************************************************)
EXTENDS TeleopChain

CONSTANT Forward

Slowest   == -3500
DriverLow == -250

Nothing  == {}
KeyMap   == {Forward}
Ahead    == {<<300, 0>>}
Velocity == [c \in {Forward, NoKey} |-> IF c = Forward THEN <<300, 0>> ELSE <<0, 0>>]
=============================================================================
