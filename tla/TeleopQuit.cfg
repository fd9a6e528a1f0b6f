SPECIFICATION TeleopSpec
CONSTANTS
  Moves = {FORWARD, BACKWARD}
  Stop = Stop
CHECK_DEADLOCK FALSE
INVARIANT QuitStops
