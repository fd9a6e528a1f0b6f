SPECIFICATION TeleopFairSpec
CONSTANTS
  Moves = {FORWARD, BACKWARD}
  Stop = Stop
CHECK_DEADLOCK FALSE
PROPERTY PressMoves
