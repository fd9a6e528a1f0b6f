SPECIFICATION TeleopFairSpec
CONSTANTS
  Moves = {FORWARD, BACKWARD}
  Stop = Stop
CHECK_DEADLOCK FALSE
INVARIANT InterruptStops
PROPERTIES QuitWindsDown QuitExits ReleaseShows
