SPECIFICATION FairSpec
CONSTANTS
  TickBase = 4
  MaxVel = 4
  Commands <- MCCommands
  Steps <- MCSteps
  FirstTicks <- MCFirstTicks
  TopicDepth = 1
  Span = 4
  Short = Short
  None = None
INVARIANTS ReadablePositions StopZeroes
PROPERTIES StoppedIsQuiet StopReturns
