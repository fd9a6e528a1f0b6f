SPECIFICATION Spec
CONSTANTS
  WordBase = 4
  JumpTicks = 3
  TopicDepth = 2
  Steps <- Straight
  FirstCounters <- Around
  Span = 2
  MaxResets = 1
  None = None
INVARIANT Drift
PROPERTIES TwistIsChange Implements
