SPECIFICATION Spec
CONSTANTS
  NavigateRetries = 3
  FollowRetries = 6
  Goals = {g1, g2}
  None = None
  MaxUpdates = 1
CHECK_DEADLOCK FALSE
INVARIANT NewGoalFollowed
