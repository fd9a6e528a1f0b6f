SPECIFICATION FairSpec
CONSTANTS
  ReadTimeout = 2
  StartTimeout = 3
  KillTimeout = 0
  Services = {"SCdevicestate"}
  Losses = 3
  Refusals = 0
INVARIANTS OneReader PopNeverWaits
PROPERTIES FramesKept Recovers RequestReturns
