SPECIFICATION FairSpec
CONSTANTS
  ReadTimeout = 2
  StartTimeout = 3
  KillTimeout = 0
  Services = {"LIDoutputstate"}
  Losses = 0
  Refusals = 0
PROPERTIES RequestReturns
