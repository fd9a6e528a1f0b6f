SPECIFICATION RefusingSpec
CONSTANTS
  ReadTimeout = 2
  StartTimeout = 3
  KillTimeout = 0
  Services = {"SCdevicestate"}
  Losses = 1
  Refusals = 1
PROPERTIES RequestReturns
