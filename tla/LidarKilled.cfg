SPECIFICATION MonitorSpec
CONSTANTS
  ReadTimeout = 2
  StartTimeout = 3
  KillTimeout = 5
  Services = {"SCdevicestate"}
  Losses = 1
  Refusals = 0
PROPERTIES Recovers
