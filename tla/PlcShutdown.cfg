SPECIFICATION Spec
CONSTANTS
  WordBase = 4
  SpeedMin <- SlowestSpeed
  SpeedMax = 3
  Scale = 2
  CmdMsgs <- MsgsOne
  EncoderReads <- ReadsZero
  JumpTicks = 2
  ReconnectS = 2
  None = None
PROPERTIES ShutdownZeroesMotors
