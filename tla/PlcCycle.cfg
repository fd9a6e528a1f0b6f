SPECIFICATION FairSpec
CONSTANTS
  WordBase = 4
  SpeedMin <- SlowestSpeed
  SpeedMax = 3
  Scale = 2
  CmdMsgs <- MsgsMixed
  EncoderReads <- ReadsOne
  JumpTicks = 2
  ReconnectS = 2
  None = None
INVARIANTS RegistersMatch SafeShutdown
PROPERTIES ServoReleasedAtRest HeartbeatToggles RetrySpacing FollowsCommand Recovers CommandDelivered DisconnectReported
