SPECIFICATION Spec
CONSTANTS
  MaxLin = 3000
  MaxRim = 180
  StopLin = 30
  StopRim = 18
  CruiseThreshold = 100
  PivotEps = 50
  Unit = 10
  SpeedMin <- Slowest
  SpeedMax = 3500
  CruiseMin = 1200
  CruiseMax = 3500
  PrecisionMax = 800
  Deadband = 350
  PivotMin = 550
  RampRate = 4000
  DriverMin <- DriverLow
  DriverMax = 250
  CancelZeros = 1
  EstopZeros = 1
  CmdDepth = 1
  WheelDepth = 1
  Off = Off
  NavVels <- Nothing
  KeyVels <- Ahead
  Forward = Forward
  NoKey = NoKey
  Moves <- KeyMap
  Twist <- Velocity
PROPERTY ImplementsChain
