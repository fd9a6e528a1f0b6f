SPECIFICATION FairSpec
CONSTANTS
  MaxLin = 3000
  MaxRim = 180
  StopLin = 30
  StopRim = 18
  CruiseThreshold = 100
  PivotEps = 50
  Unit = 10
  SpeedMin <- Slowest
  SpeedMax = 3500
  CruiseMin = 1200
  CruiseMax = 3500
  PrecisionMax = 800
  Deadband = 350
  PivotMin = 550
  RampRate = 400
  DriverMin <- DriverLow
  DriverMax = 250
  CancelZeros = 3
  Off = Off
  NavVels <- Ahead
  KeyVels <- Nothing
  EstopZeros = 3
  CmdDepth = 3
  WheelDepth = 1
PROPERTY StopNavStops
