SPECIFICATION MCSpec
CONSTANTS
  CmdVels <- Inputs
  MaxLin = 3000
  MaxRim = 180
  StopLin = 30
  StopRim = 18
  CruiseThreshold = 100
  PivotEps = 50
  Unit = 10
  SpeedMin <- Slowest
  SpeedMax = 3500
  CruiseMin = 1200
  CruiseMax = 3500
  PrecisionMax = 800
  Deadband = 350
  PivotMin = 550
  RampRate = 400
INVARIANTS ZoneBands SlowTorque TurnDirection Mirror Converges
PROPERTY RampBound
