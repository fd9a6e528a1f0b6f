SPECIFICATION BridgeFairSpec
CONSTANT MaxRuns = 1
PROPERTY ShutdownIsOffline
