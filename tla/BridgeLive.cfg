SPECIFICATION BridgeFairSpec
CONSTANT MaxRuns = 2
INVARIANTS OnlineHasSession SettledIsOnline
PROPERTIES GoneIsOffline BackOnline
