SPECIFICATION BridgeSpec
CONSTANT MaxRuns = 2
INVARIANT OnlineListens
