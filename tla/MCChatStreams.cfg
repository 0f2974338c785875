CONSTANTS
    MaxRequests = 2
    MaxSockets = 2
    MaxRounds = 2
    ToolsPerTurn = 1
    MaxFaults = 1
SPECIFICATION FairSpec
INVARIANTS RegistrySound CancelHolds SpinnersFirst
PROPERTIES StreamsEnd
CHECK_DEADLOCK FALSE
