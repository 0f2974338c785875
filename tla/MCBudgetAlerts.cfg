CONSTANTS
    Calls = {c1, c2, c3}
    MaxCalls = 4
    AlertAt = 2
    MonthLength = 2
    LastTime = 4
    East = 1
    West = 1
    MaxFaults = 1
    MaxRestarts = 1
SPECIFICATION Spec
INVARIANTS AlertsSound
CHECK_DEADLOCK FALSE
