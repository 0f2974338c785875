CONSTANTS
    Ids = {a, b, c}
    Old = {a, b}
    Requests = {r1, r2}
    MaxRequests = 2
    MaxFaults = 1
SPECIFICATION BoardSpec
INVARIANTS BoardSound ReadyIsCalled OpenWorkProgresses
SYMMETRY Alike
CHECK_DEADLOCK FALSE
