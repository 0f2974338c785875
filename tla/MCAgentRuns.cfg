CONSTANTS
    Requests = {r1, r2, r3}
    Actors = {a1}
    Agents = {g1}
    MaxPerDay = 2
    Slots = 2
    MaxFaults = 2
    MaxDays = 1
    MaxCrashes = 1
SPECIFICATION FairSpec
INVARIANTS QuotaHolds RecordsSound
PROPERTIES MovesAreLegal RunsEnd
CHECK_DEADLOCK FALSE
