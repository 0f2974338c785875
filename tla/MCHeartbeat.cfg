CONSTANTS
    Agents = {a1}
    JobIds = {j1, j2}
    Polls = {p1}
    Interval = 1
    MinStale = 2
    RunLimit = 2
    MaxOthers = 1
    MaxCrashes = 1
    Nobody = Nobody
SPECIFICATION FairSpec
INVARIANTS TypeOK
PROPERTIES CooldownRespected HeartbeatRecurs
