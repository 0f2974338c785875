CONSTANTS
    Procs = {p1, p2}
    Migrations = 2
    StaleAge = 1
    MaxCrashes = 1
    MaxFaults = 1
    Faults = {"backup", "apply", "keep", "cleanup", "restore", "release"}
    Nobody = Nobody
SPECIFICATION FairSpec
INVARIANTS OneMigrator DataSound
PROPERTIES ServerComesUp
