CONSTANTS
    Agents = {a1}
    Tasks = {t1, t2}
    NoTask = NoTask
    Handled = {"agent.run", "task.execute"}
    Undefined = Undefined
    Options <- MCOptions
    MaxJobs = 4
SPECIFICATION FairSpec
INVARIANTS TypeOK ConcurrencyBound NoIdleSlot SlotsAccounted NoDuplicateWork CloseDrains
PROPERTIES WorkEnds ImplementsRequests
\* After close() and the last clean-up the queue has nothing left to do.
CHECK_DEADLOCK FALSE
