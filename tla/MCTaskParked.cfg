CONSTANTS
    Tasks = {"t1"}
    Batch = "batch"
    Jobs = {"batch", "t1"}
    Humans = {}
    Deciders = {"d1"}
    ApprovalIds = {"a1"}
    NoTask = "none"
    DependsOn <- MCNoDependencies
    Rules <- MCNoRules
    RuleSets <- MCNoRuleSets
    Slots = 2
    MaxRounds = 2
    Callable = {"approval.request", "inbox.send", "task.update-status"}
    Edited = {}
    Targets = {"pending", "in_progress", "review", "done", "blocked", "cancelled"}
    Faults = {"no_adapter", "job", "call", "action", "crash"}
SPECIFICATION PSpec
INVARIANTS TypeOK WaitsAreAnswerable
