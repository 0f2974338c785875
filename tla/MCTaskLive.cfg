CONSTANTS
    Tasks = {"t1", "t2"}
    Batch = "batch"
    Jobs = {"batch"}
    Humans = {"h1"}
    Deciders = {"d1"}
    ApprovalIds = {"a1"}
    NoTask = "none"
    DependsOn <- MCChain
    Rules <- MCNoRules
    RuleSets <- MCNoRuleSets
    Slots = 1
    MaxRounds = 1
    Callable = {"approval.request", "task.update", "POST /tasks/:id/status",
                "PATCH /tasks/:id"}
    Edited = {"t2"}
    Targets = {"review", "blocked", "done", "cancelled"}
    Faults = {"action"}
SPECIFICATION HFairSpec
INVARIANTS DependenciesDone
PROPERTIES MovesLegallyAlone BatchReachesTasks
