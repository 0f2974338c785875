CONSTANTS
    MaxAgents = 3
    Handlers = {r1, r2}
    MaxChanges = 2
    MaxDeletes = 2
SPECIFICATION CompanySpec
SYMMETRY HandlerSymmetry
INVARIANTS HierarchySound
PROPERTIES DeletionCompletes NoTaskOrphaned
CHECK_DEADLOCK FALSE
