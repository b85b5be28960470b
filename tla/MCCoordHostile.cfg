SPECIFICATION Spec
CONSTANTS
    t1 = t1
    t2 = t2
    h1 = h1
    h2 = h2
    l1 = l1
    l2 = l2
    Task <- OneTask
    Handle <- TwoHandles
    MaxCtx = 2
    MaxGate = 1
    MaxConcurrent = 1
    HasWorktree = TRUE
    Env <- Everything
    ManualStatus <- OnlyDone
    Loop <- OneLoop
    MaxDeps = 0
    MaxInbox = 1
    MaxExits = 0
    MaxFailures = 1
CHECK_DEADLOCK FALSE
SYMMETRY HandleSymmetry
INVARIANTS
    TypeOK
    StatusIsBacked
PROPERTIES
    StoreSpec
    OnlyNamedDispatchCompletes
