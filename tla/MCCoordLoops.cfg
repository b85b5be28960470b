SPECIFICATION Spec
CONSTANTS
    t1 = t1
    t2 = t2
    h1 = h1
    h2 = h2
    l1 = l1
    l2 = l2
    Task <- TwoTasks
    Handle <- TwoHandles
    MaxCtx = 2
    MaxGate = 0
    MaxConcurrent = 1
    HasWorktree = FALSE
    Env <- Resets
    ManualStatus <- NoStatus
    Loop <- TwoLoops
    MaxDeps = 0
    MaxInbox = 1
    MaxExits = 1
    MaxFailures = 1
CHECK_DEADLOCK FALSE
SYMMETRY LoopTaskHandleSymmetry
INVARIANTS
    TypeOK
    StatusIsBacked
PROPERTIES
    StoreSpec
    OnlyNamedDispatchCompletes
