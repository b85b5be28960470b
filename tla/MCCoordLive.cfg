SPECIFICATION FairSpec
CONSTANTS
    t1 = t1
    t2 = t2
    h1 = h1
    h2 = h2
    l1 = l1
    l2 = l2
    Task <- TwoTasks
    Handle <- TwoHandles
    MaxCtx = 6
    MaxGate = 0
    MaxConcurrent = 2
    HasWorktree = FALSE
    Env <- ExitsEscalationsStop
    ManualStatus <- NoStatus
    Loop <- OneLoop
    MaxDeps = 0
    MaxInbox = 2
    MaxExits = 1
    MaxFailures = 1
CHECK_DEADLOCK FALSE
PROPERTIES
    RunEnds
