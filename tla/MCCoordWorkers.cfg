SPECIFICATION Spec
CONSTANTS
    t1 = t1
    t2 = t2
    h1 = h1
    h2 = h2
    l1 = l1
    l2 = l2
    Task <- TwoTasks
    Handle <- TwoHandles
    MaxCtx = 4
    MaxGate = 0
    MaxConcurrent = 1
    HasWorktree = FALSE
    Env <- ExitsEscalationsStop
    ManualStatus <- NoStatus
    Loop <- OneLoop
    MaxDeps = 1
    MaxInbox = 2
    MaxExits = 1
    MaxFailures = 3
CHECK_DEADLOCK FALSE
SYMMETRY TaskHandleSymmetry
INVARIANTS
    NoOrphanDispatch
    BreakerExact
    SlotsRespected
    DepsRespected
    NoPromotionWindow
    VerdictHonest
