SPECIFICATION Spec
CONSTANTS
    t1 = t1
    t2 = t2
    h1 = h1
    h2 = h2
    Task <- MCTask
    Handle <- MCHandle
    MaxCtx = 2
    MaxGate = 1
    FailFrom <- FailFromThree
    ManualStatus <- MCAllStatuses
    LateDeps = TRUE
    TornWrites = TRUE
SYMMETRY MCSymmetry
INVARIANTS
    TypeOK
    TerminalLock
    RowsReferToTasks
    BreakerAccounting
PROPERTIES
    HistoryStands
