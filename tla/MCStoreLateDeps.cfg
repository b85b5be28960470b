SPECIFICATION Spec
CONSTANTS
    t1 = t1
    t2 = t2
    h1 = h1
    h2 = h2
    Task <- MCTask
    Handle <- MCHandle
    MaxCtx = 2
    MaxGate = 1
    FailFrom <- FailFromTwo
    ManualStatus <- MCOnlyCompleted
    LateDeps = TRUE
    TornWrites = FALSE
SYMMETRY MCSymmetry
INVARIANTS
    NoPromotionWindow
