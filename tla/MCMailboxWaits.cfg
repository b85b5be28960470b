SPECIFICATION Spec
CONSTANTS
    c1 = c1
    c2 = c2
    a1 = a1
    worker_done = worker_done
    status = status
    NoThread = NoThread
    MaxMsg = 2
    MaxTimers = 1
    Check <- TwoChecks
    Ask <- OneAsk
    Wanted <- WantedTypes
    Other <- OtherTypes
    Cursor = TRUE
    ExitEscalations = TRUE
    WriteFaults = TRUE
CHECK_DEADLOCK FALSE
SYMMETRY CheckSymmetry
INVARIANTS
    TypeOK
    TakenOnce
PROPERTIES
    AbortedTakesNothing
    AskNeverDropsReply
