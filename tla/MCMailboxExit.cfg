SPECIFICATION Spec
CONSTANTS
    c1 = c1
    c2 = c2
    a1 = a1
    worker_done = worker_done
    status = status
    NoThread = NoThread
    MaxMsg = 2
    MaxTimers = 2
    Check <- OneCheck
    Ask <- NoAsk
    Wanted <- WantedTypes
    Other <- OtherTypes
    Cursor = FALSE
    ExitEscalations = TRUE
    WriteFaults = FALSE
CHECK_DEADLOCK FALSE
INVARIANTS
    NoSleepingWaiter
