SPECIFICATION FairSpec
CONSTANTS
    c1 = c1
    c2 = c2
    a1 = a1
    worker_done = worker_done
    status = status
    NoThread = NoThread
    MaxMsg = 2
    MaxTimers = 1
    Check <- OneCheck
    Ask <- OneAsk
    Wanted <- WantedTypes
    Other <- OtherTypes
    Cursor = FALSE
    ExitEscalations = FALSE
    WriteFaults = FALSE
CHECK_DEADLOCK FALSE
INVARIANTS
    NoSleepingWaiter
PROPERTIES
    CallsReturn
    PushReaches
