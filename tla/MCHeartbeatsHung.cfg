SPECIFICATION Spec
CONSTANTS
    t1 = t1
    t2 = t2
    Task <- TwoTasks
    MaxCtx = 2
    DayLength = 4
    Hung = 2
    MaxTime = 8
    MaxInbox = 2
CHECK_DEADLOCK FALSE
INVARIANTS
    HungIsWarned
