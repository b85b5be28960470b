SPECIFICATION Spec
CONSTANTS
    f1 = f1
    f2 = f2
    Read <- TwoReads
    MaxConn = 1
    Size = 2
    MaxStreams = 2
CHECK_DEADLOCK FALSE
INVARIANTS
    DisposeEndsReads
