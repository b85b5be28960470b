SPECIFICATION FairSpec
CONSTANTS
    f1 = f1
    f2 = f2
    Read <- TwoReads
    MaxConn = 2
    Size = 2
    MaxStreams = 2
CHECK_DEADLOCK FALSE
INVARIANTS
    Sound
    AnswerIsMine
PROPERTIES
    PromiseKept
    ComesToRest
