SPECIFICATION Spec
CONSTANTS
    u1 = u1
    w1 = w1
    w2 = w2
    d1 = d1
    p1 = p1
    p2 = p2
    a1 = a1
    f1 = f1
    s1 = s1
    t1 = t1
    t2 = t2
    None = None
    Unix <- UnixConn
    Ws <- NoConn
    Device <- OneDevice
    Wait <- NoCall
    Ask <- OneAsk
    Watch <- NoCall
    Tabs <- NoCall
    Mirror <- NoCall
    On <- OnConn
    DeviceOf <- DeviceOne
    LongPollCap = 1
    IdleTicks = 3
CHECK_DEADLOCK FALSE
INVARIANTS
    AskSurvivesIdle
