SPECIFICATION FairSpec
CONSTANTS
    c1 = c1
    k1 = k1
    k2 = k2
    Caller = {p}
    Conn = {c1}
    NoConn = NoConn
    Ctx = {k1, k2}
    AcceptorCtx = k1
    TimerCtx = k2
    CtxOf <- Away
    Overlap = {"accept"}
    MaxCalls = 2
PROPERTIES
    StopReturns
CHECK_DEADLOCK FALSE
