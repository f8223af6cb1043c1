SPECIFICATION FairSpec
CONSTANTS
    c1 = c1
    k1 = k1
    k2 = k2
    Caller = {p, q}
    Conn = {c1}
    NoConn = NoConn
    Ctx = {k1, k2}
    AcceptorCtx = k1
    TimerCtx = k2
    CtxOf <- Away
    Overlap = {}
    MaxCalls = 3
INVARIANTS
    TypeOK
    StoppedQuiet
    ServesUntilStopped
    StartTruthful
    StopInv
PROPERTIES
    StopReturns
    StartReturns
CHECK_DEADLOCK FALSE
