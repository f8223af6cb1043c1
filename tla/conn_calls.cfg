SPECIFICATION FairSpec
CONSTANTS
    c1 = c1
    c2 = c2
    t1 = t1
    t2 = t2
    Conn = {c1, c2}
    Thread = {t1, t2}
    ExecutorOf <- SameThread
    NoConn = NoConn
    Topic = {}
    NoTopic = NoTopic
    Publisher = {}
    Usage = {}
    MaxReq = 2
    MaxSuspend = 1
    MaxPub = 0
INVARIANTS
    AnsweredOnce
    RightConnection
    NoLostResponse
    ResponseOrder
    ArgumentsValid
    TakeoverInv
    WaitInv
PROPERTIES
    EventuallyAnswered
CHECK_DEADLOCK FALSE
