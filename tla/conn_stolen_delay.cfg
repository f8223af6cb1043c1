SPECIFICATION Spec
CONSTANTS
    c1 = c1
    c2 = c2
    t1 = t1
    t2 = t2
    Conn = {c1, c2}
    Thread = {t1, t2}
    ExecutorOf <- SameThread
    NoConn = NoConn
    Topic = {}
    NoTopic = NoTopic
    Publisher = {}
    Usage = {"suspend"}
    MaxReq = 1
    MaxSuspend = 1
    MaxPub = 0
INVARIANTS
    AnsweredOnce
CHECK_DEADLOCK FALSE
