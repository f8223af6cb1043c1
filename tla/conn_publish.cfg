SPECIFICATION Spec
CONSTANTS
    c1 = c1
    c2 = c2
    t1 = t1
    t2 = t2
    Conn = {c1}
    Thread = {t1, t2}
    ExecutorOf <- Alone
    NoConn = NoConn
    Topic = {news}
    NoTopic = NoTopic
    Publisher = {p}
    Usage = {"copy", "throw", "foreign", "late", "suspend"}
    MaxReq = 2
    MaxSuspend = 1
    MaxPub = 2
INVARIANTS
    TypeOK
    FramesIntact
    FramesInv
    RegistryExact
CHECK_DEADLOCK FALSE
