SPECIFICATION FairSpec
CONSTANTS
    Topic = {"news", "weather"}
    NoTopic = "no topic"
    Roles = {"caller", "subscriber"}
    Resubscribe = FALSE
    MaxOps = 3
    MaxConnect = 2
    MaxPub = 2
INVARIANTS
    TypeOK
    OwnResult
    NoDoubleComplete
    SubscriptionKnown
    ClientInv
PROPERTIES
    CallReturns
    SubscribeFails
    IsRemoteCall
CHECK_DEADLOCK FALSE
