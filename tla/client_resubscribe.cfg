SPECIFICATION Spec
CONSTANTS
    Topic = {"news"}
    NoTopic = "no topic"
    Roles = {"subscriber"}
    Resubscribe = TRUE
    MaxOps = 2
    MaxConnect = 2
    MaxPub = 1
INVARIANTS
    SubscriptionKnown
CHECK_DEADLOCK FALSE
