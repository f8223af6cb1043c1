SPECIFICATION Spec
CONSTANTS
    Conn = {c1}
    Ages = {0, 1, 2}
    Intervals = {1, 2}
    DefaultInterval = 2
    DefaultAge = 2
    MaxTime = 7
    MaxSets = 3
INVARIANTS
    OneCheckLoop
    ReapedInTime
    StopBounded
    ExpiryInv
PROPERTIES
    KeptWhileActive
CHECK_DEADLOCK FALSE
