SPECIFICATION Spec
CONSTANTS
    a = a
    b = b
    Name = {a, b}
    NoName = NoName
    Key = {1, 2}
    KeyOf <- OwnKeys
    Stateful = {b}
    RemoveLive = FALSE
    Call = {r1, r2}
    MaxReg = 4
INVARIANTS
    OwnHandler
    RouterInv
PROPERTIES
    ImplementsRegistry
CHECK_DEADLOCK FALSE
