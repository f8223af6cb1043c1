SPECIFICATION Spec
CONSTANTS
    Byte = {0, 1, 2, 3, 4, 5, 6, 7}
    FuncIds <- SomeIds
    BodyLens <- SomeLens
INVARIANTS
    HeaderUnderstood
CHECK_DEADLOCK FALSE
