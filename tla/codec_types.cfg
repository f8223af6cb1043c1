SPECIFICATION Spec
CONSTANTS
    IntValues <- Narrow
    LongValues <- Wide
    DoubleValues <- Decimals
    StringValues = {"", "abc"}
    StructValues = {s1, s2}
    ErrorText = "exception occur when call"
    Scale = 20
    Kept = 5
    CodeNumber <- Codes
    None = None
    Signatures <- Functions
INVARIANTS
    Faithful
    NoTruncation
CHECK_DEADLOCK FALSE
