SPECIFICATION Spec
CONSTANTS
    a = a
    b = b
    Sessions = {a, b}
    Duplex = {a}
    NoOne = NoOne
    MaxInputs <- MCInputs
INVARIANT CloseIsComplete
CHECK_DEADLOCK FALSE
