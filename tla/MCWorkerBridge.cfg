SPECIFICATION Spec
CONSTANTS
    a = a
    b = b
    Sessions = {a, b}
    Duplex = {a}
    NoOne = NoOne
    MaxInputs <- MCInputs
INVARIANTS TypeOK CallsAreSerial OneLiveUser LeaverIsReleased BackendIsFreed NobodyWaitsInVain
CHECK_DEADLOCK FALSE
