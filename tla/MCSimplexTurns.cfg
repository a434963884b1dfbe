SPECIFICATION Spec
CONSTANTS
    TtsCap = 1
    MaxTurns = 2
    MaxFrames = 1
    MaxChunks = 2
    MaxBreaks = 1
INVARIANTS TypeOK EarlyFromTheStart CalmTurnsAreFiled RestIsSilence
CHECK_DEADLOCK FALSE
