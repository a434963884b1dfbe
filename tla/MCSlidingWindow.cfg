SPECIFICATION Spec
CONSTANTS
    Modes <- MCModes
    Chunks <- MCChunks
    NCtx = 10
    Margin = 4
    HardMargin = 2
    Reserved = 3
    MaxPreserved = 4
    HighWater = 5
    LowWater = 3
    PromptLen = 1
    MaxUnits = 5
    MaxTurns = 3
    MaxSessions = 2
INVARIANTS TypeOK PromptIntact RecordDescribesCache OneWindowKeepsPositions
PROPERTIES EvictsOldestTurns
