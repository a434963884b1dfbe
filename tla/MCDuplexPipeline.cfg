SPECIFICATION Spec
CONSTANTS
    EncoderCap = 1
    PrefillCap = 1
    MaxFrames = 3
INVARIANTS TypeOK InFlightCounts FramesInOrder PairsStrictly
PROPERTIES CallsReturn
CHECK_DEADLOCK FALSE
