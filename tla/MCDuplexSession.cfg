SPECIFICATION SessionSpec
CONSTANTS
    EncoderCap = 1
    PrefillCap = 1
    PendingMax = 1
    MaxFrames = 3
PROPERTIES ImplementsFrameService FramesAnswered EndReturns
CHECK_DEADLOCK FALSE
