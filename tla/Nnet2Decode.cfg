SPECIFICATION FairSpec
CONSTANTS
    PieceDims = {1, 2}
    MaxSamples = 3
    MinSamples = 3
    Shift = 1
    Window = 2
    RightContext = 1
    NnetBatchSize = 2
    MaxLoglikesCopy = 0
    DecodeBatchSize = 1
    Throwing = {"compute"}
INVARIANTS
    FramesOrdered
    DecodedAll
    NoError
    NeverBothWaiting
PROPERTIES
    ErrorFreesThreads
    CallsReturn
