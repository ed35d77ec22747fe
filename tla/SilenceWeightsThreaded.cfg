SPECIFICATION Spec
CONSTANTS
    TransitionIds = {"sil", "a"}
    SilenceIds = {"sil"}
    MaxStateDuration = 0
    FullWeight = 1
    SilenceWeight = 0
    Programs = {"threaded"}
    GreedyOptions = {FALSE}
    ChunkFrames = {1, 3}
    PitchLags = {0}
    RightContext = 0
    NnetBatchSize = 2
    MaxFrames = 6
    MaxQueued = 0
INVARIANT WeightsInRange
CHECK_DEADLOCK FALSE
