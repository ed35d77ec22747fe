SPECIFICATION Spec
CONSTANTS
    TransitionIds = {"sil", "a", "b"}
    SilenceIds = {"sil"}
    MaxStateDuration = 2
    FullWeight = 1
    SilenceWeight = 0
    Programs = {"faster", "threaded"}
    GreedyOptions = {TRUE, FALSE}
    ChunkFrames = {0, 1, 2}
    PitchLags = {0, 1}
    RightContext = 1
    NnetBatchSize = 1
    MaxFrames = 4
    MaxQueued = 2
INVARIANTS ChangesAddUp AssertionsHold TokensOfBestPath
PROPERTIES WeightsAreMeant
CHECK_DEADLOCK FALSE
