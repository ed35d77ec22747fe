SPECIFICATION Spec
CONSTANTS
    PieceDims = {1, 2}
    MaxSamples = 3
    MinSamples = 1
    Shift = 1
    Window = 1
    RightContext = 0
    NnetBatchSize = 1
    MaxLoglikesCopy = 1
    DecodeBatchSize = 2
    Throwing = {"features", "compute", "search"}
INVARIANTS
    WaveformKept
    RemainingWaveform
CHECK_DEADLOCK FALSE
