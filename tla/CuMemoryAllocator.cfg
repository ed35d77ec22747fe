SPECIFICATION Spec
CONSTANTS
    RowBytes = {1, 3}
    NumRows = {1, 2}
    MemoryFactor = 150
    DeleteFactor = 20
    DeviceBytes = 13
    MaxTime = 9
INVARIANTS EveryBlockOnce CachesAgree BooksBalance CacheGivenBack
