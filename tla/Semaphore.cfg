SPECIFICATION SemaphoreFairSpec
CONSTANTS
    Threads = {t1, t2, t3}
    InitValue = 1
    MaxSignals = 4
PROPERTIES
    CountsPermits
    PermitsAreUsed
