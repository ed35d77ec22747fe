SPECIFICATION FairSpec
CONSTANTS
    NumExamples = 5
    MinibatchSize = 2
    NumThreads = 3
    ReaderMayThrow = TRUE
INVARIANTS
    RepositoryAssertionsHold
    SumOfAll
PROPERTY
    Returns
CHECK_DEADLOCK FALSE
