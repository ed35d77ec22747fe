SPECIFICATION FairSpec
CONSTANTS
    NumTasks = 5
    NumThreads = 2
    NumThreadsTotal = 3
    CreateMayFail = TRUE
INVARIANTS
    ThreadsBounded
    NoUseAfterFree
    AssertionsHold
    NothingLeft
PROPERTIES
    OutputInOrder
    CallsReturn
