SPECIFICATION FairSpec
CONSTANT MaxSetAbort = 2
INVARIANTS
    TokenInv
    AssertionsHold
PROPERTIES
    TakesTurns
    WakeUpComes
    AbortFreesThreads
