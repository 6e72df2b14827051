CONSTANTS
    Workers = {w1, w2, w3}
    Tasks = {0, 1, 2}
    QueueBound = 4
    Rows = 4
    Powers = {0, 1, 2, 3, 5, 6}
    BigMatrix = 3
    HwThreads = 8
    Mixed = Mixed
    Requests <- SmallAndBig
    Rounds = 4
SPECIFICATION ProgramsSpec
INVARIANTS
    NoLostWakeup
    DestroyedEmpty
    PowerInvariant
    NoTaskOutlivesCall
    AnswersCorrect
    RegionOwned
PROPERTIES
    DestroyReturns
    PowReturns
    TesterPasses
