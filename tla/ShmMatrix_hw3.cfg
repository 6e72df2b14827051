CONSTANTS
    Requests <- SmallAndBig
    Rounds = 4
    BigMatrix = 3
    HwThreads = 3
SPECIFICATION ShmSpec
PROPERTIES
    TesterPasses
CHECK_DEADLOCK FALSE
