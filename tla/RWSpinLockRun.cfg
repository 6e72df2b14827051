CONSTANTS
    Threads = {r1, r2, w1, w2}
    ReadThreads = {r1, r2}
    MaxInt = 8
    Rounds = 2
SPECIFICATION RunSpec
INVARIANTS
    TypeOK
    CounterExact
    Exclusion
    NeverInvalid
PROPERTIES
    RunEnds
