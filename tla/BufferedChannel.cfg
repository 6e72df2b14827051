CONSTANTS
    Void = Void
    NullOpt = NullOpt
    RuntimeError = RuntimeError
    Threads = {t1, t2, t3, t4}
    Values = {v1, v2}
    Capacity = 2
SPECIFICATION Safety
SYMMETRY Symmetry
INVARIANTS
    TypeOK
    NoLostWakeup
    CloseWakesAll
PROPERTIES
    ImplementsChannel
