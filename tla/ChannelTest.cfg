CONSTANTS
    Void = Void
    NullOpt = NullOpt
    RuntimeError = RuntimeError
    Main = main
    Threads = {s1, s2, r1, r2, main}
    Senders = {s1, s2}
    Receivers = {r1, r2}
    Values = {0, 1, 2, 3}
    Capacity = 1
    SendBound = 2
SPECIFICATION TestSpec
INVARIANTS
    TestAssertions
PROPERTIES
    TestEnds
    ChannelProgress
