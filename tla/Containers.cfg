CONSTANTS
    Deques = {a, b}
    Values = {1, 2}
    BLOCK_SIZE = 2
    SizeRange = 16
    InitLists <- Inexact
    Unwritten = Unwritten
    SizeBound = 4
    BlockBound = 5
    Lists = {l1, l2}
    Elements = {e1, e2, e3}
    nullptr = nullptr
    MayMoveEmpty = FALSE
    Vectors = {v1, v2, v3}
    Default = 1
    StringBound = 2
    count = 4
    Allocators = {a1, a2, a3}
    PoolSize = 5
    Sizes = {1, 2}
    NotMade = NotMade
    SmallVectors = {s1, s2}
    N = 1
    SmallLists <- OneToThree
    Trivial = TRUE
    MayPushOwn = FALSE
    MayRelocate = TRUE
    Raw = Raw
    SmallBound = 3
SPECIFICATION Spec
INVARIANTS
    DequeLayout
    Rings
    RefCountsExact
    MemoryAccounted
    Lifetimes
PROPERTIES
    DequeImplements
    ListImplements
    COWImplements
    SmallImplements
VIEW View
