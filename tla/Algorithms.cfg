CONSTANTS
    Lengths = {0, 1, 2, 3, 4, 5, 6, 7}
    HwThreads = {2, 3, 4, 6, 8, 9}
    UnsignedRange = 8
    Commands <- AllCommands
    Wild = Wild
    NoNumber = NoNumber
    SizeMax = 99
    Loops <- AllLoops
    SizeRange = 8
    Streams <- AllStreams
    RecordSize = 2
    NoTrade = NoTrade
    ReadBound = 6
    IntRange = 16
    Undefined = Undefined
    LEN_BITS = 3
    Inputs <- AllInputs
    None = None
    WORD = 4
    LANES = 4
    BLOCK = 2
    nullptr = nullptr
    PTR_BITS = 4
    SIZE_BITS = 2
    IntMax = 127
    Uninit = Uninit
SPECIFICATION Spec
INVARIANTS
    FoldsAll
    GrepReports
    FilesReleased
    LoopsExact
    AnswersExact
PROPERTIES
    Returns
