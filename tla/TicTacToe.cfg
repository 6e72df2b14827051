SPECIFICATION Spec
INVARIANTS
    BoardsAgree
    NeverLoses
    ResultIsRight
PROPERTIES
    ForcedWinIsTaken
CHECK_DEADLOCK FALSE
