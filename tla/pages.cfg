SPECIFICATION Spec
CONSTANTS
    Rows <- Ids
    States = {shown, hidden}
    PageMax = 2
    MaxTime = 2
    Delay = 1
    MaxMoves = 1
INVARIANTS
    PagesGoDown
    NothingSkipped
CHECK_DEADLOCK FALSE
