CONSTANTS
    c1 = c1
    c2 = c2
    Callers = {c1, c2}
    Modes = {TRUE, FALSE}
    Retries = 1
    OutletCap = 1
    MaxNews = 1
SPECIFICATION FairSpec
CHECK_DEADLOCK FALSE
INVARIANTS
    OneMessagePerCall
    AnswerIsTrue
    NothingPendsForNobody
PROPERTIES
    CallsReturn
