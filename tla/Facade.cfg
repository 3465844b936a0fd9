CONSTANTS
    p1 = p1
    g1 = g1
    x = x
    u = u
    Posts = {p1}
    Kind <- CodePosted
    MaxRejects = 1
    MaxFailures = 1
    SubscribeLate = TRUE
    Requests <- EachKind
    Keyboards <- ThreeKeyboards
    Goroutines = {g1}
SPECIFICATION FairFacade
CHECK_DEADLOCK FALSE
INVARIANTS
    SubmitsWhatIsAsked
    StatusIsTrue
    ClicksAreOffered
PROPERTIES
    CancelStops
    ClicksEnd
