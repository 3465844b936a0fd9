CONSTANTS
    c1 = c1
    c2 = c2
    c3 = c3
    e1 = e1
    e2 = e2
    unknown = unknown
    x1 = x1
    x2 = x2
    NoCall = NoCall
    Calls = {c1, c2, c3}
    Retirers = {x1, x2}
    Endpoints = {e1, e2}
    Names = {e1, e2, unknown}
    NamesOf <- CallNames
    Capacity <- Buffers
SPECIFICATION FairSpec
CHECK_DEADLOCK FALSE
INVARIANTS
    NeverPanics
PROPERTIES
    KeepsPromise
    RetireDrains
