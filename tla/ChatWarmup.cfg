CONSTANTS
    w1 = w1
    w2 = w2
    Calls = {w1, w2}
    MaxLeaves = 1
    MaxFaults = 1
    MaxIntervals = 1
SPECIFICATION FairSpec
CHECK_DEADLOCK FALSE
INVARIANTS
    NobodySleepsOrphaned
PROPERTIES
    EveryCallReturns
