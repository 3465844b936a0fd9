CONSTANTS
    rules1 = rules1
    rules2 = rules2
    broken = broken
    nullRule = nullRule
    f1 = f1
    f2 = f2
    Missing = Missing
    Contents = {rules1, rules2, broken, nullRule}
    Valid = {rules1, rules2}
    NullRule = {nullRule}
    FirstFile = rules1
    Facts = {f1}
    MaxEdits = 3
SPECIFICATION FairSpec
CHECK_DEADLOCK FALSE
INVARIANTS
    PublishedIsLive
    RestIsCurrent
PROPERTIES
    ShutdownEnds
