CONSTANTS
    m1 = m1
    m2 = m2
    r1 = r1
    r2 = r2
    d1 = d1
    d2 = d2
    NoChat = NoChat
    NoMsg = NoMsg
    Messages = {m1}
    Rules = {r1, r2}
    Dsts = {d1, d2}
    RuleCfg <- CopyAndNative
    RuleOrder <- RuleList2
    ReplyOf <- NoReplies
    Protected = {}
    Verdicts = {"ok", "check"}
    WithMarkup = {2}
    MaxVersion = 2
    MaxCopies = 4
    MaxRetry = 2
    MaxLinkTries = 2
    MaxReloads = 0
    MaxCrashes = 0
    Faults = {"send"}
SPECIFICATION FairSpec
CHECK_DEADLOCK FALSE
INVARIANTS
    SyncedAtRest
    OneCopyPerRoute
PROPERTIES
    Drains
