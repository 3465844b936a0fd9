CONSTANTS
    m1 = m1
    m2 = m2
    r1 = r1
    r2 = r2
    d1 = d1
    d2 = d2
    NoChat = NoChat
    NoMsg = NoMsg
    Messages = {m1, m2}
    Rules = {r1, r2}
    Dsts = {d1, d2}
    RuleCfg <- PlainAndIndelible
    RuleOrder <- RuleList2
    ReplyOf <- ReplyChain
    Protected = {}
    Verdicts = {"ok"}
    WithMarkup = {}
    MaxVersion = 1
    MaxCopies = 4
    MaxRetry = 2
    MaxLinkTries = 2
    MaxReloads = 0
    MaxCrashes = 0
    Faults = {}
SPECIFICATION Spec
CHECK_DEADLOCK FALSE
INVARIANTS
    DeletedAtRest
    RepliesStayInThread
    OneFactPerEvent
