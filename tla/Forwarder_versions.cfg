CONSTANTS
    m1 = m1
    m2 = m2
    r1 = r1
    r2 = r2
    d1 = d1
    d2 = d2
    NoChat = NoChat
    NoMsg = NoMsg
    Messages = {m1}
    Rules = {r1, r2}
    Dsts = {d1, d2}
    RuleCfg <- VersionedAndIndelible
    RuleOrder <- RuleList2
    ReplyOf <- NoReplies
    Protected = {}
    Verdicts = {"ok"}
    WithMarkup = {2}
    MaxVersion = 2
    MaxCopies = 3
    MaxRetry = 1
    MaxLinkTries = 1
    MaxReloads = 1
    MaxCrashes = 1
    Faults = {"edit", "delete", "read", "store"}
SPECIFICATION Spec
CHECK_DEADLOCK FALSE
INVARIANTS
    LinksFollowVersions
    CopyRefsSound
    IdMapsAgree
PROPERTIES
    NeverDeletesUnasked
    MirrorsSource
