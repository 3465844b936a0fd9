CONSTANTS
    ch1 = ch1
    ch2 = ch2
    group = group
    NoChat = NoChat
    Chats = {ch1, ch2, group}
    Channels = {ch1, ch2}
    Passes = 3
    MaxEdges = 3
    MaxFaults = 3
    MayCancel = TRUE
SPECIFICATION FairOpener
CHECK_DEADLOCK FALSE
INVARIANTS
    OpenOnceKeep
    RestIsSettled
PROPERTIES
    Converges
