CONSTANTS
    NoRegexp = NoRegexp
    BadRegexp = BadRegexp
    Null = Null
    Absent = Absent
    NoContent = NoContent
    InvalidIds = {"r:1"}
    MaxSeconds = 9
    Targets = {"one", "two"}
    MaxRedirects = 3
    OutOfBounds = {"odd_type", "odd_origin", "over long"}
    Links <- MCLinks
    Titles <- MCTitles
    DeletedLink <- MCDeletedLink
    Files <- MCFiles
    MessagesOf <- MCMessagesOf
    MaxLoads = 2
SPECIFICATION Spec
CHECK_DEADLOCK FALSE
INVARIANTS
    ForwardsAreServed
