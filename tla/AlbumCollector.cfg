CONSTANTS
    a = a
    d1 = d1
    d2 = d2
    Members = {1, 2, 3}
    Albums = {a}
    AlbumOf <- OneAlbum
    Rules <- TwoRules
    Dsts = {d1, d2}
    To <- Destinations
    Copying = {1}
    Pushing = {1}
    Textless = {3}
    Protected = {2}
    Filtered = {1}
    Quiet = 2
    MaxDeletes = 1
    MaxFaults = 1
SPECIFICATION FairSpec
CHECK_DEADLOCK FALSE
INVARIANTS
    EachMemberOnce
    OnlyDeletedGo
    FactsInOrder
PROPERTIES
    AllCollected
