SPECIFICATION FairSpec
CONSTANTS
    ann = ann
    bob = bob
    cid = cid
    w1 = w1
    b1 = b1
    d1 = d1
    Users = {ann, bob, cid}
    Posts = {1, 2}
    Author <- MCAuthor
    Deletions = {1}
    Workers = {w1}
    Builders = {b1}
    Reader <- MCReader
    LastIDs = {0, 2}
    Replicas = {d1}
    InitFriends <- MCFriends
    Changing <- MCChanging
    PageSize = 1
    MaxFeedSize = 1
    MaxTroubles = 1
INVARIANTS
    TypeOK
    PurgedIsHidden
    FeedOfFriends
    FanOutReachesFriends
PROPERTIES
    EnqueuedIsFannedOut
CHECK_DEADLOCK FALSE
