SPECIFICATION FairSpec
CONSTANTS
    m1 = m1
    m2 = m2
    l1 = l1
    r1 = r1
    Users = {1, 2}
    Sends = {m1, m2}
    Lists = {l1}
    From <- MCFrom
    To <- MCTo
    NumShards = 3
    ShardCount = 2
    Hash <- MCHash
    InitMap <- MCMap
    NoDB = TRUE
    Reshards = {1}
    Replicas = {r1}
    MaxChanges = 1
    MaxHit = 1
INVARIANTS
    TypeOK
    PairTogether
    ListComplete
    SilenceAccounted
    RaisedIsStored
PROPERTIES
    AcceptedIsSettled
CHECK_DEADLOCK FALSE
