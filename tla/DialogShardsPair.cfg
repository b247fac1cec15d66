SPECIFICATION Spec
CONSTANTS
    m1 = m1
    m2 = m2
    l1 = l1
    r1 = r1
    Users = {1, 2}
    Sends = {m1, m2}
    Lists = {}
    From <- MCFrom
    To <- MCTo
    NumShards = 3
    ShardCount = 2
    Hash <- MCHash
    InitMap <- MCMap
    NoDB = FALSE
    Reshards = {}
    Replicas = {r1}
    MaxChanges = 1
    MaxHit = 0
INVARIANTS
    OnePairOneShard
CHECK_DEADLOCK FALSE
