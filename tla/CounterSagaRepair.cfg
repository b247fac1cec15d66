SPECIFICATION FairSpec
CONSTANTS
    alice = alice
    bob = bob
    s1 = s1
    s2 = s2
    s3 = s3
    m1 = m1
    m2 = m2
    Users <- MCUsers
    Sends = {s1, s2, s3}
    From <- RepairFrom
    To <- RepairTo
    NoDB = {s3}
    Marks = {m1}
    Reader <- MCReader
    Partner <- MCPartner
    Requests = {}
    FullWorkers = {f1}
    Checkers = {c1}
    Replicas = {p1}
    MinSlack = 0
    ManualDeltas <- MCDeltas
    MaxFaults = 0
    MaxOverwrites = 1
PROPERTIES
    UnreadUsersRepaired
CHECK_DEADLOCK FALSE
