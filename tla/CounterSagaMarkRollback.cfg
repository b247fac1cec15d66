SPECIFICATION Spec
CONSTANTS
    alice = alice
    bob = bob
    s1 = s1
    s2 = s2
    s3 = s3
    m1 = m1
    m2 = m2
    Users <- MCUsers
    Sends = {s1, s2}
    From <- MCFrom
    To <- MCTo
    NoDB = {}
    Marks = {m1, m2}
    Reader <- MCReader
    Partner <- MCPartner
    Requests = {}
    FullWorkers = {}
    Checkers = {}
    Replicas = {p1}
    MinSlack = 0
    ManualDeltas = {3}
    MaxFaults = 1
    MaxOverwrites = 0
INVARIANTS
    FailedMarkIsRolledBack
CHECK_DEADLOCK FALSE
