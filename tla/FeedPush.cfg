SPECIFICATION FairSpec
CONSTANTS
    ann = ann
    x = x
    y = y
    c1 = c1
    c2 = c2
    e1 = e1
    e2 = e2
    Backends = {x, y}
    Conns = {c1, c2}
    UserOf <- MCUserOf
    BackendOf <- MCBackendOf
    Stalling = {c1}
    Events = {e1, e2}
    Addressee <- MCAddressee
    Origin <- MCOrigin
    MaxFaults = 1
INVARIANTS
    TypeOK
    NoWriteAfterRemove
    PushedOnce
    AllConnectionsOrNone
PROPERTIES
    PublishedIsSettled
CHECK_DEADLOCK FALSE
