SPECIFICATION Spec
CONSTANTS
    a = a
    b = b
    m1 = m1
    m2 = m2
    m3 = m3
    Parties = {a, b}
    Messages = {m1, m2, m3}
    To <- MCTo
    Lifetime = 2
    MaxFaults = 2
    MaxEvictions = 2
INVARIANTS
    TypeOK
    UnreadExact
    TotalExact
    ListedOnce
    UnreadExpires
PROPERTY
    ImplementsInbox
