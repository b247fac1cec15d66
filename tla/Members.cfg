SPECIFICATION Spec
CONSTANTS
    ann = ann
    bob = bob
    c1 = c1
    c2 = c2
    c3 = c3
    c4 = c4
    r1 = r1
    r2 = r2
    Users = {ann, bob}
    OldUsers = {ann}
    Calls = {c1, c2, c3, c4}
    Replicas = {r1, r2}
    MaxHit = 1
SYMMETRY MCSymmetry
INVARIANTS
    TypeOK
    OneAccount
    OlderSessionsEnd
    RowsJustified
    DuplicateHasCause
PROPERTIES
    ImplementsFriendship
CHECK_DEADLOCK FALSE
