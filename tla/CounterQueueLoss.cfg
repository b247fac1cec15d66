SPECIFICATION Spec
CONSTANTS
    k1 = k1
    k2 = k2
    u1 = u1
    u2 = u2
    u3 = u3
    Keys = {k1, k2}
    Updates = {u1, u2, u3}
    KeyOf <- MCKeyOf
    QueueCap = 1
    BatchSize = 2
    ManualDeltas <- MCDeltas
    RowCounts = {2}
    MaxFaults = 0
    MaxCrashes = 0
    MaxOverwrites = 0
INVARIANTS
    AcceptedIsApplied
CHECK_DEADLOCK FALSE
