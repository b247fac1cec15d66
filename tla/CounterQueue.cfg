SPECIFICATION FairSpec
CONSTANTS
    k1 = k1
    k2 = k2
    u1 = u1
    u2 = u2
    u3 = u3
    Keys = {k1, k2}
    Updates = {u1, u2, u3}
    KeyOf <- MCKeyOf
    QueueCap = 1
    BatchSize = 2
    ManualDeltas <- MCDeltas
    RowCounts = {2}
    MaxFaults = 1
    MaxCrashes = 1
    MaxOverwrites = 2
INVARIANTS
    TypeOK
    NoUpdateVanishes
    AppliedAtMostOnce
    CounterIsSumOfApplied
PROPERTIES
    ImplementsAsync
    AcceptedIsSettled
CHECK_DEADLOCK FALSE
