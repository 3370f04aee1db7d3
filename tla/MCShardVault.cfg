SPECIFICATION Spec
CONSTANTS
    a = a
    b = b
    v1 = v1
    v2 = v2
    u1 = u1
    u2 = u2
    Keys = {a, b}
    Values = {v1, v2}
    None = None
    Hash <- MCHash
    InitialLevel = 1
    MaxShards = 4
    Updates = {u1, u2}
    Transactions <- MCTransactions
    Roots <- MCRoots
    Fragile = {2}
SYMMETRY Symmetry
INVARIANTS
    ContentAsCommitted
    ScanDeliversOnce
    LengthExact
    RootRecordsKept
    WaitersWillBeWoken
    AloneMeetsNobody
