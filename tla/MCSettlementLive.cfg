SPECIFICATION FairSpec
CONSTANTS
    o1 = o1
    o2 = o2
    w1 = w1
    w2 = w2
    l1 = l1
    l2 = l2
    t1 = t1
    t2 = t2
    k1 = k1
    k2 = k2
    Orders = {o1}
    Workers = {w1}
    LeaseIds = {l1, l2}
    Tallies = {t1, t2}
    Calls = {k1, k2}
    MaxSession = 2
    Capacity = 1
    None = None
CONSTRAINT SettlementBound
CHECK_DEADLOCK FALSE
INVARIANTS
    SnapshotNotLost
PROPERTIES
    OutboxDrains
