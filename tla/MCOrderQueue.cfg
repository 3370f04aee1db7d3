SPECIFICATION Spec
CONSTANTS
    o1 = o1
    o2 = o2
    w1 = w1
    w2 = w2
    s1 = s1
    s2 = s2
    l1 = l1
    l2 = l2
    l3 = l3
    Orders = {o1, o2}
    Automatic = {o2}
    Workers = {w1, w2}
    Sessions = {s1, s2}
    LeaseIds = {l1, l2, l3}
    Capacity = 1
    BurstLimit = 1
    PageSize = 1
    NoWorker = NoWorker
    NoSession = NoSession
SYMMETRY Symmetry
INVARIANTS
    TypeOK
    NoOrderLost
    NoOrderDuplicated
    AckRepeatsOutcome
    StaleSessionsFenced
    CatalogMatchesLeases
    ReplayWithinCapacity
PROPERTIES
    ExpiredRevivedOnlyByAdoption
    ClearRemovesExactlyTheBacklog
