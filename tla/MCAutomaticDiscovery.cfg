SPECIFICATION Spec
CONSTANTS
    u1 = u1
    u2 = u2
    l1 = l1
    l2 = l2
    s1 = s1
    s2 = s2
    Urls = {u1, u2}
    LeaseIds = {l1, l2}
    Sessions = {s1, s2}
    MaxSequence = 4
    NoUrl = NoUrl
    NoSession = NoSession
    NoLease = NoLease
SYMMETRY Symmetry
INVARIANTS
    OneOrderPerUrl
    OwnershipExact
    IntentsCompletable
PROPERTIES
    AcknowledgedStaysDone
