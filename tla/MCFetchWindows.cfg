SPECIFICATION Spec
CONSTANTS
    w1 = w1
    w2 = w2
    s1 = s1
    s2 = s2
    Workers = {w1}
    Sessions = {s1, s2}
    NoSession = NoSession
    Second = 2
    Rates = {0, 1, 2}
    Horizon = 1
    LeaseLifetime = 3
    QuietPeriod = 3
    MaxAllowance = 2
    Allowances = {0, 2}
    MaxPermits = 2
    MaxTime = 6
    MaxSequence = 1
    MaxGeneration = 3
SYMMETRY Symmetry
INVARIANTS
    TypeOK
    ReservationsDisjoint
    OpeningsSpaced
    QuietCoversWindows
