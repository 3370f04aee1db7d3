SPECIFICATION Spec
CONSTANTS
    w1 = w1
    w2 = w2
    s1 = s1
    s2 = s2
    Workers = {w1, w2}
    Sessions = {s1}
    NoSession = NoSession
    Second = 2
    Rates = {0, 2}
    Horizon = 1
    LeaseLifetime = 3
    QuietPeriod = 2
    MaxAllowance = 2
    Allowances = {0, 2}
    MaxPermits = 1
    MaxTime = 5
    MaxSequence = 2
    MaxGeneration = 2
SYMMETRY Symmetry
PROPERTIES
    RetryReservesOnce
    RotationFair
    RefusalNamesLaterTime
