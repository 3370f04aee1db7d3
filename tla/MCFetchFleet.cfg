SPECIFICATION FairSpec
CONSTANTS
    MaxStreams = 2
    MaxSequence = 3
    MaxPermits = 2
    Rates = {0, 1, 2}
    MaxChanges = 2
    MaxFaults = 1
INVARIANTS
    IncapableStreamsFenced
    DecisionsAccepted
PROPERTIES
    UndisturbedLeasesKeepComing
CHECK_DEADLOCK FALSE
