SPECIFICATION FairSpec
CONSTANTS
    MaxStreams = 2
    MaxSequence = 2
    MaxPermits = 1
    Rates = {1}
    MaxChanges = 0
    MaxFaults = 1
PROPERTIES
    LeasesKeepComing
CHECK_DEADLOCK FALSE
