SPECIFICATION FairSpec
CONSTANTS
    MaxOrder = 3
    Capacity = 3
    BatchSize = 2
    MaxFaults = 1
INVARIANTS
    NoWakeupLost
    FramesAccepted
PROPERTIES
    OrdersDelivered
CHECK_DEADLOCK FALSE
