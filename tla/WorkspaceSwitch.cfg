SPECIFICATION FairSpec
CONSTANTS
    f1 = f1
    f2 = f2
    Roots = {"a", "b"}
    Files <- OneFile
    QueueCapacity = 1
    MaxBatch = 1
    DrainLimit = 1
    MaxRequests = 2
    MaxChanges = 2
    MaxCrashes = 1
    Failures = TRUE
CHECK_DEADLOCK FALSE
INVARIANTS
    DeliveryInOrder
PROPERTIES
    SwitchEnds
