SPECIFICATION Spec
CONSTANTS
    f1 = f1
    f2 = f2
    Roots = {"a", "b"}
    Files <- OneFile
    QueueCapacity = 1
    MaxBatch = 1
    DrainLimit = 1
    MaxRequests = 1
    MaxChanges = 1
    MaxCrashes = 0
    Failures = FALSE
CHECK_DEADLOCK FALSE
INVARIANTS
    EveryChangeIsOwed
