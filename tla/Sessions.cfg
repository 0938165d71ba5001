SPECIFICATION SessionsSpec
CONSTANTS
    Sizes <- TwoSizes
    MaxBytes = 3
    MaxMessages = 2
    OutputCapacity = 1
    MaxChunks = 1
    MaxWrites = 2
    MaxOpens = 2
    MaxEarly = 2
    MaxPrinted = 2
    MaxMounts = 2
    MaxInputs = 1
    MaxConnects = 2
    MaxSlots = 1
    MaxEvents = 4
    MaxInbound = 1
    MaxBacklog = 3
    MaxTabs = 1
CHECK_DEADLOCK FALSE
INVARIANTS
    SessionsInv
    OutputIsTold
    NoShellIsLost
    GapIsTold
    ConsoleIsTrue
PROPERTIES
    SessionEnds
    DeadSessionIsCleared
