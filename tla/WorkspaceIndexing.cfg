SPECIFICATION IndexingSpec
CONSTANTS
    f1 = f1
    f2 = f2
    Roots = {"a", "b"}
    Files <- TwoFiles
    QueueCapacity = 1
    MaxBatch = 2
    DrainLimit = 1
    MaxRequests = 2
    MaxChanges = 2
    MaxCrashes = 0
    Failures = TRUE
    TraceRoots = {h1, h2}
    NoTraceRoot = none
    Starts = {s1, s2}
    Exports = {e1, e2}
    Batches <- TwoBatches
    MaxSpans = 2
    EventCapacity = 2
    MaxOtlpActs = 5
    FlowNodes <- ThreeNodes
    FlowRoot = 0
    MaxFacts = 3
    FlowLimits <- SomeLimits
    MaxFlowAsks = 3
    Operations <- FourOperations
    AllOperations = all
    NarrowQueries = {"odd"}
    Matching <- OddOperations
    CatalogPage = 1
    MaxEndpoints = 3
    CacheSize = 1
    CatalogRoots = {c1, c2}
    Scanned <- SomeInventories
    MaxCatalogActs = 2
    Members <- FiveMembers
    MaxRounds = 2
CHECK_DEADLOCK FALSE
INVARIANTS
    StaleIsOwed
    IndexInv
    TracesInv
    FlowPagesInv
    CatalogInv
    CommunityInv
PROPERTIES
    IndexNeverGoesBack
    OnlyCurrentPublishes
    CommunitiesImprove
