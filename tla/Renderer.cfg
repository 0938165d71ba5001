SPECIFICATION RendererSpec
CONSTANTS
    Files = {a, b}
    NoFile = null
    Texts <- TwoTexts
    Original = 0
    Formatted <- Pretty
    Reads = {r1, r2}
    NoRead = noRead
    Ops = {o1, o2}
    MaxActs = 4
    Runs <- TwoRuns
    MaxWork = 4
    LaunchWork = 2
    Workflows = {1, 2}
    Steps = {1, 2, 3}
    NoPoint = none
    MaxSafePoints = 3
    MaxRuns = 2
    RunIds <- TwoRuns
    MaxStarts = 3
    MaxAdopts = 1
    Workspaces = {ws1, ws2}
    NoWorkspace = none
    MaxVersions = 3
    MaxLoads = 2
    MaxTasks = 3
    Roots = {p, q}
    NoRoot = none
    Pages = 3
    ClientPages = 2
    MaxRequests = 4
    Repositories = {g1, g2}
    NoStatus = none
    Mutations = {m1, m2}
    Readings = {q1, q2}
    NoSlot = noSlot
    MaxGitActs = 3
    Queries = {x, y}
    NoQuery = none
    Searches = {c1, c2}
    NoSearch = noSearch
    Folders = {f1, f2}
    MaxTyped = 3
    Nodes = {n1, n2}
    NoNode = none
    Projects = {j1, j2}
    AiCalls = {e1, e2}
    NoAiSlot = noSlot
    MaxAiActs = 4
INVARIANTS
    RendererTypeOK
    DirtyMeansUnsaved
    DiscardIsConsented
    SaveReplacesItsBase
    LiveRunIsShown
    AnswersAreCurrent
PROPERTIES
    UnsavedTextIsKept
    ViewNeverGoesBack
    EndingIsShown
    ControlsComeBack
    OverviewCatchesUp
    EndClearsRun
    CommitIsApproved
CHECK_DEADLOCK FALSE
