SPECIFICATION MCSpec
CONSTANTS
    Cleanups = {c1}
    Probes = {p1}
    Syncs = {s1}
    Specs = {}
    j1 = j1  j2 = j2  r1 = r1
    PrefetchJobs = {j1, j2}
    Repositories = {r1}
    PullLists <- MCPullLists
    TagLists <- MCTagLists
    MaxCandidates = 1  MaxVersionDistance = 3
    MaxRepositories = 1  MaxTasks = 1  MaxBytes = 1  MaxSize = 1  MaxChildren = 2
    ManifestOnly = FALSE
    FailureBackoff = 2  RetryWindow = 3
    MaxRuns = 3  MaxOverlap = 3  MaxRequests = 1  MaxTime = 3
    DepJobs = {j1}
    DepPulls <- MCDepPulls
    DepRecords = 2  DepTasks = 2  DepRepositories = 1
    DepBackoff = 2  DepWindow = 3
    DepRuns = 3  DepTime = 3
    Pulls = {q1, q2}
    Nodes = {n1, n2}
    Keys = {k1, k2}
    Window = 1  IntentTime = 2  MaxDrains = 2
    Parts = {"dependency"}
PROPERTY BackoffHonoured
CHECK_DEADLOCK FALSE
