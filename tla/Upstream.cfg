SPECIFICATION MCSpec
CONSTANTS
    g = g
    c = c
    Requests <- MCRequests
    Cancellable <- MCCancellable
    Consumers <- MCConsumers
    Endpoints <- MCEndpoints
    Policies <- MCPolicies
    FailuresOf <- MCFailuresOf
    Latency <- MCLatency
    BlobLimit = 1
    BlobAttempts = 2
    BlobTopN = 1
    Broken = {}
    Public = TRUE
    MaxFails = 1
    Calls = {c1, c2}
    Attempts = 2
    MaxTokens = 2
    PublicMirror = TRUE
    Updaters = {u1}
    Flushers = {h1, h2}
    Threshold = 1
    MaxUpdates = 2
    MaxStarts = 2
INVARIANTS SlotsExact OutcomeEarned CallsAccounted HealthKept
PROPERTY EverythingReleased
