SPECIFICATION MCSpec
CONSTANTS
    Size = 4
    Requests = {"first", "second", "remote"}
    Nodes = {"a", "b"}
    NodeOf <- MCNodeOf
    Kinds <- MCKinds
    FallbackGate = 1
    MaxExpiries = 1
INVARIANTS NoBodyLeaks BlobsOwned
PROPERTIES DeliversStream CloseMeansStored BodiesEnd
CHECK_DEADLOCK FALSE
