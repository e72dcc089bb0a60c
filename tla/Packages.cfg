SPECIFICATION MCSpec
CONSTANTS
    Requests = {"first", "second"}
    Kinds = {"get", "head", "range", "refresh", "root"}
    Upstreams = 2
    Endpoints = 2
    Slots = 1
    PypiKinds <- SomeKinds
    MaxURLs = 2
    MaxReads = 1
    Members = 2
    Documents <- SomeDocuments
    MaxSegments = 4
INVARIANTS HoldingsExact MissesAuthoritative MergedIsNewest RecordsIdentify
PROPERTIES StoresVerified PackagesEnd
