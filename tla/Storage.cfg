SPECIFICATION MCSpec
CONSTANTS
    Parts = {"cleanup", "restart"}  a = a  b = b
    Digests = {a, b}  Size <- TwoSizes
    MaxBytes = 2  MaxObjectBytes = 2  MaxEntries = 2  MaxConcurrentFills = 2  MetaBytes = 1
    Readers = {"reader"}  Mutators = {"mutator"}  MaxEpoch = 1  MaxGeneration = 1
    Faults = {"body", "meta", "temp", "rename", "publish"}
    p1 = p1  p2 = p2  r1 = r1  r2 = r2  r3 = r3  d1 = d1  d2 = d2  d3 = d3
    None = None
    Repos = {p1, p2}
    Refs = {r1, r2}
    Contents = {d1, d2, d3}
    Writers = {w1}
    Deployments <- SharedDeployments
    Faulty = TRUE
    MaxRequests = 2
INVARIANTS EntrySurvives SweptUnreferenced FilesCharged
PROPERTY StartRecovers
