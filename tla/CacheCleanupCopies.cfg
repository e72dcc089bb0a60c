SPECIFICATION MCSpec
CONSTANTS
    Parts = {"cleanup"}  a = a  b = b
    Digests = {a, b}  Size <- TwoSizes
    MaxBytes = 2  MaxObjectBytes = 2  MaxEntries = 2  MaxConcurrentFills = 2  MetaBytes = 1
    Readers = {"reader"}  Mutators = {"mutator"}  MaxEpoch = 1  MaxGeneration = 1
    Faults = {"body", "meta", "temp", "rename", "publish"}
    p1 = p1  p2 = p2  r1 = r1  r2 = r2  r3 = r3  d1 = d1  d2 = d2  d3 = d3
    None = None
    Repos = {p1}
    Refs = {r1, r2, r3}
    Contents = {d1}
    Writers = {w1}
    Deployments <- CopiesDeployment
    Faulty = FALSE
    MaxRequests = 1
INVARIANT EntrySurvives
