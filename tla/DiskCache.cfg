SPECIFICATION FairSpec
CONSTANTS
    Digests = {a, b}
    Size <- UnitSize
    MaxBytes = 1  MaxObjectBytes = 1  MaxEntries = 1  MaxConcurrentFills = 1
    MetaBytes = 1
    Readers = {r1}  Mutators = {m1}
    MaxEpoch = 1  MaxGeneration = 4
    Faults = {"publish", "rename"}
INVARIANTS ServableIsCurrent PinnedEntryKept KeyUsers
PROPERTY CallsComplete
