CONSTANTS
    Flights = {f1, f2}
    Responses = {r1, r2}
    MaxVersion = 2
    MaxTime = 2
    GateSize = 2
    StaleIfError = TRUE
SPECIFICATION Spec
SYMMETRY Symmetry
INVARIANTS TagResolves FreshIsRecent SavedOnce
