SPECIFICATION MCSpec
CONSTANTS
    c1 = c1
    c2 = c2
    c3 = c3
    i1 = i1
    i2 = i2
    None = None
    Callers = {c1, c2, c3}
    Instances = {i1, i2}
    InstanceOf <- SharedProcess
    Cancellable = {c1}
    TTL = 2
    Prompt = TRUE
    Faulty = FALSE
    Crashable = {i2}
    Clients = {m1, m2}
    Keys = {k1, k2}
    Tasks = {1, 2, 3}
    Workers = 1
    Getters = {g1, g2}
INVARIANTS JoinsRunningFill HealthyCallsSurvive LeaseHonoured ReplaysKept FlightsSound
PROPERTY FillsReturn
CHECK_DEADLOCK FALSE
