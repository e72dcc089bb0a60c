SPECIFICATION MCSpec
CONSTANTS
    Callers = {q1, q2, q3}
    Cancellable = {q1}
    Faulty = TRUE
    None = None
    c1 = c1  c2 = c2  r1 = r1  r2 = r2
    Committers = {c1, c2}
    Interruptible = {c1, c2}
    Repositories = {r1, r2}
    Touches <- MCTouches
    SQLite = TRUE
    p1 = p1  a1 = a1  a2 = a2  d1 = d1  d2 = d2
    Repos = {p1}
    Refs = {a1, a2}
    Digests = {d1, d2}
    Writers = {w1}
    MaxRequests = 2
INVARIANTS PullsExact RefreshCovers
PROPERTY WorkIsFinished
CHECK_DEADLOCK FALSE
