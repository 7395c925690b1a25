CONSTANTS
    Pids = {p1, p2, p3}
    NoPid = NoPid
    NoChild = NoChild
    SIGTERM = SIGTERM
    NumWorkers = 2
    Batch = 2
    SemMax = 5
    MaxStops = 1
SPECIFICATION Spec
INVARIANTS NeedsSpawnExact
