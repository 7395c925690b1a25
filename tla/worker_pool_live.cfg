CONSTANTS
    Pids = {p1, p2, p3}
    NoPid = NoPid
    NoChild = NoChild
    SIGTERM = SIGTERM
    NumWorkers = 1
    Batch = 2
    SemMax = 5
    MaxStops = 1
SPECIFICATION FairSpec
PROPERTIES TermEndsMaster
