CONSTANTS
    a = a
    b = b
    None = None
    Schedulers = {a, b}
    Workers = {t1, t2, t3}
    Clients = {c1, c2}
    Jobs = {j1, j2}
    ThreadCount <- OneZero
    SharedThreads <- Two
    Aggressive <- OnlyB
    Fifo <- OnlyB
    HWThreadCount = 2
    Preconstructed = {}
    WaitingJobs = {}
    Services = {"remove", "wait", "timeout", "destroy"}
    Watermarks = {0, 1}
    SharedCounts = {1}
    MaxStops <- One
SPECIFICATION Spec
SYMMETRY Symmetry
CHECK_DEADLOCK FALSE
INVARIANTS
    JobsConserved
    NoUseAfterDestruction
    AllThreadsJoined
