CONSTANTS
    a = a
    b = b
    None = None
    Schedulers = {a, b}
    Workers = {t1, t2, t3}
    Clients = {c1}
    Jobs = {j1, j2, j3, j4, j5}
    ThreadCount <- OneZero
    SharedThreads <- Two
    Aggressive <- Eager
    Fifo <- Eager
    HWThreadCount = 2
    Preconstructed = {a, b}
    WaitingJobs = {}
    Services = {}
    Watermarks = {}
    SharedCounts = {}
    MaxStops <- ZeroOne
SPECIFICATION Spec
SYMMETRY Symmetry
CHECK_DEADLOCK FALSE
INVARIANTS
    CountersAgree
    OneOwner
    NoStall
    StarvingRegistered
    NoLockCycle
