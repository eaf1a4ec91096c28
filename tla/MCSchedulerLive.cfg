CONSTANTS
    a = a
    b = b
    None = None
    Schedulers = {a}
    Workers = {t1, t2}
    Clients = {c1, c2}
    Jobs = {j1, j2, j3}
    ThreadCount <- One
    SharedThreads <- One
    Aggressive <- Lazy
    Fifo <- Eager
    HWThreadCount = 1
    Preconstructed = {a}
    WaitingJobs = {j1, j2, j3}
    Services = {"remove", "wait"}
    Watermarks = {0}
    SharedCounts = {}
    MaxStops <- One
SPECIFICATION FairSpec
CHECK_DEADLOCK FALSE
PROPERTIES
    QueuedJobsTaken
    WaitersReturn
