\* Three threads, locks nested twice, calls with and without timeout.
CONSTANTS
    Threads = {t1, t2, t3}
    MaxNest = 2
SPECIFICATION FairSpec
INVARIANTS
    MutualExclusion
    NoSleepOnFreeLock
PROPERTIES
    ImplementsSharedLock
    WritersAnswered
