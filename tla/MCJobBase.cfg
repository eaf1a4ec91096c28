CONSTANTS
    Scheduler = scheduler
    Owner = owner
    Observers = {}
    Handles = {h1, h2, h3}
    NoHandle = NoHandle
    Ownerships = {TRUE, FALSE}
    TimedCalls = {FALSE}
SPECIFICATION FairSpec
CHECK_DEADLOCK FALSE
INVARIANTS
    RunsOnce
    DeletedOnlyWhenSafe
    NoSleepThroughSignal
PROPERTIES
    DeleteReturns
