SPECIFICATION FairSpec
\* A working copy in an unversioned folder, with one sub folder and a file in it.
CONSTANTS
    out = out
    root = root
    sub = sub
    file = file
    db = db
    NoPath = NoPath
    Dirs <- MCDirs
    Files = {file}
    Databases = {db}
    Outside = {out}
    Containing <- MCContaining
    Watcher = watcher
    Shells = {s}
    MaxCalls = 2
    MaxFailures = 1
\* The crawler may be stopped.
CHECK_DEADLOCK FALSE
INVARIANTS
    NoSleepOnWork
    
PROPERTIES
    
    StopEndsCrawler
