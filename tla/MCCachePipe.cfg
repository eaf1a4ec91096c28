SPECIFICATION FairSpec
CONSTANTS
    Threads = {t1, t2}
    Pipes = {p1, p2}
    None = None
    MaxCalls = 3
    MaxFaults = 1
\* The calls are bounded.
CHECK_DEADLOCK FALSE
INVARIANTS
    AnswerIsMine
PROPERTIES
    ShellNotBlocked
    NoMuteServer
    ThreadsEnd
