CONSTANTS
    PathOrder <- FourPaths
    NamePrefix <- BeginsAlike
    Versioned <- AllPaths
    Gone <- MayBeRemoved
    ReadMayFail = TRUE
    Infos = {k1, k2, k3}
    NoInfo = NoInfo
    MaxCalls = 3
SPECIFICATION FairSpec
CHECK_DEADLOCK FALSE
INVARIANTS
    
    NotifiedInfoExists
    
PROPERTIES
    AddPathUncoversNothing
    EventuallyWatched
