SPECIFICATION Spec
CONSTANTS
    Folders = {a, b, long, out}
    LongFolders = {long}
    Excluded = {out}
    NoFile = NoFile
    CacheDiskVersion = 2
    MaxUpdates = 2
    MaxFaults = 2
INVARIANTS
    NothingLost
    OneCrashPerDamage
PROPERTIES
    LoadedIsWhole
