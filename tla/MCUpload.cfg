SPECIFICATION FairSpec
CONSTANTS
    Call = {careful, other}
    Careful = {careful}
    Path = {p1, p2}
    NoPath = noPath
    MaxSize = 2
    MaxData = 3
    MaxInfos = 2
    Old = old
INVARIANTS
    LockMeansLooping
    CarefulNeverSelfBlocks
    OkMeansStored
    CrashNeedsSecondInfo
PROPERTIES
    CarefulUploadEnds
    NoProgressLeft
CHECK_DEADLOCK FALSE
