SPECIFICATION Spec
CONSTANTS
    Call = {c1, c2}
    d1 = d1
    d2 = d2
    Disk = {d1, d2}
    Grains = 60
    Requests <- MCRequests
    Layouts <- MCLayouts
    MsrStart = 2048

    
PROPERTIES
    OkMeansProvided
    OthersAreKept
CHECK_DEADLOCK FALSE
