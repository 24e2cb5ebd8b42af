SPECIFICATION Spec
CONSTANTS
    Job = {a1, a2}
    Applies = {a1, a2}
    Fixes = {}
    Part = {p1, p2}
    NoPart = noPart
    Nobody = nobody
    MaxFormats = 1
SYMMETRY Symmetry
INVARIANTS
    OkMeansApplied
PROPERTIES
    OthersStayMounted
CHECK_DEADLOCK FALSE
