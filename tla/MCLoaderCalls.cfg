SPECIFICATION Spec
CONSTANTS
    MaxSignals = 0
    QueueSize = 1
    Shipped = shipped
    Torn = torn
    Call = {"c1", "c2"}
    Callers <- MCCallers
    Piece = {1}
    MaxPieces = 1
    MaxFiles = 1
PROPERTIES
    UndefinedIsUnimplemented
CHECK_DEADLOCK FALSE
