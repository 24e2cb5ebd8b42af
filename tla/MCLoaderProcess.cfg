SPECIFICATION FairSpec
CONSTANTS
    MaxSignals = 3
    QueueSize = 1
    Shipped = shipped
    Torn = torn
    Call = {"c1", "c2"}
    Callers <- MCCallers
    Piece = {1, 2}
    MaxPieces = 1
    MaxFiles = 2
PROPERTIES
    UpdateInstalls
    QuitWaitsForStop
    StopBeforeExit
    TerminationStopsServices
    SignalsHandled
    UpdateComesBack
    CallsEnter
CHECK_DEADLOCK FALSE
