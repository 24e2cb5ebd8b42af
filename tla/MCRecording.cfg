SPECIFICATION FairSpec
CONSTANT MaxStarts = 3
INVARIANTS
    OneRecording
    StopReachesReader
    
    ReaderExplained
PROPERTIES
    QuitEnds
CHECK_DEADLOCK FALSE
