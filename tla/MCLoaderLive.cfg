SPECIFICATION FairSpec
CONSTANTS
    NIfaces = 2
    Addr = {a1}
    NoAddr = noAddr
    Observer = {grpc, announce}
    Grpc = grpc
    Announce = announce
    Systems = {"linux"}
    QueueMax = 1
    MaxPolls = 3
PROPERTIES
    SettlesListening
    SettlesAnnouncing
    SettlesTold
CHECK_DEADLOCK FALSE
