SPECIFICATION FairSpec
CONSTANTS
    NIfaces = 1
    Addr = {a1, a2}
    NoAddr = noAddr
    Observer = {grpc, announce}
    Grpc = grpc
    Announce = announce
    Systems = {"linux"}
    QueueMax = 1
    MaxPolls = 3
PROPERTIES
    NoServeAfterStop
CHECK_DEADLOCK FALSE
