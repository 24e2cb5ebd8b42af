SPECIFICATION Spec
CONSTANTS
    NIfaces = 1
    Addr = {a1, a2}
    NoAddr = noAddr
    Observer = {grpc, announce}
    Grpc = grpc
    Announce = announce
    Systems = {"linux", "windows"}
    QueueMax = 1
    MaxPolls = 3
INVARIANTS
    NoLostWakeup
    ListenerFollowsStatus
    CrashNeedsDownCall
    AnnouncedIsServed
    
PROPERTIES
    FollowsLink
CHECK_DEADLOCK FALSE
