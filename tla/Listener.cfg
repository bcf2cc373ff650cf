SPECIFICATION FairSpec
CONSTANTS
    p1 = p1
    p2 = p2
    p3 = p3
    Pids = {p1, p2, p3}
    NoPid = NoPid
    MaxForks = 3
    MaxInts = 2
INVARIANTS
    TypeOK
    ShutdownReachesChildren
    SafeSignals
PROPERTIES
    ZombiesReaped
    InterruptEndsAll
