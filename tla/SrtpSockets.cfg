SPECIFICATION FairSpec
CONSTANTS
    Payloads = {}
    Threads = {t1}
    IPs = {ip1}
    t1 = t1
    ip1 = ip1
    MaxFd = 3
    MaxFifos = 3
    OldFifos <- FirstOldFifo
    Seqs = {0, 1}
    GarbageFds = {1}
    MaxDatagrams = 2
    Elapsed <- ClockSteps
    Replies <- SomeReplies
    Word = 1073741824
INVARIANTS
    TypeOK
    
    SocketHasItsConn
    

    
CHECK_DEADLOCK FALSE
