SPECIFICATION FairSpec
CONSTANTS
    c1 = c1
    c2 = c2
    c3 = c3
    c4 = c4
    n1 = n1
    n2 = n2
    NoClient = NoClient
    NetCap = 2
    Faults <- Repeating
    Clients <- OneClient
    Names = {n1}
    NameOf <- OneFile
    Form <- AllSized
    OldFiles = {}
    Chunks = 2
    MaxTries = 2
    MaxChildren = 3
INVARIANTS
    OnlyCompleteFilesLeft
PROPERTIES
    EventuallyIdle
