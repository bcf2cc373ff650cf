SPECIFICATION Spec
CONSTANTS
    c1 = c1
    c2 = c2
    c3 = c3
    c4 = c4
    n1 = n1
    n2 = n2
    NoClient = NoClient
    NetCap = 2
    Faults <- Lossy
    Clients <- FourClients
    Names = {n1, n2}
    NameOf <- NewAndOld
    Form <- AllForms
    OldFiles = {n2}
    Chunks = 2
    MaxTries = 1
    MaxChildren = 4
INVARIANTS
    TypeOK
    OldFilesKept
    ConfirmedFileStays
    

    
