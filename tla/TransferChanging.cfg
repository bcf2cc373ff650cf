SPECIFICATION SpecMallocFails
CONSTANTS
    SEQ_MOD = 8
    NetCap = 2
    Faults <- AllOvertake
    WINDOW_SIZE = 2
    PAYLOAD_SIZE = 2
    MaxSize = 4
    FileMayChange = TRUE
CONSTRAINT MadeBound
INVARIANTS
    StoredInOrder
    FinAckMeansStored
    ReadWithinSize
    ShortFileNeverOK
