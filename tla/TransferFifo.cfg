SPECIFICATION Spec
CONSTANTS
    SEQ_MOD = 3
    NetCap = 3
    Faults <- Fifo
    WINDOW_SIZE = 2
    PAYLOAD_SIZE = 2
    MaxSize = 5
    FileMayChange = FALSE
INVARIANTS
    IInv
    AckedIsReceived
    StoredInOrder
    FinAckMeansStored
    NoFalseReject
    PacketBound
PROPERTY
    ImplementsFileCopy
