SPECIFICATION Spec
CONSTANTS
    SEQ_MOD = 8
    NetCap = 3
    Faults <- RepliesOvertake
    WINDOW_SIZE = 2
    PAYLOAD_SIZE = 1
    MaxSize = 3
    FileMayChange = FALSE
INVARIANT
    AckedIsReceived
