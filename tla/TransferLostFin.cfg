SPECIFICATION Spec
CONSTANTS
    SEQ_MOD = 3
    NetCap = 2
    Faults <- Fifo
    WINDOW_SIZE = 2
    PAYLOAD_SIZE = 2
    MaxSize = 2
    FileMayChange = FALSE
INVARIANT
    ExitZeroMeansStored
