SPECIFICATION FairSpec
CONSTANTS
    SEQ_MOD = 3
    NetCap = 2
    Faults <- Fifo
    WINDOW_SIZE = 2
    PAYLOAD_SIZE = 1
    MaxSize = 2
    FileMayChange = FALSE
PROPERTY
    Terminates
