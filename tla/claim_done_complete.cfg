CONSTANTS
    SPOOL_CAPACITY = 2
    CHUNK_SIZE = 1
    ACK_INTERVAL = 1
    CMD_CAPACITY = 8
    STREAM_CAPACITY = 4
    DOWN_CAPACITY = 2
    MaxBytes = 2
    MaxTicket = 1
    MaxGen = 3
SPECIFICATION Spec
INVARIANTS
    DoneMeansComplete
CHECK_DEADLOCK FALSE
