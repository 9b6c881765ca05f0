CONSTANTS
    SPOOL_CAPACITY = 2
    CHUNK_SIZE = 2
    ACK_INTERVAL = 1
    CMD_CAPACITY = 1
    STREAM_CAPACITY = 1
    DOWN_CAPACITY = 1
    MaxBytes = 3
    MaxTicket = 2
    MaxGen = 3
SPECIFICATION Spec
INVARIANTS
    AckedIsWritten
    CursorInSpool
    NoGap
    DeliveredIntact
    SenderDoneMeansComplete
    StreamsInOrder
    RelayInv
CHECK_DEADLOCK FALSE
