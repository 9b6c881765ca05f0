CONSTANTS
    SPOOL_CAPACITY = 3
    CHUNK_SIZE = 2
    ACK_INTERVAL = 2
    CMD_CAPACITY = 8
    STREAM_CAPACITY = 4
    DOWN_CAPACITY = 2
    MaxBytes = 2
    MaxTicket = 2
    MaxGen = 2
    Modes = {"capped", "uncapped"}
SPECIFICATION ModesFairSpec
INVARIANTS
    TypeOK
    DoneMeansComplete
PROPERTIES
    ImplementsByteRelay
    CappedTransferEnds
    CappedBackPressureEnds
    CappedPumpFinishes
CHECK_DEADLOCK FALSE
