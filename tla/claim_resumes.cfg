CONSTANTS
    SPOOL_CAPACITY = 2
    CHUNK_SIZE = 1
    ACK_INTERVAL = 2
    CMD_CAPACITY = 8
    STREAM_CAPACITY = 4
    DOWN_CAPACITY = 2
    MaxBytes = 3
    MaxTicket = 1
    MaxGen = 2
SPECIFICATION FairSpec
PROPERTIES
    WriterResumes
CHECK_DEADLOCK FALSE
