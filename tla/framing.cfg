CONSTANTS
    BASE = 4
    OFFSET_BYTES = 2
    LEN_BYTES = 1
    CHUNK_SIZE = 2
    MAX_JSON_PAYLOAD = 2
    MAGIC = 1
    VERSION = 1
    OP_NEW_STREAM = 1
    OP_RECONNECT = 2
    Data <- MCData
    Messages <- MCMessages
    to_vec <- MCto_vec
    MaxMsgs = 3
SPECIFICATION FairSpec
INVARIANTS
    ReadIsPrefix
    EofMeansFin
    NoFalseError
PROPERTIES
    ReaderEnds
CHECK_DEADLOCK FALSE
