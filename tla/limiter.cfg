CONSTANTS
    Streams = {"u1", "u2"}
    PER_TICK <- MCPerTick
    MaxBacklog = 1
    MaxWire = 1
    MaxSessions = 2
SPECIFICATION FairSpec
INVARIANTS
    TypeOK
    TablesAgree
    ChargedOnce
PROPERTIES
    TicketArrives
CHECK_DEADLOCK FALSE
