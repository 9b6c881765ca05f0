CONSTANTS
    c1 = c1
    b1 = b1
    b2 = b2
    Streams = {b1, b2}
    Priority <- MCPriority
    STRICT_MIN = 64
    STRICT_QUANTUM = 2
    BULK_QUANTUM = 2
    DEFICIT_WRAP = 16
    MaxBacklog <- MCLargeBacklog
    MaxBudget = 8
    MaxQueued = 2
    Quanta = {}
SPECIFICATION Spec
INVARIANTS
    FairShare
CHECK_DEADLOCK FALSE
