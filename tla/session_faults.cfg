CONSTANTS
    u1 = u1
    u2 = u2
    u3 = u3
    p1 = p1
    Streams = {u1, u2, u3}
    Priority <- MCPriority
    Pollers = {p1}
    MAX_CONCURRENT = 2
    MAX_PENDING = 2
    AGENT_CAPACITY = 1
    CMD_CAPACITY = 1
    STREAM_CAPACITY = 1
    MaxGen = 3
    MaxFaults = 1
    HookLimits = {0, 1}
    MaxHooks = 1
SPECIFICATION Spec
INVARIANTS
    TypeOK
    Accounted
PROPERTIES
    SlotsRespected
    HandleKept
CHECK_DEADLOCK FALSE
