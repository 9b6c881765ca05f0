CONSTANTS
    u1 = u1
    u2 = u2
    u3 = u3
    p1 = p1
    Streams = {u1, u2}
    Priority <- MCPriority
    Pollers = {}
    MAX_CONCURRENT = 1
    MAX_PENDING = 2
    AGENT_CAPACITY = 1
    CMD_CAPACITY = 2
    STREAM_CAPACITY = 4
    MaxGen = 2
    MaxFaults = 1
    HookLimits = {}
    MaxHooks = 0
SPECIFICATION FairSpec
PROPERTIES
    PendingServed
CHECK_DEADLOCK FALSE
