CONSTANTS
    u1 = u1
    u2 = u2
    u3 = u3
    p1 = p1
    Streams = {u1, u2, u3}
    Priority <- MCPriority
    Pollers = {p1}
    MAX_CONCURRENT = 1
    MAX_PENDING = 2
    AGENT_CAPACITY = 1
    CMD_CAPACITY = 1
    STREAM_CAPACITY = 4
    MaxGen = 3
    MaxFaults = 0
    HookLimits = {}
    MaxHooks = 0
SPECIFICATION FairSpec
INVARIANTS
    PendingSorted
    NoIdleSlot
    NoMutualWait
PROPERTIES
    NoOvertaking
    CallsAnswered
    PendingServed
    Recovers
