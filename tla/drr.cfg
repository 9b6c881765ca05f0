CONSTANTS
    c1 = c1
    b1 = b1
    b2 = b2
    Streams = {c1, b1, b2}
    Priority <- MCPriority
    STRICT_MIN = 64
    STRICT_QUANTUM = 1
    BULK_QUANTUM = 2
    DEFICIT_WRAP = 3
    MaxBacklog <- MCMaxBacklog
    MaxBudget = 5
    MaxQueued = 3
    Quanta = {1}
SPECIFICATION FairSpec
INVARIANTS
    SchedulerInv
    QueuesMatch
    BudgetRespected
    WorkConserving
PROPERTIES
    NoStarvation
