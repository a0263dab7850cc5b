SPECIFICATION CFairSpec
CONSTANTS
    high1 = high1
    normal1 = normal1
    critical1 = critical1
    Callers = {high1, normal1, critical1}
    Priority <- PriorityOf
    Capacity <- OnePermit
    Burst = 1
    Decisions <- MoreHigh
    MinSamples = 2
    MaxCalls = 2
    MinWorkers = 2
    MaxWorkers = 4
    CommandCap = 2
INVARIANTS PermitsConserved PoolCounted
PROPERTIES AnswerComes EmergencyStops
CHECK_DEADLOCK FALSE
