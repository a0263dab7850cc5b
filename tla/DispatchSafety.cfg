SPECIFICATION UpSpec
CONSTANTS
    w1 = w1
    w2 = w2
    a1 = a1
    b1 = b1
    a2 = a2
    None = None
    Workers <- TwoWorkers
    Loops <- OneLoopEach
    Own <- OwnOf
    Capacity = 3
    InjectorCapacity = 1
    Limit = 4
    MaxTasks = 6
    Cleanable <- NoId
INVARIANTS
    OnePlace
    CounterCovers
PROPERTIES
    LeftStays
CHECK_DEADLOCK FALSE
