SPECIFICATION Spec
CONSTANTS
    w1 = w1
    w2 = w2
    a1 = a1
    b1 = b1
    a2 = a2
    None = None
    Workers <- OneWorker
    Loops <- OneLoop
    Own <- OwnOf
    Capacity = 2
    InjectorCapacity = 8
    Limit = 1
    MaxTasks = 2
    Cleanable <- NoId
INVARIANTS
    NoTaskLost
CHECK_DEADLOCK FALSE
