SPECIFICATION FairSpec
CONSTANTS
    w1 = w1
    w2 = w2
    a1 = a1
    b1 = b1
    a2 = a2
    None = None
    Workers <- OneWorker
    Loops <- PairOfLoops
    Own <- OwnOf
    Capacity = 2
    InjectorCapacity = 8
    Limit = 1
    MaxTasks = 3
    Cleanable <- FirstId
PROPERTIES
    QueuedIsTaken
    LoopsEnd
    TasksServed
CHECK_DEADLOCK FALSE
