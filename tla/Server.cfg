SPECIFICATION SVSpec
CONSTANTS
    c1 = c1
    c2 = c2
    f1 = f1
    address = address
    None = None
    Conns = {c1, c2}
    Addr <- OneAddress
    Frames = {f1}
    FrameOf <- OnTheFirst
    Callers = {"m1", "m2", "m3"}
    Addresses = {"a"}
    Checks = {"k1", "k2"}
    MaxRequests = 2
    Window = 3
    CleanupEvery = 2
    BlockFor = 1
    Burst = 1
    Dangerous = 0
    MaxDelay = 1
    Queries = {"r1", "r2", "w1", "w2"}
    Reads = {"r1", "r2"}
    MaxBatch = 3
    Urls = {"u", "v"}
    Strategies = {"RoundRobin", "WeightedRoundRobin", "LeastConnections", "LatencyBased"}
    MaxNodes = 2
    IndexPeriod = 2
    ErrorLimit = 1
    Scalers = {"n1"}
    MaxReplicas = 2
INVARIANTS ServerTypeOK GoneLeavesNothing HeartbeatHasSession StaleOnlyWhenLate
INVARIANTS OthersNeverHang WindowHolds RunOnceInOrder PickedIsHealthy
PROPERTY FramesServed
CHECK_DEADLOCK FALSE
