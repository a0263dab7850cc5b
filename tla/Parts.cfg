SPECIFICATION PSpec
CONSTANTS
    t1 = t1
    t2 = t2
    g1 = g1
    g2 = g2
    Streams = 3
    AddressOf <- Addresses
    Writes = {t1, t2}
    SessionOf <- SessionOfTask
    Immediate = {t1}
    MaxPending = 1
    BatchSizes = {1, 2}
    Frames = 3
    MaxErrors = 3
    BaseTimeout = 10000
    ReadTimes = {4000, 9000}
    EventCap = 1
    PayloadSizes = {65439, 65440}
    MaxPackets = 2
    MinBatch = 32
    MaxBatch = 1024
    InitialBatch = 256
    Window = 4
    MinSeen = 2
    MinFit = 3
    Optima <- ModelOptima
    PidSums <- Sums
    Seconds = {0, 60}
    SizeClasses = {"small", "giant"}
    MaxBuffers = 5
    MinPool <- Minima
    StaleTurns = 2
    PoolStep = 2
    BreakersPerTurn = 2
    Calls = {g1, g2}
    MaxOffenses = 1
    LogScore <- Heavy
    Ageing = {100}
    BanScore = 80
    BanOffenses = 1
INVARIANTS PartsTypeOK PermitsComeBack FramesInOrder PacketsOpen DecisionsBounded
INVARIANT BansAreManual
PROPERTIES NothingAfterCut ReadersEnd ControlGoesOn PoolOnlyDrains DecisionsComeBack
CHECK_DEADLOCK FALSE
