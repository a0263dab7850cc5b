SPECIFICATION MSpec
CONSTANTS
    c1 = c1
    h = h
    Slots = {"loop"}
    Followed <- SomeLoop
    Clients = {c1, h}
    Impatient = {h}
    Sessions = {"a"}
    Timeout = 1
    MaxMissed = 2
    MaxTold = 1
INVARIANTS OthersNeverDeadlock OnlySilentAreCut
PROPERTIES TasksWindDown QueriesComeBack SilenceIsNoticed
CHECK_DEADLOCK FALSE
