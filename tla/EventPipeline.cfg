SPECIFICATION PFairSpec
CONSTANTS
    f1 = f1
    c1 = c1
    Frames = {f1}
    Conns = {c1}
    ChannelSize = 2
INVARIANT HandledOnce
PROPERTY SettlesOrStopped
CHECK_DEADLOCK FALSE
