SPECIFICATION PFairSpec
CONSTANTS
    f1 = f1
    c1 = c1
    Frames = {f1}
    Conns = {c1}
    ChannelSize = 3
PROPERTY EverySettles
CHECK_DEADLOCK FALSE
