CONSTANTS
    hd = hd
    full30 = full30
    full60 = full60
    small = small
    big = big
    Asleep = Asleep
    Unplugged = Unplugged
    NoMode = NoMode
    NoSize = NoSize
    Modes = {hd, full30}
    Fits = {hd, full30}
    Sizes = {small, big}
    SizeOf <- TwoThatFit
    BootMode = hd
    BootSize = big
    Retrain = 8
    LockTries = 8
    GstWait = 2
    RestartSec = 5
    MaxFaults = 0
    Poll = 2
    StallTicks = 3
    MinInterval = 8
    KickSleep = 6
    Settings = {}
SPECIFICATION FairSpec
PROPERTY VideoFollows
