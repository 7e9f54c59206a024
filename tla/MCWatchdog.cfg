CONSTANTS
    hd = hd
    full30 = full30
    full60 = full60
    small = small
    big = big
    Asleep = Asleep
    Unplugged = Unplugged
    NoMode = NoMode
    NoSize = NoSize
    Modes = {hd, full60}
    Fits = {hd}
    Sizes = {small, big}
    SizeOf <- OneTooHigh
    BootMode = hd
    BootSize = big
    Retrain = 7
    LockTries = 8
    GstWait = 2
    RestartSec = 5
    MaxFaults = 1
    Poll = 2
    StallTicks = 3
    MinInterval = 8
    KickSleep = 6
    Settings <- ClockSettings
SPECIFICATION FairSpec
INVARIANT TypeOK
PROPERTIES
    NoThrash
    TooHighBacksOff
    VideoFollows
