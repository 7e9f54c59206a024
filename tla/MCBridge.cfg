CONSTANTS
    p720 = p720
    p1080 = p1080
    fast = fast
    Silent = Silent
    NoMode = NoMode
    Modes = {p720, p1080}
    ClockOf <- Clocks
    BootMode = p720
SPECIFICATION FairSpec
INVARIANTS
    TypeOK
    EdidOffered
    WrongPictureStops
PROPERTY HotplugComes
