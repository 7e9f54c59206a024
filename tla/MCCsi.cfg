CONSTANTS
    DeviceTrees <- Boards
    Timings <- Modes
SPECIFICATION Spec
INVARIANTS
    TypeOK
    LanesAgree
    FitsLink
    WiredLanesSuffice
    ColourKept
