CONSTANTS
    RefClks <- Clks
    LinkFreqs <- Links
    LaneCounts = {2, 5}
    Blocks = 2
    BlockBursts = 2
    Delay = 8
SPECIFICATION FairSpec
INVARIANTS
    TypeOK
    NothingOutlives
    ServedWithClock
    OfferedWhole
PROPERTIES
    StoppingEnds
CHECK_DEADLOCK FALSE
