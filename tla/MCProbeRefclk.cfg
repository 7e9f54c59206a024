CONSTANTS
    RefClks <- Clks
    LinkFreqs <- Links
    LaneCounts = {2}
    Blocks = 1
    BlockBursts = 1
    Delay = 5
SPECIFICATION Spec
INVARIANTS
    NeverBug
