CONSTANTS
    c1 = c1
    c2 = c2
    t1 = t1
    a = a
    Origin = Origin
    Unplaced = Unplaced
    NoConn = NoConn
    Conns = {c1, c2}
    Tasks = {t1}
    Mods = {}
    Keys = {a}
    KeySlots = 6
    Buttons = {}
    Points = {Origin}
    HasRel = FALSE
    Scripts <- OnlyA
    MaxInFlight = 2
    MaxBreaks = 0
SPECIFICATION Spec
INVARIANT FocusLossReleases

