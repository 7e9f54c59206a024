CONSTANTS
    c1 = c1
    t1 = t1
    t2 = t2
    shift = shift
    a = a
    b = b
    left = left
    None = None
    Origin = Origin
    Unplaced = Unplaced
    Conns = {c1}
    Tasks = {t1, t2}
    Mods = {shift}
    Keys = {a, b}
    KeySlots = 6
    Buttons = {left}
    Points = {Origin}
    HasRel = TRUE
    MaxChunks = 2
    Scripts <- Texts
    MaxAsked = 5
SPECIFICATION TypingSpec
INVARIANT TypedAsAsked
CHECK_DEADLOCK FALSE
