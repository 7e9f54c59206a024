CONSTANTS
    c1 = c1
    c2 = c2
    t1 = t1
    a = a
    left = left
    None = None
    Origin = Origin
    Unplaced = Unplaced
    Conns = {c1, c2}
    Tasks = {t1}
    Mods = {}
    Keys = {a}
    KeySlots = 2
    Buttons = {left}
    Points = {Origin}
    HasRel = TRUE
    MaxChunks = 1
    Scripts <- LongChord
SPECIFICATION FairSpec
INVARIANTS
    TypeOK
    NoStuckKeys
    KeyboardInStep
    PointerInStep
    KeyListSound
PROPERTIES
    TargetComesToRest
    HandlersAreAtomic
