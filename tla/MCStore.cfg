CONSTANTS
    devices = devices
    macros = macros
    i1 = i1
    i2 = i2
    Torn = Torn
    None = None
    Lists = {devices, macros}
    Ids = {i1, i2}
    MaxFaults = 2
SYMMETRY StoreSymmetry
SPECIFICATION Spec
INVARIANTS
    TypeOK
    ListsAsTold
    FileCatchesUp
