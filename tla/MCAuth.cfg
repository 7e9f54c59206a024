CONSTANTS
    r1 = r1
    r2 = r2
    x = x
    y = y
    z = z
    Absent = Absent
    Torn = Torn
    None = None
    Reqs = {r1, r2}
    Codes = {x, y, z}
    MaxClk = 2
    Skew = 1
    CodeAt <- FourSteps
    TTL = 1
    MaxAccounts = 2
    MaxLosses = 1
SYMMETRY ReqSymmetry
SPECIFICATION Spec
INVARIANTS
    TypeOK
    ReplaysNeedAFailure
    CookiesHonoured
    OneSetupWins
    NeverTorn
