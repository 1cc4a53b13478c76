CONSTANTS
    r1 = r1
    r2 = r2
    n1 = n1
    n2 = n2
    NoRealm = NoRealm
    Realms = {r1, r2}
    Notifiers = {n1}
    Listened = {n1}
    MaxVersion = 2
    Suppressing = FALSE
    CallbackWrites = FALSE
    Invalidating = FALSE
    OpenFails = FALSE
SPECIFICATION FairSpec
CHECK_DEADLOCK FALSE
PROPERTY WaitsEnd
PROPERTY CallbackCatchesUp
