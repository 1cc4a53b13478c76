CONSTANTS
    r1 = r1
    r2 = r2
    n1 = n1
    n2 = n2
    NoRealm = NoRealm
    Realms = {r1, r2}
    Notifiers = {n1}
    Listened = {n1}
    MaxVersion = 3
    Suppressing = TRUE
    CallbackWrites = TRUE
    Invalidating = TRUE
    OpenFails = TRUE
SPECIFICATION Spec
CHECK_DEADLOCK FALSE
SYMMETRY Symmetry
INVARIANT TypeOK
INVARIANT PayloadFits
INVARIANT NothingLost
INVARIANT ToldOnce
INVARIANT DropsItsOwn
