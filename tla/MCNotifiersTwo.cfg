CONSTANTS
    r1 = r1
    r2 = r2
    n1 = n1
    n2 = n2
    NoRealm = NoRealm
    Realms = {r1, r2}
    Notifiers = {n1, n2}
    Listened = {}
    MaxVersion = 3
    Suppressing = FALSE
    CallbackWrites = FALSE
    Invalidating = FALSE
    OpenFails = FALSE
SPECIFICATION Spec
CHECK_DEADLOCK FALSE
SYMMETRY Symmetry
INVARIANT HandoverIsPinned
INVARIANT RunNotifiersAgree
