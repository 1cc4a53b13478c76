CONSTANTS
    c1 = c1
    c2 = c2
    h1 = h1
    h2 = h2
    h3 = h3
    None = None
    CoverIDs = {c1, c2}
    Hits = {h1, h2, h3}
    Rows = {r1, r2, r3}
    CoverOf <- MCCoverOf
    Threads = {t1, t2}
    MaxHeld = 1
SPECIFICATION Spec
SYMMETRY Interchangeable
INVARIANT TypeOK
INVARIANT OneRowPerCover
INVARIANT WishListIsTable
INVARIANT UnflaggedIffCutShort
PROPERTY ImplementsBookmarks
