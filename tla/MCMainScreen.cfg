CONSTANTS
    None = None
    Hits = {h1, h2, h3}
    Rows = {r1, r2, r3}
    MaxVisible = 1
    MaxStored = 2
    MaxResults = 2
    MaxSearches = 2
    MaxQueue = 3
SPECIFICATION Spec
SYMMETRY Symmetry
CHECK_DEADLOCK FALSE
INVARIANT TypeOK
INVARIANT TableIsCurrent
INVARIANT ScreenFollowsTab
