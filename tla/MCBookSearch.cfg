CONSTANTS
    t1 = t1
    t2 = t2
    bad = bad
    Empty = Empty
    Texts = {t1, bad}
    Unencodable = {bad}
    MaxTimers = 2
    MaxDocs = 2
    Faulty = TRUE
SPECIFICATION FairSpec
CHECK_DEADLOCK FALSE
INVARIANT TypeOK
INVARIANT OneRequestPerText
INVARIANT AloneSearchIsExact
INVARIANT ResultsAreBlocks
INVARIANT CoversReady
PROPERTY EverySearchAnswered
PROPERTY TypedIsSearched
