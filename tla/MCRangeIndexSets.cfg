SPECIFICATION Spec
CONSTANTS
    MaxSize = 2
    MaxIndex = 6
    MaxCount = 2
    MaxValues = 2
    NoCall = NoCall
CHECK_DEADLOCK FALSE
PROPERTY ImplementsRowSet
INVARIANT WellFormed
INVARIANT QueriesAgree
