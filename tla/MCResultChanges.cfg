SPECIFICATION Spec
CONSTANTS
    Npos = 9
    MaxRows = 4
    MaxKey = 2
    MaxEdits = 3
INVARIANT RowsAreTraced
INVARIANT ResultsAreExplained
INVARIANT ModifiedAreReported
