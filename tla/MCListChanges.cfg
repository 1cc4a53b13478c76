SPECIFICATION Spec
CONSTANTS
    Npos = 9
    MaxSize = 4
    MaxEdits = 4
INVARIANT AccumulatedExplains
INVARIANT ModifiedAreReported
