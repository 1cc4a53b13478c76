SPECIFICATION Spec
CONSTANTS
    Rows = {1, 2, 3, 4}
    Roots = {1, 2}
    Columns = 2
    PathSize = 3
    MaxLinks = 4
    Graphs <- FewLinks
    Changes <- OneRow
INVARIANT AnswersAreExact
