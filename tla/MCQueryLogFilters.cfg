SPECIFICATION Spec
CONSTANTS
    b1 = b1
    n1 = n1
    n2 = n2
    f1 = f1
    None = None
    NoFilters = NoFilters
    Browsers = {b1}
    Nodes = {n1, n2}
    Filters = {f1}
    LogLen = 2
    Matches <- MCMatches
    MaxPages = 4
    MaxCursors = 3
    MaxFailures = 0
INVARIANT PagesFiltered
CHECK_DEADLOCK FALSE
