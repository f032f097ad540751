\* Two requests at a time from one address; two failures lock a key, and the two maps
\* hold fewer keys than there are.
SPECIFICATION Spec
CONSTANTS
    Unset = Unset
    Origins = {o1}
    Handlers = {h1, h2}
    MaxFails = 2
    Limit = 2
    MaxKeys = 1
    SweepAbove = 1
    MaxWindows = 2
    MaxRequests = 4
SYMMETRY Symmetry
INVARIANTS
    LimitersBounded
    RowsKept
CHECK_DEADLOCK FALSE
