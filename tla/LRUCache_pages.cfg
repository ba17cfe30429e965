\* Four URLs for a cache of three, and four nodes: enough for a list, and a
\* map, longer than the capacity after a page "-1". Fresh memory is NULL or
\* not, and when it is not, the first print crashes.
CONSTANTS
    u1 = u1 u2 = u2 u3 = u3 u4 = u4
    n1 = n1 n2 = n2 n3 = n3 n4 = n4
    page = page error = error
    Garbage = Garbage NULL = NULL
    Url <- FourUrls
    Response <- PageOrError
    Node <- FourNodes
    head = head tail = tail
    NotFound = NotFound
    Cap = 3
    Uninitialised <- Unset
SPECIFICATION Spec
SYMMETRY Symmetric
INVARIANT ListMatchesMap
PROPERTY KeepsRecentPages
\* the program may have crashed in print
CHECK_DEADLOCK FALSE
