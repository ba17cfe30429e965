\* Four routers that appear one by one, with short and long links: the last
\* neighbor on a path need not be the first, and the long link to it need not
\* be on the path at all.
CONSTANTS
    a = a b = b c = c d = d
    NULL = NULL
    Router <- Four
    Weight = {1, 3}
    Infinity = 7
    Topologies <- NoTopologies
    LinkLists <- ShortOrLong
SPECIFICATION Spec
SYMMETRY Symmetric
INVARIANT NoDanglingPointer
INVARIANT HopsLeadCloser
PROPERTY PathsServed
\* the program exits, or is killed
CHECK_DEADLOCK FALSE
