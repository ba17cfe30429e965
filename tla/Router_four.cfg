\* Every graph of a cycle of four links with one chord: predecessors have to
\* be followed, links of weight 0 close cycles of length 0, and two links of
\* weight 2 in a row reach Infinity.
CONSTANTS
    a = a b = b c = c d = d
    NULL = NULL
    Router <- Four
    Weight = {0, 2}
    Infinity = 4
    Topologies <- Cycles
SPECIFICATION FairRouterSpec
INVARIANT ShortestPathTree
INVARIANT DistancesShortest
INVARIANT EntriesLeadOut
PROPERTY DistancesSettle
PROPERTY UpdateReturns
