\* Three workers and a table of two rows, so that rows run out and the limit
\* for queries is reached; two bookings of the one seat overbook an event.
CONSTANTS
    w1 = w1 w2 = w2 w3 = w3
    e1 = e1 e2 = e2
    NULL = NULL
    Worker <- ThreeWorkers
    Event <- TwoEvents
    Seats = {1}
    capacity = 1
    MAX = 2
    MaxQueries = 3
SPECIFICATION Spec
SYMMETRY Symmetric
INVARIANT RowsHaveOwners
INVARIANT OverbookedOnlyByRace
INVARIANT OwnerGoesOn
\* main ends the program
CHECK_DEADLOCK FALSE
