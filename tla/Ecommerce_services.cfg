\* Two services of two threads, with up to four requests each, every input.
CONSTANTS
    n = 2
    m = 2
    Resource = {1, 2}
    MaxRequests = 4
SPECIFICATION FairSpec
INVARIANT EveryRequestOnce
INVARIANT FirstRoundFits
PROPERTY AllServed
\* the program ends
CHECK_DEADLOCK FALSE
