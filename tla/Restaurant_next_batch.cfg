\* N = 2 and its 2N diners, fair scheduling, no spurious wakeups.
CONSTANTS
    d1 = d1 d2 = d2 d3 = d3 d4 = d4 d5 = d5 d6 = d6
    N = 2
    Diners <- FourDiners
    Spurious = FALSE
    IntMax = 6
SPECIFICATION FairSpec
PROPERTY NextBatchCanEnter
CHECK_DEADLOCK FALSE
