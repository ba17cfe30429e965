\* N = 3 and its 2N diners, fair scheduling; wait() may return at any time.
CONSTANTS
    d1 = d1 d2 = d2 d3 = d3 d4 = d4 d5 = d5 d6 = d6
    N = 3
    Diners <- SixDiners
    Spurious = TRUE
    IntMax = 6
SPECIFICATION FairSpec
INVARIANT HeadCount
INVARIANT ServedAsBatch
PROPERTY ExitOnlyByOpenBackDoor
PROPERTY NextBatchOnlyWhenEmpty
PROPERTY BatchProgress
\* main can wait on cv_back for ever: see run restaurant_next_batch
CHECK_DEADLOCK FALSE
