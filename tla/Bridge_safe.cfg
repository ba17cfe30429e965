\* Three travellers from each side.
CONSTANTS
    THREADS = 3
    NULL = NULL
    Destroyed = Destroyed
SPECIFICATION BridgeFairSpec
INVARIANT OneOnBridge
INVARIANT DestroyedWhenUnused
PROPERTY EveryoneCrosses
\* main returns
CHECK_DEADLOCK FALSE
