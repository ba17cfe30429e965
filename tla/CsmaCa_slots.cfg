\* Three nodes; ints of four bits, so that three collisions overflow.
CONSTANTS
    numNodes = 3
    maxBackoff = 1
    backoffChannelBusy = 2
    simulationDuration = 6
    maxtransmissionTime = 2
    IntBits = 4
SPECIFICATION Spec
INVARIANT OneAtATime
INVARIANT CountsAddUp
PROPERTY SoleSender
PROPERTY CollisionTakesAll
\* The simulation ends after its last slot.
CHECK_DEADLOCK FALSE
