------------------------------- MODULE CsmaCa -------------------------------
(***************************************************************************)
(* NetworkProtocols/CSMA_CA_Simulation.cpp: nodes that share a channel,    *)
(* slot by slot.                                                           *)
(*                                                                         *)
(* In a slot with a free channel the nodes take their turns one after the  *)
(* other, and the turn of one changes the others: each turn is a step.     *)
(* The other loops over the nodes treat every node by itself and are one   *)
(* step each.  What is drawn with rand() is any value in its range.        *)
(*                                                                         *)
(* An int has IntBits bits.  A shift takes its distance modulo IntBits,    *)
(* as the machine does, where the language leaves the result undefined.    *)
(***************************************************************************)
EXTENDS Integers, Sequences, Functions

CONSTANTS
    numNodes,
    maxBackoff,           \* exponent of the longest backoff
    backoffChannelBusy,   \* longest backoff on a busy channel
    simulationDuration,   \* slots
    maxtransmissionTime,
    IntBits               \* width of an int, 32

ASSUME CsmaAssumption ==
    /\ numNodes \in Nat \ {0}
    /\ backoffChannelBusy \in Nat \ {0}
    /\ maxtransmissionTime \in Nat \ {0}
    /\ simulationDuration \in Nat
    /\ IntBits \in Nat \ {0}
    /\ maxBackoff \in Nat
    /\ \A k \in 0 .. IntBits : 2^k \in Nat \ {0}  \* arithmetic, for the proofs

VARIABLES
    backoffInterval,          \* per node
    collisionCount,
    successfulTransmissions,
    istransmitting,
    countcollisions,          \* collisions since the last success
    collisionsBeforeSuccess,  \* sum of the list
    timeBeforeSuccess,        \* the list of times of success
    globalCollisionCounter,
    channelBusy, channelbusynode,
    transmissionTime, transmissionTimer,
    time,
    phase,                    \* "arriving", then "busy" or "sending"
    turn,                     \* the node whose turn to send it is
    ready                     \* history: who could send at the first turn

nodes == <<backoffInterval, collisionCount, successfulTransmissions,
           istransmitting, countcollisions, collisionsBeforeSuccess,
           timeBeforeSuccess, globalCollisionCounter>>
channel == <<channelBusy, channelbusynode, transmissionTime,
             transmissionTimer>>
slot == <<time, phase, turn, ready>>
vars == <<nodes, channel, slot>>

Node == 0 .. numNodes - 1
TransmissionTimes == 2 .. maxtransmissionTime + 1

Init ==
    /\ backoffInterval = [n \in Node |-> 0]
    /\ collisionCount = [n \in Node |-> 0]
    /\ successfulTransmissions = [n \in Node |-> 0]
    /\ istransmitting \in [Node -> BOOLEAN]  \* not initialised
    /\ countcollisions = [n \in Node |-> 0]
    /\ collisionsBeforeSuccess = [n \in Node |-> 0]
    /\ timeBeforeSuccess = [n \in Node |-> <<>>]
    /\ globalCollisionCounter = 0
    /\ channelBusy = FALSE
    /\ channelbusynode = -1
    /\ transmissionTime \in TransmissionTimes
    /\ transmissionTimer = 0
    /\ time = 0
    /\ phase = "arriving"
    /\ turn = 0
    /\ ready = {}

-----------------------------------------------------------------------------

\* 1 << c
Shift(c) ==
    LET d == c % IntBits IN
    IF d = IntBits - 1 THEN -(2^d) ELSE 2^d

\* Fault: rand() % d, the range that the comment of line 25 gives.
DrawnFromZero(d) == IF d > 0 THEN 0 .. d - 1 ELSE 0 .. -d - 1

\* rand() % d + 1: by a negative d nothing is taken off, and 1 may overflow.
Drawn(d) ==
    IF d > 0 THEN 1 .. d ELSE (1 .. -d - 1) \cup {d}

\* performBackoff of a node that has had c collisions
Backoffs(c) ==
    Drawn(IF Shift(c) < Shift(maxBackoff) THEN Shift(c) ELSE Shift(maxBackoff))

attemptTransmission(n) == backoffInterval[n] = 0

Sends(n) == attemptTransmission(n) /\ istransmitting[n]

CountedDown(n) ==
    IF backoffInterval[n] > 0 THEN backoffInterval[n] - 1
    ELSE backoffInterval[n]

-----------------------------------------------------------------------------

\* Fault: the carrier is not sensed.
SlotUnsensed == "sending"

SlotKind == IF channelBusy THEN "busy" ELSE "sending"

\* Nodes that have nothing to send may get something.
Arrive ==
    /\ phase = "arriving"
    /\ time < simulationDuration
    /\ istransmitting' \in {f \in [Node -> BOOLEAN] :
                              \A n \in Node : istransmitting[n] => f[n]}
    /\ phase' = SlotKind
    /\ turn' = 0
    /\ ready' = {n \in Node : attemptTransmission(n) /\ istransmitting'[n]}
    /\ UNCHANGED <<backoffInterval, collisionCount, successfulTransmissions,
                   countcollisions, collisionsBeforeSuccess,
                   timeBeforeSuccess, globalCollisionCounter, channel, time>>

\* A slot in which the channel is busy from the start
BusySlot ==
    /\ phase = "busy"
    /\ \E b \in [Node -> 1 .. backoffChannelBusy] :
         backoffInterval' = [n \in Node |->
            IF channelbusynode # n /\ Sends(n) THEN b[n] ELSE CountedDown(n)]
    /\ IF transmissionTimer + 1 = transmissionTime
       THEN /\ transmissionTimer' = 0
            /\ channelBusy' = FALSE
            /\ transmissionTime' \in TransmissionTimes
       ELSE /\ transmissionTimer' = transmissionTimer + 1
            /\ UNCHANGED <<channelBusy, transmissionTime>>
    /\ time' = time + 1
    /\ phase' = "arriving"
    /\ UNCHANGED <<collisionCount, successfulTransmissions, istransmitting,
                   countcollisions, collisionsBeforeSuccess,
                   timeBeforeSuccess, globalCollisionCounter,
                   channelbusynode, turn, ready>>

\* The turn of n in a slot with a free channel; after the last the slot ends.
Turn(n) ==
    /\ phase = "sending"
    /\ turn = n
    /\ IF n + 1 < numNodes
       THEN turn' = n + 1 /\ UNCHANGED <<time, phase>>
       ELSE turn' = 0 /\ time' = time + 1 /\ phase' = "arriving"
    /\ UNCHANGED ready

\* Fault: only the nodes before n are looked at.
Earlier(n) == {o \in Node : o < n /\ Sends(o)}

\* The others that send, too.
Others(n) == {o \in Node \ {n} : Sends(o)}

InCollision(n) == Others(n) \cup {n}

Collide(n) ==
    /\ Turn(n)
    /\ Sends(n)
    /\ Others(n) # {}
    /\ collisionCount' = [o \in Node |->
            collisionCount[o] + IF o \in InCollision(n) THEN 1 ELSE 0]
    /\ countcollisions' = [o \in Node |->
            countcollisions[o] + IF o \in InCollision(n) THEN 1 ELSE 0]
    /\ globalCollisionCounter' = globalCollisionCounter + 1
    /\ \E b \in [InCollision(n) ->
                  UNION {Backoffs(collisionCount[o] + 1) : o \in Node}] :
        /\ \A o \in InCollision(n) : b[o] \in Backoffs(collisionCount[o] + 1)
        /\ backoffInterval' = [o \in Node |-> IF o \in InCollision(n) THEN b[o]
                                              ELSE backoffInterval[o]]
    /\ UNCHANGED <<successfulTransmissions, istransmitting,
                   collisionsBeforeSuccess, timeBeforeSuccess, channel>>

\* Fault: the collisions are not counted from the start again.
CollisionsKept(n) == countcollisions[n]

CollisionsAfterSuccess(n) == 0

Succeed(n) ==
    /\ Turn(n)
    /\ Sends(n)
    /\ Others(n) = {}
    /\ \E more \in BOOLEAN :
         istransmitting' = [istransmitting EXCEPT ![n] = more]
    /\ collisionsBeforeSuccess' =
         [collisionsBeforeSuccess EXCEPT ![n] = @ + countcollisions[n]]
    /\ countcollisions' =
         [countcollisions EXCEPT ![n] = CollisionsAfterSuccess(n)]
    /\ timeBeforeSuccess' = [timeBeforeSuccess EXCEPT ![n] = Append(@, time)]
    /\ channelBusy' = TRUE
    /\ channelbusynode' = n
    /\ transmissionTimer' = transmissionTimer + 1
    /\ successfulTransmissions' =
         [successfulTransmissions EXCEPT ![n] = @ + 1]
    /\ UNCHANGED <<backoffInterval, collisionCount, globalCollisionCounter,
                   transmissionTime>>

CountDown(n) ==
    /\ Turn(n)
    /\ ~Sends(n)
    /\ backoffInterval' = [backoffInterval EXCEPT ![n] = CountedDown(n)]
    /\ UNCHANGED <<collisionCount, successfulTransmissions, istransmitting,
                   countcollisions, collisionsBeforeSuccess,
                   timeBeforeSuccess, globalCollisionCounter, channel>>

NodeTurn(n) == Collide(n) \/ Succeed(n) \/ CountDown(n)

Next == Arrive \/ BusySlot \/ \E n \in Node : NodeTurn(n)

Spec == Init /\ [][Next]_vars

-----------------------------------------------------------------------------
(* Properties *)

CsmaTypeOK ==
    /\ backoffInterval \in [Node -> Int]
    /\ istransmitting \in [Node -> BOOLEAN]
    /\ collisionCount \in [Node -> Nat]
    /\ countcollisions \in [Node -> Nat]
    /\ collisionsBeforeSuccess \in [Node -> Nat]
    /\ successfulTransmissions \in [Node -> Nat]
    /\ timeBeforeSuccess \in [Node -> Seq(Nat)]
    /\ globalCollisionCounter \in Nat
    /\ channelBusy \in BOOLEAN
    /\ channelbusynode \in Node \cup {-1}
    /\ transmissionTime \in TransmissionTimes
    /\ transmissionTimer \in 0 .. maxtransmissionTime
    /\ time \in 0 .. simulationDuration
    /\ phase \in {"arriving", "busy", "sending"}
    /\ turn \in Node
    /\ ready \subseteq Node

(***************************************************************************)
(* Although nodes change each other's state in the middle of the loop over *)
(* them, a node only succeeds when it was the only one with something to   *)
(* send and no backoff left at the start of the slot (lines 98-135).       *)
(***************************************************************************)
SoleSender ==
    [][\A n \in Node :
         successfulTransmissions'[n] # successfulTransmissions[n]
            => ready = {n}]_vars

(***************************************************************************)
(* There is one transmission at a time: any two successes, of the same or  *)
(* of different nodes, are as far apart as the shortest transmission is    *)
(* long (lines 75-97, 113-122).                                            *)
(***************************************************************************)
Apart(s, t) == s - t >= 2 \/ t - s >= 2

OneAtATime ==
    \A m, n \in Node :
        \A i \in DOMAIN timeBeforeSuccess[m],
           j \in DOMAIN timeBeforeSuccess[n] :
            <<m, i>> # <<n, j>> =>
                Apart(timeBeforeSuccess[m][i], timeBeforeSuccess[n][j])

(***************************************************************************)
(* A slot has at most one collision, and it takes in every node that was   *)
(* ready when the slot began: the first of them finds it, and what those   *)
(* it meets draw keeps them silent for the rest of the slot, also once     *)
(* 1 << collisionCount has overflowed.  Line 26 draws from 1 on; from 0    *)
(* on, as its comment says, a node that has just collided could send again *)
(* in the same slot (lines 24-27, 98-129).                                 *)
(***************************************************************************)
CollisionTakesAll ==
    [][globalCollisionCounter' # globalCollisionCounter =>
         /\ turn \in ready
         /\ \A n \in ready :
              /\ turn <= n
              /\ collisionCount'[n] = collisionCount[n] + 1]_vars

(***************************************************************************)
(* The statistics printed agree with each other: the collisions of a node  *)
(* are those before each of its successes and those since, it has a time   *)
(* for each success, and every collision counted in the end is one of two  *)
(* nodes at least (lines 102-129).                                         *)
(***************************************************************************)
CountsAddUp ==
    /\ \A n \in Node :
        /\ collisionCount[n] = countcollisions[n] + collisionsBeforeSuccess[n]
        /\ successfulTransmissions[n] = Len(timeBeforeSuccess[n])
    /\ 2 * globalCollisionCounter <= SumFunction(collisionCount)
=============================================================================
