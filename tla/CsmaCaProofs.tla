---------------------------- MODULE CsmaCaProofs ----------------------------
(***************************************************************************)
(* Proofs about CsmaCa.  The inductive invariant says what has happened so *)
(* far in a slot: as long as no node that was ready has had its turn, all  *)
(* of them still send; after the first of them nobody does.  The counters  *)
(* are added up with the library's sum over the nodes.                     *)
(***************************************************************************)
EXTENDS CsmaCa, WellFoundedInduction, FiniteSetTheorems, TLAPS

\* A ready node has had its turn in this slot.
FirstGone == \E n \in ready : n < turn

InSlot ==
    phase = "sending" =>
        /\ \A n \in Node : n >= turn /\ Sends(n) => n \in ready
        /\ FirstGone => \A n \in Node : n >= turn => ~Sends(n)
        /\ ~FirstGone => ~channelBusy /\ \A n \in ready : Sends(n)

\* All successes are at least d slots ago.
Past(d) ==
    \A n \in Node : \A i \in DOMAIN timeBeforeSuccess[n] :
        timeBeforeSuccess[n][i] + d <= time

TimesPast ==
    /\ Past(0)
    /\ phase # "sending" => Past(1)
    /\ ~channelBusy => Past(2)
    /\ phase = "busy" => channelBusy
    /\ phase # "arriving" => time < simulationDuration

Timer ==
    IF channelBusy
    THEN transmissionTimer >= 1 /\ transmissionTimer < transmissionTime
    ELSE transmissionTimer = 0

CsmaInv ==
    /\ CsmaTypeOK
    /\ InSlot
    /\ TimesPast
    /\ Timer
    /\ OneAtATime

USE CsmaAssumption

-----------------------------------------------------------------------------

LEMMA ModulusInRange ==
    ASSUME NEW c \in Nat, NEW b \in Nat \ {0}
    PROVE  c % b \in 0 .. b - 1
  OBVIOUS

LEMMA FirstNode == 0 \in Node
  BY DEF Node

\* A shift never gives 0.
LEMMA ShiftNonzero ==
    ASSUME NEW c \in Nat
    PROVE  Shift(c) \in Int \ {0}
<1>1. c % IntBits \in 0 .. IntBits - 1
  BY ModulusInRange
<1>2. 2^(c % IntBits) \in Nat \ {0}
  BY <1>1
<1>3. QED
  BY <1>2 DEF Shift

\* A backoff always lasts for some slots, or for ever.
LEMMA BackoffsNonzero ==
    ASSUME NEW c \in Nat
    PROVE  Backoffs(c) \subseteq Int \ {0}
<1>1. Shift(c) \in Int \ {0} /\ Shift(maxBackoff) \in Int \ {0}
  BY ShiftNonzero
<1>2. QED
  BY <1>1 DEF Backoffs, Drawn

LEMMA TimesAreNumbers ==
    ASSUME CsmaTypeOK
    PROVE  /\ time \in Nat
           /\ \A n \in Node : \A i \in DOMAIN timeBeforeSuccess[n] :
                timeBeforeSuccess[n][i] \in Nat
<1>1. time \in Nat /\ \A n \in Node : timeBeforeSuccess[n] \in Seq(Nat)
  BY DEF CsmaTypeOK
<1>2. QED
  BY <1>1

\* A slot later everything is a slot longer ago.
LEMMA SlotLater ==
    ASSUME CsmaTypeOK, UNCHANGED timeBeforeSuccess, time' = time + 1
    PROVE  /\ Past(0) => Past(0)' /\ Past(1)'
           /\ Past(1) => Past(0)' /\ Past(1)' /\ Past(2)'
           /\ Past(2) => Past(2)'
  BY TimesAreNumbers DEF Past

LEMMA SameSlot ==
    ASSUME UNCHANGED <<timeBeforeSuccess, time>>
    PROVE  Past(0)' = Past(0) /\ Past(1)' = Past(1) /\ Past(2)' = Past(2)
  BY DEF Past

-----------------------------------------------------------------------------

LEMMA InitInv == Init => CsmaInv
<1> SUFFICES ASSUME Init PROVE CsmaInv
  OBVIOUS
<1> USE FirstNode DEF Init
<1>1. CsmaTypeOK
  BY DEF CsmaTypeOK, TransmissionTimes
<1>2. InSlot /\ TimesPast /\ Timer
  BY DEF InSlot, TimesPast, Timer, Past
<1>3. OneAtATime
  BY DEF OneAtATime
<1>4. QED
  BY <1>1, <1>2, <1>3 DEF CsmaInv

LEMMA ArriveInv == CsmaInv /\ Arrive => CsmaInv'
<1> SUFFICES ASSUME CsmaInv, Arrive PROVE CsmaInv'
  OBVIOUS
<1> USE DEF CsmaInv, Arrive, channel
<1>1. CsmaTypeOK'
  BY FirstNode DEF CsmaTypeOK, SlotKind, attemptTransmission
<1>2. \A n \in Node : n < 0 => FALSE
  BY DEF Node
<1>3. InSlot'
  <2> SUFFICES ASSUME phase' = "sending" PROVE InSlot'
    BY DEF InSlot
  <2>1. ~channelBusy'
    BY DEF SlotKind
  <2>2. ready' = {n \in Node : Sends(n)'}
    BY DEF Sends, attemptTransmission
  <2>3. ~FirstGone'
    BY <1>2, <2>2 DEF FirstGone
  <2>4. QED
    BY <2>1, <2>2, <2>3 DEF InSlot
<1>4. TimesPast' /\ Timer'
  BY DEF TimesPast, Timer, SlotKind, Past, CsmaTypeOK
<1>5. OneAtATime'
  BY DEF OneAtATime
<1>6. QED
  BY <1>1, <1>3, <1>4, <1>5

LEMMA BusySlotInv == CsmaInv /\ BusySlot => CsmaInv'
<1> SUFFICES ASSUME CsmaInv, BusySlot PROVE CsmaInv'
  OBVIOUS
<1> USE DEF CsmaInv, BusySlot
<1>0. PICK b \in [Node -> 1 .. backoffChannelBusy] :
        backoffInterval' = [n \in Node |->
            IF channelbusynode # n /\ Sends(n) THEN b[n] ELSE CountedDown(n)]
  OBVIOUS
<1>1. /\ backoffInterval \in [Node -> Int]
      /\ collisionCount' = collisionCount
  BY DEF CsmaTypeOK
<1>2. backoffInterval' \in [Node -> Int]
  BY <1>0, <1>1 DEF CountedDown
<1>3. channelBusy /\ time < simulationDuration /\ Past(1)
  BY DEF TimesPast
<1>4. /\ transmissionTimer \in Nat /\ transmissionTimer >= 1
      /\ transmissionTime \in TransmissionTimes
      /\ transmissionTimer < transmissionTime
  BY <1>3 DEF CsmaTypeOK, Timer
<1>5. /\ transmissionTimer' \in 0 .. maxtransmissionTime
      /\ transmissionTime' \in TransmissionTimes
      /\ Timer'
  <2>1. CASE transmissionTimer + 1 = transmissionTime
    <3>1. transmissionTimer' = 0 /\ ~channelBusy'
      BY <2>1
    <3>2. transmissionTime' \in TransmissionTimes
      BY <2>1
    <3>3. QED
      BY <3>1, <3>2 DEF Timer
  <2>2. CASE transmissionTimer + 1 # transmissionTime
    <3>1. /\ transmissionTimer' = transmissionTimer + 1
          /\ transmissionTime' = transmissionTime
          /\ channelBusy' = channelBusy
      BY <2>2
    <3>2. QED
      BY <1>3, <1>4, <2>2, <3>1 DEF TransmissionTimes, Timer
  <2>3. QED
    BY <2>1, <2>2
<1>6. channelBusy' \in BOOLEAN
  BY <1>3 DEF CsmaTypeOK
<1>7. time' \in 0 .. simulationDuration
  <2>1. time \in 0 .. simulationDuration /\ time' = time + 1
    BY DEF CsmaTypeOK
  <2>2. QED
    BY <1>3, <2>1
<1>8. CsmaTypeOK'
  BY <1>2, <1>5, <1>6, <1>7 DEF CsmaTypeOK
<1>9. InSlot'
  BY DEF InSlot
<1>10. TimesPast'
  BY <1>3, SlotLater DEF TimesPast
<1>11. OneAtATime'
  BY DEF OneAtATime
<1>12. QED
  BY <1>5, <1>8, <1>9, <1>10, <1>11

-----------------------------------------------------------------------------
(* The turn of a node *)

\* After the turn of n the slot goes on with the next node or is over.
LEMMA TurnEnds ==
    ASSUME CsmaTypeOK, TimesPast, NEW n \in Node, Turn(n)
    PROVE  /\ turn' \in Node
           /\ time' \in 0 .. simulationDuration
           /\ phase' \in {"arriving", "sending"}
           /\ ready' = ready
           /\ \/ phase' = "sending" /\ turn' = n + 1 /\ time' = time
              \/ phase' = "arriving" /\ time' = time + 1
<1>1. time \in 0 .. simulationDuration /\ time < simulationDuration
  BY DEF CsmaTypeOK, TimesPast, Turn
<1>2. n \in 0 .. numNodes - 1 /\ phase = "sending" /\ ready' = ready
  BY DEF Node, Turn
<1>3. CASE n + 1 < numNodes
  BY <1>1, <1>2, <1>3 DEF Turn, Node
<1>4. CASE ~(n + 1 < numNodes)
  BY <1>1, <1>2, <1>4, FirstNode DEF Turn
<1>5. QED
  BY <1>3, <1>4

\* While the successes stay, they are as long ago as the phase asks for.
LEMMA TimesStay ==
    ASSUME CsmaTypeOK, TimesPast, NEW n \in Node, Turn(n),
           UNCHANGED timeBeforeSuccess, UNCHANGED channelBusy
    PROVE  TimesPast'
<1>1. Past(0) /\ (~channelBusy => Past(2))
  BY DEF TimesPast
<1>2. phase = "sending" /\ time < simulationDuration
  BY DEF Turn, TimesPast
<1>3. CASE phase' = "sending" /\ time' = time
  BY <1>1, <1>2, <1>3, SameSlot DEF TimesPast
<1>4. CASE phase' = "arriving" /\ time' = time + 1
  BY <1>1, <1>4, SlotLater DEF TimesPast
<1>5. QED
  BY <1>3, <1>4, TurnEnds

LEMMA CollideInv ==
    ASSUME CsmaInv, NEW n \in Node, Collide(n)
    PROVE  CsmaInv'
<1> USE DEF CsmaInv, Collide, channel
<1>0. PICK b \in [InCollision(n) ->
                   UNION {Backoffs(collisionCount[o] + 1) : o \in Node}] :
        /\ \A o \in InCollision(n) : b[o] \in Backoffs(collisionCount[o] + 1)
        /\ backoffInterval' = [o \in Node |->
             IF o \in InCollision(n) THEN b[o] ELSE backoffInterval[o]]
  OBVIOUS
<1>1. InCollision(n) = {o \in Node : Sends(o)}
  BY DEF InCollision, Others
<1>2. \A o \in Node : collisionCount[o] \in Nat /\ backoffInterval[o] \in Int
  BY DEF CsmaTypeOK
<1>3. \A o \in InCollision(n) : b[o] \in Int \ {0}
  BY <1>0, <1>1, <1>2, BackoffsNonzero
<1>4. CsmaTypeOK'
  <2>1. backoffInterval' \in [Node -> Int]
    BY <1>0, <1>2, <1>3
  <2>2. /\ collisionCount \in [Node -> Nat]
        /\ countcollisions \in [Node -> Nat]
        /\ globalCollisionCounter \in Nat
    BY DEF CsmaTypeOK
  <2>3. /\ collisionCount' \in [Node -> Nat]
        /\ countcollisions' \in [Node -> Nat]
        /\ globalCollisionCounter' \in Nat
    BY <2>2
  <2>4. phase' \in {"arriving", "busy", "sending"}
    BY TurnEnds
  <2>5. QED
    BY <2>1, <2>3, <2>4, TurnEnds DEF CsmaTypeOK
<1>5. \A o \in Node : ~Sends(o)'
  BY <1>0, <1>1, <1>3 DEF Sends, attemptTransmission
<1>6. InSlot'
  <2> SUFFICES ASSUME phase' = "sending" PROVE InSlot'
    BY DEF InSlot
  <2>1. n \in ready /\ ready' = ready /\ turn' = n + 1 /\ turn = n
    BY TurnEnds DEF InSlot, Turn, Node
  <2>2. FirstGone'
    BY <2>1 DEF FirstGone, Node
  <2>3. QED
    BY <1>5, <2>2 DEF InSlot
<1>7. TimesPast' /\ Timer' /\ OneAtATime'
  BY TimesStay DEF Timer, OneAtATime
<1>8. QED
  BY <1>4, <1>6, <1>7

\* The only sender was the only one ready.
LEMMA SucceedAlone ==
    ASSUME CsmaInv, NEW n \in Node, Succeed(n)
    PROVE  ready = {n} /\ ~FirstGone
<1> USE DEF CsmaInv, Succeed
<1>1. turn = n /\ phase = "sending"
  BY DEF Turn
<1>2. n \in ready /\ ~FirstGone
  BY <1>1 DEF InSlot, Node
<1>3. \A o \in ready : Sends(o)
  BY <1>1, <1>2 DEF InSlot
<1>4. ready \subseteq Node
  BY DEF CsmaTypeOK
<1>5. QED
  BY <1>2, <1>3, <1>4 DEF Others

LEMMA SucceedInv ==
    ASSUME CsmaInv, NEW n \in Node, Succeed(n)
    PROVE  CsmaInv'
<1> USE DEF CsmaInv, Succeed
<1>1. ready = {n} /\ ~FirstGone /\ turn = n /\ phase = "sending"
  BY SucceedAlone DEF Turn
<1>2. ~channelBusy /\ transmissionTimer = 0 /\ Past(2)
  BY <1>1 DEF InSlot, Timer, TimesPast
<1>3. time \in Nat /\ \A m \in Node : timeBeforeSuccess[m] \in Seq(Nat)
  BY DEF CsmaTypeOK
<1>4. CsmaTypeOK'
  <2>1. istransmitting' \in [Node -> BOOLEAN]
    BY Zenon DEF CsmaTypeOK
  <2>2. /\ collisionsBeforeSuccess' \in [Node -> Nat]
        /\ countcollisions' \in [Node -> Nat]
        /\ successfulTransmissions' \in [Node -> Nat]
    <3>1. /\ collisionsBeforeSuccess \in [Node -> Nat]
          /\ countcollisions \in [Node -> Nat]
          /\ successfulTransmissions \in [Node -> Nat]
      BY DEF CsmaTypeOK
    <3>2. QED
      BY <3>1 DEF CollisionsAfterSuccess
  <2>3. timeBeforeSuccess' \in [Node -> Seq(Nat)]
    <3>1. timeBeforeSuccess \in [Node -> Seq(Nat)]
      BY DEF CsmaTypeOK
    <3>2. Append(timeBeforeSuccess[n], time) \in Seq(Nat)
      BY <1>3
    <3>3. QED
      BY <3>1, <3>2
  <2>4. transmissionTimer' \in 0 .. maxtransmissionTime
    BY <1>2
  <2>5. channelBusy' \in BOOLEAN /\ channelbusynode' \in Node \cup {-1}
    OBVIOUS
  <2>6. /\ backoffInterval' = backoffInterval
        /\ collisionCount' = collisionCount
        /\ globalCollisionCounter' = globalCollisionCounter
        /\ transmissionTime' = transmissionTime
    OBVIOUS
  <2>7. turn' \in Node /\ time' \in 0 .. simulationDuration /\ ready' = ready
    BY TurnEnds
  <2>8. phase' \in {"arriving", "busy", "sending"}
    BY TurnEnds
  <2>9. QED
    BY <2>1, <2>2, <2>3, <2>4, <2>5, <2>6, <2>7, <2>8 DEF CsmaTypeOK
<1>5. InSlot'
  <2> SUFFICES ASSUME phase' = "sending" PROVE InSlot'
    BY DEF InSlot
  <2>1. ready' = {n} /\ turn' = n + 1
    BY <1>1, TurnEnds
  <2>2. FirstGone'
    BY <2>1 DEF FirstGone, Node
  <2>3. \A m \in Node : m >= n + 1 => ~Sends(m)'
    <3>1. \A m \in Node : m >= n + 1 => m # n /\ ~Sends(m)
      BY DEF Others, Node
    <3>2. \A m \in Node : m # n => istransmitting'[m] = istransmitting[m]
      BY Zenon DEF CsmaTypeOK
    <3>3. backoffInterval' = backoffInterval
      OBVIOUS
    <3>4. QED
      BY <3>1, <3>2, <3>3 DEF Sends, attemptTransmission
  <2>4. QED
    BY <2>1, <2>2, <2>3 DEF InSlot
<1>6. \A m \in Node : \A i \in DOMAIN timeBeforeSuccess'[m] :
         \/ /\ i \in DOMAIN timeBeforeSuccess[m]
            /\ timeBeforeSuccess'[m][i] = timeBeforeSuccess[m][i]
         \/ /\ m = n /\ i = Len(timeBeforeSuccess[n]) + 1
            /\ timeBeforeSuccess'[m][i] = time
  <2>1. timeBeforeSuccess \in [Node -> Seq(Nat)]
    BY DEF CsmaTypeOK
  <2> TAKE m \in Node
  <2>2. CASE m # n
    <3>1. timeBeforeSuccess'[m] = timeBeforeSuccess[m]
      BY <2>1, <2>2
    <3>2. QED
      BY <3>1
  <2>3. CASE m = n
    <3>1. timeBeforeSuccess'[m] = Append(timeBeforeSuccess[n], time)
      BY <2>1, <2>3
    <3>2. timeBeforeSuccess[n] \in Seq(Nat)
      BY <1>3
    <3>3. QED
      BY <1>3, <2>3, <3>1, <3>2
  <2>4. QED
    BY <2>2, <2>3
<1>7. \A m \in Node : \A i \in DOMAIN timeBeforeSuccess[m] :
         timeBeforeSuccess[m][i] \in Nat
  BY TimesAreNumbers
<1>8. TimesPast'
  <2>1. \A m \in Node : \A i \in DOMAIN timeBeforeSuccess'[m] :
            /\ timeBeforeSuccess'[m][i] \in Nat
            /\ timeBeforeSuccess'[m][i] <= time
    BY <1>2, <1>3, <1>6, <1>7 DEF Past
  <2>2. time < simulationDuration
    BY <1>1 DEF TimesPast
  <2>3. CASE phase' = "sending" /\ time' = time
    <3>1. Past(0)'
      BY <2>1, <2>3 DEF Past
    <3>2. QED
      BY <2>2, <2>3, <3>1 DEF TimesPast
  <2>4. CASE phase' = "arriving" /\ time' = time + 1
    <3>1. Past(0)' /\ Past(1)'
      BY <1>3, <2>1, <2>4 DEF Past
    <3>2. QED
      BY <2>4, <3>1 DEF TimesPast
  <2>5. QED
    BY <2>3, <2>4, TurnEnds
<1>9. Timer'
  <2>1. transmissionTime \in 2 .. maxtransmissionTime + 1
    BY DEF CsmaTypeOK, TransmissionTimes
  <2>2. QED
    BY <1>2, <2>1 DEF Timer
<1>10. OneAtATime'
  <2> SUFFICES ASSUME NEW l \in Node, NEW m \in Node,
                      NEW i \in DOMAIN timeBeforeSuccess'[l],
                      NEW j \in DOMAIN timeBeforeSuccess'[m],
                      <<l, i>> # <<m, j>>
               PROVE  Apart(timeBeforeSuccess'[l][i], timeBeforeSuccess'[m][j])
    BY DEF OneAtATime, Apart
  <2> USE DEF Apart
  <2>1. CASE /\ i \in DOMAIN timeBeforeSuccess[l]
             /\ timeBeforeSuccess'[l][i] = timeBeforeSuccess[l][i]
    <3>1. CASE /\ j \in DOMAIN timeBeforeSuccess[m]
               /\ timeBeforeSuccess'[m][j] = timeBeforeSuccess[m][j]
      BY <2>1, <3>1 DEF OneAtATime
    <3>2. CASE timeBeforeSuccess'[m][j] = time
      <4>1. /\ timeBeforeSuccess[l][i] \in Nat
            /\ timeBeforeSuccess[l][i] + 2 <= time
        BY <1>2, <1>7, <2>1 DEF Past
      <4>2. time \in Nat
        BY <1>3
      <4>3. timeBeforeSuccess'[l][i] = timeBeforeSuccess[l][i]
        BY <2>1
      <4>4. QED
        BY <3>2, <4>1, <4>2, <4>3
    <3>3. QED
      BY <1>6, <3>1, <3>2
  <2>2. CASE /\ l = n /\ i = Len(timeBeforeSuccess[n]) + 1
             /\ timeBeforeSuccess'[l][i] = time
    <3>1. /\ j \in DOMAIN timeBeforeSuccess[m]
          /\ timeBeforeSuccess'[m][j] = timeBeforeSuccess[m][j]
      BY <1>6, <2>2
    <3>2. /\ timeBeforeSuccess[m][j] \in Nat
          /\ timeBeforeSuccess[m][j] + 2 <= time
      BY <1>2, <1>7, <3>1 DEF Past
    <3>3. QED
      BY <1>3, <2>2, <3>1, <3>2
  <2>3. QED
    BY <1>6, <2>1, <2>2
<1>11. QED
  BY <1>4, <1>5, <1>8, <1>9, <1>10

LEMMA CountDownInv ==
    ASSUME CsmaInv, NEW n \in Node, CountDown(n)
    PROVE  CsmaInv'
<1> USE DEF CsmaInv, CountDown, channel
<1>0. turn = n /\ phase = "sending"
  BY DEF Turn
<1>1. CsmaTypeOK'
  <2>1. backoffInterval \in [Node -> Int]
    BY DEF CsmaTypeOK
  <2>2. backoffInterval' \in [Node -> Int]
    BY <2>1 DEF CountedDown
  <2>3. phase' \in {"arriving", "busy", "sending"}
    BY TurnEnds
  <2>4. QED
    BY <2>2, <2>3, TurnEnds DEF CsmaTypeOK
<1>2. \A o \in Node \ {n} : Sends(o)' <=> Sends(o)
  <2>1. \A o \in Node \ {n} : backoffInterval'[o] = backoffInterval[o]
    BY DEF CsmaTypeOK
  <2>2. QED
    BY <2>1 DEF Sends, attemptTransmission
<1>3. InSlot'
  <2> SUFFICES ASSUME phase' = "sending" PROVE InSlot'
    BY DEF InSlot
  <2>1. turn' = n + 1 /\ ready' = ready /\ ready \subseteq Node
    BY TurnEnds DEF CsmaTypeOK
  <2>2. \A o \in Node : o >= n + 1 => o >= n /\ o # n
    BY DEF Node
  <2>3. CASE FirstGone
    <3>1. FirstGone'
      BY <1>0, <2>1, <2>3 DEF FirstGone, Node
    <3>2. QED
      BY <1>0, <1>2, <2>1, <2>2, <2>3, <3>1 DEF InSlot
  <2>4. CASE ~FirstGone
    <3>1. ~channelBusy /\ \A o \in ready : Sends(o)
      BY <1>0, <2>4 DEF InSlot
    <3>2. n \notin ready
      BY <3>1
    <3>3. ~FirstGone'
      BY <1>0, <2>1, <2>4, <3>2 DEF FirstGone, Node
    <3>4. QED
      BY <1>0, <1>2, <2>1, <2>2, <3>1, <3>2, <3>3 DEF InSlot
  <2>5. QED
    BY <2>3, <2>4
<1>4. TimesPast' /\ Timer' /\ OneAtATime'
  BY TimesStay DEF Timer, OneAtATime
<1>5. QED
  BY <1>1, <1>3, <1>4

LEMMA NextInv == CsmaInv /\ [Next]_vars => CsmaInv'
<1> SUFFICES ASSUME CsmaInv, [Next]_vars PROVE CsmaInv'
  OBVIOUS
<1>1. CASE Arrive
  BY <1>1, ArriveInv
<1>2. CASE BusySlot
  BY <1>2, BusySlotInv
<1>3. ASSUME NEW n \in Node, NodeTurn(n) PROVE CsmaInv'
  BY <1>3, CollideInv, SucceedInv, CountDownInv DEF NodeTurn
<1>4. CASE UNCHANGED vars
  BY <1>4 DEF vars, nodes, channel, slot, CsmaInv, CsmaTypeOK, InSlot,
     FirstGone, Sends, attemptTransmission, TimesPast, Past, Timer,
     OneAtATime
<1>5. QED
  BY <1>1, <1>2, <1>3, <1>4 DEF Next

LEMMA Invariant == Spec => []CsmaInv
  BY InitInv, NextInv, PTL DEF Spec

-----------------------------------------------------------------------------

(***************************************************************************)
(* Whatever is drawn, for every number of nodes: no two transmissions at a *)
(* time.                                                                   *)
(***************************************************************************)
THEOREM OneTransmission == Spec => []OneAtATime
  BY Invariant, PTL DEF CsmaInv

(***************************************************************************)
(* For every number of nodes and whatever is drawn, the first ready node   *)
(* finds the collision of its slot, every ready node is in it, and none    *)
(* sends again before the next slot.                                       *)
(***************************************************************************)
THEOREM CollisionsCorrect == Spec => CollisionTakesAll
<1> DEFINE Hits(m) ==
             /\ turn \in ready
             /\ \A n \in ready : /\ turn <= n
                                 /\ collisionCount'[n] = collisionCount[n] + 1
<1>1. ASSUME CsmaInv, NEW m \in Node, Collide(m)
      PROVE  Hits(m)
  <2>1. turn = m /\ phase = "sending" /\ Sends(m)
    BY <1>1 DEF Collide, Turn
  <2>2. m \in ready /\ ~FirstGone /\ ready \subseteq Node
    <3>1. InSlot /\ ready \subseteq Node
      BY <1>1 DEF CsmaInv, CsmaTypeOK
    <3>2. turn \in Int /\ m >= turn
      BY <2>1 DEF Node
    <3>3. m \in ready /\ (FirstGone => ~Sends(m))
      BY <2>1, <3>1, <3>2 DEF InSlot
    <3>4. QED
      BY <2>1, <3>1, <3>3
  <2>3. \A n \in ready : n >= m /\ n \in InCollision(m)
    BY <1>1, <2>1, <2>2
       DEF CsmaInv, InSlot, FirstGone, InCollision, Others, Node
  <2>4. \A n \in ready : collisionCount'[n] = collisionCount[n] + 1
    BY <1>1, <2>2, <2>3 DEF Collide
  <2>5. QED
    BY <2>1, <2>2, <2>3, <2>4 DEF Node
<1>2. ASSUME CsmaInv, [Next]_vars,
             globalCollisionCounter' # globalCollisionCounter
      PROVE  \E m \in Node : Collide(m)
  BY <1>2 DEF Next, NodeTurn, Arrive, BusySlot, Succeed, CountDown, vars,
              nodes
<1>3. ASSUME CsmaInv, [Next]_vars
      PROVE  [globalCollisionCounter' # globalCollisionCounter =>
                /\ turn \in ready
                /\ \A n \in ready :
                     /\ turn <= n
                     /\ collisionCount'[n] = collisionCount[n] + 1]_vars
  BY <1>1, <1>2, <1>3
<1>4. QED
  BY <1>3, Invariant, PTL DEF Spec, CollisionTakesAll

(***************************************************************************)
(* A node only succeeds when nobody else was ready to send in its slot,    *)
(* in whatever order the loop visits the nodes before it.                  *)
(***************************************************************************)
THEOREM SuccessAlone == Spec => SoleSender
<1>1. ASSUME CsmaInv, [Next]_vars
      PROVE  [\A n \in Node :
                successfulTransmissions'[n] # successfulTransmissions[n]
                    => ready = {n}]_vars
  <2>1. CASE Arrive \/ BusySlot \/ UNCHANGED vars
    BY <2>1 DEF Arrive, BusySlot, vars, nodes
  <2>2. ASSUME NEW m \in Node, NodeTurn(m)
        PROVE  \A n \in Node :
                 successfulTransmissions'[n] # successfulTransmissions[n]
                    => ready = {n}
    <3>1. CASE Collide(m) \/ CountDown(m)
      BY <3>1 DEF Collide, CountDown
    <3>2. CASE Succeed(m)
      <4>1. ready = {m}
        BY <1>1, <3>2, SucceedAlone
      <4>2. successfulTransmissions \in [Node -> Nat]
        BY <1>1 DEF CsmaInv, CsmaTypeOK
      <4>3. QED
        BY <3>2, <4>1, <4>2 DEF Succeed
    <3>3. QED
      BY <2>2, <3>1, <3>2 DEF NodeTurn
  <2>3. QED
    BY <1>1, <2>1, <2>2 DEF Next
<1>2. QED
  BY <1>1, Invariant, PTL DEF Spec, SoleSender

-----------------------------------------------------------------------------
(* Sums over finite sets *)

(***************************************************************************)
(* Induction on the natural numbers, for sets: the library's theorem is    *)
(* about a predicate and has no instance here.                             *)
(***************************************************************************)
LEMMA NatLeast ==
    ASSUME NEW T \in SUBSET Nat, T # {}
    PROVE  \E m \in T : \A x \in T : m <= x
<1> DEFINE R == {p \in Nat \X Nat : p[1] < p[2]}
<1>1. OpToRel(<, Nat) = R
  BY Zenon DEF OpToRel
<1>2. IsWellFoundedOn(R, Nat)
  BY <1>1, NatLessThanWellFounded
<1> HIDE DEF R
<1>3. PICK m \in T : \A x \in T : ~(<<x, m>> \in R)
  BY <1>2, WFMin
<1>4. \A x \in T : m <= x
  <2> SUFFICES ASSUME NEW x \in T PROVE m <= x
    OBVIOUS
  <2>1. x \in Nat /\ m \in Nat
    OBVIOUS
  <2>2. ~(x < m)
    BY <1>3, <2>1 DEF R
  <2>3. QED
    BY <2>1, <2>2
<1>5. QED
  BY <1>4

LEMMA SetInduction ==
    ASSUME NEW T, 0 \in T, \A n \in Nat : n \in T => n + 1 \in T
    PROVE  Nat \subseteq T
<1> SUFFICES ASSUME Nat \ T # {} PROVE FALSE
  OBVIOUS
<1>1. PICK m \in Nat \ T : \A x \in Nat \ T : m <= x
  BY NatLeast
<1>2. m # 0 /\ m - 1 \in Nat
  BY <1>1
<1>3. m - 1 \in T
  BY <1>1, <1>2
<1>4. QED
  BY <1>1, <1>2, <1>3

\* The element a sum takes next.
One(s) == CHOOSE x \in s : TRUE

\* g holds the sums of f over the subsets in U.
Sums(f, U, g) ==
    g = [s \in U |-> IF s = {} THEN 0 ELSE f[One(s)] + g[s \ {One(s)}]]

Upto(S, n) == {s \in SUBSET S : Cardinality(s) <= n}

LEMMA OneLess ==
    ASSUME NEW S, IsFiniteSet(S), NEW s \in SUBSET S, s # {}
    PROVE  /\ One(s) \in s /\ s \ {One(s)} \in SUBSET S
           /\ Cardinality(s) \in Nat
           /\ Cardinality(s \ {One(s)}) = Cardinality(s) - 1
<1>1. One(s) \in s
  BY DEF One
<1>2. IsFiniteSet(s)
  BY FS_Subset
<1>3. QED
  BY <1>1, <1>2, FS_RemoveElement, FS_CardinalityType

\* The recursive function of the library's fold exists.
LEMMA SumsExist ==
    ASSUME NEW S, IsFiniteSet(S), NEW f
    PROVE  \E g : Sums(f, SUBSET S, g)
<1> DEFINE T == {n \in Nat : \E g : Sums(f, Upto(S, n), g)}
<1>1. 0 \in T
  <2>1. \A s \in Upto(S, 0) : s = {}
    <3> SUFFICES ASSUME NEW s \in SUBSET S, Cardinality(s) <= 0, s # {}
                 PROVE  FALSE
      BY DEF Upto
    <3>1. IsFiniteSet(s)
      BY FS_Subset
    <3>2. Cardinality(s) \in Nat /\ Cardinality(s) # 0
      BY <3>1, FS_CardinalityType, FS_EmptySet
    <3>3. QED
      BY <3>2
  <2>2. Sums(f, Upto(S, 0), [s \in Upto(S, 0) |-> 0])
    BY <2>1 DEF Sums
  <2>3. QED
    BY <2>2
<1>2. ASSUME NEW n \in Nat, n \in T PROVE n + 1 \in T
  <2>1. PICK g : Sums(f, Upto(S, n), g)
    BY <1>2
  <2> DEFINE h == [s \in Upto(S, n + 1) |-> IF s = {} THEN 0
                                   ELSE f[One(s)] + g[s \ {One(s)}]]
  <2>2. \A s \in Upto(S, n) : s \in Upto(S, n + 1) /\ h[s] = g[s]
    <3> SUFFICES ASSUME NEW s \in Upto(S, n)
                 PROVE  s \in Upto(S, n + 1) /\ h[s] = g[s]
      OBVIOUS
    <3>1. s \in SUBSET S /\ Cardinality(s) <= n /\ Cardinality(s) \in Nat
      BY FS_Subset, FS_CardinalityType DEF Upto
    <3>2. s \in Upto(S, n + 1)
      BY <3>1 DEF Upto
    <3>3. g[s] = IF s = {} THEN 0 ELSE f[One(s)] + g[s \ {One(s)}]
      BY <2>1 DEF Sums
    <3>4. QED
      BY <3>2, <3>3
  <2>3. ASSUME NEW s \in Upto(S, n + 1), s # {}
        PROVE  s \ {One(s)} \in Upto(S, n)
    <3>1. s \in SUBSET S /\ Cardinality(s) <= n + 1
      BY DEF Upto
    <3>2. QED
      BY <2>3, <3>1, OneLess DEF Upto
  <2>4. ASSUME NEW s \in Upto(S, n + 1)
        PROVE  h[s] = IF s = {} THEN 0 ELSE f[One(s)] + h[s \ {One(s)}]
    BY <2>2, <2>3
  <2>5. h = [s \in Upto(S, n + 1) |-> h[s]]
    OBVIOUS
  <2> HIDE DEF h
  <2>6. Sums(f, Upto(S, n + 1), h)
    BY <2>4, <2>5 DEF Sums
  <2>7. QED
    BY <2>6
<1>3. Cardinality(S) \in T
  <2>1. Cardinality(S) \in Nat
    BY FS_CardinalityType
  <2> HIDE DEF T
  <2>2. QED
    BY <1>1, <1>2, <2>1, SetInduction
<1>4. Upto(S, Cardinality(S)) = SUBSET S
  BY FS_Subset DEF Upto
<1>5. QED
  BY <1>3, <1>4

LEMMA SumOver ==
    ASSUME NEW S, IsFiniteSet(S), NEW f
    PROVE  \E g : /\ g[{}] = 0
                  /\ \A s \in SUBSET S : s # {} =>
                       g[s] = f[One(s)] + g[s \ {One(s)}]
                  /\ SumFunctionOnSet(f, S) = g[S]
<1> DEFINE g == CHOOSE h : Sums(f, SUBSET S, h)
<1>1. SumFunctionOnSet(f, S) = g[S]
  BY DEF SumFunctionOnSet, FoldFunctionOnSet, MapThenFoldSet, Sums, One
<1> HIDE DEF g
<1>2. Sums(f, SUBSET S, g)
  BY SumsExist DEF g
<1>3. \A s \in SUBSET S : g[s] = IF s = {} THEN 0
                                 ELSE f[One(s)] + g[s \ {One(s)}]
  BY <1>2 DEF Sums
<1>4. QED
  BY <1>1, <1>3

\* f is e raised by 1 at the elements of A.
Raised(e, f, A, S) ==
    \A x \in S : f[x] = e[x] + IF x \in A THEN 1 ELSE 0

\* A function raised by 1 in A has a sum larger by the size of A.
LEMMA SumRaised ==
    ASSUME NEW S, IsFiniteSet(S), NEW A \in SUBSET S,
           NEW e \in [S -> Nat], NEW f \in [S -> Nat],
           Raised(e, f, A, S)
    PROVE  /\ SumFunction(e) \in Nat
           /\ SumFunction(f) = SumFunction(e) + Cardinality(A)
<1>1. PICK g : /\ g[{}] = 0
               /\ \A s \in SUBSET S : s # {} =>
                     g[s] = e[One(s)] + g[s \ {One(s)}]
               /\ SumFunctionOnSet(e, S) = g[S]
  BY SumOver
<1>2. PICK h : /\ h[{}] = 0
               /\ \A s \in SUBSET S : s # {} =>
                     h[s] = f[One(s)] + h[s \ {One(s)}]
               /\ SumFunctionOnSet(f, S) = h[S]
  BY SumOver
<1> DEFINE Fine(s) == g[s] \in Nat /\ h[s] = g[s] + Cardinality(s \cap A)
           T == {n \in Nat : \A s \in SUBSET S :
                               Cardinality(s) = n => Fine(s)}
<1>3. 0 \in T
  <2> SUFFICES ASSUME NEW s \in SUBSET S, Cardinality(s) = 0 PROVE Fine(s)
    OBVIOUS
  <2>1. s = {}
    BY FS_Subset, FS_EmptySet
  <2>2. s \cap A = {} /\ Cardinality(s \cap A) = 0
    BY <2>1, FS_EmptySet
  <2>3. QED
    BY <1>1, <1>2, <2>1, <2>2
<1>4. ASSUME NEW n \in Nat, n \in T PROVE n + 1 \in T
  <2> SUFFICES ASSUME NEW s \in SUBSET S, Cardinality(s) = n + 1 PROVE Fine(s)
    OBVIOUS
  <2>1. s # {}
    <3>1. Cardinality({}) = 0 /\ n + 1 # 0
      BY FS_EmptySet
    <3>2. QED
      BY <3>1
  <2>2. PICK x, r : x = One(s) /\ r = s \ {x}
    OBVIOUS
  <2>3. /\ x \in s /\ r \in SUBSET S /\ Cardinality(r) = n
    BY <2>1, <2>2, OneLess
  <2>4. Fine(r)
    BY <1>4, <2>3
  <2>5. g[s] = e[x] + g[r] /\ h[s] = f[x] + h[r]
    BY <1>1, <1>2, <2>1, <2>2
  <2>6. IsFiniteSet(r \cap A)
    BY <2>3, FS_Subset
  <2>7. Cardinality(r \cap A) \in Nat
    BY <2>6, FS_CardinalityType
  <2>8. Cardinality(s \cap A)
          = Cardinality(r \cap A) + IF x \in A THEN 1 ELSE 0
    <3>1. CASE x \in A
      <4>1. s \cap A = (r \cap A) \cup {x} /\ x \notin r \cap A
        BY <2>2, <2>3, <3>1
      <4>2. QED
        BY <2>6, <3>1, <4>1, FS_AddElement
    <3>2. CASE x \notin A
      <4>1. s \cap A = r \cap A
        BY <2>2, <3>2
      <4>2. Cardinality(s \cap A) = Cardinality(r \cap A)
        BY <4>1
      <4>3. QED
        BY <2>7, <3>2, <4>2
    <3>3. QED
      BY <3>1, <3>2
  <2>9. x \in S /\ e[x] \in Nat /\ f[x] = e[x] + IF x \in A THEN 1 ELSE 0
    BY <2>3 DEF Raised
  <2>10. QED
    BY <2>4, <2>5, <2>7, <2>8, <2>9
<1>5. Fine(S)
  <2>1. Cardinality(S) \in Nat
    BY FS_CardinalityType
  <2>2. Nat \subseteq T
    <3> HIDE DEF T
    <3>1. QED
      BY <1>3, <1>4, SetInduction
  <2>3. QED
    BY <2>1, <2>2
<1>6. S \cap A = A
  OBVIOUS
<1>7. SumFunction(e) = g[S] /\ SumFunction(f) = h[S]
  BY <1>1, <1>2 DEF SumFunction
<1>8. QED
  BY <1>5, <1>6, <1>7

LEMMA NodesFinite == IsFiniteSet(Node)
  BY FS_Interval DEF Node

-----------------------------------------------------------------------------
(* The statistics *)

LEMMA CountsInit == Init => CountsAddUp
<1> SUFFICES ASSUME Init PROVE CountsAddUp
  OBVIOUS
<1>1. PICK z : z = collisionCount
  OBVIOUS
<1>2. z \in [Node -> Nat] /\ \A x \in Node : z[x] = z[x] + 0
  BY <1>1 DEF Init
<1>3. SumFunction(z) \in Nat
  <2>1. PICK A, f : A = {} /\ f = z
    OBVIOUS
  <2>2. A \in SUBSET Node
    BY <2>1
  <2>3. /\ z \in [Node -> Nat] /\ f \in [Node -> Nat]
        /\ Raised(z, f, A, Node)
    BY <1>2, <2>1 DEF Raised
  <2>4. /\ SumFunction(z) \in Nat
        /\ SumFunction(f) = SumFunction(z) + Cardinality(A)
    BY <2>2, <2>3, NodesFinite, SumRaised
  <2>5. QED
    BY <2>4
<1>4. QED
  BY <1>1, <1>3 DEF Init, CountsAddUp

LEMMA CountsCollide ==
    ASSUME CsmaTypeOK, CountsAddUp, NEW n \in Node, Collide(n)
    PROVE  CountsAddUp'
<1>1. /\ collisionCount \in [Node -> Nat]
      /\ countcollisions \in [Node -> Nat]
      /\ collisionsBeforeSuccess \in [Node -> Nat]
      /\ globalCollisionCounter \in Nat
  BY DEF CsmaTypeOK
<1>2. /\ collisionCount' = [o \in Node |->
            collisionCount[o] + IF o \in InCollision(n) THEN 1 ELSE 0]
      /\ countcollisions' = [o \in Node |->
            countcollisions[o] + IF o \in InCollision(n) THEN 1 ELSE 0]
      /\ globalCollisionCounter' = globalCollisionCounter + 1
      /\ UNCHANGED <<successfulTransmissions, collisionsBeforeSuccess,
                     timeBeforeSuccess>>
  BY DEF Collide
<1>3. \A o \in Node :
        /\ collisionCount'[o]
              = countcollisions'[o] + collisionsBeforeSuccess'[o]
        /\ successfulTransmissions'[o] = Len(timeBeforeSuccess'[o])
  BY <1>1, <1>2 DEF CountsAddUp
<1>4. PICK A, e, f : /\ A = InCollision(n)
                     /\ e = collisionCount /\ f = collisionCount'
  OBVIOUS
<1>5. A \in SUBSET Node /\ IsFiniteSet(A)
  BY <1>4, NodesFinite, FS_Subset DEF InCollision, Others
<1>6. Cardinality(A) \in Nat /\ Cardinality(A) >= 2
  <2>1. PICK o \in Others(n) : TRUE
    BY DEF Collide
  <2>2. o \in A /\ n \in A /\ o # n
    BY <1>4, <2>1 DEF InCollision, Others
  <2>3. IsFiniteSet(A \ {n})
    BY <1>5, FS_Subset
  <2>4. /\ Cardinality(A \ {n}) = Cardinality(A) - 1
        /\ Cardinality(A \ {n}) \in Nat /\ Cardinality(A) \in Nat
    BY <1>5, <2>2, <2>3, FS_RemoveElement, FS_CardinalityType
  <2>5. Cardinality(A \ {n}) # 0
    BY <2>2, <2>3, FS_EmptySet
  <2>6. QED
    BY <2>4, <2>5
<1>7. /\ e \in [Node -> Nat] /\ f \in [Node -> Nat]
      /\ Raised(e, f, A, Node)
  BY <1>1, <1>2, <1>4 DEF Raised
<1>8. /\ SumFunction(e) \in Nat
      /\ SumFunction(f) = SumFunction(e) + Cardinality(A)
  BY <1>5, <1>7, NodesFinite, SumRaised
<1>9. 2 * globalCollisionCounter <= SumFunction(e)
  BY <1>4 DEF CountsAddUp
<1>10. 2 * globalCollisionCounter' <= SumFunction(f)
  BY <1>1, <1>2, <1>6, <1>8, <1>9
<1>11. SumFunction(collisionCount') = SumFunction(f)
  BY <1>4
<1>12. QED
  BY <1>3, <1>10, <1>11 DEF CountsAddUp

LEMMA CountsSucceed ==
    ASSUME CsmaTypeOK, CountsAddUp, NEW n \in Node, Succeed(n)
    PROVE  CountsAddUp'
<1>1. /\ collisionCount \in [Node -> Nat]
      /\ countcollisions \in [Node -> Nat]
      /\ collisionsBeforeSuccess \in [Node -> Nat]
      /\ successfulTransmissions \in [Node -> Nat]
      /\ timeBeforeSuccess \in [Node -> Seq(Nat)]
  BY DEF CsmaTypeOK
<1>t. time \in Nat
  BY TimesAreNumbers
<1>2. /\ collisionsBeforeSuccess' =
            [collisionsBeforeSuccess EXCEPT ![n] = @ + countcollisions[n]]
      /\ countcollisions' = [countcollisions EXCEPT ![n] = 0]
      /\ timeBeforeSuccess' = [timeBeforeSuccess EXCEPT ![n] = Append(@, time)]
      /\ successfulTransmissions' =
            [successfulTransmissions EXCEPT ![n] = @ + 1]
      /\ UNCHANGED <<collisionCount, globalCollisionCounter>>
  BY DEF Succeed, CollisionsAfterSuccess
<1>3. ASSUME NEW o \in Node
      PROVE  /\ collisionCount'[o]
                   = countcollisions'[o] + collisionsBeforeSuccess'[o]
             /\ successfulTransmissions'[o] = Len(timeBeforeSuccess'[o])
  <2>1. /\ collisionCount[o] = countcollisions[o] + collisionsBeforeSuccess[o]
        /\ successfulTransmissions[o] = Len(timeBeforeSuccess[o])
    BY DEF CountsAddUp
  <2>2. collisionCount'[o] = countcollisions'[o] + collisionsBeforeSuccess'[o]
    BY <1>1, <1>2, <2>1
  <2>3. Len(Append(timeBeforeSuccess[o], time))
          = Len(timeBeforeSuccess[o]) + 1
    BY <1>1, <1>t
  <2>4. successfulTransmissions'[o] = Len(timeBeforeSuccess'[o])
    BY <1>1, <1>2, <2>1, <2>3
  <2>5. QED
    BY <2>2, <2>4
<1>4. 2 * globalCollisionCounter' <= SumFunction(collisionCount')
  BY <1>2 DEF CountsAddUp
<1>5. QED
  BY <1>3, <1>4 DEF CountsAddUp

LEMMA CountsNext == CsmaTypeOK /\ CountsAddUp /\ [Next]_vars => CountsAddUp'
<1> SUFFICES ASSUME CsmaTypeOK, CountsAddUp, [Next]_vars PROVE CountsAddUp'
  OBVIOUS
<1> DEFINE counts == <<collisionCount, countcollisions, globalCollisionCounter,
                       collisionsBeforeSuccess, successfulTransmissions,
                       timeBeforeSuccess>>
<1>1. ASSUME UNCHANGED counts PROVE CountsAddUp'
  BY <1>1 DEF CountsAddUp
<1>2. CASE Arrive \/ BusySlot \/ UNCHANGED vars
  BY <1>1, <1>2 DEF Arrive, BusySlot, vars, nodes
<1>3. ASSUME NEW n \in Node, NodeTurn(n) PROVE CountsAddUp'
  <2>1. CASE CountDown(n)
    BY <1>1, <2>1 DEF CountDown
  <2>2. QED
    BY <1>3, <2>1, CountsCollide, CountsSucceed DEF NodeTurn
<1>4. QED
  BY <1>2, <1>3 DEF Next

(***************************************************************************)
(* The counters printed for the nodes add up to each other at any time,    *)
(* for every number of nodes and whatever is drawn.                        *)
(***************************************************************************)
THEOREM CountsCorrect == Spec => []CountsAddUp
<1>1. CsmaInv => CsmaTypeOK
  BY DEF CsmaInv
<1>2. QED
  BY <1>1, Invariant, CountsInit, CountsNext, PTL DEF Spec
=============================================================================
