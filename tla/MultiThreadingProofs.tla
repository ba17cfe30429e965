------------------------ MODULE MultiThreadingProofs ------------------------
(***************************************************************************)
(* Theorems about the programs in MultiThreading: about Bridge for every   *)
(* number of travellers, and about Ecommerce for every number of services  *)
(* and threads and every list of requests.                                 *)
(***************************************************************************)
EXTENDS Bridge, Ecommerce, SequenceTheorems, WellFoundedInduction,
        FiniteSetTheorems, TLAPS

-----------------------------------------------------------------------------
(* Bridge *)

\* main has joined the traveller k of side d.
Joined(d, k) ==
    \/ main = "returned"
    \/ main = "joining" /\ k < pair
    \/ main = "joining" /\ k = pair /\ d = "north" /\ side = "south"

\* The lock is destroyed by the return, and a traveller joined has exited.
JoinInv ==
    /\ bridge_lock = Destroyed <=> main = "returned"
    /\ \A d \in {"north", "south"}, k \in 0 .. THREADS - 1 :
         Joined(d, k) => traveller[<<d, k>>] = "exited"

\* main has not come to creating the traveller k of side d.
NotCreated(d, k) ==
    /\ main = "creating"
    /\ k > pair \/ (k = pair /\ (d = "south" \/ side = "north"))

CreateInv ==
    \A d \in {"north", "south"}, k \in 0 .. THREADS - 1 :
        NotCreated(d, k) => traveller[<<d, k>>] = "none"

BridgeInv == BridgeTypeOK /\ OneOnBridge /\ CreateInv /\ JoinInv

LEMMA TravellerPairs ==
    \A d \in {"north", "south"}, k \in 0 .. THREADS - 1 :
        <<d, k>> \in Traveller
BY DEF Traveller

LEMMA BridgeStart == BridgeInit => BridgeInv
<1> SUFFICES ASSUME BridgeInit PROVE BridgeInv
  OBVIOUS
<1>1. BridgeTypeOK
  <2>1. refused \in BOOLEAN
    BY Zenon DEF BridgeInit
  <2>2. QED
    BY <2>1, BridgeAssumption DEF BridgeInit, BridgeTypeOK
<1>2. OneOnBridge
  BY BridgeAssumption DEF BridgeInit, OneOnBridge
<1>3. JoinInv
  BY BridgeAssumption DEF BridgeInit, JoinInv, Joined
<1>4. CreateInv
  BY TravellerPairs DEF BridgeInit, CreateInv
<1>5. QED
  BY <1>1, <1>2, <1>3, <1>4 DEF BridgeInv

\* A thread created is a traveller that is not on the bridge yet.
LEMMA CreateStep ==
    ASSUME BridgeInv, CreateNorth \/ CreateSouth
    PROVE  BridgeInv'
<1>1. main = "creating" /\ main' \in {"creating", "joining", "failed"}
  BY DEF CreateNorth, CreateSouth
<1>2. /\ side \in {"north", "south"} /\ bridge_lock' = bridge_lock
      /\ \/ traveller' = traveller
         \/ traveller' = [traveller EXCEPT ![<<side, pair>>] = "ready"]
  BY Zenon DEF CreateNorth, CreateSouth
<1>3. BridgeTypeOK'
  <2>1. refused' \in BOOLEAN
    BY Zenon DEF CreateNorth, CreateSouth
  <2>2. pair' \in {0, pair} \/ (pair + 1 < THREADS /\ pair' = pair + 1)
    BY Zenon DEF CreateNorth, CreateSouth
  <2>3. pair' \in 0 .. THREADS - 1 /\ side' \in {"north", "south"}
    <3>1. pair \in 0 .. THREADS - 1
      BY DEF BridgeInv, BridgeTypeOK
    <3>2. side' \in {"north", "south"}
      BY DEF CreateNorth, CreateSouth
    <3>3. QED
      BY <2>2, <3>1, <3>2, BridgeAssumption
  <2>4. QED
    BY <1>1, <1>2, <2>1, <2>3 DEF BridgeInv, BridgeTypeOK
<1>4. OneOnBridge'
  <2>1. pair \in 0 .. THREADS - 1 /\ <<side, pair>> \in Traveller
    BY <1>2, TravellerPairs DEF BridgeInv, BridgeTypeOK
  <2>2. traveller[<<side, pair>>] = "none"
    BY <1>1, <1>2, <2>1 DEF BridgeInv, CreateInv, NotCreated
  <2>3. QED
    BY <1>2, <2>1, <2>2 DEF BridgeInv, BridgeTypeOK, OneOnBridge
<1>5. JoinInv'
  <2>1. main' = "joining" => pair' = 0 /\ side' = "north"
    BY <1>1 DEF CreateNorth, CreateSouth
  <2>2. \A d1 \in {"north", "south"}, k \in 0 .. THREADS - 1 : ~Joined(d1, k)'
    BY <1>1, <2>1 DEF Joined
  <2>3. QED
    BY <1>1, <1>2, <2>2 DEF BridgeInv, JoinInv
<1>6. CreateInv'
  <2>1. pair \in 0 .. THREADS - 1
    BY DEF BridgeInv, BridgeTypeOK
  <2>2. ASSUME NEW d \in {"north", "south"}, NEW k \in 0 .. THREADS - 1,
               NotCreated(d, k)'
        PROVE  NotCreated(d, k) /\ <<d, k>> # <<side, pair>>
    <3>1. CASE CreateNorth
      BY <1>1, <2>1, <2>2, <3>1 DEF CreateNorth, NotCreated
    <3>2. CASE CreateSouth
      BY <1>1, <2>1, <2>2, <3>2 DEF CreateSouth, NotCreated
    <3>3. QED
      BY <3>1, <3>2
  <2>3. ASSUME NEW d \in {"north", "south"}, NEW k \in 0 .. THREADS - 1,
               NotCreated(d, k)'
        PROVE  traveller'[<<d, k>>] = "none"
    <3>1. traveller[<<d, k>>] = "none"
      BY <2>2, <2>3 DEF BridgeInv, CreateInv
    <3>2. <<d, k>> # <<side, pair>>
      BY <2>2, <2>3
    <3>3. PICK t \in Traveller : t = <<d, k>>
      BY TravellerPairs
    <3>4. traveller'[t] = traveller[t]
      BY <1>2, <3>2, <3>3 DEF BridgeInv, BridgeTypeOK
    <3>5. QED
      BY <3>1, <3>3, <3>4
  <2>4. QED
    BY <2>3 DEF CreateInv
<1>7. QED
  BY <1>3, <1>4, <1>5, <1>6 DEF BridgeInv

LEMMA JoinStep ==
    ASSUME BridgeInv, JoinNorth \/ JoinSouth
    PROVE  BridgeInv'
<1>1. /\ main = "joining" /\ traveller' = traveller /\ refused' = refused
      /\ traveller[<<side, pair>>] = "exited"
  BY DEF JoinNorth, JoinSouth
<1>2. /\ \/ main' = "joining" /\ bridge_lock' = bridge_lock
         \/ main' = "returned" /\ bridge_lock' = Destroyed
      /\ pair' \in 0 .. THREADS - 1 /\ side' \in {"north", "south"}
  <2>1. pair \in 0 .. THREADS - 1
    BY DEF BridgeInv, BridgeTypeOK
  <2>2. QED
    BY <2>1, BridgeAssumption DEF JoinNorth, JoinSouth
<1>3. BridgeTypeOK'
  BY <1>1, <1>2 DEF BridgeInv, BridgeTypeOK
<1>4. JoinInv'
  <2>1. bridge_lock' = Destroyed <=> main' = "returned"
    BY <1>1, <1>2 DEF BridgeInv, JoinInv
  <2>2. ASSUME NEW d \in {"north", "south"}, NEW k \in 0 .. THREADS - 1,
               Joined(d, k)'
        PROVE  Joined(d, k) \/ (d = side /\ k = pair)
    <3>1. pair \in 0 .. THREADS - 1
      BY DEF BridgeInv, BridgeTypeOK
    <3>2. QED
      BY <1>1, <2>2, <3>1, BridgeAssumption DEF JoinNorth, JoinSouth, Joined
  <2>3. QED
    BY <1>1, <2>1, <2>2 DEF BridgeInv, JoinInv
<1>5. OneOnBridge'
  <2>1. CASE bridge_lock' = bridge_lock
    BY <1>1, <2>1 DEF BridgeInv, OneOnBridge
  <2>2. CASE main' = "returned" /\ bridge_lock' = Destroyed
    <3>1. \A t \in Traveller : traveller'[t] = "exited"
      BY <1>4, <2>2 DEF JoinInv, Joined, Traveller
    <3>2. QED
      BY <2>2, <3>1, BridgeAssumption DEF OneOnBridge
  <2>3. QED
    BY <1>2, <2>1, <2>2
<1>6. CreateInv'
  BY <1>2 DEF CreateInv, NotCreated
<1>7. QED
  BY <1>3, <1>4, <1>5, <1>6 DEF BridgeInv

LEMMA TravelStep ==
    ASSUME BridgeInv, NEW t \in Traveller, Travel(t)
    PROVE  BridgeInv'
<1>1. /\ main' = main /\ side' = side /\ pair' = pair /\ refused' = refused
      /\ main # "returned" /\ bridge_lock' \in {NULL, t}
  BY DEF Travel, Enter, Leave, Alive
<1>2. BridgeTypeOK'
  BY <1>1 DEF BridgeInv, BridgeTypeOK, Travel, Enter, Leave
<1>3. OneOnBridge'
  BY BridgeAssumption
     DEF BridgeInv, BridgeTypeOK, OneOnBridge, Travel, Enter, Leave
<1>4. JoinInv'
  <2>1. \A u \in Traveller :
          traveller[u] = "exited" => traveller'[u] = "exited"
    BY DEF BridgeInv, BridgeTypeOK, Travel, Enter, Leave
  <2>2. bridge_lock' # Destroyed
    BY <1>1, BridgeAssumption
  <2>3. \A d, k : Joined(d, k)' <=> Joined(d, k)
    BY <1>1 DEF Joined
  <2>4. QED
    BY <1>1, <2>1, <2>2, <2>3, TravellerPairs DEF BridgeInv, JoinInv
<1>5. CreateInv'
  <2>1. \A u \in Traveller : traveller[u] = "none" => traveller'[u] = "none"
    BY DEF BridgeInv, BridgeTypeOK, Travel, Enter, Leave
  <2>2. \A d, k : NotCreated(d, k)' <=> NotCreated(d, k)
    BY <1>1 DEF NotCreated
  <2>3. QED
    BY <2>1, <2>2, TravellerPairs DEF BridgeInv, CreateInv
<1>6. QED
  BY <1>2, <1>3, <1>4, <1>5 DEF BridgeInv

LEMMA BridgeStep == BridgeInv /\ [BridgeNext]_bridgeVars => BridgeInv'
<1> SUFFICES ASSUME BridgeInv, [BridgeNext]_bridgeVars PROVE BridgeInv'
  OBVIOUS
<1>1. CASE BridgeNext
  BY <1>1, CreateStep, JoinStep, TravelStep DEF BridgeNext, Main
<1>2. CASE UNCHANGED bridgeVars
  BY <1>2 DEF bridgeVars, BridgeInv, BridgeTypeOK, OneOnBridge, CreateInv,
              NotCreated, JoinInv, Joined
<1>3. QED
  BY <1>1, <1>2

LEMMA BridgeAlways == BridgeSpec => []BridgeInv
BY BridgeStart, BridgeStep, PTL DEF BridgeSpec

(***************************************************************************)
(* However many travellers there are and in whatever order the mutex is    *)
(* granted, only its holder is on the bridge (lines 18-24, 34-40).         *)
(***************************************************************************)
THEOREM BridgeExclusive == BridgeSpec => []OneOnBridge
BY BridgeAlways, PTL DEF BridgeInv

(***************************************************************************)
(* The loop of lines 68-78 has joined every thread when the mutex is       *)
(* destroyed: nobody is waiting for it or holds it.                        *)
(***************************************************************************)
THEOREM DestroyedSafely == BridgeSpec => []DestroyedWhenUnused
<1>1. BridgeInv => DestroyedWhenUnused
  BY DEF BridgeInv, JoinInv, Joined, DestroyedWhenUnused, Traveller
<1>2. QED
  BY <1>1, BridgeAlways, PTL

-----------------------------------------------------------------------------
(* E-Commerce: what holds between the loops over the requests *)

EcommerceTypeOK ==
    /\ resources_available \in [Service -> [Thread -> Resource]]
    /\ req_arr \in [Service -> RequestLists]
    /\ phase \in {"service", "round", "requests", "done"}
    /\ i \in 0 .. n
    /\ temp_queue \in Seq(Nat \X Resource)
    /\ time_stamp \in Nat /\ iter_size \in Nat /\ l \in Nat
    /\ worker_resources \in [Thread -> Int]
    /\ executed \subseteq [service : Service, request : Nat,
                           thread : Thread, time : Nat]
    /\ IsFiniteSet(executed)

\* How many requests of service i have left the queue.
Taken == Len(req_arr[i]) - Len(temp_queue)

\* The queue is the rest of the list, and no round takes from an empty one.
QueueIsRest ==
    /\ phase \in {"service", "done"} => temp_queue = <<>>
    /\ phase \in {"round", "requests"} => i >= 1
    /\ i >= 1 =>
        /\ Len(temp_queue) <= Len(req_arr[i])
        /\ \A j \in 1 .. Len(temp_queue) :
             temp_queue[j] = <<Taken + j, req_arr[i][Taken + j]>>
    /\ phase = "requests" =>
        /\ l \in 1 .. iter_size + 1
        /\ iter_size <= Len(req_arr[i])
        /\ iter_size + 1 - l <= Len(temp_queue)
        /\ \A k \in Thread : worker_resources[k] <= resources_available[i][k]

\* What has been executed, and when.
ExecutionsFit ==
    \A e \in executed :
        /\ e.request \in Handled(e.service)
        /\ req_arr[e.service][e.request]
               <= resources_available[e.service][e.thread]
        /\ e.service = i => e.time <= time_stamp

NoneForgotten ==
    \A s \in Service : \A r \in Handled(s) :
        \/ TooBig(s, r)
        \/ \E e \in executed : e.service = s /\ e.request = r

InOrder ==
    \A e, f \in executed : e.service = f.service =>
        /\ e.request = f.request => e = f
        /\ e.request < f.request => e.time <= f.time

Rejects == {w \in Service \X (1 .. MaxRequests) :
                w[2] \in Handled(w[1]) /\ TooBig(w[1], w[2])}

Evidence ==
    /\ ExecutionsFit
    /\ NoneForgotten
    /\ InOrder
    /\ rejected = Cardinality(Rejects)

\* No thread has room for the request at the front, which is not too big.
Stuck == temp_queue # <<>> /\ ~Abnormal /\ \A k \in Thread : ~Fits(k)

\* In the first round l counts the requests, until one has to wait.
FirstRound ==
    /\ phase = "round" /\ time_stamp = 0 => Taken = 0
    /\ phase = "requests" /\ time_stamp = 0 =>
        \/ Stuck
        \/ /\ l = Taken + 1
           /\ \A k \in Thread :
                worker_resources[k]
                    = resources_available[i][k] - Load(i, k, 0)

EcommerceInv ==
    /\ EcommerceTypeOK
    /\ QueueIsRest
    /\ Evidence
    /\ FirstRound
    /\ FirstRoundFits

USE EcommerceAssumption

-----------------------------------------------------------------------------
(* Sums *)

LEMMA NatLeast ==
    ASSUME NEW T \in SUBSET Nat, T # {}
    PROVE  \E least \in T : \A x \in T : least <= x
<1> DEFINE R == {p \in Nat \X Nat : p[1] < p[2]}
<1>1. OpToRel(<, Nat) = R
  BY Zenon DEF OpToRel
<1>2. IsWellFoundedOn(R, Nat)
  BY <1>1, NatLessThanWellFounded
<1> HIDE DEF R
<1>3. PICK least \in T : \A x \in T : ~(<<x, least>> \in R)
  BY <1>2, WFMin
<1>4. \A x \in T : least <= x
  <2> SUFFICES ASSUME NEW x \in T PROVE least <= x
    OBVIOUS
  <2>1. x \in Nat /\ least \in Nat
    OBVIOUS
  <2>2. ~(x < least)
    BY <1>3, <2>1 DEF R
  <2>3. QED
    BY <2>1, <2>2
<1>5. QED
  BY <1>4

LEMMA SetInduction ==
    ASSUME NEW T, 0 \in T, \A c \in Nat : c \in T => c + 1 \in T
    PROVE  Nat \subseteq T
<1> SUFFICES ASSUME Nat \ T # {} PROVE FALSE
  OBVIOUS
<1>1. PICK least \in Nat \ T : \A x \in Nat \ T : least <= x
  BY NatLeast
<1>2. least # 0 /\ least - 1 \in Nat
  BY <1>1
<1>3. least - 1 \in T
  BY <1>1, <1>2
<1>4. QED
  BY <1>1, <1>2, <1>3

\* The element a sum takes next.
One(s) == CHOOSE x \in s : TRUE

\* g holds the sums of f over the subsets in U.
Sums(f, U, g) ==
    g = [s \in U |-> IF s = {} THEN 0 ELSE f[One(s)] + g[s \ {One(s)}]]

Upto(S, c) == {s \in SUBSET S : Cardinality(s) <= c}

LEMMA OneLess ==
    ASSUME NEW S, IsFiniteSet(S), NEW s \in SUBSET S, s # {}
    PROVE  /\ One(s) \in s /\ s \ {One(s)} \in SUBSET S
           /\ Cardinality(s) \in Nat
           /\ Cardinality(s \ {One(s)}) = Cardinality(s) - 1
<1>1. One(s) \in s
  BY DEF One
<1>2. IsFiniteSet(s)
  BY FS_Subset
<1>3. QED
  BY <1>1, <1>2, FS_RemoveElement, FS_CardinalityType

\* The recursive function of the library's fold exists.
LEMMA SumsExist ==
    ASSUME NEW S, IsFiniteSet(S), NEW f
    PROVE  \E g : Sums(f, SUBSET S, g)
<1> DEFINE T == {c \in Nat : \E g : Sums(f, Upto(S, c), g)}
<1>1. 0 \in T
  <2>1. \A s \in Upto(S, 0) : s = {}
    <3> SUFFICES ASSUME NEW s \in SUBSET S, Cardinality(s) <= 0, s # {}
                 PROVE  FALSE
      BY DEF Upto
    <3>1. IsFiniteSet(s)
      BY FS_Subset
    <3>2. Cardinality(s) \in Nat /\ Cardinality(s) # 0
      BY <3>1, FS_CardinalityType, FS_EmptySet
    <3>3. QED
      BY <3>2
  <2>2. Sums(f, Upto(S, 0), [s \in Upto(S, 0) |-> 0])
    BY <2>1 DEF Sums
  <2>3. QED
    BY <2>2
<1>2. ASSUME NEW c \in Nat, c \in T PROVE c + 1 \in T
  <2>1. PICK g : Sums(f, Upto(S, c), g)
    BY <1>2
  <2> DEFINE h == [s \in Upto(S, c + 1) |-> IF s = {} THEN 0
                                   ELSE f[One(s)] + g[s \ {One(s)}]]
  <2>2. \A s \in Upto(S, c) : s \in Upto(S, c + 1) /\ h[s] = g[s]
    <3> SUFFICES ASSUME NEW s \in Upto(S, c)
                 PROVE  s \in Upto(S, c + 1) /\ h[s] = g[s]
      OBVIOUS
    <3>1. s \in SUBSET S /\ Cardinality(s) <= c /\ Cardinality(s) \in Nat
      BY FS_Subset, FS_CardinalityType DEF Upto
    <3>2. s \in Upto(S, c + 1)
      BY <3>1 DEF Upto
    <3>3. g[s] = IF s = {} THEN 0 ELSE f[One(s)] + g[s \ {One(s)}]
      BY <2>1 DEF Sums
    <3>4. QED
      BY <3>2, <3>3
  <2>3. ASSUME NEW s \in Upto(S, c + 1), s # {}
        PROVE  s \ {One(s)} \in Upto(S, c)
    <3>1. s \in SUBSET S /\ Cardinality(s) <= c + 1
      BY DEF Upto
    <3>2. QED
      BY <2>3, <3>1, OneLess DEF Upto
  <2>4. ASSUME NEW s \in Upto(S, c + 1)
        PROVE  h[s] = IF s = {} THEN 0 ELSE f[One(s)] + h[s \ {One(s)}]
    BY <2>2, <2>3
  <2>5. h = [s \in Upto(S, c + 1) |-> h[s]]
    OBVIOUS
  <2> HIDE DEF h
  <2>6. Sums(f, Upto(S, c + 1), h)
    BY <2>4, <2>5 DEF Sums
  <2>7. QED
    BY <2>6
<1>3. Cardinality(S) \in T
  <2>1. Cardinality(S) \in Nat
    BY FS_CardinalityType
  <2> HIDE DEF T
  <2>2. QED
    BY <1>1, <1>2, <2>1, SetInduction
<1>4. Upto(S, Cardinality(S)) = SUBSET S
  BY FS_Subset DEF Upto
<1>5. QED
  BY <1>3, <1>4

LEMMA SumOver ==
    ASSUME NEW S, IsFiniteSet(S), NEW f
    PROVE  \E g : /\ g[{}] = 0
                  /\ \A s \in SUBSET S : s # {} =>
                       g[s] = f[One(s)] + g[s \ {One(s)}]
                  /\ SumFunctionOnSet(f, S) = g[S]
<1> DEFINE g == CHOOSE h : Sums(f, SUBSET S, h)
<1>1. SumFunctionOnSet(f, S) = g[S]
  BY DEF SumFunctionOnSet, FoldFunctionOnSet, MapThenFoldSet, Sums, One
<1> HIDE DEF g
<1>2. Sums(f, SUBSET S, g)
  BY SumsExist DEF g
<1>3. \A s \in SUBSET S : g[s] = IF s = {} THEN 0
                                 ELSE f[One(s)] + g[s \ {One(s)}]
  BY <1>2 DEF Sums
<1>4. QED
  BY <1>1, <1>3

\* f is e with an element x added.
Extended(e, f, x, S) ==
    /\ x \notin S
    /\ e \in [S -> Int] /\ f \in [S \cup {x} -> Int]
    /\ \A y \in S : f[y] = e[y]

\* A sum does not depend on the order in which its elements are taken.
LEMMA SumAdded ==
    ASSUME NEW S, IsFiniteSet(S), NEW x, NEW e, NEW f, Extended(e, f, x, S)
    PROVE  /\ SumFunction(e) \in Int
           /\ SumFunction(f) = SumFunction(e) + f[x]
<1> DEFINE U == S \cup {x}
<1>u. IsFiniteSet(U)
  BY FS_AddElement
<1>1. PICK g : /\ g[{}] = 0
               /\ \A s \in SUBSET S : s # {} =>
                     g[s] = e[One(s)] + g[s \ {One(s)}]
               /\ SumFunctionOnSet(e, S) = g[S]
  BY SumOver
<1>2. PICK h : /\ h[{}] = 0
               /\ \A s \in SUBSET U : s # {} =>
                     h[s] = f[One(s)] + h[s \ {One(s)}]
               /\ SumFunctionOnSet(f, U) = h[U]
  BY <1>u, SumOver
<1> HIDE DEF U
<1>3. /\ \A y \in U : f[y] \in Int
      /\ \A y \in S : y \in U /\ f[y] = e[y]
      /\ x \in U /\ x \notin S
  BY DEF Extended, U
<1> DEFINE Fine(s) == /\ h[s] \in Int
                      /\ \A y \in s : /\ h[s \ {y}] \in Int
                                      /\ h[s] = f[y] + h[s \ {y}]
                      /\ s \in SUBSET S => h[s] = g[s]
           T == {c \in Nat : \A s \in SUBSET U :
                               Cardinality(s) = c => Fine(s)}
<1>4. 0 \in T
  <2> SUFFICES ASSUME NEW s \in SUBSET U, Cardinality(s) = 0 PROVE Fine(s)
    OBVIOUS
  <2>1. s = {}
    BY <1>u, FS_Subset, FS_EmptySet
  <2>2. QED
    BY <1>1, <1>2, <2>1
<1>5. ASSUME NEW c \in Nat, c \in T PROVE c + 1 \in T
  <2> SUFFICES ASSUME NEW s \in SUBSET U, Cardinality(s) = c + 1 PROVE Fine(s)
    OBVIOUS
  <2>1. s # {}
    <3>1. Cardinality({}) = 0 /\ c + 1 # 0
      BY FS_EmptySet
    <3>2. QED
      BY <3>1
  <2>2. ASSUME NEW z \in s
        PROVE  s \ {z} \in SUBSET U /\ Cardinality(s \ {z}) = c
    <3>1. IsFiniteSet(s)
      BY <1>u, FS_Subset
    <3>2. Cardinality(s \ {z}) = Cardinality(s) - 1
      BY <3>1, FS_RemoveElement
    <3>3. QED
      BY <3>2
  <2>3. ASSUME NEW z \in s PROVE Fine(s \ {z})
    BY <1>5, <2>2, <2>3
  <2>4. PICK o, r : o = One(s) /\ r = s \ {o}
    OBVIOUS
  <2>5. o \in s /\ r \in SUBSET U /\ f[o] \in Int
    BY <1>3, <2>1, <2>4 DEF One
  <2>6. h[s] = f[o] + h[r] /\ Fine(r)
    BY <1>2, <2>1, <2>3, <2>4, <2>5
  <2>7. h[s] \in Int
    BY <2>5, <2>6
  <2>8. ASSUME NEW y \in s
        PROVE  h[s \ {y}] \in Int /\ h[s] = f[y] + h[s \ {y}]
    <3>1. CASE y = o
      BY <2>3, <2>4, <2>6, <3>1
    <3>2. CASE y # o
      <4>1. PICK both : both = s \ {o, y}
        OBVIOUS
      <4>2. y \in r /\ both = r \ {y}
        BY <2>4, <3>2, <4>1
      <4>3. o \in s \ {y} /\ both = (s \ {y}) \ {o}
        BY <2>5, <3>2, <4>1
      <4>4. h[r] = f[y] + h[both]
        BY <2>6, <4>2
      <4>5. h[s \ {y}] = f[o] + h[both]
        BY <2>3, <4>3
      <4>6. h[both] \in Int /\ f[y] \in Int
        BY <1>3, <2>6, <4>2
      <4>7. QED
        BY <2>3, <2>5, <2>6, <4>4, <4>5, <4>6
    <3>3. QED
      BY <3>1, <3>2
  <2>9. s \in SUBSET S => h[s] = g[s]
    <3> SUFFICES ASSUME s \in SUBSET S PROVE h[s] = g[s]
      OBVIOUS
    <3>1. r \in SUBSET S /\ h[r] = g[r] /\ f[o] = e[o]
      BY <1>3, <2>4, <2>5, <2>6
    <3>2. g[s] = e[o] + g[r]
      BY <1>1, <2>1, <2>4
    <3>3. QED
      BY <2>6, <3>1, <3>2
  <2>10. QED
    BY <2>7, <2>8, <2>9
<1>6. Fine(S) /\ Fine(U)
  <2>1. Nat \subseteq T
    <3> HIDE DEF T
    <3>1. QED
      BY <1>4, <1>5, SetInduction
  <2>2. S \in SUBSET U /\ Cardinality(S) \in Nat /\ Cardinality(U) \in Nat
    BY <1>u, FS_CardinalityType DEF U
  <2>3. QED
    BY <2>1, <2>2
<1>7. U \ {x} = S
  BY <1>3 DEF U
<1>8. SumFunction(e) = g[S] /\ SumFunction(f) = h[U]
  <2>1. DOMAIN e = S /\ DOMAIN f = U
    BY DEF Extended, U
  <2>2. QED
    BY <1>1, <1>2, <2>1 DEF SumFunction
<1>9. h[U] = f[x] + h[S] /\ h[S] = g[S] /\ h[S] \in Int
  <2>1. h[U] = f[x] + h[U \ {x}]
    BY <1>3, <1>6
  <2>2. QED
    BY <1>6, <1>7, <2>1
<1>10. f[x] \in Int
  BY <1>3
<1> HIDE DEF Fine, T
<1>11. QED
  BY <1>8, <1>9, <1>10

LEMMA SumOfNone ==
    ASSUME NEW f, DOMAIN f = {}
    PROVE  SumFunction(f) = 0
<1>1. IsFiniteSet({})
  BY FS_EmptySet
<1>2. PICK g : g[{}] = 0 /\ SumFunctionOnSet(f, {}) = g[{}]
  BY <1>1, SumOver
<1>3. QED
  BY <1>2 DEF SumFunction

-----------------------------------------------------------------------------
(* Lists and queues *)

LEMMA RequestsOf ==
    ASSUME EcommerceTypeOK, NEW s \in Service
    PROVE  /\ req_arr[s] \in Seq(Resource)
           /\ DOMAIN req_arr[s] = 1 .. Len(req_arr[s])
           /\ Len(req_arr[s]) \in 0 .. MaxRequests
           /\ \A r \in 1 .. Len(req_arr[s]) : req_arr[s][r] \in Nat
<1>1. req_arr[s] \in RequestLists
  BY DEF EcommerceTypeOK
<1>2. PICK k \in 0 .. MaxRequests : req_arr[s] \in [1 .. k -> Resource]
  BY <1>1 DEF RequestLists
<1>3. k \in Nat /\ DOMAIN req_arr[s] = 1 .. k
  BY <1>2
<1>4. req_arr[s] \in Seq(Resource)
  BY <1>2, <1>3
<1>5. Len(req_arr[s]) = k
  BY <1>3, <1>4
<1>6. \A r \in 1 .. k : req_arr[s][r] \in Nat
  BY <1>2
<1>7. QED
  BY <1>3, <1>4, <1>5, <1>6

LEMMA ResourceNumbers ==
    ASSUME EcommerceTypeOK, NEW s \in Service, NEW k \in Thread
    PROVE  resources_available[s][k] \in Nat /\ worker_resources[k] \in Int
<1>1. resources_available[s] \in [Thread -> Resource]
  BY DEF EcommerceTypeOK
<1>2. resources_available[s][k] \in Resource
  BY <1>1
<1>3. QED
  BY <1>2 DEF EcommerceTypeOK

LEMMA QueueLength ==
    ASSUME EcommerceTypeOK
    PROVE  Len(temp_queue) \in Nat
  BY DEF EcommerceTypeOK

LEMMA ServiceNumbers == \A s \in Service : s \in Int /\ s >= 1 /\ s <= n
  BY DEF Service

LEMMA CurrentService ==
    ASSUME EcommerceTypeOK, i >= 1
    PROVE  i \in Service
  BY DEF EcommerceTypeOK, Service

\* The requests handled are a prefix of the list.
LEMMA HandledRange ==
    ASSUME EcommerceTypeOK, NEW s \in Service
    PROVE  /\ s < i => Handled(s) = 1 .. Len(req_arr[s])
           /\ s > i => Handled(s) = {}
           /\ s = i => Handled(s) = 1 .. Taken
           /\ Handled(s) \in SUBSET DOMAIN req_arr[s]
<1>1. /\ i \in Int /\ s \in Int
      /\ DOMAIN req_arr[s] = 1 .. Len(req_arr[s])
      /\ Len(req_arr[s]) \in Nat /\ Len(temp_queue) \in Nat
  BY RequestsOf, QueueLength, ServiceNumbers DEF EcommerceTypeOK
<1>2. s < i => Handled(s) = 1 .. Len(req_arr[s])
  BY <1>1 DEF Handled
<1>3. s > i => Handled(s) = {}
  BY <1>1 DEF Handled
<1>4. s = i => Handled(s) = 1 .. Taken
  BY <1>1 DEF Handled, Taken
<1>5. s = i => Taken <= Len(req_arr[s]) /\ Taken \in Int
  BY <1>1 DEF Taken
<1>6. QED
  BY <1>1, <1>2, <1>3, <1>4, <1>5

\* The request at the front of the queue is the next of the list.
LEMMA Front ==
    ASSUME EcommerceTypeOK, QueueIsRest, phase = "requests", l <= iter_size
    PROVE  /\ i \in Service
           /\ Len(temp_queue) >= 1 /\ Len(temp_queue) <= Len(req_arr[i])
           /\ Taken \in Nat /\ Taken + 1 \in DOMAIN req_arr[i]
           /\ temp_queue[1] = <<Taken + 1, req_arr[i][Taken + 1]>>
           /\ curr_res = req_arr[i][Taken + 1]
           /\ l \in DOMAIN req_arr[i]
<1>1. i >= 1 /\ l \in 1 .. iter_size + 1 /\ iter_size <= Len(req_arr[i])
      /\ iter_size + 1 - l <= Len(temp_queue)
  BY DEF QueueIsRest
<1>2. i \in Service
  BY <1>1, CurrentService
<1>3. /\ Len(temp_queue) \in Nat /\ Len(req_arr[i]) \in Nat
      /\ DOMAIN req_arr[i] = 1 .. Len(req_arr[i])
      /\ l \in Nat /\ iter_size \in Nat
  BY <1>2, QueueLength, RequestsOf DEF EcommerceTypeOK
<1>4. Len(temp_queue) >= 1 /\ l \in 1 .. Len(req_arr[i])
  BY <1>1, <1>3
<1>5. /\ Len(temp_queue) <= Len(req_arr[i])
      /\ \A j \in 1 .. Len(temp_queue) :
           temp_queue[j] = <<Taken + j, req_arr[i][Taken + j]>>
  BY <1>1 DEF QueueIsRest
<1>6. Taken \in Nat /\ Taken + 1 \in 1 .. Len(req_arr[i])
  BY <1>3, <1>4, <1>5 DEF Taken
<1>7. temp_queue[1] = <<Taken + 1, req_arr[i][Taken + 1]>>
  BY <1>3, <1>4, <1>5
<1>8. QED
  BY <1>2, <1>3, <1>4, <1>5, <1>6, <1>7 DEF curr_res

\* One more request is taken from the queue.
LEMMA QueueTail ==
    ASSUME EcommerceTypeOK, QueueIsRest, phase = "requests", l <= iter_size,
           temp_queue' = Tail(temp_queue), UNCHANGED <<input, i>>
    PROVE  /\ temp_queue' \in Seq(Nat \X Resource)
           /\ Len(temp_queue') = Len(temp_queue) - 1
           /\ Taken' = Taken + 1
           /\ \A j \in 1 .. Len(temp_queue') :
                temp_queue'[j]
                  = <<Taken' + j, req_arr'[i'][Taken' + j]>>
<1>1. PICK q : q = temp_queue
  OBVIOUS
<1>2. q \in Seq(Nat \X Resource) /\ Len(q) >= 1 /\ Len(q) \in Nat
  BY <1>1, Front, QueueLength DEF EcommerceTypeOK
<1>3. q # <<>>
  BY <1>2
<1>4. /\ Tail(q) \in Seq(Nat \X Resource)
      /\ Len(Tail(q)) = Len(q) - 1
      /\ \A j \in 1 .. Len(q) - 1 : Tail(q)[j] = q[j + 1]
  BY <1>2, <1>3
<1>5. i \in Service /\ Len(req_arr[i]) \in Nat /\ i' = i /\ req_arr' = req_arr
  BY Front, RequestsOf DEF input
<1>6. Taken' = Taken + 1 /\ Taken \in Nat
  BY <1>1, <1>2, <1>4, <1>5, Front DEF Taken
<1>7. \A j \in 1 .. Len(q) : q[j] = <<Taken + j, req_arr[i][Taken + j]>>
  BY <1>1, <1>5, ServiceNumbers DEF QueueIsRest
<1>8. ASSUME NEW j \in 1 .. Len(temp_queue')
      PROVE  temp_queue'[j] = <<Taken' + j, req_arr'[i'][Taken' + j]>>
  <2>1. j \in 1 .. Len(q) - 1 /\ j + 1 \in 1 .. Len(q)
    BY <1>1, <1>2, <1>4
  <2>2. temp_queue'[j] = <<Taken + (j + 1), req_arr[i][Taken + (j + 1)]>>
    BY <1>1, <1>4, <1>7, <2>1
  <2>3. Taken + (j + 1) = Taken' + j
    BY <1>6, <2>1
  <2>4. QED
    BY <1>5, <2>2, <2>3
<1>9. QED
  BY <1>1, <1>4, <1>6, <1>8

LEMMA HandledStays ==
    ASSUME EcommerceTypeOK, QueueIsRest, UNCHANGED input,
           \/ UNCHANGED <<i, temp_queue>>
           \/ NextService
    PROVE  \A s \in Service : Handled(s)' = Handled(s)
<1>1. CASE UNCHANGED <<i, temp_queue>>
  BY <1>1 DEF Handled, input
<1>2. ASSUME NextService, NEW s \in Service PROVE Handled(s)' = Handled(s)
  <2>1. /\ i \in Int /\ i' = i + 1 /\ req_arr' = req_arr
        /\ temp_queue = <<>>
    BY <1>2 DEF NextService, input, EcommerceTypeOK, QueueIsRest
  <2>2. /\ s \in Int /\ DOMAIN req_arr[s] = 1 .. Len(req_arr[s])
        /\ Len(req_arr[s]) \in Nat
    BY RequestsOf, ServiceNumbers
  <2>3. CASE s < i
    BY <2>1, <2>2, <2>3 DEF Handled
  <2>4. CASE s = i
    <3>1. Len(temp_queue) = 0
      BY <2>1
    <3>2. Handled(s) = 1 .. Len(req_arr[s])
      BY <2>1, <2>2, <2>4, <3>1 DEF Handled
    <3>3. QED
      BY <2>1, <2>2, <2>4, <3>2 DEF Handled
  <2>5. CASE s = i + 1
    <3>1. temp_queue' = [r \in DOMAIN req_arr[s] |-> <<r, req_arr[s][r]>>]
      BY <1>2, <2>5 DEF NextService
    <3>2. Len(temp_queue') = Len(req_arr[s])
      BY <2>2, <3>1
    <3>3. Handled(s)' = 1 .. 0 /\ Handled(s) = {}
      BY <2>1, <2>2, <2>5, <3>2 DEF Handled
    <3>4. QED
      BY <3>3
  <2>6. CASE s > i + 1
    BY <2>1, <2>2, <2>6 DEF Handled
  <2>7. QED
    BY <2>1, <2>2, <2>3, <2>4, <2>5, <2>6
<1>3. QED
  BY <1>1, <1>2

\* A request taken from the queue has been handled.
LEMMA HandledGrows ==
    ASSUME EcommerceTypeOK, QueueIsRest, phase = "requests", l <= iter_size,
           temp_queue' = Tail(temp_queue), UNCHANGED <<input, i>>
    PROVE  /\ Handled(i)' = Handled(i) \cup {Taken + 1}
           /\ \A r \in Handled(i) : r \in Nat /\ r < Taken + 1
           /\ \A s \in Service \ {i} : Handled(s)' = Handled(s)
<1>1. /\ i \in Service /\ Taken' = Taken + 1 /\ Taken \in Nat
      /\ i' = i /\ req_arr' = req_arr /\ i \in Int
      /\ Len(temp_queue) \in Nat /\ Len(req_arr[i]) \in Nat
      /\ Len(temp_queue') = Len(temp_queue) - 1
  BY Front, QueueTail, ServiceNumbers, QueueLength, RequestsOf DEF input
<1>2. Handled(i) = 1 .. Taken
  BY <1>1 DEF Handled, Taken
<1>3. Handled(i)' = 1 .. Taken + 1
  <2>1. Handled(i)' = 1 .. Len(req_arr[i]) - Len(temp_queue')
    <3>1. ~(i' < i') /\ ~(i' > i') /\ req_arr'[i'] = req_arr[i]
      BY <1>1
    <3>2. QED
      BY <3>1 DEF Handled
  <2>2. Len(req_arr[i]) - Len(temp_queue') = Taken + 1
    BY <1>1 DEF Taken
  <2>3. QED
    BY <2>1, <2>2
<1>4. ASSUME NEW s \in Service \ {i} PROVE Handled(s)' = Handled(s)
  <2>1. s \in Int /\ s # i
    BY ServiceNumbers
  <2>2. s < i \/ s > i
    BY <1>1, <2>1
  <2>3. QED
    BY <1>1, <2>1, <2>2 DEF Handled
<1>5. QED
  BY <1>1, <1>2, <1>3, <1>4

-----------------------------------------------------------------------------
(* What has been executed *)

LEMMA TooBigStays ==
    ASSUME UNCHANGED input
    PROVE  \A s, r : TooBig(s, r)' = TooBig(s, r)
  BY DEF TooBig, input

\* Nothing is handled.
LEMMA EvidenceStays ==
    ASSUME EcommerceTypeOK, Evidence, UNCHANGED <<input, executed, rejected>>,
           \A s \in Service : Handled(s)' = Handled(s),
           \A e \in executed : e.service = i' => e.time <= time_stamp'
    PROVE  Evidence'
<1> USE DEF Evidence
<1>1. \A e \in executed : e.service \in Service
  BY DEF EcommerceTypeOK
<1>2. ExecutionsFit'
  BY <1>1 DEF ExecutionsFit, input
<1>3. NoneForgotten'
  BY TooBigStays DEF NoneForgotten
<1>4. InOrder'
  BY DEF InOrder
<1>5. rejected' = Cardinality(Rejects)'
  <2>1. Rejects' = Rejects
    BY TooBigStays DEF Rejects
  <2>2. QED
    BY <2>1
<1>6. QED
  BY <1>2, <1>3, <1>4, <1>5

LEMMA ExecuteEvidence ==
    ASSUME EcommerceTypeOK, QueueIsRest, Evidence, Execute
    PROVE  Evidence'
<1> USE DEF Evidence
<1>1. PICK place \in Thread :
        /\ find_thread(place)
        /\ worker_resources' =
            [worker_resources EXCEPT ![place] = @ - req_arr[i][l]]
        /\ executed' = executed \cup
            {[service |-> i, request |-> temp_queue[1][1],
              thread |-> place, time |-> time_stamp]}
  BY DEF Execute
<1>2. /\ phase = "requests" /\ l <= iter_size
      /\ temp_queue' = Tail(temp_queue)
      /\ UNCHANGED <<input, i, time_stamp, rejected>>
  BY DEF Execute
<1>3. PICK e : e = [service |-> i, request |-> temp_queue[1][1],
                    thread |-> place, time |-> time_stamp]
  OBVIOUS
<1>4. PICK q : q = Taken + 1
  OBVIOUS
<1>5. /\ e.service = i /\ e.request = q /\ e.thread = place
      /\ e.time = time_stamp /\ executed' = executed \cup {e}
      /\ i \in Service /\ q \in Nat /\ q \in DOMAIN req_arr[i]
      /\ curr_res = req_arr[i][q]
  BY <1>1, <1>2, <1>3, <1>4, Front
<1>6. /\ Handled(i)' = Handled(i) \cup {q}
      /\ \A r \in Handled(i) : r \in Nat /\ r < q
      /\ \A s \in Service \ {i} : Handled(s)' = Handled(s)
      /\ q \notin Handled(i)
  <2>1. /\ Handled(i)' = Handled(i) \cup {q}
        /\ \A r \in Handled(i) : r \in Nat /\ r < q
        /\ \A s \in Service \ {i} : Handled(s)' = Handled(s)
    BY <1>2, <1>4, HandledGrows
  <2>2. QED
    BY <1>5, <2>1
<1>7. req_arr[i][q] <= resources_available[i][place]
  <2>1. /\ req_arr[i][q] <= worker_resources[place]
        /\ worker_resources[place] <= resources_available[i][place]
    BY <1>1, <1>2, <1>5 DEF find_thread, Fits, QueueIsRest
  <2>2. /\ req_arr[i][q] \in Int /\ worker_resources[place] \in Int
        /\ resources_available[i][place] \in Int
    BY <1>1, <1>5, RequestsOf, ResourceNumbers
  <2>3. QED
    BY <2>1, <2>2
<1>8. ~TooBig(i, q)
  <2>1. /\ req_arr[i][q] \in Int /\ resources_available[i][place] \in Int
    BY <1>1, <1>5, RequestsOf, ResourceNumbers
  <2>2. QED
    BY <1>1, <1>7, <2>1 DEF TooBig
<1>9. \A f \in executed :
        /\ f.service \in Service /\ f.time \in Nat
        /\ f.request \in Handled(f.service)
        /\ f.service = i => f.time <= time_stamp /\ f.request < q
                            /\ f.request \in Nat
  BY <1>6 DEF EcommerceTypeOK, ExecutionsFit
<1>10. time_stamp \in Nat /\ time_stamp' = time_stamp /\ i' = i
  BY <1>2 DEF EcommerceTypeOK
<1>11. ExecutionsFit'
  <2>1. ASSUME NEW f \in executed'
        PROVE  /\ f.request \in Handled(f.service)'
               /\ (req_arr[f.service][f.request]
                     <= resources_available[f.service][f.thread])'
               /\ f.service = i' => f.time <= time_stamp'
    <3>1. CASE f \in executed
      BY <1>2, <1>6, <1>9, <1>10, <3>1 DEF ExecutionsFit, input
    <3>2. CASE f = e
      BY <1>2, <1>5, <1>6, <1>7, <1>10, <3>2 DEF input
    <3>3. QED
      BY <1>5, <2>1, <3>1, <3>2
  <2>2. QED
    BY <2>1 DEF ExecutionsFit
<1>12. NoneForgotten'
  <2>1. ASSUME NEW s \in Service, NEW r \in Handled(s)'
        PROVE  \/ TooBig(s, r)'
               \/ \E f \in executed' : f.service = s /\ f.request = r
    <3>1. CASE r \in Handled(s)
      BY <1>2, <1>5, <3>1, TooBigStays DEF NoneForgotten
    <3>2. CASE s = i /\ r = q
      BY <1>5, <3>2
    <3>3. QED
      BY <1>5, <1>6, <1>10, <2>1, <3>1, <3>2
  <2>2. QED
    BY <2>1 DEF NoneForgotten
<1>13. InOrder'
  <2>1. ASSUME NEW f \in executed', NEW g \in executed',
               f.service = g.service
        PROVE  /\ f.request = g.request => f = g
               /\ f.request < g.request => f.time <= g.time
    <3>1. CASE f \in executed /\ g \in executed
      BY <2>1, <3>1 DEF InOrder
    <3>2. CASE f \in executed /\ g = e
      BY <1>5, <1>9, <2>1, <3>2
    <3>3. CASE f = e /\ g \in executed
      BY <1>5, <1>9, <2>1, <3>3
    <3>4. CASE f = e /\ g = e
      BY <1>5, <1>10, <3>4
    <3>5. QED
      BY <1>5, <2>1, <3>1, <3>2, <3>3, <3>4
  <2>2. QED
    BY <2>1 DEF InOrder
<1>14. rejected' = Cardinality(Rejects)'
  <2>1. Rejects' = Rejects
    BY <1>2, <1>6, <1>8, TooBigStays DEF Rejects
  <2>2. QED
    BY <1>2, <2>1
<1>15. QED
  BY <1>11, <1>12, <1>13, <1>14

LEMMA RejectEvidence ==
    ASSUME EcommerceTypeOK, QueueIsRest, Evidence, Reject
    PROVE  Evidence'
<1> USE DEF Evidence
<1>1. /\ phase = "requests" /\ l <= iter_size
      /\ Abnormal /\ temp_queue' = Tail(temp_queue) /\ rejected' = rejected + 1
      /\ UNCHANGED <<input, i, time_stamp, executed>>
  BY DEF Reject
<1>2. PICK q : q = Taken + 1
  OBVIOUS
<1>3. /\ i \in Service /\ q \in Nat /\ q \in DOMAIN req_arr[i]
      /\ curr_res = req_arr[i][q]
  BY <1>1, <1>2, Front
<1>4. /\ Handled(i)' = Handled(i) \cup {q}
      /\ \A r \in Handled(i) : r \in Nat /\ r < q
      /\ \A s \in Service \ {i} : Handled(s)' = Handled(s)
  BY <1>1, <1>2, HandledGrows
<1>5. TooBig(i, q) /\ q \notin Handled(i)
  BY <1>1, <1>3, <1>4 DEF Abnormal, TooBig
<1>6. ExecutionsFit'
  BY <1>1, <1>4 DEF ExecutionsFit, EcommerceTypeOK, input
<1>7. NoneForgotten'
  BY <1>1, <1>4, <1>5, TooBigStays DEF NoneForgotten
<1>8. InOrder'
  BY <1>1 DEF InOrder
<1>9. rejected' = Cardinality(Rejects)'
  <2>1. q \in 1 .. MaxRequests
    BY <1>3, RequestsOf
  <2>2. Rejects' = Rejects \cup {<<i, q>>}
    BY <1>1, <1>3, <1>4, <1>5, <2>1, TooBigStays DEF Rejects
  <2>3. <<i, q>> \notin Rejects
    BY <1>5 DEF Rejects
  <2>4. IsFiniteSet(Rejects)
    <3>1. IsFiniteSet(Service) /\ IsFiniteSet(1 .. MaxRequests)
      BY FS_Interval DEF Service
    <3>2. IsFiniteSet(Service \X (1 .. MaxRequests))
      BY <3>1, FS_Product
    <3>3. QED
      BY <3>2, FS_Subset DEF Rejects
  <2>5. Cardinality(Rejects') = Cardinality(Rejects) + 1
    BY <2>2, <2>3, <2>4, FS_AddElement
  <2>6. QED
    BY <1>1, <2>5
<1>10. QED
  BY <1>6, <1>7, <1>8, <1>9

-----------------------------------------------------------------------------
(* What the threads have been given *)

LEMMA LoadNumber ==
    ASSUME EcommerceTypeOK, ExecutionsFit,
           NEW s \in Service, NEW k \in Thread, NEW t \in Nat
    PROVE  Load(s, k, t) \in Int
<1>1. PICK D : D = {x \in executed : x.service = s /\ x.thread = k
                                     /\ x.time = t}
  OBVIOUS
<1>2. PICK g : g = [e \in D |-> req_arr[s][e.request]]
  OBVIOUS
<1>3. PICK x : x = [service |-> s, request |-> 0, thread |-> k,
                    time |-> t + 1]
  OBVIOUS
<1>4. PICK f : f = [e \in D \cup {x} |-> IF e = x THEN 0 ELSE g[e]]
  OBVIOUS
<1>5. IsFiniteSet(D)
  BY <1>1, FS_Subset DEF EcommerceTypeOK
<1>6. x \notin D
  BY <1>1, <1>3
<1>7. ASSUME NEW e \in D PROVE req_arr[s][e.request] \in Int
  <2>1. e.request \in DOMAIN req_arr[s]
    BY <1>1, HandledRange DEF ExecutionsFit
  <2>2. QED
    BY <2>1, RequestsOf
<1>8. Extended(g, f, x, D)
  BY <1>2, <1>4, <1>6, <1>7 DEF Extended
<1>9. SumFunction(g) \in Int
  BY <1>5, <1>8, SumAdded
<1>10. QED
  BY <1>1, <1>2, <1>9 DEF Load

LEMMA LoadStays ==
    ASSUME UNCHANGED <<input, executed>>
    PROVE  \A s, k, t : Load(s, k, t)' = Load(s, k, t)
  BY DEF Load, input

LEMMA NoLoad ==
    ASSUME NEW s, NEW k, NEW t, \A e \in executed : e.service # s
    PROVE  Load(s, k, t) = 0
<1>1. PICK D : D = {x \in executed : x.service = s /\ x.thread = k
                                     /\ x.time = t}
  OBVIOUS
<1>2. PICK g : g = [e \in D |-> req_arr[s][e.request]]
  OBVIOUS
<1>3. DOMAIN g = {}
  BY <1>1, <1>2
<1>4. SumFunction(g) = 0
  BY <1>3, SumOfNone
<1>5. QED
  BY <1>1, <1>2, <1>4 DEF Load

\* The load of the thread that executes a request grows by its size.
LEMMA LoadGrows ==
    ASSUME EcommerceTypeOK, QueueIsRest, Evidence, UNCHANGED input,
           phase = "requests", l <= iter_size,
           NEW place \in Thread, NEW k \in Thread, NEW s \in Service,
           executed' = executed \cup
            {[service |-> i, request |-> temp_queue[1][1],
              thread |-> place, time |-> time_stamp]}
    PROVE  Load(s, k, 0)' =
               IF s = i /\ k = place /\ time_stamp = 0
               THEN Load(s, k, 0) + curr_res
               ELSE Load(s, k, 0)
<1>1. PICK D : D = {x \in executed : x.service = s /\ x.thread = k
                                     /\ x.time = 0}
  OBVIOUS
<1>2. PICK g : g = [e \in D |-> req_arr[s][e.request]]
  OBVIOUS
<1>3. PICK x : x = [service |-> i, request |-> temp_queue[1][1],
                    thread |-> place, time |-> time_stamp]
  OBVIOUS
<1>4. PICK E : E = {y \in executed' : y.service = s /\ y.thread = k
                                      /\ y.time = 0}
  OBVIOUS
<1>5. PICK f : f = [e \in E |-> req_arr[s][e.request]]
  OBVIOUS
<1>6. Load(s, k, 0) = SumFunction(g) /\ Load(s, k, 0)' = SumFunction(f)
  <2>1. Load(s, k, 0) = SumFunction(g)
    BY <1>1, <1>2 DEF Load
  <2>2. Load(s, k, 0)' = SumFunction(f)
    BY <1>4, <1>5 DEF Load, input
  <2>3. QED
    BY <2>1, <2>2
<1>7. /\ x.service = i /\ x.request = Taken + 1 /\ x.thread = place
      /\ x.time = time_stamp /\ i \in Service
      /\ Taken + 1 \in DOMAIN req_arr[i] /\ Taken \in Nat
      /\ curr_res = req_arr[i][Taken + 1]
      /\ executed' = executed \cup {x}
  BY <1>3, Front
<1>8. CASE s = i /\ k = place /\ time_stamp = 0
  <2>1. E = D \cup {x}
    BY <1>1, <1>4, <1>7, <1>8
  <2>2. x \notin D
    <3>1. x \in executed => x.request \in Handled(i)
      BY <1>7 DEF Evidence, ExecutionsFit
    <3>2. Handled(i) = 1 .. Taken
      BY <1>7, HandledRange
    <3>3. QED
      BY <1>1, <1>7, <3>1, <3>2
  <2>3. IsFiniteSet(D)
    BY <1>1, FS_Subset DEF EcommerceTypeOK
  <2>4. ASSUME NEW e \in D PROVE req_arr[s][e.request] \in Int
    <3>1. e.request \in DOMAIN req_arr[s]
      BY <1>1, HandledRange DEF Evidence, ExecutionsFit
    <3>2. QED
      BY <3>1, RequestsOf
  <2>5. req_arr[s][x.request] \in Int
    BY <1>7, <1>8, RequestsOf
  <2>6. Extended(g, f, x, D)
    BY <1>2, <1>5, <2>1, <2>2, <2>4, <2>5 DEF Extended
  <2>7. SumFunction(f) = SumFunction(g) + f[x]
    BY <2>3, <2>6, SumAdded
  <2>8. f[x] = curr_res
    BY <1>5, <1>7, <1>8, <2>1
  <2>9. QED
    BY <1>6, <1>8, <2>7, <2>8
<1>9. CASE ~(s = i /\ k = place /\ time_stamp = 0)
  <2>1. E = D
    BY <1>1, <1>4, <1>7, <1>9
  <2>2. f = g
    BY <1>2, <1>5, <2>1
  <2>3. QED
    BY <1>6, <1>9, <2>2
<1>10. QED
  BY <1>8, <1>9

-----------------------------------------------------------------------------
(* The steps of the program *)

LEMMA EcommerceStart == Init => EcommerceInv
<1> SUFFICES ASSUME Init PROVE EcommerceInv
  OBVIOUS
<1> USE DEF Init
<1>1. EcommerceTypeOK
  BY FS_EmptySet DEF EcommerceTypeOK
<1>2. QueueIsRest
  BY DEF QueueIsRest
<1>3. \A s \in Service : Handled(s) = {}
  BY ServiceNumbers DEF Handled
<1>4. Evidence
  <2>1. ExecutionsFit /\ NoneForgotten /\ InOrder
    BY <1>3 DEF ExecutionsFit, NoneForgotten, InOrder
  <2>2. Rejects = {}
    BY <1>3 DEF Rejects
  <2>3. QED
    BY <2>1, <2>2, FS_EmptySet DEF Evidence
<1>5. FirstRound
  BY DEF FirstRound
<1>6. FirstRoundFits
  BY <1>1, NoLoad, ResourceNumbers DEF FirstRoundFits
<1>7. QED
  BY <1>1, <1>2, <1>4, <1>5, <1>6 DEF EcommerceInv

LEMMA FirstRoundFitsStays ==
    ASSUME FirstRoundFits, UNCHANGED <<input, executed>>
    PROVE  FirstRoundFits'
  BY LoadStays DEF FirstRoundFits, input

LEMMA NextServiceStep ==
    ASSUME EcommerceInv, NextService
    PROVE  EcommerceInv'
<1> USE DEF EcommerceInv
<1>1. /\ phase = "service" /\ i < n /\ i' = i + 1 /\ time_stamp' = 0
      /\ phase' = "round"
      /\ UNCHANGED <<input, worker_resources, loop, results, waits>>
      /\ UNCHANGED <<resources_available, req_arr, iter_size, l, rejected,
                     executed>>
  BY DEF NextService, input, loop, results
<1>2. i \in Int /\ i' \in Service /\ i' \in 0 .. n /\ i' >= 1
  BY <1>1 DEF EcommerceTypeOK, Service
<1>3. PICK q : q = req_arr[i + 1]
  OBVIOUS
<1>4. /\ q \in Seq(Resource) /\ DOMAIN q = 1 .. Len(q) /\ Len(q) \in Nat
      /\ temp_queue' = [r \in 1 .. Len(q) |-> <<r, q[r]>>]
      /\ req_arr'[i'] = q
  BY <1>1, <1>2, <1>3, RequestsOf DEF NextService
<1>5. temp_queue' \in Seq(Nat \X Resource) /\ Len(temp_queue') = Len(q)
  BY <1>4
<1>6. EcommerceTypeOK'
  BY <1>1, <1>2, <1>5 DEF EcommerceTypeOK
<1>7. Taken' = 0
  BY <1>4, <1>5 DEF Taken
<1>8. QueueIsRest'
  <2>1. \A j \in 1 .. Len(temp_queue') :
          temp_queue'[j] = <<Taken' + j, req_arr'[i'][Taken' + j]>>
    BY <1>4, <1>5, <1>7
  <2>2. QED
    BY <1>1, <1>2, <1>4, <1>5, <2>1 DEF QueueIsRest
<1>9. \A s \in Service : Handled(s)' = Handled(s)
  BY <1>1, HandledStays
<1>10. \A e \in executed : e.service # i'
  <2>1. i' > i /\ Handled(i') = {}
    BY <1>1, <1>2, HandledRange
  <2>2. QED
    BY <2>1 DEF Evidence, ExecutionsFit
<1>11. Evidence'
  BY <1>1, <1>9, <1>10, EvidenceStays
<1>12. FirstRound'
  BY <1>1, <1>7 DEF FirstRound
<1>13. FirstRoundFits'
  BY <1>1, FirstRoundFitsStays
<1>14. QED
  BY <1>6, <1>8, <1>11, <1>12, <1>13

\* The queue stays as it is, in whatever step of the loops.
LEMMA NothingHandled ==
    ASSUME EcommerceInv,
           UNCHANGED <<input, i, temp_queue, rejected, executed>>,
           time_stamp' \in Nat, time_stamp' >= time_stamp
    PROVE  /\ Evidence' /\ FirstRoundFits' /\ Taken' = Taken
           /\ \A k : Load(i, k, 0)' = Load(i, k, 0)
<1> USE DEF EcommerceInv
<1>1. Taken' = Taken
  BY DEF Taken, input
<1>2. \A k : Load(i, k, 0)' = Load(i, k, 0)
  BY DEF Load, input
<1>3. ASSUME NEW e \in executed, e.service = i'
      PROVE  e.time <= time_stamp'
  <2>1. e.time \in Nat /\ time_stamp \in Nat /\ e.time <= time_stamp
    BY <1>3 DEF EcommerceTypeOK, Evidence, ExecutionsFit
  <2>2. QED
    BY <2>1
<1>4. \A s \in Service : Handled(s)' = Handled(s)
  BY HandledStays
<1>5. Evidence'
  BY <1>3, <1>4, EvidenceStays
<1>6. QED
  BY <1>1, <1>2, <1>5, FirstRoundFitsStays

LEMMA ReportStep ==
    ASSUME EcommerceInv, Report
    PROVE  EcommerceInv'
<1> USE DEF EcommerceInv
<1>1. /\ phase = "service" /\ phase' = "done"
      /\ UNCHANGED <<input, i, temp_queue, time_stamp, worker_resources, loop,
                     results>>
      /\ UNCHANGED <<resources_available, req_arr, iter_size, l, rejected,
                     executed>>
  BY DEF Report, input, loop, results
<1>2. time_stamp \in Nat /\ time_stamp' >= time_stamp
  BY <1>1 DEF EcommerceTypeOK
<1>3. Evidence' /\ FirstRoundFits' /\ Taken' = Taken
  BY <1>1, <1>2, NothingHandled
<1>4. EcommerceTypeOK'
  BY <1>1 DEF EcommerceTypeOK
<1>5. QueueIsRest'
  BY <1>1, <1>3 DEF QueueIsRest
<1>6. FirstRound'
  BY <1>1 DEF FirstRound
<1>7. QED
  BY <1>3, <1>4, <1>5, <1>6

LEMMA NextRoundStep ==
    ASSUME EcommerceInv, NextRound
    PROVE  EcommerceInv'
<1> USE DEF EcommerceInv
<1>1. /\ phase = "round"
      /\ UNCHANGED <<input, i, temp_queue, time_stamp, results, waits>>
      /\ UNCHANGED <<resources_available, req_arr, rejected, executed>>
  BY DEF NextRound, input, results
<1>2. time_stamp \in Nat /\ time_stamp' >= time_stamp
  BY <1>1 DEF EcommerceTypeOK
<1>3. /\ Evidence' /\ FirstRoundFits' /\ Taken' = Taken
      /\ \A k : Load(i, k, 0)' = Load(i, k, 0)
  BY <1>1, <1>2, NothingHandled
<1>4. i >= 1 /\ i \in Service
  BY <1>1, CurrentService DEF QueueIsRest
<1>5. CASE temp_queue = <<>>
  <2>1. phase' = "service" /\ UNCHANGED <<worker_resources, iter_size, l>>
    BY <1>5 DEF NextRound, loop
  <2>2. EcommerceTypeOK'
    BY <1>1, <2>1 DEF EcommerceTypeOK
  <2>3. QueueIsRest'
    BY <1>1, <1>3, <1>5, <2>1 DEF QueueIsRest
  <2>4. FirstRound'
    BY <2>1 DEF FirstRound
  <2>5. QED
    BY <1>3, <2>2, <2>3, <2>4
<1>6. CASE temp_queue # <<>>
  <2>1. /\ phase' = "requests" /\ l' = 1 /\ iter_size' = Len(temp_queue)
        /\ worker_resources' = resources_available[i]
    BY <1>6 DEF NextRound
  <2>2. /\ Len(temp_queue) \in Nat /\ Len(req_arr[i]) \in Nat
        /\ Len(temp_queue) <= Len(req_arr[i])
    BY <1>4, QueueLength, RequestsOf DEF QueueIsRest
  <2>3. /\ worker_resources' \in [Thread -> Int]
        /\ \A k \in Thread :
             /\ resources_available[i][k] \in Nat
             /\ worker_resources'[k] = resources_available[i][k]
    <3>1. \A k \in Thread : resources_available[i][k] \in Nat
      BY <1>4, ResourceNumbers
    <3>2. resources_available[i] \in [Thread -> Resource]
      BY <1>4 DEF EcommerceTypeOK
    <3>3. QED
      BY <2>1, <3>1, <3>2
  <2>4. EcommerceTypeOK'
    BY <1>1, <2>1, <2>2, <2>3 DEF EcommerceTypeOK
  <2>5. QueueIsRest'
    <3>1. /\ l' \in 1 .. iter_size' + 1 /\ iter_size' <= Len(req_arr[i])
          /\ iter_size' + 1 - l' <= Len(temp_queue')
      BY <1>1, <2>1, <2>2
    <3>2. \A k \in Thread :
            worker_resources'[k] <= resources_available'[i'][k]
      BY <1>1, <2>3
    <3>3. QED
      BY <1>1, <1>3, <1>4, <2>1, <3>1, <3>2 DEF QueueIsRest
  <2>6. ASSUME time_stamp = 0
        PROVE  /\ Taken = 0
               /\ \A k \in Thread : Load(i, k, 0) = 0
    <3>1. Taken = 0
      BY <1>1, <2>6 DEF FirstRound
    <3>2. Handled(i) = {}
      BY <1>4, <3>1, HandledRange
    <3>3. \A e \in executed : e.service # i
      BY <3>2 DEF Evidence, ExecutionsFit
    <3>4. QED
      BY <3>1, <3>3, NoLoad
  <2>7. FirstRound'
    <3>1. ASSUME time_stamp' = 0
          PROVE  /\ l' = Taken' + 1
                 /\ \A k \in Thread :
                      worker_resources'[k]
                          = resources_available'[i'][k] - Load(i, k, 0)'
      BY <1>1, <1>3, <2>1, <2>3, <2>6, <3>1
    <3>2. QED
      BY <2>1, <3>1 DEF FirstRound
  <2>8. QED
    BY <1>3, <2>4, <2>5, <2>7
<1>7. QED
  BY <1>5, <1>6

LEMMA WaitStep ==
    ASSUME EcommerceInv, Wait
    PROVE  EcommerceInv'
<1> USE DEF EcommerceInv
<1>1. /\ phase = "requests" /\ l <= iter_size /\ l' = l + 1
      /\ ~Abnormal /\ \A k \in Thread : ~Fits(k)
      /\ UNCHANGED <<input, phase, i, temp_queue, time_stamp,
                     worker_resources, iter_size, results, waits>>
      /\ UNCHANGED <<resources_available, req_arr, rejected, executed>>
  BY DEF Wait, input, results
<1>2. time_stamp \in Nat /\ time_stamp' >= time_stamp
  BY <1>1 DEF EcommerceTypeOK
<1>3. Evidence' /\ FirstRoundFits' /\ Taken' = Taken
  BY <1>1, <1>2, NothingHandled
<1>4. EcommerceTypeOK'
  BY <1>1 DEF EcommerceTypeOK
<1>5. QueueIsRest'
  <2>1. l \in Nat /\ iter_size \in Nat /\ Len(temp_queue) \in Nat
    BY QueueLength DEF EcommerceTypeOK
  <2>2. l \in 1 .. iter_size + 1 /\ iter_size + 1 - l <= Len(temp_queue)
    BY <1>1 DEF QueueIsRest
  <2>3. l' \in 1 .. iter_size + 1 /\ iter_size + 1 - l' <= Len(temp_queue)
    BY <1>1, <2>1, <2>2
  <2>4. QED
    BY <1>1, <1>3, <2>3 DEF QueueIsRest
<1>6. FirstRound'
  <2>1. temp_queue # <<>>
    BY <1>1, Front
  <2>2. Stuck'
    BY <1>1, <2>1 DEF Stuck, Abnormal, Fits, curr_res
  <2>3. QED
    BY <1>1, <2>2 DEF FirstRound
<1>7. QED
  BY <1>3, <1>4, <1>5, <1>6

LEMMA EndRoundStep ==
    ASSUME EcommerceInv, EndRound
    PROVE  EcommerceInv'
<1> USE DEF EcommerceInv
<1>1. /\ phase = "requests" /\ phase' = "round"
      /\ time_stamp' = time_stamp + 1
      /\ UNCHANGED <<input, i, temp_queue, worker_resources, loop, results,
                     waits>>
      /\ UNCHANGED <<resources_available, req_arr, iter_size, l, rejected,
                     executed>>
  BY DEF EndRound, input, loop, results
<1>2. time_stamp' \in Nat /\ time_stamp' >= time_stamp /\ time_stamp' # 0
  BY <1>1 DEF EcommerceTypeOK
<1>3. Evidence' /\ FirstRoundFits' /\ Taken' = Taken
  BY <1>1, <1>2, NothingHandled
<1>4. EcommerceTypeOK'
  BY <1>1, <1>2 DEF EcommerceTypeOK
<1>5. QueueIsRest'
  BY <1>1, <1>3 DEF QueueIsRest
<1>6. FirstRound'
  BY <1>1, <1>2 DEF FirstRound
<1>7. QED
  BY <1>3, <1>4, <1>5, <1>6

\* The loop variable after a request has been taken from the queue.
LEMMA LoopGoesOn ==
    ASSUME EcommerceTypeOK, QueueIsRest, phase = "requests", l <= iter_size,
           temp_queue' = Tail(temp_queue), l' = l + 1,
           UNCHANGED <<input, i, iter_size>>
    PROVE  /\ l' \in Nat /\ l' \in 1 .. iter_size + 1
           /\ iter_size + 1 - l' <= Len(temp_queue')
           /\ Len(temp_queue') <= Len(req_arr[i])
<1>1. l \in Nat /\ iter_size \in Nat /\ Len(temp_queue) \in Nat
  BY QueueLength DEF EcommerceTypeOK
<1>2. /\ l \in 1 .. iter_size + 1
      /\ iter_size + 1 - l <= Len(temp_queue)
  BY DEF QueueIsRest
<1>3. /\ Len(temp_queue') = Len(temp_queue) - 1
      /\ Len(temp_queue) <= Len(req_arr[i])
      /\ Len(req_arr[i]) \in Nat
  BY Front, QueueTail, RequestsOf
<1>4. QED
  BY <1>1, <1>2, <1>3

LEMMA RejectStep ==
    ASSUME EcommerceInv, Reject
    PROVE  EcommerceInv'
<1> USE DEF EcommerceInv
<1>1. /\ phase = "requests" /\ l <= iter_size /\ l' = l + 1
      /\ Abnormal /\ temp_queue' = Tail(temp_queue)
      /\ UNCHANGED <<input, phase, i, time_stamp, worker_resources, iter_size,
                     waits, executed>>
      /\ UNCHANGED <<resources_available, req_arr>>
  BY DEF Reject, input
<1>2. Evidence' /\ FirstRoundFits'
  BY <1>1, RejectEvidence, FirstRoundFitsStays
<1>3. /\ temp_queue' \in Seq(Nat \X Resource) /\ Taken' = Taken + 1
      /\ \A j \in 1 .. Len(temp_queue') :
           temp_queue'[j] = <<Taken' + j, req_arr'[i'][Taken' + j]>>
  BY <1>1, QueueTail
<1>4. /\ l' \in Nat /\ l' \in 1 .. iter_size + 1
      /\ iter_size + 1 - l' <= Len(temp_queue')
      /\ Len(temp_queue') <= Len(req_arr[i])
  BY <1>1, LoopGoesOn
<1>5. EcommerceTypeOK'
  BY <1>1, <1>3, <1>4 DEF EcommerceTypeOK
<1>6. QueueIsRest'
  BY <1>1, <1>3, <1>4 DEF QueueIsRest
<1>7. FirstRound'
  <2>1. ~Stuck
    BY <1>1 DEF Stuck
  <2>2. Taken \in Nat
    BY <1>1, Front
  <2>3. \A k : Load(i, k, 0)' = Load(i, k, 0)
    BY <1>1 DEF Load
  <2>4. ASSUME time_stamp' = 0
        PROVE  /\ l' = Taken' + 1
               /\ \A k \in Thread :
                    worker_resources'[k]
                        = resources_available'[i'][k] - Load(i, k, 0)'
    BY <1>1, <1>3, <2>1, <2>2, <2>3, <2>4 DEF FirstRound
  <2>5. QED
    BY <1>1, <2>4 DEF FirstRound
<1>8. QED
  BY <1>2, <1>5, <1>6, <1>7

LEMMA ExecuteStep ==
    ASSUME EcommerceInv, Execute
    PROVE  EcommerceInv'
<1> USE DEF EcommerceInv
<1>1. PICK place \in Thread :
        /\ find_thread(place)
        /\ worker_resources' =
            [worker_resources EXCEPT ![place] = @ - req_arr[i][l]]
        /\ executed' = executed \cup
            {[service |-> i, request |-> temp_queue[1][1],
              thread |-> place, time |-> time_stamp]}
  BY DEF Execute
<1>2. /\ phase = "requests" /\ l <= iter_size /\ l' = l + 1
      /\ temp_queue' = Tail(temp_queue)
      /\ UNCHANGED <<input, phase, i, time_stamp, iter_size, rejected, waits>>
      /\ UNCHANGED <<resources_available, req_arr>>
  BY DEF Execute, input
<1>3. /\ i \in Service /\ Taken \in Nat /\ Taken + 1 \in DOMAIN req_arr[i]
      /\ temp_queue[1][1] = Taken + 1 /\ curr_res = req_arr[i][Taken + 1]
      /\ l \in DOMAIN req_arr[i] /\ Taken + 1 \in Nat
  BY <1>2, Front
<1>4. req_arr[i][l] \in Nat /\ curr_res \in Nat
  BY <1>3, RequestsOf
<1>5. Evidence'
  BY ExecuteEvidence
<1>6. /\ temp_queue' \in Seq(Nat \X Resource) /\ Taken' = Taken + 1
      /\ \A j \in 1 .. Len(temp_queue') :
           temp_queue'[j] = <<Taken' + j, req_arr'[i'][Taken' + j]>>
  BY <1>2, QueueTail
<1>7. /\ l' \in Nat /\ l' \in 1 .. iter_size + 1
      /\ iter_size + 1 - l' <= Len(temp_queue')
      /\ Len(temp_queue') <= Len(req_arr[i])
  BY <1>2, LoopGoesOn
<1>8. \A k \in Thread : /\ worker_resources[k] \in Int
                        /\ resources_available[i][k] \in Nat
                        /\ Load(i, k, 0) \in Int
  BY <1>3, ResourceNumbers, LoadNumber DEF Evidence
<1>9. /\ worker_resources' \in [Thread -> Int]
      /\ worker_resources'[place] = worker_resources[place] - req_arr[i][l]
      /\ \A k \in Thread \ {place} :
           worker_resources'[k] = worker_resources[k]
  BY <1>1, <1>4, <1>8 DEF EcommerceTypeOK
<1>10. EcommerceTypeOK'
  <2>1. PICK e : e = [service |-> i, request |-> temp_queue[1][1],
                      thread |-> place, time |-> time_stamp]
    OBVIOUS
  <2>2. e \in [service : Service, request : Nat, thread : Thread, time : Nat]
    BY <1>1, <1>3, <2>1 DEF EcommerceTypeOK
  <2>3. executed' = executed \cup {e}
    BY <1>1, <2>1
  <2>4. IsFiniteSet(executed')
    BY <2>3, FS_AddElement DEF EcommerceTypeOK
  <2>5. QED
    BY <1>2, <1>6, <1>7, <1>9, <2>2, <2>3, <2>4 DEF EcommerceTypeOK
<1>11. QueueIsRest'
  <2>1. \A k \in Thread : worker_resources[k] <= resources_available[i][k]
    BY <1>2 DEF QueueIsRest
  <2>2. \A k \in Thread : worker_resources'[k] <= resources_available[i][k]
    BY <1>4, <1>8, <1>9, <2>1
  <2>3. QED
    BY <1>2, <1>6, <1>7, <2>2 DEF QueueIsRest
<1>12. \A s \in Service, k \in Thread :
         Load(s, k, 0)' = IF s = i /\ k = place /\ time_stamp = 0
                          THEN Load(s, k, 0) + curr_res
                          ELSE Load(s, k, 0)
  BY <1>1, <1>2, LoadGrows
<1>13. ASSUME time_stamp = 0
       PROVE  /\ l = Taken + 1
              /\ \A k \in Thread :
                   worker_resources[k]
                       = resources_available[i][k] - Load(i, k, 0)
  <2>1. ~Stuck
    BY <1>1 DEF Stuck, find_thread
  <2>2. QED
    BY <1>2, <1>13, <2>1 DEF FirstRound
<1>14. FirstRound'
  <2>1. ASSUME time_stamp' = 0, NEW k \in Thread
        PROVE  /\ l' = Taken' + 1
               /\ worker_resources'[k]
                      = resources_available'[i'][k] - Load(i, k, 0)'
    <3>1. time_stamp = 0 /\ curr_res = req_arr[i][l]
      BY <1>2, <1>3, <1>13, <2>1
    <3>2. l' = Taken' + 1
      BY <1>2, <1>3, <1>6, <1>13, <3>1
    <3>3. /\ worker_resources[k] = resources_available[i][k] - Load(i, k, 0)
          /\ worker_resources[k] \in Int /\ Load(i, k, 0) \in Int
          /\ resources_available[i][k] \in Nat
      BY <1>8, <1>13, <3>1
    <3>4. PICK load : load = Load(i, k, 0)'
      OBVIOUS
    <3>5. load = IF k = place THEN Load(i, k, 0) + curr_res
                 ELSE Load(i, k, 0)
      BY <1>2, <1>3, <1>12, <3>1, <3>4
    <3>6. worker_resources'[k] = resources_available[i][k] - load
      BY <1>4, <1>9, <3>1, <3>3, <3>5
    <3>7. QED
      BY <1>2, <3>2, <3>4, <3>6
  <2>2. Thread # {}
    BY DEF Thread
  <2>3. QED
    BY <1>2, <2>1, <2>2 DEF FirstRound
<1>15. FirstRoundFits'
  <2>1. ASSUME NEW s \in Service, NEW k \in Thread
        PROVE  Load(s, k, 0)' <= resources_available'[s][k]
    <3>1. Load(s, k, 0) <= resources_available[s][k]
      BY DEF FirstRoundFits
    <3>2. CASE s = i /\ k = place /\ time_stamp = 0
      <4>1. curr_res <= worker_resources[place]
        BY <1>1 DEF find_thread, Fits
      <4>2. worker_resources[place]
              = resources_available[i][place] - Load(i, place, 0)
        BY <1>13, <3>2
      <4>3. Load(i, place, 0) + curr_res <= resources_available[i][place]
        BY <1>4, <1>8, <4>1, <4>2
      <4>4. QED
        BY <1>2, <1>12, <3>2, <4>3
    <3>3. CASE ~(s = i /\ k = place /\ time_stamp = 0)
      BY <1>2, <1>12, <3>1, <3>3
    <3>4. QED
      BY <3>2, <3>3
  <2>2. QED
    BY <2>1 DEF FirstRoundFits
<1>16. QED
  BY <1>5, <1>10, <1>11, <1>14, <1>15

LEMMA EcommerceStutters ==
    ASSUME EcommerceInv, UNCHANGED vars
    PROVE  EcommerceInv'
<1> USE DEF EcommerceInv
<1>1. /\ UNCHANGED <<input, phase, i, temp_queue, time_stamp,
                     worker_resources, loop, results, waits>>
      /\ UNCHANGED <<resources_available, req_arr, iter_size, l, rejected,
                     executed>>
  BY DEF vars, input, loop, results
<1>2. time_stamp' \in Nat /\ time_stamp' >= time_stamp
  BY <1>1 DEF EcommerceTypeOK
<1>3. /\ Evidence' /\ FirstRoundFits' /\ Taken' = Taken
      /\ \A k : Load(i, k, 0)' = Load(i, k, 0)
  BY <1>1, <1>2, NothingHandled
<1>4. EcommerceTypeOK'
  BY <1>1 DEF EcommerceTypeOK
<1>5. QueueIsRest'
  BY <1>1, <1>3 DEF QueueIsRest
<1>6. FirstRound'
  <2>1. Stuck' = Stuck
    BY <1>1 DEF Stuck, Abnormal, Fits, curr_res
  <2>2. QED
    BY <1>1, <1>3, <2>1 DEF FirstRound
<1>7. QED
  BY <1>3, <1>4, <1>5, <1>6

LEMMA EcommerceStep == EcommerceInv /\ [Next]_vars => EcommerceInv'
  BY NextServiceStep, ReportStep, NextRoundStep, ExecuteStep, RejectStep,
     WaitStep, EndRoundStep, EcommerceStutters DEF Next

LEMMA EcommerceAlways == Spec => []EcommerceInv
  BY EcommerceStart, EcommerceStep, PTL DEF Spec

LEMMA OnceFromEvidence == EcommerceInv => EveryRequestOnce
<1> SUFFICES ASSUME EcommerceInv PROVE EveryRequestOnce
  OBVIOUS
<1> USE DEF EcommerceInv, Evidence
<1>1. \A e \in executed : /\ e.service \in Service /\ e.thread \in Thread
                          /\ e.request \in Handled(e.service)
                          /\ ~TooBig(e.service, e.request)
  <2>1. ASSUME NEW e \in executed
        PROVE  /\ e.service \in Service /\ e.thread \in Thread
               /\ e.request \in Handled(e.service)
               /\ ~TooBig(e.service, e.request)
    <3>1. e.service \in Service /\ e.thread \in Thread
      BY DEF EcommerceTypeOK
    <3>2. /\ e.request \in Handled(e.service)
          /\ req_arr[e.service][e.request]
                 <= resources_available[e.service][e.thread]
      BY DEF ExecutionsFit
    <3>3. req_arr[e.service][e.request] \in Nat
      BY <3>1, <3>2, HandledRange, RequestsOf
    <3>4. resources_available[e.service][e.thread] \in Nat
      BY <3>1, ResourceNumbers
    <3>5. QED
      BY <3>1, <3>2, <3>3, <3>4 DEF TooBig
  <2>2. QED
    BY <2>1
<1>2. ASSUME NEW s \in Service, NEW r \in DOMAIN req_arr[s]
      PROVE  Cardinality({e \in executed : e.service = s /\ e.request = r})
               = IF r \in Handled(s) /\ ~TooBig(s, r) THEN 1 ELSE 0
  <2>1. PICK runs : runs = {e \in executed : e.service = s /\ e.request = r}
    OBVIOUS
  <2>2. CASE r \in Handled(s) /\ ~TooBig(s, r)
    <3>1. PICK e \in executed : e.service = s /\ e.request = r
      BY <2>2 DEF NoneForgotten
    <3>2. runs = {e}
      BY <2>1, <3>1 DEF InOrder
    <3>3. Cardinality(runs) = 1
      BY <3>2, FS_Singleton
    <3>4. QED
      BY <2>1, <2>2, <3>3
  <2>3. CASE ~(r \in Handled(s) /\ ~TooBig(s, r))
    <3>1. runs = {}
      BY <1>1, <2>1, <2>3
    <3>2. Cardinality(runs) = 0
      BY <3>1, FS_EmptySet
    <3>3. QED
      BY <2>1, <2>3, <3>2
  <2>4. QED
    BY <2>2, <2>3
<1>3. \A e \in executed :
        /\ req_arr[e.service][e.request]
               <= resources_available[e.service][e.thread]
        /\ \A f \in executed :
             e.service = f.service /\ e.request < f.request
                 => e.time <= f.time
  BY DEF ExecutionsFit, InOrder
<1>4. QED
  BY <1>2, <1>3 DEF EveryRequestOnce, Rejects

(***************************************************************************)
(* Whatever the services, threads and requests are, no request is lost or  *)
(* executed twice or before an earlier one (lines 118-150).                *)
(***************************************************************************)
THEOREM RequestsOnce == Spec => []EveryRequestOnce
  BY EcommerceAlways, OnceFromEvidence, PTL

(***************************************************************************)
(* In the first round the resources of every thread are enough for all it  *)
(* executes, for every input (lines 122-139).                              *)
(***************************************************************************)
THEOREM FirstRoundSafe == Spec => []FirstRoundFits
<1>1. EcommerceInv => FirstRoundFits
  BY DEF EcommerceInv
<1>2. QED
  BY <1>1, EcommerceAlways, PTL

-----------------------------------------------------------------------------
(* How long a request may wait *)

\* Every request is executed in the round of its number at the latest (the
\* first round is number 0).
WaitsBounded == \A e \in executed : e.time < e.request

\* Each round that has ended has handled a request, and so has the present
\* one after its first turn, in which all resources are free.
RoundsServe ==
    /\ WaitsBounded
    /\ phase \in {"round", "requests"} => time_stamp <= Taken
    /\ phase = "requests" =>
        /\ iter_size >= 1
        /\ IF l = 1 THEN worker_resources = resources_available[i]
                    ELSE time_stamp < Taken

LEMMA TakenNumber ==
    ASSUME EcommerceTypeOK, QueueIsRest, i >= 1
    PROVE  Taken \in Nat
<1>1. i \in Service
  BY CurrentService
<1>2. Len(req_arr[i]) \in Nat /\ Len(temp_queue) \in Nat
  BY <1>1, RequestsOf, QueueLength
<1>3. Len(temp_queue) <= Len(req_arr[i])
  BY DEF QueueIsRest
<1>4. QED
  BY <1>2, <1>3 DEF Taken

\* In the first turn of a round no request has to wait.
LEMMA WaitNotFirst ==
    ASSUME EcommerceInv, RoundsServe, Wait
    PROVE  l # 1
<1> USE DEF EcommerceInv
<1> SUFFICES ASSUME l = 1 PROVE FALSE
  OBVIOUS
<1>1. /\ phase = "requests" /\ l <= iter_size
      /\ ~Abnormal /\ \A k \in Thread : ~Fits(k)
  BY DEF Wait
<1>2. worker_resources = resources_available[i]
  BY <1>1 DEF RoundsServe
<1>3. i \in Service /\ curr_res \in Nat
  BY <1>1, Front, RequestsOf
<1>4. PICK k \in Thread : ~(resources_available[i][k] < curr_res)
  BY <1>1 DEF Abnormal
<1>5. resources_available[i][k] \in Nat
  BY <1>3, ResourceNumbers
<1>6. Fits(k)
  BY <1>2, <1>3, <1>4, <1>5 DEF Fits
<1>7. QED
  BY <1>1, <1>6

\* A request that leaves the queue is the next of the list.
LEMMA ServeStep ==
    ASSUME EcommerceInv, RoundsServe, Execute \/ Reject
    PROVE  RoundsServe'
<1> USE DEF EcommerceInv
<1>1. /\ phase = "requests" /\ phase' = "requests" /\ l <= iter_size
      /\ temp_queue' = Tail(temp_queue) /\ l' = l + 1
      /\ UNCHANGED <<input, i, time_stamp, iter_size>>
  BY DEF Execute, Reject
<1>2. /\ Taken' = Taken + 1 /\ Taken \in Nat
      /\ temp_queue[1] = <<Taken + 1, req_arr[i][Taken + 1]>>
  BY <1>1, Front, QueueTail
<1>3. time_stamp \in Nat /\ l \in Nat /\ l >= 1 /\ time_stamp <= Taken
  BY <1>1 DEF EcommerceTypeOK, QueueIsRest, RoundsServe
<1>4. WaitsBounded'
  <2>1. CASE Execute
    <3>1. PICK place \in Thread :
            executed' = executed \cup
              {[service |-> i, request |-> temp_queue[1][1],
                thread |-> place, time |-> time_stamp]}
      BY <2>1 DEF Execute
    <3>2. temp_queue[1][1] = Taken + 1
      BY <1>2
    <3>3. time_stamp < temp_queue[1][1]
      BY <1>2, <1>3, <3>2
    <3>4. ASSUME NEW e \in executed' PROVE e.time < e.request
      <4>1. CASE e \in executed
        BY <4>1 DEF RoundsServe, WaitsBounded
      <4>2. CASE e = [service |-> i, request |-> temp_queue[1][1],
                      thread |-> place, time |-> time_stamp]
        BY <3>3, <4>2
      <4>3. QED
        BY <3>1, <4>1, <4>2
    <3>5. QED
      BY <3>4 DEF WaitsBounded
  <2>2. CASE Reject
    BY <2>2 DEF Reject, RoundsServe, WaitsBounded
  <2>3. QED
    BY <2>1, <2>2
<1>5. l' # 1 /\ time_stamp' <= Taken' /\ time_stamp' < Taken'
  BY <1>1, <1>2, <1>3
<1>6. iter_size' >= 1
  BY <1>1 DEF RoundsServe
<1>7. QED
  BY <1>1, <1>4, <1>5, <1>6 DEF RoundsServe

LEMMA RoundsServeStep ==
    ASSUME EcommerceInv, RoundsServe, [Next]_vars
    PROVE  RoundsServe'
<1> USE DEF EcommerceInv
<1>1. CASE NextService
  <2>1. /\ phase' = "round" /\ time_stamp' = 0 /\ i' >= 1
        /\ executed' = executed
    BY <1>1 DEF NextService, EcommerceTypeOK, results
  <2>2. Taken' = 0
    <3>1. i + 1 \in Service
      BY <1>1 DEF NextService, EcommerceTypeOK, Service
    <3>2. PICK q : q = req_arr[i + 1]
      OBVIOUS
    <3>3. q \in Seq(Resource) /\ DOMAIN q = 1 .. Len(q) /\ Len(q) \in Nat
      BY <3>1, <3>2, RequestsOf
    <3>4. /\ temp_queue' = [r \in 1 .. Len(q) |-> <<r, q[r]>>]
          /\ req_arr'[i'] = q
      BY <1>1, <3>2, <3>3 DEF NextService, input
    <3>5. Len(temp_queue') = Len(q)
      BY <3>3, <3>4
    <3>6. QED
      BY <3>3, <3>4, <3>5 DEF Taken
  <2>3. QED
    BY <2>1, <2>2 DEF RoundsServe, WaitsBounded
<1>2. CASE Report
  BY <1>2 DEF Report, RoundsServe, WaitsBounded, results
<1>3. CASE NextRound
  <2>1. /\ phase = "round"
        /\ UNCHANGED <<resources_available, i, temp_queue, time_stamp,
                       executed>>
        /\ Taken' = Taken
    BY <1>3 DEF NextRound, input, results, Taken
  <2>2. CASE temp_queue = <<>>
    BY <1>3, <2>1, <2>2 DEF NextRound, RoundsServe, WaitsBounded
  <2>3. CASE temp_queue # <<>>
    <3>1. /\ worker_resources' = resources_available[i] /\ l' = 1
          /\ iter_size' = Len(temp_queue)
      BY <1>3, <2>3 DEF NextRound
    <3>2. Len(temp_queue) >= 1
      BY <2>3 DEF EcommerceTypeOK
    <3>3. QED
      BY <2>1, <3>1, <3>2 DEF RoundsServe, WaitsBounded
  <2>4. QED
    BY <2>2, <2>3
<1>4. CASE Execute \/ Reject
  BY <1>4, ServeStep
<1>5. CASE Wait
  <2>1. l # 1 /\ l \in Nat /\ l >= 1
    BY <1>5, WaitNotFirst DEF Wait, EcommerceTypeOK, QueueIsRest
  <2>2. /\ phase = "requests" /\ phase' = phase /\ l' = l + 1
        /\ UNCHANGED <<time_stamp, iter_size, executed>> /\ Taken' = Taken
    BY <1>5 DEF Wait, input, results, Taken
  <2>3. QED
    BY <2>1, <2>2 DEF RoundsServe, WaitsBounded
<1>6. CASE EndRound
  <2>1. /\ phase = "requests" /\ phase' = "round" /\ l > iter_size
        /\ time_stamp' = time_stamp + 1 /\ executed' = executed
        /\ Taken' = Taken
    BY <1>6 DEF EndRound, input, results, Taken
  <2>2. l # 1 /\ time_stamp \in Nat
    BY <2>1 DEF RoundsServe, EcommerceTypeOK
  <2>3. i >= 1
    BY <2>1 DEF QueueIsRest
  <2>4. Taken \in Nat
    BY <2>3, TakenNumber
  <2>5. time_stamp' <= Taken
    BY <2>1, <2>2, <2>4 DEF RoundsServe
  <2>6. QED
    BY <2>1, <2>5 DEF RoundsServe, WaitsBounded
<1>7. CASE UNCHANGED vars
  BY <1>7 DEF vars, input, loop, results, RoundsServe, WaitsBounded, Taken
<1>8. QED
  BY <1>1, <1>2, <1>3, <1>4, <1>5, <1>6, <1>7 DEF Next

(***************************************************************************)
(* No request starves, although one that has to wait holds up all behind   *)
(* it, and although from the second round on the resources of the wrong    *)
(* requests are taken from the threads: each round handles at least one    *)
(* request, so request r waits for no more than r - 1 rounds, and the      *)
(* rounds of a service end (lines 118-150).                                *)
(***************************************************************************)
THEOREM NobodyStarves ==
    Spec => [](/\ WaitsBounded
               /\ phase = "requests" => time_stamp < Len(req_arr[i]))
<1>1. Init => RoundsServe
  BY DEF Init, RoundsServe, WaitsBounded
<1>2. ASSUME EcommerceInv, RoundsServe, phase = "requests"
      PROVE  time_stamp < Len(req_arr[i])
  <2>1. i \in Service /\ i >= 1
    BY <1>2, CurrentService DEF EcommerceInv, QueueIsRest
  <2>2. /\ Len(req_arr[i]) \in Nat /\ Len(temp_queue) \in Nat
        /\ time_stamp \in Nat /\ l \in Nat /\ iter_size \in Nat
    BY <1>2, <2>1, RequestsOf, QueueLength DEF EcommerceInv, EcommerceTypeOK
  <2>3. CASE l = 1
    <3>1. Len(temp_queue) >= 1
      BY <1>2, <2>2, <2>3 DEF EcommerceInv, QueueIsRest, RoundsServe
    <3>2. QED
      BY <1>2, <2>2, <3>1 DEF RoundsServe, Taken
  <2>4. CASE l # 1
    BY <1>2, <2>2, <2>4 DEF RoundsServe, Taken
  <2>5. QED
    BY <2>3, <2>4
<1>3. RoundsServe => WaitsBounded
  BY DEF RoundsServe
<1>4. QED
  BY <1>1, <1>2, <1>3, RoundsServeStep, EcommerceAlways, PTL DEF Spec
=============================================================================
