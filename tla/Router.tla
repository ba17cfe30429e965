------------------------------- MODULE Router -------------------------------
(***************************************************************************)
(* class Router of NetworkProtocols/OSPF.cpp: the links and the routing    *)
(* table of every router, and updateRoutingTable, which recomputes one     *)
(* router's table: Dijkstra's algorithm with a priority queue that keeps   *)
(* stale entries, then the table, whose next hops are found by following   *)
(* the predecessors back to a neighbor.                                    *)
(*                                                                         *)
(* A router stands for its id and its address.  Two choices that depend on *)
(* addresses and on the order in which links were typed in are left open:  *)
(* which of two queue entries at the same distance is on top, and the      *)
(* order in which the links of a router are scanned.                       *)
(***************************************************************************)
EXTENDS Integers, FiniteSets, FiniteSetsExt

CONSTANTS
    Router,      \* the routers that may exist
    NULL,        \* the null pointer
    Weight,      \* the link weights
    Infinity,    \* the "infinite" distance, 100000 in the code
    Topologies   \* the link structures RouterSpec starts from

Link == Router \X Weight

ASSUME RouterAssumption ==
    /\ IsFiniteSet(Router)
    /\ NULL \notin Router
    /\ Weight \subseteq Nat
    /\ Infinity \in Nat \ {0}

ASSUME TopologyAssumption == Topologies \subseteq [Router -> SUBSET Link]

VARIABLES
    routers,        \* all_router_ptrs
    neighbors,      \* the outgoing links <<router, weight>> of every router
    routing_table,  \* per router, a partial function from routers to hops
    phase,          \* the part of updateRoutingTable in progress
    self,           \* this
    distance,
    next_hop,       \* the predecessor on the way from self
    pq,             \* the entries <<distance, router>> of the queue
    node,           \* the router taken from the queue last ...
    scan,           \* ... and its links not yet looked at
    todo,           \* the destinations whose table entry is not yet made
    dest,           \* the destination whose predecessors are followed
    temp            \* and the place reached

search == <<distance, next_hop, pq, node, scan>>
build == <<todo, dest, temp>>
topology == <<routers, neighbors>>
updateVars == <<routing_table, phase, self, search, build>>
routerVars == <<topology, updateVars>>

\* A partial function f with the value of k set to v.
Put(f, k, v) == [x \in DOMAIN f \cup {k} |-> IF x = k THEN v ELSE f[x]]

\* No update is in progress; the locals have no value.
NoUpdate ==
    /\ phase = "idle"
    /\ self = NULL
    /\ distance = <<>>
    /\ next_hop = <<>>
    /\ pq = {}
    /\ node = NULL
    /\ scan = {}
    /\ todo = {}
    /\ dest = NULL
    /\ temp = NULL

-----------------------------------------------------------------------------
(* Dijkstra's algorithm *)

Start(r) ==
    /\ phase = "idle"
    /\ r \in routers
    /\ phase' = "search"
    /\ self' = r
    /\ routing_table' = [routing_table EXCEPT ![r] = <<>>]
    /\ distance' = [x \in routers |-> IF x = r THEN 0 ELSE Infinity]
    /\ next_hop' = [x \in routers |-> NULL]
    /\ pq' = {<<0, r>>}
    /\ UNCHANGED <<topology, node, scan, build>>

\* Fault: the queue holds distance, its maximum is a farthest router.
TopFarthest(p) == \A q \in pq : p[1] >= q[1]

\* The queue holds -distance, so that its maximum is a nearest router.
Top(p) == \A q \in pq : p[1] <= q[1]

Pop ==
    /\ phase = "search"
    /\ scan = {}
    /\ \E p \in pq :
        /\ Top(p)
        /\ pq' = pq \ {p}
        /\ node' = p[2]
        /\ scan' = neighbors[p[2]]
    /\ UNCHANGED <<topology, routing_table, phase, self, distance, next_hop,
                   build>>

\* Fault: the way up to node is not counted.
ThroughForgetful(link) == link[2]

\* The length of the way over node and one of its links.
Through(link) == distance[node] + link[2]

\* Fault: a link that gives a way of the same length is used as well.
NotLonger(link) == Through(link) <= distance[link[1]]

\* A link is used when it makes the way to its end strictly shorter.
Shorter(link) == Through(link) < distance[link[1]]

Relax ==
    /\ phase = "search"
    /\ \E link \in scan :
        /\ scan' = scan \ {link}
        /\ IF Shorter(link)
           THEN /\ distance' = [distance EXCEPT ![link[1]] = Through(link)]
                /\ next_hop' = [next_hop EXCEPT ![link[1]] = node]
                /\ pq' = pq \cup {<<Through(link), link[1]>>}
           ELSE UNCHANGED <<distance, next_hop, pq>>
    /\ UNCHANGED <<topology, routing_table, phase, self, node, build>>

-----------------------------------------------------------------------------
(* The table *)

\* The queue is empty; routers that were not reached lead to themselves.
EndSearch ==
    /\ phase = "search"
    /\ scan = {}
    /\ pq = {}
    /\ phase' = "table"
    /\ next_hop' =
        [x \in routers |-> IF next_hop[x] = NULL THEN x ELSE next_hop[x]]
    /\ todo' = routers
    /\ UNCHANGED <<topology, routing_table, self, distance, pq, node, scan,
                   dest, temp>>

neighbors_set == {link[1] : link \in neighbors[self]}

SetEntry(d, hop) ==
    /\ routing_table' =
        [routing_table EXCEPT ![self] = Put(routing_table[self], d, hop)]
    /\ todo' = todo \ {d}

\* self itself, the routers reached straight from self, the unreachable ones
DirectEntry(d) ==
    /\ phase = "table"
    /\ dest = NULL
    /\ d \in todo
    /\ \/ next_hop[d] = self /\ SetEntry(d, d)
       \/ next_hop[d] # self /\ next_hop[d] = d /\ SetEntry(d, NULL)
    /\ UNCHANGED <<topology, phase, self, search, dest, temp>>

\* A router reached through another: follow the predecessors ...
IndirectEntry(d) ==
    /\ phase = "table"
    /\ dest = NULL
    /\ d \in todo
    /\ next_hop[d] \notin {self, d}
    /\ dest' = d
    /\ temp' = next_hop[d]
    /\ UNCHANGED <<topology, routing_table, phase, self, search, todo>>

Chase ==
    /\ dest # NULL
    /\ temp \notin neighbors_set
    /\ temp' = next_hop[temp]
    /\ UNCHANGED <<topology, routing_table, phase, self, search, todo, dest>>

\* Fault: the first predecessor is taken, neighbor or not.
EndChaseHasty ==
    /\ dest # NULL
    /\ SetEntry(dest, temp)
    /\ dest' = NULL
    /\ temp' = NULL
    /\ UNCHANGED <<topology, phase, self, search>>

\* ... up to the first that is a neighbor of self.
EndChase ==
    /\ dest # NULL
    /\ temp \in neighbors_set
    /\ SetEntry(dest, temp)
    /\ dest' = NULL
    /\ temp' = NULL
    /\ UNCHANGED <<topology, phase, self, search>>

Return ==
    /\ phase = "table"
    /\ todo = {}
    /\ phase' = "idle"
    /\ self' = NULL
    /\ distance' = <<>>
    /\ next_hop' = <<>>
    /\ node' = NULL
    /\ UNCHANGED <<topology, routing_table, pq, scan, build>>

UpdateStep ==
    \/ Pop
    \/ Relax
    \/ EndSearch
    \/ \E d \in routers : DirectEntry(d) \/ IndirectEntry(d)
    \/ Chase
    \/ EndChase
    \/ Return

-----------------------------------------------------------------------------
(***************************************************************************)
(* Routers with fixed links, each of which may update its table at any     *)
(* time.  The program around them is in module Ospf.                       *)
(***************************************************************************)
RouterInit ==
    /\ routers = Router
    /\ neighbors \in Topologies
    /\ routing_table = [r \in Router |-> <<>>]
    /\ NoUpdate

RouterNext == UpdateStep \/ \E r \in routers : Start(r)

RouterSpec == RouterInit /\ [][RouterNext]_routerVars

\* updateRoutingTable is sequential code that never blocks.
FairRouterSpec == RouterSpec /\ WF_routerVars(UpdateStep)
-----------------------------------------------------------------------------
(* Properties *)

Hops(S) == S \cup {NULL}

RouterTypeOK ==
    /\ routers \subseteq Router
    /\ neighbors \in [routers -> SUBSET (routers \X Weight)]
    /\ DOMAIN routing_table = routers
    /\ phase \in {"idle", "search", "table"}
    /\ pq \subseteq (0 .. Infinity - 1) \X routers
    /\ todo \subseteq routers
    /\ dest \in Hops(routers)
    /\ phase = "idle" => NoUpdate
    /\ phase # "idle" =>
        /\ self \in routers
        /\ distance \in [routers -> 0 .. Infinity]
        /\ next_hop \in [routers -> Hops(routers)]
    /\ scan # {} => node \in routers /\ scan \subseteq neighbors[node]
    /\ dest # NULL => phase = "table" /\ temp \in routers \ {self}

\* A router that was reached and will not be taken from the queue again with
\* its present distance.
Settled(v) == distance[v] < Infinity /\ <<distance[v], v>> \notin pq

(***************************************************************************)
(* The greedy choice is right: a router taken from the queue has its final *)
(* distance and predecessor, although the queue also delivers stale        *)
(* entries and their links are scanned again (lines 47-61).                *)
(***************************************************************************)
DistancesSettle ==
    [][phase = "search" /\ phase' = "search" =>
        \A v \in routers : Settled(v) =>
            distance'[v] = distance[v] /\ next_hop'[v] = next_hop[v]]_routerVars

(***************************************************************************)
(* When the table is built the distances solve Bellman's equations and     *)
(* next_hop holds, for every router reached, a predecessor whose link to   *)
(* it is tight; routers at distance Infinity lead to themselves (63-68).   *)
(***************************************************************************)
ShortestPathTree ==
    phase = "table" =>
        /\ distance[self] = 0 /\ next_hop[self] = self
        /\ \A u \in routers : \A link \in neighbors[u] :
             distance[link[1]] <= distance[u] + link[2]
        /\ \A v \in routers \ {self} :
             IF distance[v] < Infinity
             THEN /\ next_hop[v] # v
                  /\ \E link \in neighbors[next_hop[v]] :
                       /\ link[1] = v
                       /\ distance[v] = distance[next_hop[v]] + link[2]
             ELSE next_hop[v] = v

(***************************************************************************)
(* Reference: the length of a shortest walk from s of at most n links      *)
(* between routers in R, with the links N, counted up to Infinity.         *)
(***************************************************************************)
Closer(R, N, D) ==
    [v \in R |-> Min({D[v]} \cup
        {D[p[1]] + p[2] : p \in {q \in R \X Weight :
                                   <<v, q[2]>> \in N[q[1]]}})]

Walks(R, N, s, n) ==
    LET D[k \in 0 .. n] ==
            IF k = 0
            THEN [v \in R |-> IF v = s THEN 0 ELSE Infinity]
            ELSE Closer(R, N, D[k - 1])
    IN D[n]

Shortest(s) == Walks(routers, neighbors, s, Cardinality(routers))

(***************************************************************************)
(* README: "Uses Dijkstra's algorithm to calculate the shortest path to    *)
(* each router": the distances the table is built from are the shortest.   *)
(***************************************************************************)
DistancesShortest == phase = "table" => distance = Shortest(self)

(***************************************************************************)
(* Every table entry made is NULL exactly for the routers out of reach and *)
(* otherwise a neighbor of self that is no farther from self than the      *)
(* destination (lines 75-102).                                             *)
(***************************************************************************)
EntriesLeadOut ==
    phase = "table" =>
        \A d \in routers \ (todo \cup {self}) :
            /\ d \in DOMAIN routing_table[self]
            /\ LET hop == routing_table[self][d] IN
               IF distance[d] < Infinity
               THEN hop \in neighbors_set /\ distance[hop] <= distance[d]
               ELSE hop = NULL

\* updateRoutingTable returns: the queue runs empty and the predecessors of
\* every router lead back to a neighbor of self.
UpdateReturns == (phase = "search") ~> (phase = "idle")
=============================================================================
