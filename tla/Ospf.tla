-------------------------------- MODULE Ospf --------------------------------
(***************************************************************************)
(* The menu of NetworkProtocols/OSPF.cpp: routers are created and deleted, *)
(* all tables are recomputed after each change, and a path is found by     *)
(* following the tables from router to router.                             *)
(*                                                                         *)
(* A request that changes nothing is not an action: creating a router      *)
(* whose id exists, deleting one that does not, printing the tables, the   *)
(* path from a router that exists to itself.                               *)
(***************************************************************************)
EXTENDS Router, Sequences

CONSTANTS
    LinkLists   \* the pairs of lists of links, those that lead to a new router
                \* and those that leave it, that the user may type in

ASSUME OspfAssumption == LinkLists \subseteq (SUBSET Link) \X (SUBSET Link)

VARIABLES
    program,   \* what main() is doing
    pending,   \* the routers whose tables are still to be recomputed
    at,        \* findPath: the router reached,
    finish,    \* the router to reach
    path       \* and the routers passed

walk == <<at, finish, path>>
vars == <<routerVars, program, pending, walk>>

Init ==
    /\ routers = {}
    /\ neighbors = <<>>
    /\ routing_table = <<>>
    /\ NoUpdate
    /\ program = "menu"
    /\ pending = {}
    /\ at = NULL
    /\ finish = NULL
    /\ path = <<>>

\* main() reads the next choice.
Ready == program = "menu" /\ phase = "idle" /\ pending = {}

-----------------------------------------------------------------------------
(* Creating and deleting routers *)

\* Links to ids that do not exist are refused (lines 186-192, 205-211).
Existing(links) == {link \in links : link[1] \in routers}

CreateRouter(id, incoming, outgoing) ==
    /\ Ready
    /\ id \notin routers
    /\ routers' = routers \cup {id}
    /\ neighbors' =
        [r \in routers \cup {id} |->
            IF r = id THEN Existing(outgoing)
            ELSE neighbors[r] \cup
                    {<<id, link[2]>> : link \in {x \in incoming : x[1] = r}}]
    /\ routing_table' = Put(routing_table, id, <<>>)
    /\ pending' = routers \cup {id}
    /\ UNCHANGED <<phase, self, search, build, program, walk>>

Without(links, del) == {link \in links : link[1] # del}

\* Fault: the tables are not recomputed.
DeleteOnly(del) ==
    /\ Ready
    /\ del \in routers
    /\ routers' = routers \ {del}
    /\ neighbors' = [r \in routers \ {del} |-> Without(neighbors[r], del)]
    /\ routing_table' = [r \in routers \ {del} |-> routing_table[r]]
    /\ UNCHANGED <<phase, self, search, build, program, pending, walk>>

DeleteRouter(del) ==
    /\ Ready
    /\ del \in routers
    /\ routers' = routers \ {del}
    /\ neighbors' = [r \in routers \ {del} |-> Without(neighbors[r], del)]
    /\ routing_table' = [r \in routers \ {del} |-> routing_table[r]]
    /\ pending' = routers \ {del}
    /\ UNCHANGED <<phase, self, search, build, program, walk>>

\* One turn of the loop over all routers that both end with.
UpdateOne ==
    /\ \E r \in pending : Start(r) /\ pending' = pending \ {r}
    /\ UNCHANGED <<program, walk>>

Update == UpdateStep /\ UNCHANGED <<program, pending, walk>>

-----------------------------------------------------------------------------
(* Finding a path *)

EndWalk == program' = "menu" /\ at' = NULL /\ finish' = NULL /\ path' = <<>>

FindPath(from, to) ==
    /\ Ready
    /\ from # to
    /\ program' = "path"
    /\ at' = from
    /\ finish' = to
    /\ UNCHANGED <<routerVars, pending, path>>

\* The path from an unknown router to itself is the null pointer (line 139),
\* and main() reads its id (line 311): the program is killed.
FindSelf(id) ==
    /\ Ready
    /\ id \notin routers
    /\ program' = "crashed"
    /\ UNCHANGED <<routerVars, pending, walk>>

\* routing_table[finish] != NULL: the hop is made.
Hop ==
    /\ program = "path"
    /\ at \in routers \ {finish}
    /\ finish \in DOMAIN routing_table[at]
    /\ routing_table[at][finish] # NULL
    /\ path' = Append(path, at)
    /\ at' = routing_table[at][finish]
    /\ UNCHANGED <<routerVars, program, pending, finish>>

\* There is no path; operator[] leaves an entry if there was none.
NoPath ==
    /\ program = "path"
    /\ at \in routers \ {finish}
    /\ finish \in DOMAIN routing_table[at] => routing_table[at][finish] = NULL
    /\ routing_table' =
        [routing_table EXCEPT ![at] = Put(routing_table[at], finish, NULL)]
    /\ EndWalk
    /\ UNCHANGED <<topology, phase, self, search, build, pending>>

Arrive ==
    /\ program = "path"
    /\ at = finish
    /\ EndWalk
    /\ UNCHANGED <<routerVars, pending>>

\* m[temp] is the null pointer: the program is killed.
Crash ==
    /\ program = "path"
    /\ at \notin routers \cup {finish}
    /\ program' = "crashed"
    /\ UNCHANGED <<routerVars, pending, walk>>

-----------------------------------------------------------------------------

Exit ==
    /\ Ready
    /\ program' = "exited"
    /\ UNCHANGED <<routerVars, pending, walk>>

Menu ==
    \/ \E id \in Router, lists \in LinkLists :
          CreateRouter(id, lists[1], lists[2])
    \/ \E del \in Router : DeleteRouter(del)
    \/ \E from, to \in Router : FindPath(from, to)
    \/ \E id \in Router : FindSelf(id)
    \/ Exit

Work == UpdateOne \/ Update \/ Hop \/ NoPath \/ Arrive \/ Crash

Next == Menu \/ Work

Spec == Init /\ [][Next]_vars

-----------------------------------------------------------------------------
(* Properties *)

(***************************************************************************)
(* No pointer to a deleted router is left in a link, or in a table that    *)
(* can be read: every table that is up to date names live routers only and *)
(* has an entry for each of them (lines 240-261).                          *)
(***************************************************************************)
NoDanglingPointer ==
    /\ \A r \in routers : \A link \in neighbors[r] : link[1] \in routers
    /\ phase = "idle" =>
        \A r \in routers \ pending :
            /\ routers \subseteq DOMAIN routing_table[r]
            /\ \A d \in DOMAIN routing_table[r] :
                 routing_table[r][d] \in Hops(routers)

(***************************************************************************)
(* When the tables are up to date, each names, for every destination in    *)
(* reach, a neighbor of the router that is strictly closer to the          *)
(* destination than the router itself (weights are positive), and NULL for *)
(* the others.  The neighbor is the last one on the path found and not the *)
(* first (lines 81-91), so that the link to it may be no part of a         *)
(* shortest path.                                                          *)
(***************************************************************************)
HopsLeadCloser ==
    Ready =>
        \A r \in routers : \A to \in routers \ {r} :
            LET hop == routing_table[r][to] IN
            IF Shortest(r)[to] < Infinity
            THEN /\ \E link \in neighbors[r] : link[1] = hop
                 /\ Shortest(hop)[to] < Shortest(r)[to]
            ELSE hop = NULL

Service == INSTANCE Forwarding

(***************************************************************************)
(* A path that is looked for goes over links that exist, passes no router  *)
(* twice and arrives, and it is only denied at its start, when no way to   *)
(* its end is shorter than Infinity, although every hop is read from the   *)
(* table of another router (lines 136-158).  Only a path from an unknown   *)
(* router kills the program.                                               *)
(***************************************************************************)
PathsServed == Service!Spec
=============================================================================
