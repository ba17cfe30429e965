----------------------------- MODULE Forwarding -----------------------------
(***************************************************************************)
(* What the program of NetworkProtocols/OSPF.cpp promises of a path, said  *)
(* without tables: routers come and go, and a path that is asked for goes  *)
(* over links that exist, passes no router twice and ends at its finish,   *)
(* unless the finish is out of reach.                                      *)
(***************************************************************************)
EXTENDS Naturals, Sequences

CONSTANTS Router, NULL, Weight, Infinity

VARIABLES
    routers,
    neighbors,   \* the outgoing links <<router, weight>> of every router
    program,     \* "menu", or "path" while a path is looked for
    at, finish,  \* the router reached, and the one to reach
    path         \* the routers passed

topology == <<routers, neighbors>>
walk == <<at, finish, path>>

Init ==
    /\ routers = {}
    /\ neighbors = <<>>
    /\ program = "menu"
    /\ at = NULL
    /\ finish = NULL
    /\ path = <<>>

Linked(r, to) == \E link \in neighbors[r] : link[1] = to

Without(links, r) == {link \in links : link[1] # r}

\* Every way from u to v has a length of Infinity or more: some lower bound
\* on the lengths of the ways from u, growing over a link by no more than
\* its weight, says so of v.
OutOfReach(u, v) ==
    \E bound \in [routers -> 0 .. Infinity] :
        /\ bound[u] = 0 /\ bound[v] = Infinity
        /\ \A r \in routers : \A link \in neighbors[r] :
             bound[link[1]] <= bound[r] + link[2]

\* A router appears, with links to and from others.
Appear(id) ==
    /\ program = "menu"
    /\ id \notin routers
    /\ routers' = routers \cup {id}
    /\ neighbors' \in [routers' -> SUBSET (routers' \X Weight)]
    /\ \A r \in routers : Without(neighbors'[r], id) = neighbors[r]
    /\ UNCHANGED <<program, walk>>

\* A router disappears with all links to and from it.
Vanish(id) ==
    /\ program = "menu"
    /\ id \in routers
    /\ routers' = routers \ {id}
    /\ neighbors' = [r \in routers' |-> Without(neighbors[r], id)]
    /\ UNCHANGED <<program, walk>>

Ask(from, to) ==
    /\ program = "menu"
    /\ from # to
    /\ program' = "path"
    /\ at' = from
    /\ finish' = to
    /\ UNCHANGED <<topology, path>>

\* The path goes on over a link, to a router it has not passed.
Forward(to) ==
    /\ program = "path"
    /\ at \in routers \ {finish}
    /\ to \in routers \ {at}
    /\ Linked(at, to)
    /\ \A i \in DOMAIN path : path[i] # to
    /\ at' = to
    /\ path' = Append(path, at)
    /\ UNCHANGED <<topology, program, finish>>

EndWalk ==
    /\ program = "path"
    /\ program' = "menu" /\ at' = NULL /\ finish' = NULL /\ path' = <<>>
    /\ UNCHANGED topology

Arrive == at = finish /\ EndWalk

\* Only at its start a path may turn out not to exist.
NoPath ==
    /\ path = <<>>
    /\ at \in routers \ {finish}
    /\ finish \in routers => OutOfReach(at, finish)
    /\ EndWalk

\* The program ends, or is killed when asked about a router that is unknown.
End ==
    /\ \/ program = "menu" /\ program' = "exited"
       \/ program = "menu" /\ Router \ routers # {} /\ program' = "crashed"
       \/ /\ program = "path" /\ path = <<>> /\ at \notin routers
          /\ program' = "crashed"
    /\ UNCHANGED <<topology, walk>>

Next ==
    \/ \E id \in Router : Appear(id) \/ Vanish(id)
    \/ \E from, to \in Router : Ask(from, to)
    \/ \E to \in routers : Forward(to)
    \/ Arrive \/ NoPath \/ End

Spec == Init /\ [][Next]_<<topology, program, walk>>
=============================================================================
