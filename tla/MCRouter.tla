------------------------------ MODULE MCRouter ------------------------------
(* Instances of Router for TLC. *)
EXTENDS Router

CONSTANTS a, b, c, d

Four == {a, b, c, d}

\* The links that may be present: none or one of some weight between any two.
Simple(R, W, pairs) ==
    {[u \in R |-> {<<v, f[<<u, v>>]>> : v \in {x \in R : <<u, x>> \in pairs
                                               /\ f[<<u, x>>] # NULL}}]
        : f \in [pairs -> W \cup {NULL}]}

\* Graphs on four routers: a cycle of four links with one chord.
Cycles ==
    Simple(Four, Weight, {<<a, b>>, <<b, c>>, <<c, d>>, <<d, a>>, <<a, c>>})
=============================================================================
