------------------------------- MODULE MCOspf -------------------------------
(* Instances of Ospf for TLC. *)
EXTENDS Ospf, MCRouter, TLC

\* Routers are told apart by nothing but their links.
Symmetric == Permutations(Four)

\* At most one link of the given weight, to or from some router.
One(weight) == {{}} \cup {{<<r, weight>>} : r \in Four}

\* A new router gets at most one short link in each direction, or one long
\* link that leads to it.
ShortOrLong == (One(1) \X One(1)) \cup (One(3) \X {{}})

\* Only RouterSpec starts from a given link structure.
NoTopologies == {}
=============================================================================
