----------------------------- MODULE MCLRUCache -----------------------------
(* Instances of LRUCache for TLC. *)
EXTENDS LRUCache, TLC

CONSTANTS u1, u2, u3, u4, n1, n2, n3, n4, page, error, Garbage

FourUrls == {u1, u2, u3, u4}
FourNodes == {n1, n2, n3, n4}

\* A page, the "1" that SendHttpGetRequest returns when it fails, and "-1".
PageOrError == {page, error, NotFound}

Unset == {NULL, Garbage}

\* The code compares URLs, and addresses, with each other only.
Symmetric == Permutations(FourUrls) \cup Permutations(FourNodes)
=============================================================================
