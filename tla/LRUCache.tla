------------------------------ MODULE LRUCache ------------------------------
(***************************************************************************)
(* NetworkProtocols/LRU.cpp, the web cache: a map from URLs to the nodes   *)
(* of a doubly linked list between the sentinels head and tail, and the    *)
(* loop that serves a request from it or fetches the page.                 *)
(*                                                                         *)
(* The heap is the functions key, val, prev and next on addresses.  An     *)
(* evicted node is never freed, but nothing points to it any more: its     *)
(* address is used again for a later new Node.  Fetching a page is         *)
(* modelled by its outcome.  A URL is one that ExtractHostAndPath accepts; *)
(* for the others the loop only prints an error.                           *)
(*                                                                         *)
(* get answers "-1" for a URL that is not in the map, and the loop takes   *)
(* a page with just these characters for the same answer: it fetches the   *)
(* page again, and put adds a second node for a key that has one.          *)
(***************************************************************************)
EXTENDS Integers, FiniteSets

CONSTANTS
    Url,
    Response,       \* what SendHttpGetRequest may return, NotFound included
    Node,           \* addresses for the nodes, a bound on the list's length
    head, tail,     \* the addresses of the sentinels
    NULL,
    NotFound,       \* "-1", the result of get for a URL not in the map
    Cap,            \* the capacity typed in
    Uninitialised   \* what the fields not set by Node's constructor may hold

Addr == Node \cup {head, tail}

ASSUME CacheAssumption ==
    /\ Cap \in Nat \ {0}
    /\ IsFiniteSet(Url)
    /\ head # tail /\ head \notin Node /\ tail \notin Node
    /\ NULL \notin Addr
    /\ NotFound \notin Url

VARIABLES
    key, val, prev, next,   \* the fields of every node
    listed,                 \* the nodes on the list: new returns another one
    m,                      \* the map, a partial function from Url to Node
    request,                \* the URL read last, s in main()
    status,                 \* "running", or "crashed" in print
    refetched               \* history: a page was fetched that the cache had

heap == <<key, val, prev, next, listed>>
vars == <<heap, m, request, status, refetched>>

Init ==
    /\ key = [n \in Addr |-> NotFound]
    /\ val = [n \in Addr |-> NotFound]
    /\ prev \in {[n \in Addr |-> IF n = tail THEN head ELSE g] :
                    g \in Uninitialised}
    /\ next \in {[n \in Addr |-> IF n = head THEN tail ELSE g] :
                    g \in Uninitialised}
    /\ listed = {}
    /\ m = <<>>
    /\ request = NotFound
    /\ status = "running"
    /\ refetched = FALSE

-----------------------------------------------------------------------------
(* The list, as a pair of pointer fields l = [next |-> _, prev |-> _] *)

\* Fault: the node behind the new one keeps its prev.
addNodeHalf(l, newnode) ==
    [next |-> [l.next EXCEPT ![head] = newnode, ![newnode] = l.next[head]],
     prev |-> [l.prev EXCEPT ![newnode] = head]]

addNode(l, newnode) ==
    [next |-> [l.next EXCEPT ![head] = newnode, ![newnode] = l.next[head]],
     prev |-> [l.prev EXCEPT ![newnode] = head, ![l.next[head]] = newnode]]

deleteNode(l, delnode) ==
    [next |-> [l.next EXCEPT ![l.prev[delnode]] = l.next[delnode]],
     prev |-> [l.prev EXCEPT ![l.next[delnode]] = l.prev[delnode]]]

List == [next |-> next, prev |-> prev]

-----------------------------------------------------------------------------
(* The loop of main(): get, and put after a fetch when get gave "-1". *)

\* print() follows next from head to NULL, and reads tail->next, never set.
Display == status' = IF next'[tail] = NULL THEN "running" ELSE "crashed"

\* The list after get has found the node of u.
Moved(u) == addNode(deleteNode(List, m[u]), m[u])

\* Fault: get does not move the node to the front.
HitInPlace(u) ==
    /\ status = "running"
    /\ u \in DOMAIN m /\ val[m[u]] # NotFound
    /\ request' = u
    /\ UNCHANGED <<heap, m, refetched>>
    /\ Display

\* The page is in the cache: its node moves to the front.
Hit(u) ==
    /\ status = "running"
    /\ u \in DOMAIN m /\ val[m[u]] # NotFound
    /\ request' = u
    /\ next' = Moved(u).next /\ prev' = Moved(u).prev
    /\ m' = [m EXCEPT ![u] = next'[head]]
    /\ UNCHANGED <<key, val, listed, refetched>>
    /\ Display

Full == Cardinality(DOMAIN m) = Cap

\* The nodes evicted from the list l, and what is left of it and of the map.
Evicted(l) == IF Full THEN {l.prev[tail]} ELSE {}

Shortened(l) == IF Full THEN deleteNode(l, l.prev[tail]) ELSE l

Remaining(l) == DOMAIN m \ {key[x] : x \in Evicted(l)}

\* A fetched page is put in front of the list l.
put(u, l) ==
    /\ \E r \in Response, n \in Node \ (listed \ Evicted(l)) :
        /\ key' = [key EXCEPT ![n] = u]
        /\ val' = [val EXCEPT ![n] = r]
        /\ next' = addNode(Shortened(l), n).next
        /\ prev' = addNode(Shortened(l), n).prev
        /\ listed' = (listed \ Evicted(l)) \cup {n}
    /\ m' = [x \in Remaining(l) \cup {u} |-> IF x = u THEN next'[head]
                                             ELSE m[x]]

\* The page is not in the cache.
Miss(u) ==
    /\ status = "running"
    /\ u \notin DOMAIN m
    /\ request' = u
    /\ put(u, List)
    /\ UNCHANGED refetched
    /\ Display

\* The page in the cache is "-1": get has moved its node, it is fetched again.
Refetch(u) ==
    /\ status = "running"
    /\ u \in DOMAIN m /\ val[m[u]] = NotFound
    /\ request' = u
    /\ put(u, Moved(u))
    /\ refetched' = TRUE
    /\ Display

Next == \E u \in Url : Hit(u) \/ Miss(u) \/ Refetch(u)

Spec == Init /\ [][Next]_vars

-----------------------------------------------------------------------------
(* Properties *)

TypeOK ==
    /\ key \in [Addr -> Url \cup {NotFound}]
    /\ val \in [Addr -> Response \cup {NotFound}]
    /\ prev \in [Addr -> Addr \cup Uninitialised]
    /\ next \in [Addr -> Addr \cup Uninitialised]
    /\ listed \subseteq Node
    /\ DOMAIN m \subseteq Url
    /\ m \in [DOMAIN m -> Node]
    /\ refetched \in BOOLEAN
    /\ request \in Url \cup {NotFound}
    /\ status \in {"running", "crashed"}

\* c lists the addresses of l from head over n nodes to tail, both ways.
Chain(l, n, c) ==
    /\ c[0] = head
    /\ c[n + 1] = tail
    /\ \A i \in 1 .. n : c[i] \in Node
    /\ \A i, j \in 1 .. n : c[i] = c[j] => i = j
    /\ \A i \in 0 .. n : l.next[c[i]] = c[i + 1] /\ l.prev[c[i + 1]] = c[i]

Visited(n, c) == {c[i] : i \in 1 .. n}

Mapped == {m[u] : u \in DOMAIN m}

\* The n nodes of order, between the sentinels.
Ends(n, order) ==
    [i \in 0 .. n + 1 |-> IF i = 0 THEN head
                          ELSE IF i = n + 1 THEN tail ELSE order[i]]

(***************************************************************************)
(* From head to tail and back the pointers visit every node of the list    *)
(* once, and a URL in the map has a node on the list that holds it, so no  *)
(* page of the map is lost, whatever the pages are.  Until a page "-1" is  *)
(* requested again while the cache has it, the list and the map also hold  *)
(* the same nodes, at most Cap: the node evicted is the last one, its key  *)
(* the one to erase (lines 102-137).                                       *)
(***************************************************************************)
ListMatchesMap ==
    LET n == Cardinality(listed) IN
    /\ \E order \in [1 .. n -> listed] :
        /\ Chain(List, n, Ends(n, order))
        /\ Visited(n, Ends(n, order)) = listed
    /\ \A u \in DOMAIN m : m[u] \in listed /\ key[m[u]] = u
    /\ ~refetched => listed = Mapped /\ n <= Cap

\* The n pages on a list, from head to tail.
PagesOf(nextOf, keyOf, valOf, n) ==
    LET Nth[i \in 0 .. n] == IF i = 0 THEN head ELSE nextOf[Nth[i - 1]]
    IN  [i \in 1 .. n |-> <<keyOf[Nth[i]], valOf[Nth[i]]>>]

Pages == PagesOf(next, key, val, Cardinality(DOMAIN m))

Recent == INSTANCE RecentPages WITH pages <- Pages

(***************************************************************************)
(* The cache keeps the pages requested last, in their order, and fetches   *)
(* none that it keeps: every step is one of RecentPages, until a page "-1" *)
(* is requested again (lines 205-213).                                     *)
(***************************************************************************)
KeepsRecentPages ==
    Recent!Init /\ [][~refetched' => Recent!Next]_<<request, Pages>>
=============================================================================
