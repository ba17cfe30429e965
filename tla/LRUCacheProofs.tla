--------------------------- MODULE LRUCacheProofs ---------------------------
(***************************************************************************)
(* Proofs about LRUCache, for any capacity, URLs, responses and contents   *)
(* of fresh memory: the doubly linked list is whole and holds every page   *)
(* of the map; until a page "-1" is fetched again they hold the same nodes *)
(* and never more than Cap of them, and the cache implements RecentPages.  *)
(***************************************************************************)
EXTENDS
    LRUCache, Sequences, SequenceTheorems, WellFoundedInduction,
    FiniteSetTheorems, TLAPS

(***************************************************************************)
(* Induction on the natural numbers, for sets: the library's theorem is    *)
(* about a predicate and has no instance here.                             *)
(***************************************************************************)
LEMMA NatLeast ==
    ASSUME NEW T \in SUBSET Nat, T # {}
    PROVE  \E least \in T : \A x \in T : least <= x
<1> DEFINE R == {p \in Nat \X Nat : p[1] < p[2]}
<1>1. OpToRel(<, Nat) = R
  BY Zenon DEF OpToRel
<1>2. IsWellFoundedOn(R, Nat)
  BY <1>1, NatLessThanWellFounded
<1> HIDE DEF R
<1>3. PICK least \in T : \A x \in T : ~(<<x, least>> \in R)
  BY <1>2, WFMin
<1>4. \A x \in T : least <= x
  <2> SUFFICES ASSUME NEW x \in T PROVE least <= x
    OBVIOUS
  <2>1. x \in Nat /\ least \in Nat
    OBVIOUS
  <2>2. ~(x < least)
    BY <1>3, <2>1 DEF R
  <2>3. QED
    BY <2>1, <2>2
<1>5. QED
  BY <1>4

LEMMA SetInduction ==
    ASSUME NEW T, 0 \in T, \A n \in Nat : n \in T => n + 1 \in T
    PROVE  Nat \subseteq T
<1> SUFFICES ASSUME Nat \ T # {} PROVE FALSE
  OBVIOUS
<1>1. PICK least \in Nat \ T : \A x \in Nat \ T : least <= x
  BY NatLeast
<1>2. least # 0 /\ least - 1 \in Nat
  BY <1>1
<1>3. least - 1 \in T
  BY <1>1, <1>2
<1>4. QED
  BY <1>1, <1>2, <1>3

Lists == [next : [Addr -> Addr \cup Uninitialised],
          prev : [Addr -> Addr \cup Uninitialised]]

\* e is the chain c, of n nodes, without its k-th.
Without(c, n, k, e) ==
    \A i \in 0 .. n : e[i] = IF i < k THEN c[i] ELSE c[i + 1]

\* e is the chain c, of n nodes, with one more in front.
InFront(c, n, node, e) == e[1] = node /\ \A i \in 1 .. n : e[i + 1] = c[i]

\* f is the chain c, of n nodes, with its k-th in front.
KthInFront(c, n, k, f) ==
    \A i \in 1 .. n :
        f[i] = IF i = 1 THEN c[k] ELSE IF i <= k THEN c[i - 1] ELSE c[i]

\* All addresses of a chain are different: the sentinels are not nodes.
LEMMA ChainInjective ==
    ASSUME NEW l, NEW n \in Nat,
           NEW c \in [0 .. n + 1 -> Addr], Chain(l, n, c),
           NEW i \in 0 .. n + 1, NEW j \in 0 .. n + 1, c[i] = c[j]
    PROVE  i = j
<1>1. /\ c[0] = head /\ c[n + 1] = tail
      /\ \A x \in 1 .. n : c[x] \in Node
      /\ \A x, y \in 1 .. n : c[x] = c[y] => x = y
  BY DEF Chain
<1>2. head # tail /\ head \notin Node /\ tail \notin Node
  BY CacheAssumption
<1>3. i \in 1 .. n \/ i = 0 \/ i = n + 1
  OBVIOUS
<1>4. j \in 1 .. n \/ j = 0 \/ j = n + 1
  OBVIOUS
<1>5. QED
  BY <1>1, <1>2, <1>3, <1>4

\* deleteNode takes one node out of a chain.
LEMMA DeleteFromChain ==
    ASSUME NEW l \in Lists, NEW n \in Nat, NEW c \in [0 .. n + 1 -> Addr],
           Chain(l, n, c), NEW x \in Visited(n, c)
    PROVE  /\ deleteNode(l, x) \in Lists
           /\ \E e \in [0 .. n -> Addr], k \in 1 .. n :
                /\ Chain(deleteNode(l, x), n - 1, e)
                /\ Visited(n - 1, e) = Visited(n, c) \ {x}
                /\ x = c[k]
                /\ Without(c, n, k, e)
<1>k. PICK k \in 1 .. n : x = c[k]
  BY DEF Visited
<1> DEFINE e == [i \in 0 .. n |-> IF i < k THEN c[i] ELSE c[i + 1]]
           d == deleteNode(l, c[k])
<1>1. /\ c[0] = head /\ c[n + 1] = tail
      /\ \A i \in 1 .. n : c[i] \in Node
      /\ \A i \in 0 .. n : l.next[c[i]] = c[i + 1] /\ l.prev[c[i + 1]] = c[i]
  BY DEF Chain
<1>2. \A i, j \in 0 .. n + 1 : c[i] = c[j] => i = j
  BY ChainInjective
<1>3. l.prev[c[k]] = c[k - 1] /\ l.next[c[k]] = c[k + 1]
  <2>1. k - 1 \in 0 .. n /\ k \in 0 .. n /\ (k - 1) + 1 = k
    OBVIOUS
  <2>2. QED
    BY <2>1, <1>1
<1>4. c[k - 1] \in Addr /\ c[k + 1] \in Addr
  OBVIOUS
<1>5. /\ d.next = [l.next EXCEPT ![c[k - 1]] = c[k + 1]]
      /\ d.prev = [l.prev EXCEPT ![c[k + 1]] = c[k - 1]]
      /\ d = [next |-> d.next, prev |-> d.prev]
  BY <1>3 DEF deleteNode
<1>6. d \in Lists
  BY <1>4, <1>5 DEF Lists
<1>7. e \in [0 .. n -> Addr]
  OBVIOUS
<1> HIDE DEF d
<1>8. e[0] = head /\ e[(n - 1) + 1] = tail
  BY <1>1
<1>9. \A i \in 1 .. n - 1 : e[i] \in Node
  BY <1>1
<1>10. \A i, j \in 1 .. n - 1 : e[i] = e[j] => i = j
  <2> SUFFICES ASSUME NEW i \in 1 .. n - 1, NEW j \in 1 .. n - 1, e[i] = e[j]
               PROVE  i = j
    OBVIOUS
  <2>1. /\ i \in 0 .. n + 1 /\ i + 1 \in 0 .. n + 1
        /\ j \in 0 .. n + 1 /\ j + 1 \in 0 .. n + 1
    OBVIOUS
  <2>2. CASE i < k /\ j < k
    <3>1. c[i] = c[j]
      BY <2>2
    <3>2. QED
      BY <3>1, <2>1, <1>2
  <2>3. CASE i < k /\ ~(j < k)
    <3>1. c[i] = c[j + 1]
      BY <2>3
    <3>2. i = j + 1
      BY <3>1, <2>1, <1>2
    <3>3. QED
      BY <3>2, <2>3
  <2>4. CASE ~(i < k) /\ j < k
    <3>1. c[i + 1] = c[j]
      BY <2>4
    <3>2. i + 1 = j
      BY <3>1, <2>1, <1>2
    <3>3. QED
      BY <3>2, <2>4
  <2>5. CASE ~(i < k) /\ ~(j < k)
    <3>1. c[i + 1] = c[j + 1]
      BY <2>5
    <3>2. i + 1 = j + 1
      BY <3>1, <2>1, <1>2
    <3>3. QED
      BY <3>2
  <2>6. QED
    BY <2>2, <2>3, <2>4, <2>5
<1>11. ASSUME NEW i \in 0 .. n - 1
       PROVE  d.next[e[i]] = e[i + 1] /\ d.prev[e[i + 1]] = e[i]
  <2>1. /\ e[i] = IF i < k THEN c[i] ELSE c[i + 1]
        /\ e[i + 1] = IF i + 1 < k THEN c[i + 1] ELSE c[i + 2]
    OBVIOUS
  <2> HIDE DEF e
  <2>2. CASE i + 1 < k
    <3>1. e[i] = c[i] /\ e[i + 1] = c[i + 1]
      BY <2>1, <2>2
    <3>2. l.next[c[i]] = c[i + 1] /\ l.prev[c[i + 1]] = c[i]
      BY <1>1
    <3>3. c[i] # c[k - 1] /\ c[i + 1] # c[k + 1]
      BY <1>2, <2>2
    <3>4. QED
      BY <3>1, <3>2, <3>3, <1>5 DEF Lists
  <2>3. CASE i + 1 = k
    <3>1. e[i] = c[k - 1] /\ e[i + 1] = c[k + 1]
      BY <2>1, <2>3
    <3>2. QED
      BY <3>1, <1>4, <1>5 DEF Lists
  <2>4. CASE i + 1 > k
    <3>1. e[i] = c[i + 1] /\ e[i + 1] = c[i + 2]
      BY <2>1, <2>4
    <3>2. i + 1 \in 0 .. n /\ (i + 1) + 1 = i + 2
      OBVIOUS
    <3>3. l.next[c[i + 1]] = c[i + 2] /\ l.prev[c[i + 2]] = c[i + 1]
      BY <1>1, <3>2
    <3>4. c[i + 1] # c[k - 1] /\ c[i + 2] # c[k + 1]
      BY <1>2, <2>4
    <3>5. QED
      BY <3>1, <3>3, <3>4, <1>5 DEF Lists
  <2>5. QED
    BY <2>2, <2>3, <2>4
<1>12. Chain(d, n - 1, e)
  BY <1>8, <1>9, <1>10, <1>11 DEF Chain
<1>13. Visited(n - 1, e) = Visited(n, c) \ {c[k]}
  <2>1. ASSUME NEW i \in 1 .. n - 1
        PROVE  e[i] \in Visited(n, c) \ {c[k]}
    BY <1>2 DEF Visited
  <2>2. ASSUME NEW j \in 1 .. n, j # k
        PROVE  c[j] \in Visited(n - 1, e)
    <3>1. CASE j < k
      <4>1. j \in 1 .. n - 1 /\ e[j] = c[j]
        BY <3>1
      <4>2. QED
        BY <4>1 DEF Visited
    <3>2. CASE j > k
      <4>1. j - 1 \in 1 .. n - 1 /\ e[j - 1] = c[j]
        BY <3>2
      <4>2. QED
        BY <4>1 DEF Visited
    <3>3. QED
      BY <3>1, <3>2, <2>2
  <2> HIDE DEF e
  <2>3. Visited(n - 1, e) \subseteq Visited(n, c) \ {c[k]}
    BY <2>1 DEF Visited
  <2>4. Visited(n, c) \ {c[k]} \subseteq Visited(n - 1, e)
    BY <2>2 DEF Visited
  <2>5. QED
    BY <2>3, <2>4
<1>14. Without(c, n, k, e)
  BY DEF Without
<1> HIDE DEF e
<1>15. QED
  BY <1>k, <1>6, <1>7, <1>12, <1>13, <1>14 DEF d

\* addNode puts a node that is not in it at the front of a chain.
LEMMA AddToChain ==
    ASSUME NEW l \in Lists, NEW n \in Nat, NEW c \in [0 .. n + 1 -> Addr],
           Chain(l, n, c),
           NEW node \in Node, node \notin Visited(n, c)
    PROVE  /\ addNode(l, node) \in Lists
           /\ addNode(l, node).next[head] = node
           /\ \E e \in [0 .. n + 2 -> Addr] :
                /\ Chain(addNode(l, node), n + 1, e)
                /\ Visited(n + 1, e) = Visited(n, c) \cup {node}
                /\ InFront(c, n, node, e)
<1> DEFINE e == [i \in 0 .. n + 2 |-> IF i = 0 THEN head
                                      ELSE IF i = 1 THEN node
                                      ELSE c[i - 1]]
           a == addNode(l, node)
<1>1. /\ c[0] = head /\ c[n + 1] = tail
      /\ \A i \in 1 .. n : c[i] \in Node
      /\ \A i \in 0 .. n : l.next[c[i]] = c[i + 1] /\ l.prev[c[i + 1]] = c[i]
  BY DEF Chain
<1>2. \A i, j \in 0 .. n + 1 : c[i] = c[j] => i = j
  BY ChainInjective
<1>3. head # tail /\ head \notin Node /\ tail \notin Node
  BY CacheAssumption
<1>4. \A i \in 0 .. n + 1 : c[i] # node /\ c[i] \in Addr
  <2> SUFFICES ASSUME NEW i \in 0 .. n + 1 PROVE c[i] # node
    OBVIOUS
  <2>1. i \in 1 .. n \/ i = 0 \/ i = n + 1
    OBVIOUS
  <2>2. QED
    BY <2>1, <1>1, <1>3 DEF Visited
<1>5. l.next[head] = c[1] /\ c[1] \in Addr /\ c[1] # node /\ node # head
  BY <1>1, <1>3, <1>4
<1>6. /\ a.next = [l.next EXCEPT ![head] = node, ![node] = c[1]]
      /\ a.prev = [l.prev EXCEPT ![node] = head, ![c[1]] = node]
      /\ a = [next |-> a.next, prev |-> a.prev]
  BY <1>5 DEF addNode
<1>7. head \in Addr /\ node \in Addr
  BY DEF Addr
<1>8. a \in Lists
  BY <1>5, <1>6, <1>7 DEF Lists
<1>9. e \in [0 .. n + 2 -> Addr]
  BY <1>7
<1> HIDE DEF a
<1>10. a.next[head] = node /\ a.next[node] = c[1]
  BY <1>5, <1>6, <1>7 DEF Lists
<1>11. a.prev[node] = head /\ a.prev[c[1]] = node
  BY <1>5, <1>6, <1>7 DEF Lists
<1>12. ASSUME NEW i \in 1 .. n
       PROVE  a.next[c[i]] = c[i + 1] /\ a.prev[c[i + 1]] = c[i]
  <2>1. c[i] # head /\ c[i] # node /\ c[i + 1] # c[1] /\ c[i + 1] # node
    BY <1>1, <1>2, <1>3, <1>4
  <2>2. c[i] \in Addr /\ c[i + 1] \in Addr
    BY <1>4
  <2>3. QED
    BY <2>1, <2>2, <1>1, <1>6 DEF Lists
<1>13. ASSUME NEW i \in 0 .. n + 1
       PROVE  a.next[e[i]] = e[i + 1] /\ a.prev[e[i + 1]] = e[i]
  <2>1. CASE i = 0
    BY <2>1, <1>10, <1>11
  <2>2. CASE i = 1
    BY <2>2, <1>10, <1>11
  <2>3. CASE i > 1
    <3>1. e[i] = c[i - 1] /\ e[i + 1] = c[i] /\ i - 1 \in 1 .. n
      BY <2>3
    <3>2. QED
      BY <3>1, <1>12
  <2>4. QED
    BY <2>1, <2>2, <2>3
<1>14. \A i \in 1 .. n + 1 : e[i] \in Node
  BY <1>1
<1>15. \A i, j \in 1 .. n + 1 : e[i] = e[j] => i = j
  <2> SUFFICES ASSUME NEW i \in 1 .. n + 1, NEW j \in 1 .. n + 1, e[i] = e[j]
               PROVE  i = j
    OBVIOUS
  <2>1. i = 1 \/ i - 1 \in 0 .. n + 1
    OBVIOUS
  <2>2. j = 1 \/ j - 1 \in 0 .. n + 1
    OBVIOUS
  <2>3. CASE i = 1 /\ j = 1
    BY <2>3
  <2>4. CASE i = 1 /\ j # 1
    <3>1. c[j - 1] = node
      BY <2>4
    <3>2. QED
      BY <3>1, <2>2, <2>4, <1>4
  <2>5. CASE i # 1 /\ j = 1
    <3>1. c[i - 1] = node
      BY <2>5
    <3>2. QED
      BY <3>1, <2>1, <2>5, <1>4
  <2>6. CASE i # 1 /\ j # 1
    <3>1. c[i - 1] = c[j - 1]
      BY <2>6
    <3>2. i - 1 = j - 1
      BY <3>1, <2>1, <2>2, <2>6, <1>2
    <3>3. QED
      BY <3>2
  <2>7. QED
    BY <2>3, <2>4, <2>5, <2>6
<1>16. e[0] = head /\ e[(n + 1) + 1] = tail
  BY <1>1
<1>17. Chain(a, n + 1, e)
  BY <1>13, <1>14, <1>15, <1>16 DEF Chain
<1>18. Visited(n + 1, e) = Visited(n, c) \cup {node}
  <2>1. ASSUME NEW i \in 1 .. n + 1
        PROVE  e[i] \in Visited(n, c) \cup {node}
    BY DEF Visited
  <2>2. ASSUME NEW j \in 1 .. n
        PROVE  c[j] \in Visited(n + 1, e)
    <3>1. j + 1 \in 1 .. n + 1 /\ e[j + 1] = c[j]
      OBVIOUS
    <3>2. QED
      BY <3>1 DEF Visited
  <2>3. node \in Visited(n + 1, e)
    <3>1. 1 \in 1 .. n + 1 /\ e[1] = node
      OBVIOUS
    <3>2. QED
      BY <3>1 DEF Visited
  <2> HIDE DEF e
  <2>4. Visited(n + 1, e) \subseteq Visited(n, c) \cup {node}
    BY <2>1 DEF Visited
  <2>5. Visited(n, c) \subseteq Visited(n + 1, e)
    BY <2>2 DEF Visited
  <2>6. QED
    BY <2>3, <2>4, <2>5
<1>19. InFront(c, n, node, e)
  BY DEF InFront
<1> HIDE DEF e
<1>20. QED
  BY <1>8, <1>9, <1>10, <1>17, <1>18, <1>19 DEF a

-----------------------------------------------------------------------------
(* The pages on a list, as a sequence *)

\* The n pages on a chain c.
PagesAlong(c, k, v, n) == [i \in 1 .. n |-> <<k[c[i]], v[c[i]]>>]

\* The walk over next from head meets the addresses of the chain.
LEMMA PagesAre ==
    ASSUME NEW l, NEW n \in Nat, NEW c, Chain(l, n, c), NEW k, NEW v
    PROVE  PagesOf(l.next, k, v, n) = PagesAlong(c, k, v, n)
<1> DEFINE Walk(f) == f = [i \in 0 .. n |-> IF i = 0 THEN head
                                            ELSE l.next[f[i - 1]]]
           w == CHOOSE f : Walk(f)
<1>1. c[0] = head /\ \A i \in 0 .. n : l.next[c[i]] = c[i + 1]
  BY DEF Chain
<1>2. Walk([i \in 0 .. n |-> c[i]])
  <2> DEFINE f == [i \in 0 .. n |-> c[i]]
  <2>1. ASSUME NEW i \in 0 .. n
        PROVE  f[i] = IF i = 0 THEN head ELSE l.next[f[i - 1]]
    <3>1. CASE i = 0
      BY <1>1, <3>1
    <3>2. CASE i # 0
      <4>1. i - 1 \in 0 .. n /\ (i - 1) + 1 = i
        BY <3>2
      <4>2. l.next[c[i - 1]] = c[i]
        BY <1>1, <4>1
      <4>3. QED
        BY <3>2, <4>1, <4>2
    <3>3. QED
      BY <3>1, <3>2
  <2>2. f = [i \in 0 .. n |-> f[i]]
    OBVIOUS
  <2> HIDE DEF f
  <2>3. Walk(f)
    BY <2>1, <2>2
  <2>4. QED
    BY <2>3 DEF f
<1>3. PagesOf(l.next, k, v, n) = [i \in 1 .. n |-> <<k[w[i]], v[w[i]]>>]
  BY DEF PagesOf
<1> HIDE DEF w
<1>4. Walk(w)
  BY <1>2 DEF w
<1>5. \A i \in 0 .. n : w[i] = IF i = 0 THEN head ELSE l.next[w[i - 1]]
  BY <1>4
<1> HIDE DEF Walk
<1> DEFINE T == {i \in Nat : i <= n => w[i] = c[i]}
<1>6. 0 \in T
  BY <1>1, <1>5
<1>7. ASSUME NEW i \in Nat, i \in T PROVE i + 1 \in T
  <2>1. CASE i + 1 <= n
    <3>1. i \in 0 .. n /\ i + 1 \in 0 .. n /\ i + 1 # 0 /\ (i + 1) - 1 = i
      BY <2>1
    <3>2. w[i + 1] = l.next[w[i]]
      BY <1>5, <3>1
    <3>3. w[i] = c[i]
      BY <1>7, <3>1
    <3>4. QED
      BY <1>1, <3>1, <3>2, <3>3
  <2>2. QED
    BY <2>1
<1>8. Nat \subseteq T
  <2> HIDE DEF T
  <2>1. QED
    BY <1>6, <1>7, SetInduction
<1>9. \A i \in 1 .. n : w[i] = c[i]
  BY <1>8
<1>10. QED
  BY <1>3, <1>9 DEF PagesAlong

LEMMA MoveToFront ==
    ASSUME NEW S, NEW p \in Seq(S), NEW k \in 1 .. Len(p)
    PROVE  <<p[k]>> \o SubSeq(p, 1, k - 1) \o SubSeq(p, k + 1, Len(p))
             = [i \in 1 .. Len(p) |-> IF i = 1 THEN p[k]
                                      ELSE IF i <= k THEN p[i - 1] ELSE p[i]]
<1> DEFINE a == <<p[k]>> \o SubSeq(p, 1, k - 1)
           b == SubSeq(p, k + 1, Len(p))
<1>1. /\ a \in Seq(S) /\ Len(a) = k
      /\ \A i \in 1 .. k : a[i] = IF i = 1 THEN p[k] ELSE p[i - 1]
  OBVIOUS
<1>2. /\ b \in Seq(S) /\ Len(b) = Len(p) - k
      /\ \A i \in 1 .. Len(p) - k : b[i] = p[k + i]
  OBVIOUS
<1> HIDE DEF a, b
<1> DEFINE s == a \o b
<1>3. /\ s \in Seq(S) /\ Len(s) = Len(p)
      /\ \A i \in 1 .. Len(p) : s[i] = IF i <= k THEN a[i] ELSE b[i - k]
  <2>1. /\ s \in Seq(S) /\ Len(s) = Len(a) + Len(b)
        /\ \A i \in 1 .. Len(a) + Len(b) :
             s[i] = IF i <= Len(a) THEN a[i] ELSE b[i - Len(a)]
    <3>1. a \in Seq(S) /\ b \in Seq(S)
      BY <1>1, <1>2
    <3>2. QED
      BY ONLY <3>1, ConcatProperties
  <2>2. Len(a) + Len(b) = Len(p)
    BY <1>1, <1>2
  <2>3. QED
    BY <1>1, <2>1, <2>2
<1> HIDE DEF s
<1>4. ASSUME NEW i \in 1 .. Len(p)
      PROVE  s[i] = IF i = 1 THEN p[k] ELSE IF i <= k THEN p[i - 1] ELSE p[i]
  <2>1. CASE i <= k
    BY <2>1, <1>1, <1>3
  <2>2. CASE i > k
    <3>1. i - k \in 1 .. Len(p) - k /\ k + (i - k) = i
      BY <2>2
    <3>2. b[i - k] = p[i]
      BY <1>2, <3>1
    <3>3. QED
      BY <2>2, <3>2, <1>3
  <2>3. QED
    BY <2>1, <2>2
<1>5. s = [i \in 1 .. Len(p) |-> s[i]]
  BY <1>3
<1>6. s = [i \in 1 .. Len(p) |-> IF i = 1 THEN p[k]
                                ELSE IF i <= k THEN p[i - 1] ELSE p[i]]
  BY <1>4, <1>5
<1>7. QED
  BY <1>6 DEF s, a, b

LEMMA PutInFront ==
    ASSUME NEW S, NEW x \in S, NEW p \in Seq(S), NEW k \in 1 .. Len(p) + 1
    PROVE  SubSeq(<<x>> \o p, 1, k)
             = [i \in 1 .. k |-> IF i = 1 THEN x ELSE p[i - 1]]
<1> DEFINE a == <<x>> \o p
<1>1. /\ a \in Seq(S) /\ Len(a) = Len(p) + 1
      /\ \A i \in 1 .. Len(p) + 1 : a[i] = IF i = 1 THEN x ELSE p[i - 1]
  OBVIOUS
<1> HIDE DEF a
<1>2. SubSeq(a, 1, k) = [i \in 1 .. k |-> a[i]]
  BY <1>1
<1>3. QED
  BY <1>1, <1>2 DEF a

-----------------------------------------------------------------------------

\* The chain c holds the nodes of the list l.
Listing(l, c) ==
    /\ c \in [0 .. Cardinality(listed) + 1 -> Addr]
    /\ Chain(l, Cardinality(listed), c)
    /\ Visited(Cardinality(listed), c) = listed

\* A page of the map is on the list, under its own URL.
MappedListed == \A u \in DOMAIN m : m[u] \in listed /\ key[m[u]] = u

\* Until a page the cache had was fetched, the list is the map.
SameNodes ==
    ~refetched => /\ listed = Mapped
                  /\ Cardinality(listed) = Cardinality(DOMAIN m)
                  /\ Cardinality(DOMAIN m) <= Cap

CacheInv ==
    /\ TypeOK
    /\ IsFiniteSet(listed)
    /\ MappedListed
    /\ SameNodes
    /\ \E c : Listing(List, c)

\* List is a pair of pointer fields.
LEMMA ListType == TypeOK => List \in Lists
  BY DEF TypeOK, List, Lists

LEMMA MapFinite ==
    ASSUME TypeOK
    PROVE  IsFiniteSet(DOMAIN m) /\ Cardinality(DOMAIN m) \in Nat
  BY FS_Subset, FS_CardinalityType, CacheAssumption DEF TypeOK

LEMMA CacheInit == Init => CacheInv
<1> SUFFICES ASSUME Init PROVE CacheInv
  OBVIOUS
<1> USE CacheAssumption
<1>1. DOMAIN m = {} /\ Cardinality(DOMAIN m) = 0
  BY FS_EmptySet DEF Init
<1>2. PICK g \in Uninitialised : prev = [n \in Addr |-> IF n = tail THEN head
                                                         ELSE g]
  BY DEF Init
<1>3. PICK h \in Uninitialised : next = [n \in Addr |-> IF n = head THEN tail
                                                         ELSE h]
  BY DEF Init
<1>4. head \in Addr /\ tail \in Addr
  BY DEF Addr
<1>5. TypeOK
  <2>1. /\ prev \in [Addr -> Addr \cup Uninitialised]
        /\ next \in [Addr -> Addr \cup Uninitialised]
    BY <1>2, <1>3, <1>4
  <2>2. m \in [DOMAIN m -> Node]
    BY <1>1 DEF Init
  <2>3. QED
    BY <1>1, <2>1, <2>2 DEF Init, TypeOK
<1>6. listed = {} /\ IsFiniteSet(listed) /\ Cardinality(listed) = 0
  BY FS_EmptySet DEF Init
<1>7. MappedListed /\ SameNodes
  BY <1>1, <1>6 DEF MappedListed, SameNodes, Mapped
<1>8. \E c : Listing(List, c)
  <2> DEFINE c == [i \in 0 .. 1 |-> IF i = 0 THEN head ELSE tail]
  <2>1. c \in [0 .. 0 + 1 -> Addr]
    BY <1>4
  <2>2. next[head] = tail /\ prev[tail] = head
    BY <1>2, <1>3, <1>4
  <2>3. Chain(List, 0, c)
    BY <2>2 DEF Chain, List
  <2>4. Visited(0, c) = listed
    BY <1>6 DEF Visited
  <2> HIDE DEF c
  <2>5. QED
    BY <1>6, <2>1, <2>3, <2>4 DEF Listing
<1>9. QED
  BY <1>5, <1>6, <1>7, <1>8 DEF CacheInv

\* get moves one node of the chain to its front.
LEMMA MovedChain ==
    ASSUME CacheInv, NEW u \in DOMAIN m
    PROVE  /\ Moved(u) \in Lists
           /\ Moved(u).next[head] = m[u]
           /\ \E c, f : \E k \in 1 .. Cardinality(listed) :
                /\ Listing(List, c) /\ Listing(Moved(u), f)
                /\ c[k] = m[u]
                /\ KthInFront(c, Cardinality(listed), k, f)
<1> DEFINE n == Cardinality(listed)
<1>1. TypeOK /\ List \in Lists /\ n \in Nat
  BY ListType, FS_CardinalityType DEF CacheInv
<1>3. PICK c \in [0 .. n + 1 -> Addr] :
        Listing(List, c) /\ Chain(List, n, c) /\ Visited(n, c) = listed
  BY DEF CacheInv, Listing
<1>4. m[u] \in listed /\ m[u] \in Node
  BY <1>1 DEF CacheInv, MappedListed, TypeOK
<1>5. n >= 1
  BY <1>1, <1>3, <1>4 DEF Visited
<1> HIDE DEF n
<1>d. PICK x : x = m[u]
  OBVIOUS
<1> DEFINE d == deleteNode(List, x)
           p == n - 1
<1>x. x \in Visited(n, c) /\ x \in Node
  BY <1>3, <1>4, <1>d
<1>6. /\ deleteNode(List, x) \in Lists
      /\ \E e \in [0 .. n -> Addr], k \in 1 .. n :
           /\ Chain(deleteNode(List, x), n - 1, e)
           /\ Visited(n - 1, e) = Visited(n, c) \ {x}
           /\ x = c[k]
           /\ Without(c, n, k, e)
  BY <1>1, <1>3, <1>x, DeleteFromChain
<1>7. p \in Nat /\ p + 1 = n /\ p + 2 = n + 1
  BY <1>1, <1>5
<1>e. PICK e \in [0 .. p + 1 -> Addr], k \in 1 .. n :
        /\ Chain(d, p, e) /\ Visited(p, e) = listed \ {x}
        /\ x = c[k]
        /\ Without(c, n, k, e)
  BY <1>3, <1>6, <1>7
<1>l. d \in Lists
  BY <1>6
<1> HIDE DEF p, d
<1>f. /\ addNode(d, x) \in Lists
      /\ addNode(d, x).next[head] = x
      /\ \E f \in [0 .. p + 2 -> Addr] :
           /\ Chain(addNode(d, x), p + 1, f)
           /\ Visited(p + 1, f) = Visited(p, e) \cup {x}
           /\ InFront(e, p, x, f)
  <2>1. x \notin Visited(p, e)
    BY <1>e
  <2>2. p \in Nat /\ d \in Lists /\ Chain(d, p, e) /\ x \in Node
    BY <1>7, <1>e, <1>l, <1>x
  <2>3. QED
    BY ONLY <2>1, <2>2, AddToChain
<1>m. Moved(u) = addNode(d, x)
  BY <1>d DEF d, Moved
<1>8. PICK f \in [0 .. n + 1 -> Addr] :
        /\ Chain(Moved(u), n, f)
        /\ Visited(n, f) = listed
        /\ InFront(e, p, x, f)
  <2>1. (listed \ {x}) \cup {x} = listed
    BY <1>4, <1>d
  <2>2. QED
    BY <1>7, <1>e, <1>f, <1>m, <2>1
<1>i. ASSUME NEW i \in 1 .. n
      PROVE  f[i] = IF i = 1 THEN c[k] ELSE IF i <= k THEN c[i - 1] ELSE c[i]
  <2>1. CASE i = 1
    BY <2>1, <1>8, <1>e DEF InFront
  <2>2. CASE i # 1
    <3>1. i - 1 \in 1 .. p /\ (i - 1) + 1 = i /\ i - 1 \in 0 .. n
      BY <2>2, <1>7
    <3>2. f[i] = e[i - 1]
      BY <1>8, <3>1 DEF InFront
    <3>3. e[i - 1] = IF i - 1 < k THEN c[i - 1] ELSE c[i]
      BY <1>e, <3>1 DEF Without
    <3>4. QED
      BY <2>2, <3>2, <3>3, <1>1
  <2>3. QED
    BY <2>1, <2>2
<1>9. KthInFront(c, n, k, f)
  BY <1>i DEF KthInFront
<1>10. Listing(Moved(u), f)
  BY <1>8 DEF Listing, n
<1>11. Moved(u) \in Lists /\ Moved(u).next[head] = m[u] /\ c[k] = m[u]
  BY <1>d, <1>e, <1>f, <1>m
<1>12. QED
  BY <1>3, <1>9, <1>10, <1>11 DEF n

\* A hit moves a node of the list and changes nothing else.
LEMMA HitMoves ==
    ASSUME CacheInv, NEW u \in Url, Hit(u)
    PROVE  /\ u \in DOMAIN m /\ m' = m /\ listed' = listed
           /\ UNCHANGED <<key, val, refetched>>
           /\ List' = Moved(u) /\ List' \in Lists
           /\ request' = u /\ status' \in {"running", "crashed"}
<1>1. /\ u \in DOMAIN m /\ UNCHANGED <<key, val, listed, refetched>>
      /\ request' = u /\ status' \in {"running", "crashed"}
      /\ next' = Moved(u).next /\ prev' = Moved(u).prev
      /\ m' = [m EXCEPT ![u] = next'[head]]
  BY DEF Hit, Display
<1>2. Moved(u) \in Lists /\ Moved(u).next[head] = m[u]
  BY <1>1, MovedChain
<1>3. m' = m
  BY <1>1, <1>2 DEF CacheInv, TypeOK
<1>4. List' = Moved(u)
  BY <1>1, <1>2 DEF List, Lists
<1>5. QED
  BY <1>1, <1>2, <1>3, <1>4

LEMMA HitStep ==
    ASSUME CacheInv, NEW u \in Url, Hit(u)
    PROVE  CacheInv'
<1>1. TypeOK
  BY DEF CacheInv
<1>2. /\ u \in DOMAIN m /\ m' = m /\ listed' = listed
      /\ UNCHANGED <<key, val, refetched>>
      /\ List' = Moved(u) /\ List' \in Lists
      /\ request' = u /\ status' \in {"running", "crashed"}
  BY HitMoves
<1>3. PICK f : Listing(Moved(u), f)
  BY <1>2, MovedChain
<1>4. TypeOK'
  <2>1. /\ next' \in [Addr -> Addr \cup Uninitialised]
        /\ prev' \in [Addr -> Addr \cup Uninitialised]
    BY <1>2 DEF Lists, List
  <2>2. QED
    BY <1>1, <1>2, <2>1 DEF TypeOK
<1>5. MappedListed' /\ SameNodes' /\ IsFiniteSet(listed')
  BY <1>2 DEF CacheInv, MappedListed, SameNodes, Mapped
<1>6. Listing(List, f)'
  <2>1. PICK l : l = List'
    OBVIOUS
  <2>2. Listing(l, f)
    BY <1>2, <1>3, <2>1
  <2>3. QED
    BY <1>2, <2>1, <2>2 DEF Listing, Chain, Visited
<1>7. QED
  BY <1>4, <1>5, <1>6 DEF CacheInv

(***************************************************************************)
(* Before a page is put in front of a list with the nodes of the cache,    *)
(* what is left of it is a list with what is left of the map, in the order *)
(* they had; and if the list is the map, it has room for the page.         *)
(***************************************************************************)
LEMMA RoomForOne ==
    ASSUME CacheInv, NEW l \in Lists, NEW c, Listing(l, c)
    PROVE  LET n == Cardinality(listed)
               kept == listed \ Evicted(l)
               q == Cardinality(kept) IN
           /\ IsFiniteSet(kept) /\ q \in Nat /\ q <= n
           /\ Remaining(l) \subseteq DOMAIN m
           /\ \A x \in Remaining(l) : m[x] \in kept
           /\ Shortened(l) \in Lists
           /\ \E e \in [0 .. q + 1 -> Addr] :
                /\ Chain(Shortened(l), q, e)
                /\ Visited(q, e) = kept
                /\ \A i \in 1 .. q : e[i] = c[i]
           /\ ~refetched =>
                /\ kept = {m[x] : x \in Remaining(l)}
                /\ Cardinality(Remaining(l)) = q
                /\ q < Cap /\ q = IF n < Cap THEN n ELSE Cap - 1
<1> DEFINE n == Cardinality(listed)
<1>1. TypeOK /\ IsFiniteSet(listed) /\ n \in Nat
  BY FS_CardinalityType DEF CacheInv
<1>2. \A x \in DOMAIN m : m[x] \in listed /\ key[m[x]] = x
  BY DEF CacheInv, MappedListed
<1>3. c \in [0 .. n + 1 -> Addr] /\ Chain(l, n, c) /\ Visited(n, c) = listed
  BY DEF Listing
<1>r. ~refetched => /\ listed = Mapped /\ n = Cardinality(DOMAIN m)
                    /\ n <= Cap
  BY DEF CacheInv, SameNodes
<1>c. Cap \in Nat /\ Cap >= 1
  BY CacheAssumption
<1>4. CASE ~Full
  <2>1. Evicted(l) = {} /\ Shortened(l) = l
    BY <1>4 DEF Evicted, Shortened
  <2>2. Remaining(l) = DOMAIN m /\ listed \ Evicted(l) = listed
    BY <2>1 DEF Remaining
  <2>3. ~refetched => n < Cap /\ listed = {m[x] : x \in Remaining(l)}
    BY <1>1, <1>4, <1>r, <1>c, <2>2 DEF Full, Mapped
  <2>4. QED
    BY <1>1, <1>2, <1>3, <1>r, <2>1, <2>2, <2>3
<1>5. CASE Full
  <2>1. n >= 1
    <3>1. DOMAIN m # {}
      BY <1>5, <1>c, FS_EmptySet DEF Full
    <3>2. listed # {}
      BY <1>2, <3>1
    <3>3. QED
      BY <1>1, <1>3, <3>2 DEF Visited
  <2>2. l.prev[tail] = c[n] /\ c[n] \in listed
    <3>1. l.prev[c[n + 1]] = c[n] /\ c[n + 1] = tail
      BY <1>1, <1>3, <2>1 DEF Chain
    <3>2. c[n] \in Visited(n, c)
      BY <1>1, <2>1 DEF Visited
    <3>3. QED
      BY <1>3, <3>1, <3>2
  <2>d. PICK x : x = c[n]
    OBVIOUS
  <2>4. /\ Evicted(l) = {x} /\ Shortened(l) = deleteNode(l, x)
        /\ Remaining(l) = DOMAIN m \ {key[x]} /\ x \in listed
    BY <1>5, <2>2, <2>d DEF Evicted, Shortened, Remaining
  <2>5. \A y \in Remaining(l) : m[y] \in listed \ {x}
    BY <1>2, <2>4
  <2>6. Cardinality(listed \ {x}) = n - 1 /\ IsFiniteSet(listed \ {x})
    BY <1>1, <2>4, FS_RemoveElement
  <2> HIDE DEF n
  <2>7. /\ deleteNode(l, x) \in Lists
        /\ \E e \in [0 .. n -> Addr], k \in 1 .. n :
             /\ Chain(deleteNode(l, x), n - 1, e)
             /\ Visited(n - 1, e) = Visited(n, c) \ {x}
             /\ x = c[k]
             /\ Without(c, n, k, e)
    <3>1. n \in Nat /\ c \in [0 .. n + 1 -> Addr] /\ Chain(l, n, c)
      BY <1>1, <1>3
    <3>2. x \in Visited(n, c)
      BY <1>3, <2>4
    <3>3. QED
      BY ONLY <3>1, <3>2, l \in Lists, DeleteFromChain
  <2>e. PICK e \in [0 .. n -> Addr], k \in 1 .. n :
          /\ Chain(deleteNode(l, x), n - 1, e)
          /\ Visited(n - 1, e) = Visited(n, c) \ {x}
          /\ x = c[k]
          /\ Without(c, n, k, e)
    BY <2>7
  <2>8. n - 1 \in Nat /\ n - 1 <= n /\ (n - 1) + 1 = n /\ n \in 1 .. n
    BY <2>1, <1>1
  <2>9. k = n
    <3>1. \A i, j \in 1 .. n : c[i] = c[j] => i = j
      BY <1>3 DEF Chain
    <3>2. c[k] = c[n]
      BY <2>d, <2>e
    <3>3. QED
      BY <2>8, <3>1, <3>2
  <2>10. \A i \in 1 .. n - 1 : e[i] = c[i]
    BY <2>9, <2>e DEF Without
  <2>11. ASSUME ~refetched
         PROVE  /\ listed \ {x} = {m[y] : y \in Remaining(l)}
                /\ Cardinality(Remaining(l)) = n - 1
                /\ n - 1 < Cap
                /\ n - 1 = IF n < Cap THEN n ELSE Cap - 1
    <3>1. PICK w \in DOMAIN m : x = m[w]
      BY <1>r, <2>4, <2>11 DEF Mapped
    <3>2. Remaining(l) = DOMAIN m \ {w}
      BY <1>2, <2>4, <3>1
    <3>3. listed \ {x} = {m[y] : y \in Remaining(l)}
      BY <1>2, <1>r, <2>11, <3>1, <3>2 DEF Mapped
    <3>4. Cardinality(Remaining(l)) = Cardinality(DOMAIN m) - 1
      BY <1>1, <3>2, MapFinite, FS_RemoveElement
    <3>5. n = Cap
      BY <1>5, <1>r, <2>11 DEF Full
    <3>6. QED
      BY <1>1, <1>r, <2>8, <2>11, <3>3, <3>4, <3>5
  <2> DEFINE kept == listed \ Evicted(l)
             q == Cardinality(kept)
  <2>12. kept = listed \ {x} /\ q = n - 1
    BY <2>4, <2>6
  <2>13. Remaining(l) \subseteq DOMAIN m
    BY <2>4
  <2> HIDE DEF q, kept
  <2>14. e \in [0 .. q + 1 -> Addr]
    BY <2>8, <2>12
  <2>15. /\ Chain(Shortened(l), q, e) /\ Visited(q, e) = kept
         /\ \A i \in 1 .. q : e[i] = c[i]
         /\ Shortened(l) \in Lists
    BY <1>3, <2>4, <2>7, <2>10, <2>12, <2>e
  <2>16. /\ IsFiniteSet(kept) /\ q \in Nat /\ q <= n
         /\ \A y \in Remaining(l) : m[y] \in kept
    BY <2>5, <2>6, <2>8, <2>12
  <2>17. ~refetched => /\ kept = {m[y] : y \in Remaining(l)}
                       /\ Cardinality(Remaining(l)) = q
                       /\ q < Cap
                       /\ q = IF n < Cap THEN n ELSE Cap - 1
    BY <2>11, <2>12
  <2>18. QED
    BY <2>13, <2>14, <2>15, <2>16, <2>17 DEF n, q, kept
<1>6. QED
  BY <1>4, <1>5

\* A new node for u is in front of what remains of the list l, the chain c.
NewInFront(u, l, c) ==
    LET kept == listed \ Evicted(l)
        q == Cardinality(kept) IN
    \E f \in [0 .. q + 2 -> Addr], nd \in Node, r \in Response :
        /\ Chain(List', q + 1, f) /\ List' \in Lists
        /\ Visited(q + 1, f) = listed'
        /\ InFront(c, q, nd, f)
        /\ nd \notin kept /\ listed' = kept \cup {nd}
        /\ key' = [key EXCEPT ![nd] = u]
        /\ val' = [val EXCEPT ![nd] = r]
        /\ m' = [x \in Remaining(l) \cup {u} |-> IF x = u THEN nd ELSE m[x]]

LEMMA PutChain ==
    ASSUME CacheInv, NEW u \in Url, NEW l \in Lists, NEW c, Listing(l, c),
           put(u, l)
    PROVE  NewInFront(u, l, c)
<1> DEFINE kept == listed \ Evicted(l)
           q == Cardinality(kept)
<1>2. q \in Nat /\ Shortened(l) \in Lists
  BY RoomForOne
<1>3. PICK e \in [0 .. q + 1 -> Addr] :
        /\ Chain(Shortened(l), q, e)
        /\ Visited(q, e) = kept
        /\ \A i \in 1 .. q : e[i] = c[i]
  BY RoomForOne
<1>5. PICK r \in Response, nd \in Node \ kept :
        /\ key' = [key EXCEPT ![nd] = u]
        /\ val' = [val EXCEPT ![nd] = r]
        /\ next' = addNode(Shortened(l), nd).next
        /\ prev' = addNode(Shortened(l), nd).prev
        /\ listed' = kept \cup {nd}
  BY DEF put
<1> DEFINE s == Shortened(l)
           a == addNode(s, nd)
<1>6. m' = [x \in Remaining(l) \cup {u} |-> IF x = u THEN next'[head]
                                           ELSE m[x]]
  BY DEF put
<1> HIDE DEF q, kept, s
<1>7. /\ a \in Lists
      /\ a.next[head] = nd
      /\ \E f \in [0 .. q + 2 -> Addr] :
           /\ Chain(a, q + 1, f)
           /\ Visited(q + 1, f) = Visited(q, e) \cup {nd}
           /\ InFront(e, q, nd, f)
  <2>1. nd \in Node /\ nd \notin Visited(q, e)
    BY <1>3, <1>5
  <2>2. q \in Nat /\ s \in Lists /\ Chain(s, q, e)
    BY <1>2, <1>3 DEF s
  <2>3. QED
    BY ONLY <2>1, <2>2, e \in [0 .. q + 1 -> Addr], AddToChain
<1>8. next' = a.next /\ prev' = a.prev
  BY <1>5 DEF s
<1> HIDE DEF a
<1>f. PICK f \in [0 .. q + 2 -> Addr] :
        /\ Chain(a, q + 1, f)
        /\ Visited(q + 1, f) = Visited(q, e) \cup {nd}
        /\ InFront(e, q, nd, f)
  BY <1>7
<1>9. List' = a
  BY <1>7, <1>8 DEF List, Lists
<1>10. InFront(c, q, nd, f)
  BY <1>3, <1>f DEF InFront
<1>11. m' = [x \in Remaining(l) \cup {u} |-> IF x = u THEN nd ELSE m[x]]
  BY <1>6, <1>7, <1>8
<1>12. /\ Chain(List', q + 1, f) /\ List' \in Lists
       /\ Visited(q + 1, f) = listed' /\ nd \in Node /\ nd \notin kept
  BY <1>3, <1>5, <1>7, <1>9, <1>f
<1>13. QED
  BY <1>5, <1>10, <1>11, <1>12 DEF q, kept, NewInFront

LEMMA PutStep ==
    ASSUME CacheInv, NEW u \in Url, NEW l \in Lists, NEW c, Listing(l, c),
           put(u, l), request' = u, status' \in {"running", "crashed"},
           refetched' \in BOOLEAN,
           ~refetched' => ~refetched /\ u \notin DOMAIN m
    PROVE  CacheInv'
<1> DEFINE kept == listed \ Evicted(l)
           q == Cardinality(kept)
<1>1. TypeOK
  BY DEF CacheInv
<1>2. /\ IsFiniteSet(kept) /\ q \in Nat
      /\ Remaining(l) \subseteq DOMAIN m
      /\ \A x \in Remaining(l) : m[x] \in kept
      /\ ~refetched => /\ kept = {m[x] : x \in Remaining(l)}
                       /\ Cardinality(Remaining(l)) = q
                       /\ q < Cap
  BY RoomForOne
<1>a. NewInFront(u, l, c)
  BY PutChain
<1>3. PICK f \in [0 .. q + 2 -> Addr], nd \in Node, r \in Response :
        /\ Chain(List', q + 1, f) /\ List' \in Lists
        /\ Visited(q + 1, f) = listed'
        /\ InFront(c, q, nd, f)
        /\ nd \notin kept /\ listed' = kept \cup {nd}
        /\ key' = [key EXCEPT ![nd] = u]
        /\ val' = [val EXCEPT ![nd] = r]
        /\ m' = [x \in Remaining(l) \cup {u} |-> IF x = u THEN nd ELSE m[x]]
  BY <1>a DEF NewInFront
<1> HIDE DEF q, kept
<1>4. /\ DOMAIN m' = Remaining(l) \cup {u} /\ m'[u] = nd
      /\ \A x \in DOMAIN m' : x # u => x \in Remaining(l) /\ m'[x] = m[x]
  BY <1>3
<1>5. IsFiniteSet(listed') /\ Cardinality(listed') = q + 1
  BY <1>2, <1>3, FS_AddElement DEF q
<1>6. kept \subseteq Node
  BY <1>1 DEF TypeOK, kept
<1>7. TypeOK'
  <2>1. /\ next' \in [Addr -> Addr \cup Uninitialised]
        /\ prev' \in [Addr -> Addr \cup Uninitialised]
    BY <1>3 DEF Lists, List
  <2>2. /\ key' \in [Addr -> Url \cup {NotFound}]
        /\ val' \in [Addr -> Response \cup {NotFound}]
    BY <1>1, <1>3 DEF TypeOK
  <2>3. DOMAIN m' \subseteq Url /\ listed' \subseteq Node
    BY <1>1, <1>2, <1>3, <1>4, <1>6 DEF TypeOK
  <2>4. m' \in [DOMAIN m' -> Node]
    <3>1. \A x \in DOMAIN m' : m'[x] \in Node
      BY <1>2, <1>3, <1>4, <1>6
    <3>2. QED
      BY <3>1, <1>3
  <2>5. QED
    BY <2>1, <2>2, <2>3, <2>4 DEF TypeOK
<1>8. MappedListed'
  <2> SUFFICES ASSUME NEW x \in DOMAIN m'
               PROVE  m'[x] \in listed' /\ key'[m'[x]] = x
    BY DEF MappedListed
  <2>1. CASE x = u
    <3>1. key'[nd] = u
      BY <1>1, <1>3 DEF TypeOK, Addr
    <3>2. QED
      BY <2>1, <3>1, <1>3, <1>4
  <2>2. CASE x # u
    <3>1. m'[x] = m[x] /\ m[x] \in kept /\ x \in DOMAIN m
      BY <2>2, <1>2, <1>4
    <3>2. m[x] # nd /\ m[x] \in Addr /\ key[m[x]] = x
      BY <3>1, <1>3, <1>6 DEF CacheInv, MappedListed, Addr
    <3>3. key'[m[x]] = x
      BY <3>2, <1>1, <1>3 DEF TypeOK
    <3>4. QED
      BY <3>1, <3>3, <1>3
  <2>3. QED
    BY <2>1, <2>2
<1>9. SameNodes'
  <2> SUFFICES ASSUME ~refetched'
               PROVE  /\ listed' = Mapped'
                      /\ Cardinality(listed') = Cardinality(DOMAIN m')
                      /\ Cardinality(DOMAIN m') <= Cap
    BY DEF SameNodes
  <2>1. ~refetched /\ u \notin Remaining(l)
    BY <1>2
  <2>2. kept = {m[x] : x \in Remaining(l)} /\ Cardinality(Remaining(l)) = q
        /\ q < Cap
    BY <2>1, <1>2
  <2>3. Mapped' = {m[x] : x \in Remaining(l)} \cup {nd}
    BY <2>1, <1>4 DEF Mapped
  <2>4. IsFiniteSet(Remaining(l))
    BY <1>1, <1>2, MapFinite, FS_Subset
  <2>5. Cardinality(DOMAIN m') = q + 1
    BY <1>4, <2>1, <2>2, <2>4, FS_AddElement
  <2>6. q + 1 <= Cap
    BY <1>2, <2>2, CacheAssumption
  <2>7. QED
    BY <1>3, <1>5, <2>2, <2>3, <2>5, <2>6
<1>10. Listing(List, f)'
  <2>1. PICK k : k = List'
    OBVIOUS
  <2>2. Chain(k, q + 1, f) /\ Visited(q + 1, f) = listed'
    BY <1>3, <2>1
  <2>3. f \in [0 .. (q + 1) + 1 -> Addr]
    BY <1>2
  <2>4. QED
    BY <1>5, <2>1, <2>2, <2>3 DEF Listing, Chain, Visited
<1>11. QED
  BY <1>5, <1>7, <1>8, <1>9, <1>10 DEF CacheInv

LEMMA MissStep ==
    ASSUME CacheInv, NEW u \in Url, Miss(u)
    PROVE  CacheInv'
<1>1. /\ u \notin DOMAIN m /\ put(u, List) /\ refetched' = refetched
      /\ request' = u /\ status' \in {"running", "crashed"}
  BY DEF Miss, Display
<1>2. List \in Lists /\ refetched \in BOOLEAN
  BY ListType DEF CacheInv, TypeOK
<1>3. PICK c : Listing(List, c)
  BY DEF CacheInv
<1>4. PICK l : l = List
  OBVIOUS
<1>5. l \in Lists /\ Listing(l, c) /\ put(u, l)
  BY <1>1, <1>2, <1>3, <1>4
<1>6. QED
  BY <1>1, <1>2, <1>5, PutStep

LEMMA RefetchStep ==
    ASSUME CacheInv, NEW u \in Url, Refetch(u)
    PROVE  CacheInv'
<1>1. /\ u \in DOMAIN m /\ put(u, Moved(u)) /\ refetched' = TRUE
      /\ request' = u /\ status' \in {"running", "crashed"}
  BY DEF Refetch, Display
<1>2. Moved(u) \in Lists
  BY <1>1, MovedChain
<1>3. PICK f : Listing(Moved(u), f)
  BY <1>1, MovedChain
<1>4. PICK l : l = Moved(u)
  OBVIOUS
<1>5. l \in Lists /\ Listing(l, f) /\ put(u, l)
  BY <1>1, <1>2, <1>3, <1>4
<1>6. QED
  BY <1>1, <1>5, PutStep

LEMMA CacheStep == CacheInv /\ [Next]_vars => CacheInv'
<1> SUFFICES ASSUME CacheInv, [Next]_vars PROVE CacheInv'
  OBVIOUS
<1>1. CASE Next
  BY <1>1, HitStep, MissStep, RefetchStep DEF Next
<1>2. CASE UNCHANGED vars
  <2>1. UNCHANGED <<key, val, prev, next, listed, m, request, status,
                    refetched>>
    BY <1>2 DEF vars, heap
  <2>2. List' = List /\ Mapped' = Mapped
    BY <2>1 DEF List, Mapped
  <2>3. TypeOK' /\ IsFiniteSet(listed')
    BY <2>1 DEF CacheInv, TypeOK
  <2>4. MappedListed' /\ SameNodes'
    BY <2>1, <2>2 DEF CacheInv, MappedListed, SameNodes
  <2>5. PICK c : Listing(List, c)
    BY DEF CacheInv
  <2>6. Listing(List, c)'
    BY <2>1, <2>2, <2>5 DEF Listing, Chain, Visited
  <2>7. QED
    BY <2>3, <2>4, <2>6 DEF CacheInv
<1>3. QED
  BY <1>1, <1>2

LEMMA CacheMatches == CacheInv => ListMatchesMap
<1> SUFFICES ASSUME CacheInv PROVE ListMatchesMap
  OBVIOUS
<1> DEFINE n == Cardinality(listed)
<1>1. n \in Nat
  BY FS_CardinalityType DEF CacheInv
<1>2. PICK c \in [0 .. n + 1 -> Addr] :
        Chain(List, n, c) /\ Visited(n, c) = listed
  BY DEF CacheInv, Listing
<1> HIDE DEF n
<1> DEFINE order == [i \in 1 .. n |-> c[i]]
<1>3. order \in [1 .. n -> listed]
  BY <1>2 DEF Visited
<1>4. c[0] = head /\ c[n + 1] = tail
  BY <1>2 DEF Chain
<1>5. Ends(n, order) = c
  <2>1. \A i \in 0 .. n + 1 : c[i] = IF i = 0 THEN head
                                     ELSE IF i = n + 1 THEN tail
                                     ELSE order[i]
    BY <1>1, <1>4
  <2> HIDE DEF order
  <2>2. QED
    BY <1>2, <2>1 DEF Ends
<1> HIDE DEF order
<1>6. \E o \in [1 .. n -> listed] :
        Chain(List, n, Ends(n, o)) /\ Visited(n, Ends(n, o)) = listed
  BY <1>2, <1>3, <1>5
<1>7. MappedListed /\ (~refetched => listed = Mapped /\ n <= Cap)
  BY DEF CacheInv, SameNodes, n
<1>8. QED
  BY <1>6, <1>7 DEF ListMatchesMap, MappedListed, n

(***************************************************************************)
(* For every capacity, any URLs and any responses, "-1" included: the      *)
(* pointers make one list, which holds every page of the map under its     *)
(* URL; and until a page "-1" is fetched again, it holds no other page and *)
(* at most Cap of them.                                                    *)
(***************************************************************************)
THEOREM CacheCorrect == Spec => [](TypeOK /\ ListMatchesMap)
<1>1. Spec => []CacheInv
  BY CacheInit, CacheStep, PTL DEF Spec
<1>2. CacheInv => TypeOK /\ ListMatchesMap
  BY CacheMatches DEF CacheInv
<1>3. QED
  BY <1>1, <1>2, PTL

-----------------------------------------------------------------------------
(* The refinement: LRUCache implements RecentPages *)

LEMMA PagesOfChain ==
    ASSUME CacheInv, NEW c, Chain(List, Cardinality(DOMAIN m), c)
    PROVE  Pages = PagesAlong(c, key, val, Cardinality(DOMAIN m))
<1>1. Cardinality(DOMAIN m) \in Nat
  BY MapFinite DEF CacheInv
<1>2. List.next = next
  BY DEF List
<1>3. QED
  BY <1>1, <1>2, PagesAre DEF Pages

LEMMA HitServes ==
    ASSUME CacheInv, ~refetched, NEW u \in Url, Hit(u)
    PROVE  Recent!Serve(u)
<1> DEFINE n == Cardinality(DOMAIN m)
<1>1. /\ request' = u /\ key' = key /\ val' = val /\ m' = m /\ u \in DOMAIN m
      /\ n \in Nat /\ n = Cardinality(listed) /\ List' = Moved(u)
  BY HitMoves, MapFinite DEF CacheInv, SameNodes
<1>2. PICK c \in [0 .. n + 1 -> Addr], f \in [0 .. n + 1 -> Addr],
           k \in 1 .. n :
        /\ Chain(List, n, c) /\ Chain(List', n, f)
        /\ c[k] = m[u]
        /\ KthInFront(c, n, k, f)
  <2>1. PICK l : l = Moved(u)
    OBVIOUS
  <2>2. PICK c, f : \E k \in 1 .. Cardinality(listed) :
          /\ Listing(List, c) /\ Listing(l, f)
          /\ c[k] = m[u]
          /\ KthInFront(c, Cardinality(listed), k, f)
    BY <1>1, <2>1, MovedChain
  <2>3. /\ c \in [0 .. n + 1 -> Addr] /\ f \in [0 .. n + 1 -> Addr]
        /\ Chain(List, n, c) /\ Chain(l, n, f)
    BY <1>1, <2>2 DEF Listing
  <2>4. Chain(List', n, f)
    <3>1. PICK l1 : l1 = List'
      OBVIOUS
    <3>2. Chain(l1, n, f)
      BY <1>1, <2>1, <2>3, <3>1
    <3>3. QED
      BY <3>1, <3>2 DEF Chain
  <2> HIDE DEF n
  <2>5. QED
    BY <1>1, <2>2, <2>3, <2>4
<1> HIDE DEF n
<1>3. Pages = PagesAlong(c, key, val, n)
  BY <1>2, PagesOfChain DEF n
<1>4. Pages' = PagesAlong(f, key, val, n)
  <2>1. List'.next = next'
    BY DEF List
  <2>2. PagesOf(next', key, val, n) = PagesAlong(f, key, val, n)
    <3>1. PICK l : l = List'
      OBVIOUS
    <3>2. Chain(l, n, f) /\ l.next = next'
      BY <1>2, <2>1, <3>1
    <3>3. QED
      BY <1>1, <3>2, PagesAre
  <2>3. QED
    BY <1>1, <2>2 DEF Pages, n
<1>5. PICK p : p = Pages
  OBVIOUS
<1> DEFINE S == {<<key[c[i]], val[c[i]]>> : i \in 1 .. n}
<1>6. /\ p \in Seq(S) /\ Len(p) = n /\ DOMAIN p = 1 .. n
      /\ \A i \in 1 .. n : p[i] = <<key[c[i]], val[c[i]]>>
  <2>1. p = [i \in 1 .. n |-> <<key[c[i]], val[c[i]]>>]
    BY <1>3, <1>5 DEF PagesAlong
  <2>2. n \in Nat /\ \A i \in 1 .. n : <<key[c[i]], val[c[i]]>> \in S
    BY <1>1
  <2> HIDE DEF S
  <2>3. p \in Seq(S) /\ DOMAIN p = 1 .. n
    BY <2>1, <2>2
  <2>4. QED
    BY <2>1, <2>2, <2>3
<1>7. Pages' = [i \in 1 .. n |-> IF i = 1 THEN p[k]
                                ELSE IF i <= k THEN p[i - 1] ELSE p[i]]
  <2>1. ASSUME NEW i \in 1 .. n
        PROVE  <<key[f[i]], val[f[i]]>> = IF i = 1 THEN p[k]
                                          ELSE IF i <= k THEN p[i - 1]
                                          ELSE p[i]
    <3>1. f[i] = IF i = 1 THEN c[k] ELSE IF i <= k THEN c[i - 1] ELSE c[i]
      BY <1>2 DEF KthInFront
    <3>2. (i # 1 /\ i <= k) => i - 1 \in 1 .. n
      BY <1>1
    <3>3. QED
      BY <1>6, <3>1, <3>2
  <2>2. QED
    BY <1>4, <2>1 DEF PagesAlong
<1>8. Pages' = <<p[k]>> \o SubSeq(p, 1, k - 1) \o SubSeq(p, k + 1, Len(p))
  BY <1>6, <1>7, MoveToFront
<1>9. Pages' = Recent!ToFront(k)
  BY <1>5, <1>8 DEF Recent!ToFront
<1>10. k \in DOMAIN Pages /\ Pages[k][1] = u
  <2>1. key[m[u]] = u
    BY <1>1 DEF CacheInv, MappedListed
  <2>2. QED
    BY <1>2, <1>5, <1>6, <2>1
<1>11. QED
  BY <1>1, <1>9, <1>10 DEF Recent!Serve

LEMMA MissFetches ==
    ASSUME CacheInv, ~refetched, NEW u \in Url, Miss(u)
    PROVE  Recent!Fetch(u)
<1> DEFINE n == Cardinality(DOMAIN m)
           q == Cardinality(Remaining(List))
<1>1. /\ request' = u /\ u \notin DOMAIN m /\ n \in Nat /\ TypeOK
      /\ \A x \in DOMAIN m : key[m[x]] = x
  BY MapFinite DEF Miss, CacheInv, MappedListed
<1>s. /\ listed = Mapped /\ Cardinality(listed) = n /\ n <= Cap
  BY DEF CacheInv, SameNodes
<1>l. PICK l : l = List
  OBVIOUS
<1>c. PICK c : Listing(l, c)
  BY <1>l DEF CacheInv
<1>p. put(u, l) /\ l \in Lists
  BY <1>1, <1>l, ListType DEF Miss
<1>2. /\ Remaining(List) \subseteq DOMAIN m /\ q \in Nat
      /\ q = IF n < Cap THEN n ELSE Cap - 1
      /\ listed \ Evicted(l) = {m[x] : x \in Remaining(List)}
      /\ Cardinality(listed \ Evicted(l)) = q
  BY <1>c, <1>l, <1>p, <1>s, RoomForOne
<1>n. /\ c \in [0 .. n + 1 -> Addr] /\ Chain(List, n, c)
      /\ Visited(n, c) = Mapped
  BY <1>c, <1>l, <1>s DEF Listing
<1> DEFINE kept == listed \ Evicted(l)
           left == Cardinality(kept)
<1>a. NewInFront(u, l, c)
  BY <1>c, <1>p, PutChain
<1>t. PICK f \in [0 .. left + 2 -> Addr], nd \in Node, r \in Response :
        /\ Chain(List', left + 1, f) /\ List' \in Lists
        /\ Visited(left + 1, f) = listed'
        /\ InFront(c, left, nd, f)
        /\ nd \notin kept /\ listed' = kept \cup {nd}
        /\ key' = [key EXCEPT ![nd] = u]
        /\ val' = [val EXCEPT ![nd] = r]
        /\ m' = [x \in Remaining(l) \cup {u} |-> IF x = u THEN nd ELSE m[x]]
  BY <1>a DEF NewInFront
<1>q. left = q /\ kept = {m[x] : x \in Remaining(List)}
  BY <1>2
<1> HIDE DEF q, n, kept, left
<1>3. /\ f \in [0 .. q + 2 -> Addr]
      /\ Chain(List', q + 1, f) /\ List' \in Lists
      /\ InFront(c, q, nd, f)
      /\ nd \notin {m[x] : x \in Remaining(List)}
      /\ key' = [key EXCEPT ![nd] = u]
      /\ val' = [val EXCEPT ![nd] = r]
      /\ m' = [x \in Remaining(List) \cup {u} |-> IF x = u THEN nd ELSE m[x]]
  BY <1>l, <1>q, <1>t
<1>4. Cardinality(DOMAIN m') = q + 1
  <2>1. DOMAIN m' = Remaining(List) \cup {u}
    BY <1>3
  <2>2. IsFiniteSet(Remaining(List)) /\ u \notin Remaining(List)
    BY <1>1, <1>2, MapFinite, FS_Subset
  <2>3. QED
    BY <2>1, <2>2, FS_AddElement DEF q
<1>5. n <= Cap
  BY <1>s
<1>6. Pages = PagesAlong(c, key, val, n)
  BY <1>n, PagesOfChain DEF n
<1>7. PICK keys, vals : keys = key' /\ vals = val'
  OBVIOUS
<1>8. Pages' = PagesAlong(f, keys, vals, q + 1)
  <2>1. PICK k : k = List'
    OBVIOUS
  <2>2. Chain(k, q + 1, f) /\ k.next = next' /\ q + 1 \in Nat
    BY <1>2, <1>3, <2>1 DEF List
  <2>3. PagesOf(k.next, keys, vals, q + 1)
          = PagesAlong(f, keys, vals, q + 1)
    BY <2>2, PagesAre
  <2>4. QED
    BY <1>4, <1>7, <2>2, <2>3 DEF Pages
<1>9. PICK p : p = Pages
  OBVIOUS
<1> DEFINE S == {<<key[c[i]], val[c[i]]>> : i \in 1 .. n} \cup {<<u, r>>}
<1>10. /\ p \in Seq(S) /\ Len(p) = n /\ DOMAIN p = 1 .. n
       /\ \A i \in 1 .. n : p[i] = <<key[c[i]], val[c[i]]>>
  <2>1. \A i \in 1 .. n : <<key[c[i]], val[c[i]]>> \in S
    OBVIOUS
  <2> HIDE DEF S
  <2>2. PICK k, v : k = key /\ v = val
    OBVIOUS
  <2>3. \A i \in 1 .. n : <<k[c[i]], v[c[i]]>> \in S
    BY <2>1, <2>2
  <2>4. p = [i \in 1 .. n |-> <<k[c[i]], v[c[i]]>>]
    BY <1>6, <1>9, <2>2 DEF PagesAlong
  <2>5. p \in Seq(S) /\ Len(p) = n
    BY <1>1, <2>3, <2>4
  <2>6. QED
    BY <2>2, <2>4, <2>5
<1>11. q <= n
  BY <1>1, <1>2, <1>5, CacheAssumption
<1>12. ASSUME NEW i \in 1 .. q + 1
       PROVE  <<keys[f[i]], vals[f[i]]>> = IF i = 1 THEN <<u, r>> ELSE p[i - 1]
  <2>1. CASE i = 1
    <3>1. keys[nd] = u /\ vals[nd] = r
      BY <1>1, <1>3, <1>7 DEF TypeOK, Addr
    <3>2. f[1] = nd
      BY <1>3 DEF InFront
    <3>3. QED
      BY <2>1, <3>1, <3>2
  <2>2. CASE i # 1
    <3>1. i - 1 \in 1 .. q /\ (i - 1) + 1 = i /\ i - 1 \in 1 .. n
      BY <1>1, <1>2, <1>11, <2>2
    <3>2. f[i] = c[i - 1]
      BY <1>3, <3>1 DEF InFront
    <3>3. f[i] # nd
      <4>1. f[1] = nd
        BY <1>3 DEF InFront
      <4>2. i \in 1 .. q + 1 /\ 1 \in 1 .. q + 1
        BY <1>2
      <4>3. QED
        BY <1>3, <2>2, <4>1, <4>2 DEF Chain
    <3>4. c[i - 1] \in Addr
      <4>1. i - 1 \in 0 .. n + 1
        BY <1>1, <3>1
      <4>2. QED
        BY <1>n, <4>1
    <3>5. keys[f[i]] = key[c[i - 1]] /\ vals[f[i]] = val[c[i - 1]]
      BY <1>1, <1>3, <1>7, <3>2, <3>3, <3>4 DEF TypeOK
    <3>6. p[i - 1] = <<key[c[i - 1]], val[c[i - 1]]>>
      BY <1>10, <3>1
    <3>7. QED
      BY <2>2, <3>5, <3>6
  <2>3. QED
    BY <2>1, <2>2
<1>13. Pages' = SubSeq(<<<<u, r>>>> \o p, 1, q + 1)
  <2>1. q + 1 \in 1 .. Len(p) + 1
    BY <1>2, <1>10, <1>11
  <2>2. SubSeq(<<<<u, r>>>> \o p, 1, q + 1)
          = [i \in 1 .. q + 1 |-> IF i = 1 THEN <<u, r>> ELSE p[i - 1]]
    <3>1. <<u, r>> \in S /\ p \in Seq(S)
      BY <1>10
    <3> HIDE DEF S
    <3>2. QED
      BY <2>1, <3>1, PutInFront
  <2>3. QED
    BY <1>8, <1>12, <2>2 DEF PagesAlong
<1>14. q + 1 = IF Len(p) < Cap THEN Len(p) + 1 ELSE Cap
  BY <1>1, <1>2, <1>10, CacheAssumption
<1>15. ~Recent!Kept(u)
  <2> SUFFICES ASSUME NEW i \in 1 .. n, Pages[i][1] = u PROVE FALSE
    BY <1>9, <1>10 DEF Recent!Kept
  <2>1. key[c[i]] = u
    BY <1>9, <1>10
  <2>2. c[i] \in Mapped
    BY <1>n DEF Visited
  <2>3. QED
    BY <1>1, <2>1, <2>2 DEF Mapped
<1>16. QED
  BY <1>1, <1>9, <1>13, <1>14, <1>15 DEF Recent!Fetch

LEMMA CacheStartsEmpty == Init => Recent!Init
<1> SUFFICES ASSUME Init PROVE Recent!Init
  OBVIOUS
<1>1. DOMAIN m = {} /\ Cardinality(DOMAIN m) = 0
  BY FS_EmptySet DEF Init
<1>2. PICK c : Chain(List, 0, c)
  <2>1. Cardinality(listed) = 0
    BY FS_EmptySet DEF Init
  <2>2. QED
    BY <2>1, CacheInit DEF CacheInv, Listing
<1>3. Pages = PagesAlong(c, key, val, 0)
  BY <1>1, <1>2, CacheInit, PagesOfChain
<1>4. Pages = <<>>
  BY <1>3 DEF PagesAlong
<1>5. request \notin Url
  BY CacheAssumption DEF Init
<1>6. QED
  BY <1>4, <1>5 DEF Recent!Init

LEMMA CacheServes ==
    CacheInv /\ [Next]_vars
        => [~refetched' => Recent!Next]_<<request, Pages>>
<1> SUFFICES ASSUME CacheInv, [Next]_vars
             PROVE  [~refetched' => Recent!Next]_<<request, Pages>>
  OBVIOUS
<1>1. ASSUME NEW u \in Url, Hit(u), ~refetched' PROVE Recent!Next
  <2>1. ~refetched
    BY <1>1 DEF Hit
  <2>2. QED
    BY <1>1, <2>1, HitServes DEF Recent!Next
<1>2. ASSUME NEW u \in Url, Miss(u), ~refetched' PROVE Recent!Next
  <2>1. ~refetched
    BY <1>2 DEF Miss
  <2>2. QED
    BY <1>2, <2>1, MissFetches DEF Recent!Next
<1>3. ASSUME NEW u \in Url, Refetch(u) PROVE refetched'
  BY <1>3 DEF Refetch
<1>4. CASE Next
  BY <1>1, <1>2, <1>3, <1>4 DEF Next
<1>5. CASE UNCHANGED vars
  BY <1>5 DEF vars, heap, Pages
<1>6. QED
  BY <1>4, <1>5

(***************************************************************************)
(* Until a page "-1" is fetched again, the cache implements RecentPages:   *)
(* the pages on its list are those of the last Cap URLs requested, the     *)
(* last one first, and only a page that is not among them is fetched.      *)
(***************************************************************************)
THEOREM CacheKeepsRecent == Spec => KeepsRecentPages
<1>1. Spec => []CacheInv
  BY CacheInit, CacheStep, PTL DEF Spec
<1>2. QED
  BY <1>1, CacheStartsEmpty, CacheServes, PTL
     DEF Spec, KeepsRecentPages
=============================================================================
