----------------------------- MODULE OspfProofs -----------------------------
(***************************************************************************)
(* Proofs about Router and Ospf: updateRoutingTable computes the shortest  *)
(* distances, never changes a settled one and fills the table with         *)
(* neighbors that lead closer, and the menu keeps the tables so that a     *)
(* path never comes back, for any routers, links, weights in Nat and order *)
(* of the queue's ties.                                                    *)
(***************************************************************************)
EXTENDS Ospf, WellFoundedInduction, FiniteSetTheorems, TLAPS

(***************************************************************************)
(* Induction on the natural numbers, for sets: the library's theorem is    *)
(* about a predicate and has no instance here.                             *)
(***************************************************************************)
LEMMA NatLeast ==
    ASSUME NEW T \in SUBSET Nat, T # {}
    PROVE  \E m \in T : \A x \in T : m <= x
<1> DEFINE R == {p \in Nat \X Nat : p[1] < p[2]}
<1>1. OpToRel(<, Nat) = R
  BY Zenon DEF OpToRel
<1>2. IsWellFoundedOn(R, Nat)
  BY <1>1, NatLessThanWellFounded
<1> HIDE DEF R
<1>3. PICK m \in T : \A x \in T : ~(<<x, m>> \in R)
  BY <1>2, WFMin
<1>4. \A x \in T : ~(x < m)
  <2> SUFFICES ASSUME NEW x \in T, x < m PROVE <<x, m>> \in R
    BY <1>3
  <2>1. x \in Nat /\ m \in Nat
    OBVIOUS
  <2>2. QED
    BY <2>1 DEF R
<1>5. QED
  BY <1>4

LEMMA SetInduction ==
    ASSUME NEW T, 0 \in T, \A n \in Nat : n \in T => n + 1 \in T
    PROVE  Nat \subseteq T
<1> SUFFICES ASSUME Nat \ T # {} PROVE FALSE
  OBVIOUS
<1>1. PICK m \in Nat \ T : \A x \in Nat \ T : m <= x
  BY NatLeast
<1>2. m # 0 /\ m - 1 \in Nat
  BY <1>1
<1>3. m - 1 \in T
  BY <1>1, <1>2
<1>4. QED
  BY <1>1, <1>2, <1>3

LEMMA MinOf ==
    ASSUME NEW T \in SUBSET Nat, T # {}
    PROVE  Min(T) \in T /\ \A x \in T : Min(T) <= x
BY NatLeast DEF Min

(***************************************************************************)
(* Shortest walks in a graph: the routers R and the links N.               *)
(***************************************************************************)
Graph(R, N) == IsFiniteSet(R) /\ N \in [R -> SUBSET (R \X Weight)]

\* The functions that grow by no more than its weight over a link.
Potential(R, N, s, f) ==
    /\ f \in [R -> 0 .. Infinity]
    /\ f[s] = 0
    /\ \A u \in R : \A link \in N[u] : f[link[1]] <= f[u] + link[2]

LEMMA GraphLink ==
    ASSUME NEW R, NEW N, Graph(R, N), NEW u \in R, NEW link \in N[u]
    PROVE  /\ link[1] \in R /\ link[2] \in Weight /\ link[2] \in Nat
           /\ link = <<link[1], link[2]>>
<1>1. N[u] \in SUBSET (R \X Weight)
  BY DEF Graph
<1>2. link \in R \X Weight
  BY <1>1
<1>3. link[1] \in R /\ link[2] \in Weight
  BY <1>2
<1>4. link = <<link[1], link[2]>>
  BY <1>2
<1>5. QED
  BY <1>3, <1>4, RouterAssumption

\* One more round never lengthens a walk, and uses every link once more.
LEMMA CloserStep ==
    ASSUME NEW R, NEW N, Graph(R, N), NEW s \in R,
           NEW D \in [R -> 0 .. Infinity], D[s] = 0
    PROVE  LET E == Closer(R, N, D) IN
           /\ E \in [R -> 0 .. Infinity] /\ E[s] = 0
           /\ \A v \in R : E[v] <= D[v]
           /\ \A u \in R : \A link \in N[u] : E[link[1]] <= D[u] + link[2]
           /\ \A v \in R : \/ E[v] = D[v]
                           \/ \E u \in R : \E link \in N[u] :
                                link[1] = v /\ E[v] = D[u] + link[2]
<1> USE RouterAssumption
<1> DEFINE E == Closer(R, N, D)
           Ways(v) == {D[p[1]] + p[2] : p \in {q \in R \X Weight :
                                                 <<v, q[2]>> \in N[q[1]]}}
<1>1. E = [v \in R |-> Min({D[v]} \cup Ways(v))]
  BY DEF Closer
<1>2. ASSUME NEW v \in R
      PROVE  /\ Ways(v) \subseteq Nat
             /\ \A x \in Ways(v) : \E u \in R : \E link \in N[u] :
                  link[1] = v /\ x = D[u] + link[2]
             /\ \A u \in R : \A link \in N[u] :
                  link[1] = v => D[u] + link[2] \in Ways(v)
  <2>1. ASSUME NEW x \in Ways(v)
        PROVE  /\ x \in Nat
               /\ \E u \in R : \E link \in N[u] :
                    link[1] = v /\ x = D[u] + link[2]
    <3>1. PICK p \in R \X Weight :
                 <<v, p[2]>> \in N[p[1]] /\ x = D[p[1]] + p[2]
      BY <2>1
    <3>2. p[1] \in R /\ p[2] \in Weight
      BY <3>1
    <3>3. D[p[1]] \in Nat
      BY <3>2
    <3>4. p[2] \in Nat
      BY <3>2
    <3>5. <<v, p[2]>>[1] = v /\ <<v, p[2]>>[2] = p[2]
      OBVIOUS
    <3>6. QED
      BY <3>1, <3>2, <3>3, <3>4, <3>5
  <2>2. ASSUME NEW u \in R, NEW link \in N[u], link[1] = v
        PROVE  D[u] + link[2] \in Ways(v)
    <3>1. link = <<v, link[2]>> /\ link[2] \in Weight
      BY <2>2, GraphLink
    <3>2. <<u, link[2]>> \in {q \in R \X Weight : <<v, q[2]>> \in N[q[1]]}
      BY <3>1
    <3>3. QED
      BY <3>2
  <2>3. QED
    BY <2>1, <2>2
<1> HIDE DEF Ways, E
<1>3. ASSUME NEW v \in R
      PROVE  /\ E[v] \in {D[v]} \cup Ways(v)
             /\ E[v] \in Nat
             /\ \A x \in {D[v]} \cup Ways(v) : E[v] <= x
  <2>1. {D[v]} \cup Ways(v) \in SUBSET Nat
    BY <1>2
  <2>2. E[v] = Min({D[v]} \cup Ways(v))
    BY <1>1
  <2>3. QED
    BY <2>1, <2>2, MinOf
<1>4. \A v \in R : E[v] \in Nat /\ E[v] <= D[v]
  BY <1>3
<1>5. E \in [R -> 0 .. Infinity]
  <2>1. \A v \in R : E[v] \in 0 .. Infinity
    BY <1>4
  <2>2. E = [v \in R |-> E[v]]
    BY <1>1
  <2>3. QED
    BY <2>1, <2>2
<1>6. E[s] = 0
  BY <1>4
<1>7. \A u \in R : \A link \in N[u] : E[link[1]] <= D[u] + link[2]
  <2> TAKE u \in R
  <2> TAKE link \in N[u]
  <2>1. link[1] \in R
    BY GraphLink
  <2>2. QED
    BY <2>1, <1>2, <1>3
<1>8. \A v \in R : \/ E[v] = D[v]
                   \/ \E u \in R : \E link \in N[u] :
                        link[1] = v /\ E[v] = D[u] + link[2]
  BY <1>2, <1>3
<1>9. QED
  BY <1>4, <1>5, <1>6, <1>7, <1>8 DEF E

\* The rounds exist: the recursive function of Walks has its values.
LEMMA WalksChain ==
    ASSUME NEW R, NEW N, NEW s, NEW n \in Nat
    PROVE  \E D : /\ D[0] = [v \in R |-> IF v = s THEN 0 ELSE Infinity]
                  /\ \A k \in 0 .. n : k + 1 \in 0 .. n =>
                       D[k + 1] = Closer(R, N, D[k])
                  /\ Walks(R, N, s, n) = D[n]
<1> DEFINE first == [v \in R |-> IF v = s THEN 0 ELSE Infinity]
           Rounds(m, f) == f = [k \in 0 .. m |->
                                  IF k = 0 THEN first
                                  ELSE Closer(R, N, f[k - 1])]
           T == {m \in Nat : \E f : Rounds(m, f)}
<1>1. 0 \in T
  <2>1. Rounds(0, [k \in 0 .. 0 |-> first])
    OBVIOUS
  <2>2. QED
    BY <2>1
<1>2. ASSUME NEW m \in Nat, m \in T PROVE m + 1 \in T
  <2>1. PICK f : Rounds(m, f)
    BY <1>2
  <2> DEFINE h == [k \in 0 .. m + 1 |-> IF k = m + 1
                                        THEN Closer(R, N, f[m]) ELSE f[k]]
  <2>2. ASSUME NEW k \in 0 .. m + 1
        PROVE  h[k] = IF k = 0 THEN first ELSE Closer(R, N, h[k - 1])
    <3>1. CASE k = m + 1
      BY <3>1
    <3>2. CASE k # m + 1
      <4>1. k \in 0 .. m /\ h[k] = f[k]
        BY <3>2
      <4>2. f[k] = IF k = 0 THEN first ELSE Closer(R, N, f[k - 1])
        BY <2>1, <4>1
      <4>3. k # 0 => h[k - 1] = f[k - 1]
        BY <4>1
      <4>4. QED
        BY <4>1, <4>2, <4>3
    <3>3. QED
      BY <3>1, <3>2
  <2>3. h = [k \in 0 .. m + 1 |-> h[k]]
    OBVIOUS
  <2>4. Rounds(m + 1, h)
    BY <2>2, <2>3
  <2> HIDE DEF h, Rounds
  <2>5. QED
    BY <2>4
<1>3. n \in T
  BY <1>1, <1>2, SetInduction
<1>4. PICK f : Rounds(n, f)
  BY <1>3
<1> DEFINE D == CHOOSE d : Rounds(n, d)
<1>5. Walks(R, N, s, n) = D[n]
  BY DEF Walks
<1> HIDE DEF D
<1>6. Rounds(n, D)
  BY <1>4 DEF D
<1> HIDE DEF first
<1>7. \A k \in 0 .. n : D[k] = IF k = 0 THEN first
                              ELSE Closer(R, N, D[k - 1])
  BY <1>6
<1> HIDE DEF Rounds
<1>8. D[0] = first
  BY <1>7
<1>9. ASSUME NEW k \in 0 .. n, k + 1 \in 0 .. n
      PROVE  D[k + 1] = Closer(R, N, D[k])
  BY <1>7, <1>9
<1>10. QED
  BY <1>5, <1>8, <1>9 DEF first

LEMMA MaxBelow ==
    ASSUME NEW n \in Nat, NEW T \in SUBSET (0 .. n), T # {}
    PROVE  \E m \in T : \A x \in T : x <= m
<1> DEFINE U == {y \in Nat : n - y \in T}
<1>1. U # {}
  <2>1. PICK x \in T : TRUE
    OBVIOUS
  <2>2. n - x \in Nat /\ n - (n - x) = x
    OBVIOUS
  <2>3. QED
    BY <2>2
<1>2. PICK y \in U : \A z \in U : y <= z
  BY <1>1, NatLeast
<1>3. n - y \in T
  OBVIOUS
<1>4. ASSUME NEW x \in T PROVE x <= n - y
  <2>1. n - x \in Nat /\ n - (n - x) = x
    OBVIOUS
  <2>2. n - x \in U
    BY <2>1
  <2>3. y <= n - x
    BY <1>2, <2>2
  <2>4. QED
    BY <2>3
<1>5. QED
  BY <1>3, <1>4

\* There is a greatest potential.
LEMMA GreatestPotential ==
    ASSUME NEW R, NEW N, Graph(R, N), NEW s \in R
    PROVE  \E g : /\ Potential(R, N, s, g)
                  /\ \A f : Potential(R, N, s, f) => \A v \in R : f[v] <= g[v]
<1> USE RouterAssumption
<1> DEFINE P == {f \in [R -> 0 .. Infinity] : Potential(R, N, s, f)}
           At(v) == {f[v] : f \in P}
           g == [v \in R |-> CHOOSE m \in At(v) : \A x \in At(v) : x <= m]
<1>1. [v \in R |-> 0] \in P
  <2>1. \A u \in R : \A link \in N[u] : 0 <= 0 + link[2] /\ link[1] \in R
    BY GraphLink
  <2>2. QED
    BY <2>1 DEF Potential
<1>2. ASSUME NEW v \in R
      PROVE  /\ g[v] \in At(v)
             /\ \A x \in At(v) : x <= g[v]
  <2>1. At(v) \in SUBSET (0 .. Infinity)
    OBVIOUS
  <2>2. At(v) # {}
    BY <1>1
  <2> HIDE DEF At
  <2>3. \E m \in At(v) : \A x \in At(v) : x <= m
    BY <2>1, <2>2, MaxBelow
  <2>4. g[v] = CHOOSE m \in At(v) : \A x \in At(v) : x <= m
    OBVIOUS
  <2> HIDE DEF g
  <2>5. QED
    BY <2>3, <2>4
<1>3. \A v \in R : g[v] \in 0 .. Infinity /\ \E f \in P : g[v] = f[v]
  BY <1>2
<1>4. \A f \in P : \A v \in R : f[v] <= g[v]
  BY <1>2
<1> HIDE DEF At
<1>5. g = [v \in R |-> g[v]]
  OBVIOUS
<1> HIDE DEF g
<1>6. g \in [R -> 0 .. Infinity]
  BY <1>3, <1>5
<1>7. g[s] = 0
  BY <1>3 DEF Potential
<1>8. ASSUME NEW u \in R, NEW link \in N[u]
      PROVE  g[link[1]] <= g[u] + link[2]
  <2>1. link[1] \in R /\ link[2] \in Nat
    BY GraphLink
  <2>2. PICK f \in P : g[link[1]] = f[link[1]]
    BY <1>3, <2>1
  <2>3. f[link[1]] <= f[u] + link[2] /\ f[u] <= g[u]
    BY <1>4 DEF Potential
  <2>4. f[link[1]] \in Nat /\ f[u] \in Nat /\ g[u] \in Nat
    BY <1>6, <2>1
  <2>5. QED
    BY <2>1, <2>2, <2>3, <2>4
<1>9. Potential(R, N, s, g)
  BY <1>6, <1>7, <1>8 DEF Potential
<1>10. ASSUME NEW f, Potential(R, N, s, f) PROVE f \in P
  BY <1>10 DEF Potential
<1> HIDE DEF P
<1>11. QED
  BY <1>4, <1>9, <1>10

(***************************************************************************)
(* A round carries the exact values to one more router at least: were it   *)
(* not so, the potential could be raised everywhere else.                  *)
(***************************************************************************)
LEMMA RoundSpreads ==
    ASSUME NEW R, NEW N, Graph(R, N), NEW s \in R,
           NEW g, Potential(R, N, s, g),
           \A f : Potential(R, N, s, f) => \A v \in R : f[v] <= g[v],
           NEW D \in [R -> 0 .. Infinity], D[s] = 0,
           \A v \in R : g[v] <= D[v],
           \E v \in R : D[v] # g[v]
    PROVE  \E w \in R : D[w] # g[w] /\ Closer(R, N, D)[w] = g[w]
<1> USE RouterAssumption
<1> DEFINE A == {v \in R : D[v] = g[v]}
           E == Closer(R, N, D)
           h == [v \in R |-> IF v \in A THEN g[v] ELSE g[v] + 1]
<1> HIDE DEF E
<1> SUFFICES ASSUME \A w \in R \ A : E[w] # g[w] PROVE FALSE
  BY DEF E
<1>1. /\ E \in [R -> 0 .. Infinity] /\ E[s] = 0
      /\ \A u \in R : \A link \in N[u] : E[link[1]] <= D[u] + link[2]
      /\ \A v \in R : \/ E[v] = D[v]
                      \/ \E u \in R : \E link \in N[u] :
                           link[1] = v /\ E[v] = D[u] + link[2]
  BY CloserStep DEF E
<1>2. /\ g \in [R -> 0 .. Infinity] /\ g[s] = 0
      /\ \A u \in R : \A link \in N[u] : g[link[1]] <= g[u] + link[2]
  BY DEF Potential
<1>3. \A v \in R : g[v] <= E[v]
  <2> TAKE v \in R
  <2>1. CASE E[v] = D[v]
    BY <2>1
  <2>2. CASE \E u \in R : \E link \in N[u] :
               link[1] = v /\ E[v] = D[u] + link[2]
    <3>1. PICK u \in R : \E link \in N[u] :
                           link[1] = v /\ E[v] = D[u] + link[2]
      BY <2>2
    <3>2. PICK link \in N[u] : link[1] = v /\ E[v] = D[u] + link[2]
      BY <3>1
    <3>3. link[2] \in Nat /\ g[u] \in Nat /\ D[u] \in Nat /\ g[v] \in Nat
      BY <3>2, <1>2, GraphLink
    <3>4. g[v] <= g[u] + link[2] /\ g[u] <= D[u]
      BY <3>2, <1>2
    <3>5. QED
      BY <3>2, <3>3, <3>4
  <2>3. QED
    BY <1>1, <2>1, <2>2
<1>4. \A v \in R \ A : g[v] < D[v] /\ g[v] < E[v]
  <2> TAKE v \in R \ A
  <2>1. g[v] # D[v] /\ g[v] # E[v] /\ g[v] <= D[v] /\ g[v] <= E[v]
    BY <1>3
  <2>2. g[v] \in Nat /\ D[v] \in Nat /\ E[v] \in Nat
    BY <1>1, <1>2
  <2>3. QED
    BY <2>1, <2>2
<1>5. h \in [R -> 0 .. Infinity]
  <2>1. ASSUME NEW v \in R PROVE h[v] \in 0 .. Infinity
    <3>1. g[v] \in 0 .. Infinity /\ D[v] \in 0 .. Infinity
      BY <1>2
    <3>2. QED
      BY <3>1, <1>4
  <2>2. QED
    BY <2>1
<1>6. s \in A /\ h[s] = 0
  BY <1>2
<1>7. ASSUME NEW u \in R, NEW link \in N[u]
      PROVE  h[link[1]] <= h[u] + link[2]
  <2> DEFINE w == link[1]
  <2>1. w \in R /\ link[2] \in Nat
    BY GraphLink
  <2>2. /\ g[w] \in Nat /\ g[u] \in Nat /\ D[u] \in Nat /\ E[w] \in Nat
        /\ g[w] <= g[u] + link[2] /\ E[w] <= D[u] + link[2]
    BY <1>1, <1>2, <2>1
  <2> HIDE DEF w
  <2>3. /\ h[w] = IF w \in A THEN g[w] ELSE g[w] + 1
        /\ h[u] = IF u \in A THEN g[u] ELSE g[u] + 1
    BY <2>1
  <2>4. u \in A => D[u] = g[u]
    OBVIOUS
  <2>5. w \notin A => g[w] < E[w]
    BY <1>4, <2>1
  <2> HIDE DEF h
  <2>6. h[w] <= h[u] + link[2]
    BY <2>1, <2>2, <2>3, <2>4, <2>5
  <2>7. QED
    BY <2>6 DEF w
<1>8. Potential(R, N, s, h)
  BY <1>5, <1>6, <1>7 DEF Potential
<1>9. PICK v \in R : v \notin A
  OBVIOUS
<1>10. h[v] <= g[v]
  BY <1>8
<1>11. h[v] = g[v] + 1 /\ g[v] \in Nat
  BY <1>2, <1>9
<1>12. QED
  BY <1>10, <1>11

(***************************************************************************)
(* The reference is right: as many rounds as there are routers give the    *)
(* greatest potential.                                                     *)
(***************************************************************************)
LEMMA WalksGreatest ==
    ASSUME NEW R, NEW N, Graph(R, N), NEW s \in R
    PROVE  LET d == Walks(R, N, s, Cardinality(R)) IN
           /\ Potential(R, N, s, d)
           /\ \A f : Potential(R, N, s, f) => \A v \in R : f[v] <= d[v]
<1> USE RouterAssumption
<1> DEFINE n == Cardinality(R)
<1>1. IsFiniteSet(R) /\ n \in Nat
  BY FS_CardinalityType DEF Graph
<1>2. PICK g : /\ Potential(R, N, s, g)
               /\ \A f : Potential(R, N, s, f) => \A v \in R : f[v] <= g[v]
  BY GreatestPotential
<1>3. /\ g \in [R -> 0 .. Infinity] /\ g[s] = 0
      /\ \A u \in R : \A link \in N[u] : g[link[1]] <= g[u] + link[2]
  BY <1>2 DEF Potential
<1> HIDE DEF n
<1>4. PICK D : /\ D[0] = [v \in R |-> IF v = s THEN 0 ELSE Infinity]
               /\ \A k \in 0 .. n : k + 1 \in 0 .. n =>
                    D[k + 1] = Closer(R, N, D[k])
               /\ Walks(R, N, s, n) = D[n]
  BY <1>1, WalksChain
<1> DEFINE A(k) == {v \in R : D[k][v] = g[v]}
           Good(k) == /\ D[k] \in [R -> 0 .. Infinity] /\ D[k][s] = 0
                      /\ \A v \in R : g[v] <= D[k][v]
                      /\ A(k) = R \/ Cardinality(A(k)) >= k + 1
           T == {k \in Nat : k \in 0 .. n => Good(k)}
<1>5. ASSUME NEW k \in Nat
      PROVE  A(k) \in SUBSET R /\ Cardinality(A(k)) \in Nat
  <2>1. A(k) \in SUBSET R
    OBVIOUS
  <2> HIDE DEF A
  <2>2. IsFiniteSet(A(k))
    BY <1>1, <2>1, FS_Subset
  <2>3. QED
    BY <2>1, <2>2, FS_CardinalityType
<1>6. 0 \in T
  <2>1. D[0] \in [R -> 0 .. Infinity] /\ D[0][s] = 0
    BY <1>4
  <2>2. \A v \in R : g[v] <= D[0][v]
    BY <1>3, <1>4
  <2>3. s \in A(0)
    BY <1>3, <2>1
  <2>4. Cardinality(A(0)) >= 1
    <3> HIDE DEF A
    <3>1. IsFiniteSet(A(0))
      BY <1>1, <1>5, FS_Subset
    <3>2. Cardinality(A(0)) # 0
      BY <2>3, <3>1, FS_EmptySet
    <3>3. QED
      BY <3>2, <1>5
  <2>5. QED
    BY <2>1, <2>2, <2>4
<1>7. ASSUME NEW k \in Nat, k \in T PROVE k + 1 \in T
  <2> SUFFICES ASSUME k + 1 \in 0 .. n PROVE Good(k + 1)
    OBVIOUS
  <2>1. k \in 0 .. n /\ D[k + 1] = Closer(R, N, D[k])
    BY <1>1, <1>4
  <2>2. Good(k)
    BY <1>7, <2>1
  <2> DEFINE E == D[k + 1]
  <2>3. /\ E \in [R -> 0 .. Infinity] /\ E[s] = 0
        /\ \A v \in R : E[v] <= D[k][v]
        /\ \A v \in R : \/ E[v] = D[k][v]
                        \/ \E u \in R : \E link \in N[u] :
                             link[1] = v /\ E[v] = D[k][u] + link[2]
    BY <2>1, <2>2, CloserStep
  <2>4. \A v \in R : g[v] <= E[v]
    <3> TAKE v \in R
    <3>1. CASE E[v] = D[k][v]
      BY <3>1, <2>2
    <3>2. CASE \E u \in R : \E link \in N[u] :
                 link[1] = v /\ E[v] = D[k][u] + link[2]
      <4>1. PICK u \in R : \E link \in N[u] :
                             link[1] = v /\ E[v] = D[k][u] + link[2]
        BY <3>2
      <4>2. PICK link \in N[u] : link[1] = v /\ E[v] = D[k][u] + link[2]
        BY <4>1
      <4>3. /\ link[2] \in Nat /\ g[u] \in Nat /\ g[v] \in Nat
            /\ D[k][u] \in Nat
        BY <1>3, <2>2, GraphLink
      <4>4. g[v] <= g[u] + link[2] /\ g[u] <= D[k][u]
        BY <1>3, <2>2, <4>2
      <4>5. QED
        BY <4>2, <4>3, <4>4
    <3>3. QED
      BY <2>3, <3>1, <3>2
  <2>5. A(k) \subseteq A(k + 1)
    <3> SUFFICES ASSUME NEW v \in A(k) PROVE E[v] = g[v]
      OBVIOUS
    <3>1. g[v] <= E[v] /\ E[v] <= D[k][v] /\ D[k][v] = g[v]
      BY <2>3, <2>4
    <3>2. g[v] \in Nat /\ E[v] \in Nat
      BY <1>3, <2>3
    <3>3. QED
      BY <3>1, <3>2
  <2>6. A(k + 1) = R \/ Cardinality(A(k + 1)) >= k + 2
    <3>1. CASE A(k) = R
      BY <3>1, <2>5, <1>5
    <3>2. CASE A(k) # R
      <4>1. \E w \in R \ A(k) : E[w] = g[w]
        <5>1. PICK d : d = D[k]
          OBVIOUS
        <5>2. /\ d \in [R -> 0 .. Infinity] /\ d[s] = 0
              /\ \A v \in R : g[v] <= d[v]
              /\ \E v \in R : d[v] # g[v]
          BY <2>2, <3>2, <5>1
        <5>3. \E w \in R : d[w] # g[w] /\ Closer(R, N, d)[w] = g[w]
          BY <1>2, <5>2, RoundSpreads
        <5>4. QED
          BY <2>1, <5>1, <5>3
      <4>2. A(k) # A(k + 1)
        BY <4>1
      <4>3. Cardinality(A(k)) >= k + 1
        BY <2>2, <3>2
      <4> HIDE DEF A
      <4>4. IsFiniteSet(A(k + 1)) /\ A(k) \in SUBSET A(k + 1)
        BY <1>1, <1>5, <2>5, FS_Subset
      <4>5. Cardinality(A(k)) <= Cardinality(A(k + 1))
            /\ Cardinality(A(k)) # Cardinality(A(k + 1))
        BY <4>2, <4>4, FS_Subset
      <4>6. Cardinality(A(k)) \in Nat /\ Cardinality(A(k + 1)) \in Nat
        BY <1>5
      <4>7. QED
        BY <4>3, <4>5, <4>6
    <3>3. QED
      BY <3>1, <3>2
  <2> HIDE DEF A
  <2>7. QED
    BY <2>3, <2>4, <2>6
<1>8. n \in T
  <2> HIDE DEF T
  <2>1. QED
    BY <1>1, <1>6, <1>7, SetInduction
<1>9. Good(n)
  BY <1>1, <1>8
<1>10. A(n) = R
  <2> HIDE DEF A
  <2>1. Cardinality(A(n)) <= n
    BY <1>1, <1>5, FS_Subset DEF n
  <2>2. QED
    BY <1>1, <1>5, <1>9, <2>1
<1>11. D[n] = g
  BY <1>3, <1>9, <1>10
<1>12. QED
  BY <1>2, <1>4, <1>11 DEF n
\* A link that gives no shorter way to its end.
Relaxed(u, link) == distance[link[1]] <= distance[u] + link[2]

(***************************************************************************)
(* The invariant of the search.  Parents: a router reached has a           *)
(* predecessor and the link between them.  Waiting: a link not relaxed is  *)
(* still to be scanned, now or when its router is taken from the queue.    *)
(* Frontier: no settled router is farther than a queue entry.  Scanning:   *)
(* the router being scanned is either the farthest settled one, or was     *)
(* taken from a stale entry and all its links are relaxed already.         *)
(***************************************************************************)
Source == distance[self] = 0 /\ next_hop[self] = NULL

Parents ==
    \A v \in routers \ {self} :
        IF distance[v] < Infinity
        THEN /\ next_hop[v] \in routers \ {v}
             /\ distance[next_hop[v]] < Infinity
             /\ \E link \in neighbors[next_hop[v]] :
                  /\ link[1] = v
                  /\ distance[next_hop[v]] + link[2] <= distance[v]
        ELSE next_hop[v] = NULL

Waiting ==
    \A u \in routers : \A link \in neighbors[u] :
        \/ Relaxed(u, link)
        \/ <<distance[u], u>> \in pq
        \/ node = u /\ link \in scan

Frontier == \A v \in routers : Settled(v) => \A p \in pq : distance[v] <= p[1]

Scanning ==
    scan # {} =>
        /\ distance[node] < Infinity
        /\ \/ \A v \in routers : Settled(v) => distance[v] <= distance[node]
           \/ \A link \in neighbors[node] : Relaxed(node, link)

Queue == \A p \in pq : distance[p[2]] <= p[1]

SearchInv == Source /\ Parents /\ Waiting /\ Frontier /\ Scanning /\ Queue

\* While the predecessors are followed they stay between self and dest.
Chasing ==
    dest # NULL =>
        /\ dest \in todo
        /\ distance[dest] < Infinity
        /\ distance[temp] <= distance[dest]

\* Which locals are in use in which part of the function.
Locals ==
    /\ phase = "search" => todo = {} /\ dest = NULL
    /\ phase = "table" => /\ pq = {} /\ scan = {}
                          /\ next_hop \in [routers -> routers]
    /\ dest = NULL => temp = NULL

UpdateInv ==
    /\ RouterTypeOK
    /\ Locals
    /\ phase = "search" => SearchInv
    /\ ShortestPathTree
    /\ EntriesLeadOut
    /\ phase = "table" => Chasing

-----------------------------------------------------------------------------

\* A link leads to a router, at a weight that is a natural number.
LEMMA LinkType ==
    ASSUME RouterTypeOK, NEW u \in routers, NEW link \in neighbors[u]
    PROVE  link[1] \in routers /\ link[2] \in Nat
<1>1. neighbors[u] \in SUBSET (routers \X Weight)
  BY DEF RouterTypeOK
<1>2. link \in routers \X Weight
  BY <1>1
<1>3. link[1] \in routers /\ link[2] \in Weight
  BY <1>2
<1>4. QED
  BY <1>3, RouterAssumption

LEMMA UpdateInit == RouterInit => UpdateInv
<1> SUFFICES ASSUME RouterInit PROVE UpdateInv
  OBVIOUS
<1>1. phase = "idle" /\ NoUpdate
  BY DEF RouterInit, NoUpdate
<1>2. neighbors \in [routers -> SUBSET (routers \X Weight)]
  BY TopologyAssumption DEF RouterInit, Link
<1>3. RouterTypeOK
  BY <1>1, <1>2, RouterAssumption
     DEF RouterInit, RouterTypeOK, NoUpdate, Hops
<1>4. QED
  BY <1>1, <1>3 DEF UpdateInv, Locals, NoUpdate, ShortestPathTree,
                    EntriesLeadOut

LEMMA StartStep ==
    ASSUME UpdateInv, NEW r \in routers, Start(r)
    PROVE  UpdateInv'
<1> USE RouterAssumption DEF UpdateInv
<1>0. phase = "idle" /\ NoUpdate /\ phase' = "search" /\ self' = r
  BY DEF Start, RouterTypeOK
<1>1. /\ distance' = [x \in routers |-> IF x = r THEN 0 ELSE Infinity]
      /\ next_hop' = [x \in routers |-> NULL]
      /\ pq' = {<<0, r>>} /\ scan' = {} /\ node' = NULL
      /\ todo' = {} /\ dest' = NULL /\ temp' = NULL
      /\ UNCHANGED <<routers, neighbors>>
  BY <1>0 DEF Start, NoUpdate, build, topology
<1>2. RouterTypeOK'
  <2>1. DOMAIN routing_table' = routers'
    BY <1>1 DEF Start, RouterTypeOK
  <2>2. pq' \subseteq (0 .. Infinity - 1) \X routers'
    BY <1>1
  <2>3. /\ distance' \in [routers' -> 0 .. Infinity]
        /\ next_hop' \in [routers' -> Hops(routers')]
    BY <1>1 DEF Hops
  <2>4. QED
    BY <1>0, <1>1, <2>1, <2>2, <2>3 DEF RouterTypeOK, Hops
<1>3. Locals'
  BY <1>0, <1>1 DEF Locals
<1>4. SearchInv'
  <2>1. Source' /\ Scanning' /\ Queue'
    BY <1>0, <1>1 DEF Source, Queue, Scanning
  <2>p. Parents'
    <3> SUFFICES ASSUME NEW v \in routers \ {r}
                 PROVE  ~(distance'[v] < Infinity) /\ next_hop'[v] = NULL
      BY <1>0, <1>1 DEF Parents
    <3>1. QED
      BY <1>1
  <2>2. Waiting'
    <3> SUFFICES ASSUME NEW u \in routers, NEW link \in neighbors[u]
                 PROVE  distance'[link[1]] <= distance'[u] + link[2]
                        \/ <<distance'[u], u>> \in pq'
      BY <1>1 DEF Waiting, Relaxed
    <3>1. link[1] \in routers /\ link[2] \in Nat
      BY LinkType
    <3>2. QED
      BY <3>1, <1>1
  <2>3. Frontier'
    BY <1>0, <1>1 DEF Frontier, Settled
  <2>4. QED
    BY <2>1, <2>p, <2>2, <2>3 DEF SearchInv
<1>5. ShortestPathTree' /\ EntriesLeadOut'
  BY <1>0 DEF ShortestPathTree, EntriesLeadOut
<1>6. QED
  BY <1>0, <1>2, <1>3, <1>4, <1>5

LEMMA PopStep ==
    ASSUME UpdateInv, Pop
    PROVE  UpdateInv'
<1> USE DEF UpdateInv
<1>1. /\ phase = "search" /\ phase' = "search" /\ scan = {}
      /\ UNCHANGED <<routers, neighbors, routing_table, self, distance,
                     next_hop, todo, dest, temp>>
  BY DEF Pop, topology, build
<1>2. PICK p \in pq : /\ Top(p)
                      /\ pq' = pq \ {p}
                      /\ node' = p[2]
                      /\ scan' = neighbors[p[2]]
  BY DEF Pop
<1>3. SearchInv
  BY <1>1
<1>4. /\ distance \in [routers -> 0 .. Infinity]
      /\ pq \subseteq (0 .. Infinity - 1) \X routers
  BY <1>1 DEF RouterTypeOK
<1>5. p[1] \in 0 .. Infinity - 1 /\ p[2] \in routers /\ p = <<p[1], p[2]>>
  BY <1>4
<1>6. distance[p[2]] <= p[1] /\ distance[p[2]] \in Nat
  BY <1>3, <1>4, <1>5, RouterAssumption DEF SearchInv, Queue
<1>7. RouterTypeOK'
  BY <1>1, <1>2, <1>5 DEF RouterTypeOK, Hops
<1>8. Locals'
  BY <1>1 DEF Locals
<1>9. Source' /\ Parents' /\ Queue'
  BY <1>1, <1>2, <1>3 DEF SearchInv, Source, Parents, Queue
<1>10. Waiting'
  <2> SUFFICES ASSUME NEW u \in routers, NEW link \in neighbors[u]
               PROVE  \/ Relaxed(u, link)
                      \/ <<distance[u], u>> \in pq'
                      \/ node' = u /\ link \in scan'
    BY <1>1 DEF Waiting, Relaxed
  <2>1. Relaxed(u, link) \/ <<distance[u], u>> \in pq
    BY <1>1, <1>3 DEF SearchInv, Waiting
  <2>2. CASE <<distance[u], u>> = p
    BY <2>2, <1>2, <1>5
  <2>3. CASE <<distance[u], u>> # p
    BY <2>1, <2>3, <1>2
  <2>4. QED
    BY <2>2, <2>3
<1>11. ASSUME NEW v \in routers, Settled(v)'
       PROVE  distance[v] <= p[1] /\ \A q \in pq' : distance[v] <= q[1]
  <2>1. Settled(v) \/ <<distance[v], v>> = p
    BY <1>1, <1>2, <1>11 DEF Settled
  <2>2. CASE Settled(v)
    BY <2>2, <1>2, <1>3 DEF SearchInv, Frontier
  <2>3. CASE <<distance[v], v>> = p
    BY <2>3, <1>2, <1>5 DEF Top
  <2>4. QED
    BY <2>1, <2>2, <2>3
<1>12. Frontier'
  BY <1>1, <1>11 DEF Frontier
<1>13. Scanning'
  <2>1. distance'[node'] < Infinity
    BY <1>1, <1>2, <1>5, <1>6, RouterAssumption
  <2>2. CASE distance[p[2]] = p[1]
    <3>1. \A v \in routers : Settled(v)' => distance'[v] <= distance'[node']
      BY <1>1, <1>2, <1>11, <2>2
    <3>2. QED
      BY <1>1, <2>1, <3>1 DEF Scanning
  <2>3. CASE distance[p[2]] # p[1]
    <3>1. <<distance[p[2]], p[2]>> \notin pq
      BY <2>3, <1>2, <1>5, <1>6 DEF Top
    <3>2. \A link \in neighbors[p[2]] : Relaxed(p[2], link)
      BY <3>1, <1>1, <1>3, <1>5 DEF SearchInv, Waiting
    <3>3. \A link \in neighbors'[node'] : Relaxed(node, link)'
      BY <3>2, <1>1, <1>2 DEF Relaxed
    <3>4. QED
      BY <2>1, <3>3 DEF Scanning
  <2>4. QED
    BY <2>2, <2>3
<1>14. ShortestPathTree' /\ EntriesLeadOut'
  BY <1>1 DEF ShortestPathTree, EntriesLeadOut
<1>15. QED
  BY <1>1, <1>7, <1>8, <1>9, <1>10, <1>12, <1>13, <1>14 DEF SearchInv

(***************************************************************************)
(* A link that shortens the way to its end does so for a router that is    *)
(* neither self nor settled.                                               *)
(***************************************************************************)
LEMMA ShorterUnsettled ==
    ASSUME UpdateInv, phase = "search", NEW link \in scan, Shorter(link)
    PROVE  /\ node \in routers /\ link \in neighbors[node]
           /\ link[1] \in routers \ {self, node} /\ link[2] \in Nat
           /\ distance[node] + link[2] \in 0 .. Infinity - 1
           /\ distance[node] \in 0 .. Infinity - 1
           /\ \A v \in routers : Settled(v) =>
                v # link[1] /\ distance[v] <= distance[node]
<1> USE RouterAssumption DEF UpdateInv
<1>1. node \in routers /\ link \in neighbors[node]
  BY DEF RouterTypeOK
<1>2. link[1] \in routers /\ link[2] \in Nat
  BY <1>1, LinkType
<1>3. distance \in [routers -> 0 .. Infinity] /\ self \in routers
  BY DEF RouterTypeOK
<1>4. /\ distance[node] \in Nat /\ distance[link[1]] \in 0 .. Infinity
      /\ distance[self] = 0
  BY <1>1, <1>2, <1>3 DEF SearchInv, Source
<1>5. distance[node] + link[2] \in 0 .. Infinity - 1
  BY <1>2, <1>4 DEF Shorter, Through
<1>6. link[1] # self /\ link[1] # node
  BY <1>2, <1>4 DEF Shorter, Through
<1>7. ~Relaxed(node, link)
  BY <1>2, <1>4 DEF Shorter, Through, Relaxed
<1>8. \A v \in routers : Settled(v) => distance[v] <= distance[node]
  BY <1>1, <1>7 DEF SearchInv, Scanning
<1>9. ASSUME NEW v \in routers, Settled(v) PROVE v # link[1]
  BY <1>8, <1>9, <1>2, <1>4 DEF Shorter, Through
<1>10. QED
  BY <1>1, <1>2, <1>4, <1>5, <1>6, <1>8, <1>9

LEMMA RelaxStep ==
    ASSUME UpdateInv, Relax
    PROVE  UpdateInv'
<1> USE RouterAssumption DEF UpdateInv
<1>1. /\ phase = "search" /\ phase' = "search"
      /\ UNCHANGED <<routers, neighbors, routing_table, self, node, todo,
                     dest, temp>>
  BY DEF Relax, topology, build
<1>2. PICK link \in scan :
        /\ scan' = scan \ {link}
        /\ IF Shorter(link)
           THEN /\ distance' = [distance EXCEPT ![link[1]] = Through(link)]
                /\ next_hop' = [next_hop EXCEPT ![link[1]] = node]
                /\ pq' = pq \cup {<<Through(link), link[1]>>}
           ELSE UNCHANGED <<distance, next_hop, pq>>
  BY DEF Relax
<1>3. SearchInv
  BY <1>1
<1>4. /\ distance \in [routers -> 0 .. Infinity]
      /\ next_hop \in [routers -> Hops(routers)]
      /\ pq \subseteq (0 .. Infinity - 1) \X routers
      /\ node \in routers /\ link \in neighbors[node]
      /\ scan \subseteq neighbors[node]
  BY <1>1, <1>2 DEF RouterTypeOK
<1>5. link[1] \in routers /\ link[2] \in Nat
  BY <1>4, LinkType
<1>6. Locals' /\ ShortestPathTree' /\ EntriesLeadOut'
  BY <1>1 DEF Locals, ShortestPathTree, EntriesLeadOut
<1>7. CASE ~Shorter(link)
  <2>1. UNCHANGED <<distance, next_hop, pq>>
    BY <1>2, <1>7
  <2>2. RouterTypeOK'
    BY <1>1, <1>2, <2>1 DEF RouterTypeOK, NoUpdate
  <2>3. Source' /\ Parents' /\ Queue' /\ Frontier' /\ Scanning'
    BY <1>1, <1>2, <1>3, <2>1
       DEF SearchInv, Source, Parents, Queue, Frontier, Scanning, Settled,
           Relaxed
  <2>4. Relaxed(node, link)
    BY <1>4, <1>5, <1>7 DEF Relaxed, Shorter, Through
  <2>5. Waiting'
    BY <1>1, <1>2, <1>3, <2>1, <2>4 DEF SearchInv, Waiting, Relaxed
  <2>6. QED
    BY <1>1, <1>6, <2>2, <2>3, <2>5 DEF SearchInv
<1>8. CASE Shorter(link)
  <2> DEFINE v == link[1]
             d == Through(link)
  <2>1. /\ v \in routers \ {self, node}
        /\ d \in 0 .. Infinity - 1
        /\ distance[node] \in 0 .. Infinity - 1
        /\ distance[node] <= d
        /\ d < distance[v]
        /\ \A x \in routers : Settled(x) => distance[x] <= distance[node]
    BY <1>1, <1>5, <1>8, ShorterUnsettled DEF Shorter, Through
  <2>2. /\ distance' = [distance EXCEPT ![v] = d]
        /\ next_hop' = [next_hop EXCEPT ![v] = node]
        /\ pq' = pq \cup {<<d, v>>}
    BY <1>2, <1>8
  <2> HIDE DEF v, d
  <2>3. /\ distance' \in [routers -> 0 .. Infinity]
        /\ distance'[v] = d /\ distance'[node] = distance[node]
        /\ \A x \in routers : distance'[x] <= distance[x]
        /\ \A x \in routers \ {v} : distance'[x] = distance[x]
    BY <1>4, <2>1, <2>2
  <2>4. /\ next_hop' \in [routers -> Hops(routers)]
        /\ next_hop'[v] = node
        /\ \A x \in routers \ {v} : next_hop'[x] = next_hop[x]
    BY <1>4, <2>1, <2>2 DEF Hops
  <2>5. pq' \subseteq (0 .. Infinity - 1) \X routers
    BY <1>4, <2>1, <2>2
  <2>6. RouterTypeOK'
    BY <1>1, <1>2, <1>4, <2>3, <2>4, <2>5 DEF RouterTypeOK
  <2>7. Source'
    BY <1>1, <1>3, <2>1, <2>3, <2>4 DEF SearchInv, Source, RouterTypeOK
  <2>8. Queue'
    BY <1>3, <1>4, <2>1, <2>2, <2>3, <2>5 DEF SearchInv, Queue
  <2>9. Parents'
    <3> SUFFICES ASSUME NEW x \in routers \ {self}
                 PROVE  IF distance'[x] < Infinity
                        THEN /\ next_hop'[x] \in routers \ {x}
                             /\ distance'[next_hop'[x]] < Infinity
                             /\ \E l \in neighbors[next_hop'[x]] :
                                  /\ l[1] = x
                                  /\ distance'[next_hop'[x]] + l[2]
                                        <= distance'[x]
                        ELSE next_hop'[x] = NULL
      BY <1>1 DEF Parents
    <3>1. CASE x = v
      BY <3>1, <1>4, <1>5, <2>1, <2>3, <2>4 DEF v, d, Through
    <3>2. CASE x # v /\ distance[x] < Infinity
      <4>1. /\ next_hop[x] \in routers \ {x}
            /\ distance[next_hop[x]] < Infinity
        BY <3>2, <1>3 DEF SearchInv, Parents
      <4>2. PICK l \in neighbors[next_hop[x]] :
                   l[1] = x /\ distance[next_hop[x]] + l[2] <= distance[x]
        BY <3>2, <1>3 DEF SearchInv, Parents
      <4>3. /\ distance'[next_hop[x]] <= distance[next_hop[x]]
            /\ distance'[next_hop[x]] \in Nat /\ distance[next_hop[x]] \in Nat
            /\ l[2] \in Nat /\ distance[x] \in Nat
        BY <4>1, <4>2, <1>4, <2>3, LinkType
      <4>4. QED
        BY <3>2, <4>1, <4>2, <4>3, <2>3, <2>4
    <3>3. CASE x # v /\ ~(distance[x] < Infinity)
      BY <3>3, <1>3, <2>3, <2>4 DEF SearchInv, Parents
    <3>4. QED
      BY <3>1, <3>2, <3>3
  <2>10. Waiting'
    <3> SUFFICES ASSUME NEW u \in routers, NEW l \in neighbors[u]
                 PROVE  \/ distance'[l[1]] <= distance'[u] + l[2]
                        \/ <<distance'[u], u>> \in pq'
                        \/ node = u /\ l \in scan'
      BY <1>1 DEF Waiting, Relaxed
    <3>1. l[1] \in routers /\ l[2] \in Nat
      BY LinkType
    <3>2. CASE u = v
      BY <3>2, <2>2, <2>3
    <3>3. CASE u # v /\ Relaxed(u, l)
      <4>1. /\ distance'[l[1]] <= distance[l[1]] /\ distance'[u] = distance[u]
            /\ distance'[l[1]] \in Nat /\ distance[l[1]] \in Nat
            /\ distance[u] \in Nat
        BY <3>1, <3>3, <1>4, <2>3
      <4>2. QED
        BY <4>1, <3>1, <3>3 DEF Relaxed
    <3>4. CASE u # v /\ <<distance[u], u>> \in pq
      BY <3>4, <2>2, <2>3
    <3>5. CASE node = u /\ l \in scan
      <4>1. CASE l = link
        <5>1. distance'[l[1]] = d /\ distance'[u] + l[2] = d
          BY <4>1, <3>5, <2>3 DEF v, d, Through
        <5>2. QED
          BY <5>1, <2>1
      <4>2. QED
        BY <4>1, <3>5, <1>2
    <3>6. QED
      BY <3>2, <3>3, <3>4, <3>5, <1>3 DEF SearchInv, Waiting
  <2>11. ASSUME NEW x \in routers, Settled(x)'
         PROVE  x # v /\ Settled(x)
    BY <2>2, <2>3, <2>11 DEF Settled
  <2>12. Frontier'
    <3> SUFFICES ASSUME NEW x \in routers, Settled(x)', NEW q \in pq'
                 PROVE  distance'[x] <= q[1]
      BY <1>1 DEF Frontier
    <3>1. distance'[x] = distance[x] /\ Settled(x)
      BY <2>11, <2>3
    <3>2. CASE q \in pq
      BY <3>1, <3>2, <1>3 DEF SearchInv, Frontier
    <3>3. CASE q = <<d, v>>
      BY <3>1, <3>3, <1>4, <2>1
    <3>4. QED
      BY <3>2, <3>3, <2>2
  <2>13. Scanning'
    BY <1>1, <2>1, <2>3, <2>11 DEF Scanning
  <2>14. QED
    BY <1>1, <1>6, <2>6, <2>7, <2>8, <2>9, <2>10, <2>12, <2>13 DEF SearchInv
<1>9. QED
  BY <1>7, <1>8

-----------------------------------------------------------------------------

LEMMA EndSearchStep ==
    ASSUME UpdateInv, EndSearch
    PROVE  UpdateInv'
<1> USE RouterAssumption DEF UpdateInv
<1>1. /\ phase = "search" /\ phase' = "table" /\ scan = {} /\ pq = {}
      /\ scan' = {} /\ pq' = {} /\ todo' = routers
      /\ dest = NULL /\ dest' = NULL /\ temp' = NULL
      /\ next_hop' =
          [x \in routers |-> IF next_hop[x] = NULL THEN x ELSE next_hop[x]]
      /\ UNCHANGED <<routers, neighbors, routing_table, self, distance, node>>
  BY DEF EndSearch, topology, Locals
<1>2. SearchInv
  BY <1>1
<1>3. /\ distance \in [routers -> 0 .. Infinity]
      /\ next_hop \in [routers -> Hops(routers)]
      /\ self \in routers
  BY <1>1 DEF RouterTypeOK
<1>4. next_hop' \in [routers -> routers]
  BY <1>1, <1>3 DEF Hops
<1>5. RouterTypeOK'
  BY <1>1, <1>3, <1>4 DEF RouterTypeOK, Hops
<1>6. Locals' /\ Chasing' /\ EntriesLeadOut'
  BY <1>1, <1>4 DEF Locals, Chasing, EntriesLeadOut
<1>7. ShortestPathTree'
  <2>1. distance[self] = 0 /\ next_hop'[self] = self
    BY <1>1, <1>2, <1>3 DEF SearchInv, Source
  <2>2. \A u \in routers : \A link \in neighbors[u] : Relaxed(u, link)
    BY <1>1, <1>2 DEF SearchInv, Waiting
  <2>3. ASSUME NEW v \in routers \ {self}, distance[v] < Infinity
        PROVE  /\ next_hop'[v] # v
               /\ \E link \in neighbors[next_hop'[v]] :
                    /\ link[1] = v
                    /\ distance[v] = distance[next_hop'[v]] + link[2]
    <3>1. next_hop[v] \in routers \ {v} /\ next_hop'[v] = next_hop[v]
      <4>1. next_hop[v] \in routers \ {v}
        BY <2>3, <1>2 DEF SearchInv, Parents
      <4>2. next_hop[v] # NULL
        BY <4>1 DEF RouterTypeOK
      <4>3. QED
        BY <4>1, <4>2, <1>1
    <3>2. PICK link \in neighbors[next_hop[v]] :
                 /\ link[1] = v
                 /\ distance[next_hop[v]] + link[2] <= distance[v]
      BY <2>3, <1>2 DEF SearchInv, Parents
    <3>3. /\ link[2] \in Nat /\ distance[v] \in Nat
          /\ distance[next_hop[v]] \in Nat
      BY <3>1, <1>3, LinkType
    <3>4. distance[v] <= distance[next_hop[v]] + link[2]
      BY <3>1, <3>2, <2>2 DEF Relaxed
    <3>5. QED
      BY <3>1, <3>2, <3>3, <3>4
  <2>4. ASSUME NEW v \in routers \ {self}, ~(distance[v] < Infinity)
        PROVE  next_hop'[v] = v
    BY <2>4, <1>1, <1>2 DEF SearchInv, Parents
  <2>5. QED
    BY <1>1, <2>1, <2>2, <2>3, <2>4 DEF ShortestPathTree, Relaxed
<1>8. QED
  BY <1>1, <1>5, <1>6, <1>7

\* The entries of a table after SetEntry(d, hop).
LEMMA SetEntryTable ==
    ASSUME RouterTypeOK, self \in routers, NEW d, NEW hop, SetEntry(d, hop)
    PROVE  /\ DOMAIN routing_table' = DOMAIN routing_table
           /\ DOMAIN routing_table'[self] = DOMAIN routing_table[self] \cup {d}
           /\ \A x \in DOMAIN routing_table'[self] :
                routing_table'[self][x] = IF x = d THEN hop
                                          ELSE routing_table[self][x]
           /\ todo' = todo \ {d}
<1>1. routing_table' =
        [routing_table EXCEPT ![self] = Put(routing_table[self], d, hop)]
  BY DEF SetEntry
<1>2. DOMAIN routing_table = routers
  BY DEF RouterTypeOK
<1>3. routing_table'[self] = Put(routing_table[self], d, hop)
  BY <1>1, <1>2
<1>4. DOMAIN routing_table' = DOMAIN routing_table
  BY <1>1
<1>5. QED
  BY <1>3, <1>4 DEF Put, SetEntry

(***************************************************************************)
(* An entry that leads to a neighbor no farther than its destination, or   *)
(* that is NULL for a router out of reach, keeps the invariant.            *)
(***************************************************************************)
LEMMA EntryStep ==
    ASSUME UpdateInv, phase = "table",
           NEW d \in todo, NEW hop, SetEntry(d, hop),
           d # self => IF distance[d] < Infinity
                       THEN /\ hop \in neighbors_set
                            /\ distance[hop] <= distance[d]
                       ELSE hop = NULL,
           UNCHANGED <<topology, phase, self, search>>,
           dest' = NULL, temp' = NULL
    PROVE  UpdateInv'
<1> USE RouterAssumption DEF UpdateInv
<1>1. /\ UNCHANGED <<routers, neighbors, distance, next_hop, pq, node, scan>>
      /\ neighbors_set' = neighbors_set
  BY DEF topology, search, neighbors_set
<1>2. /\ DOMAIN routing_table' = routers
      /\ DOMAIN routing_table'[self] = DOMAIN routing_table[self] \cup {d}
      /\ \A x \in DOMAIN routing_table'[self] :
           routing_table'[self][x] = IF x = d THEN hop
                                     ELSE routing_table[self][x]
      /\ todo' = todo \ {d}
  BY SetEntryTable DEF RouterTypeOK
<1>3. RouterTypeOK'
  BY <1>1, <1>2 DEF RouterTypeOK, Hops
<1>4. Locals' /\ ShortestPathTree' /\ Chasing'
  BY <1>1 DEF Locals, ShortestPathTree, Chasing
<1>5. EntriesLeadOut'
  <2> SUFFICES ASSUME NEW x \in routers \ (todo' \cup {self})
               PROVE  /\ x \in DOMAIN routing_table'[self]
                      /\ IF distance[x] < Infinity
                         THEN /\ routing_table'[self][x] \in neighbors_set
                              /\ distance[routing_table'[self][x]]
                                    <= distance[x]
                         ELSE routing_table'[self][x] = NULL
    BY <1>1 DEF EntriesLeadOut
  <2>1. CASE x = d
    BY <2>1, <1>2
  <2>2. CASE x # d
    BY <2>2, <1>2 DEF EntriesLeadOut
  <2>3. QED
    BY <2>1, <2>2
<1>6. QED
  BY <1>3, <1>4, <1>5

(***************************************************************************)
(* The predecessor of a router reached is no farther from self than it,    *)
(* and self is the predecessor of neighbors of self only.                  *)
(***************************************************************************)
LEMMA Predecessor ==
    ASSUME UpdateInv, phase = "table",
           NEW v \in routers \ {self}, distance[v] < Infinity
    PROVE  /\ next_hop[v] \in routers
           /\ distance[next_hop[v]] <= distance[v]
           /\ next_hop[v] = self => v \in neighbors_set
<1> USE RouterAssumption DEF UpdateInv
<1>1. PICK link \in neighbors[next_hop[v]] :
             /\ link[1] = v
             /\ distance[v] = distance[next_hop[v]] + link[2]
  BY DEF ShortestPathTree
<1>2. /\ distance \in [routers -> 0 .. Infinity]
      /\ next_hop \in [routers -> Hops(routers)]
      /\ neighbors \in [routers -> SUBSET (routers \X Weight)]
  BY DEF RouterTypeOK
<1>3. next_hop[v] = self => v \in neighbors_set
  BY <1>1 DEF neighbors_set
<1>4. next_hop[v] \in routers
  BY DEF Locals
<1>5. link[2] \in Nat /\ distance[next_hop[v]] \in Nat
  BY <1>2, <1>4, LinkType
<1>6. QED
  BY <1>1, <1>3, <1>4, <1>5

LEMMA DirectEntryStep ==
    ASSUME UpdateInv, NEW d \in routers, DirectEntry(d)
    PROVE  UpdateInv'
<1> USE RouterAssumption DEF UpdateInv
<1>1. /\ phase = "table" /\ d \in todo
      /\ dest' = NULL /\ temp' = NULL
      /\ UNCHANGED <<topology, phase, self, search>>
  BY DEF DirectEntry, Locals
<1>2. distance \in [routers -> 0 .. Infinity] /\ self \in routers
  BY <1>1 DEF RouterTypeOK
<1>3. CASE next_hop[d] = self /\ SetEntry(d, d)
  <2>1. ASSUME d # self
        PROVE  distance[d] < Infinity /\ d \in neighbors_set
    <3>1. distance[d] < Infinity
      BY <1>1, <1>3, <2>1 DEF ShortestPathTree
    <3>2. QED
      BY <1>1, <1>3, <2>1, <3>1, Predecessor
  <2>2. QED
    BY <1>1, <1>2, <1>3, <2>1, EntryStep
<1>4. CASE next_hop[d] # self /\ next_hop[d] = d /\ SetEntry(d, NULL)
  <2>1. ~(distance[d] < Infinity)
    BY <1>1, <1>4 DEF ShortestPathTree
  <2>2. QED
    BY <1>1, <1>4, <2>1, EntryStep
<1>5. QED
  BY <1>3, <1>4 DEF DirectEntry

LEMMA IndirectEntryStep ==
    ASSUME UpdateInv, NEW d \in routers, IndirectEntry(d)
    PROVE  UpdateInv'
<1> USE RouterAssumption DEF UpdateInv
<1>1. /\ phase = "table" /\ phase' = "table" /\ d \in todo
      /\ next_hop[d] \notin {self, d}
      /\ dest' = d /\ temp' = next_hop[d]
      /\ UNCHANGED <<routers, neighbors, routing_table, self, distance,
                     next_hop, pq, node, scan, todo>>
  BY DEF IndirectEntry, topology, search
<1>2. distance[d] < Infinity /\ d # self
  BY <1>1 DEF ShortestPathTree
<1>3. next_hop[d] \in routers /\ distance[next_hop[d]] <= distance[d]
  BY <1>1, <1>2, Predecessor
<1>4. RouterTypeOK'
  BY <1>1, <1>3 DEF RouterTypeOK, Hops
<1>5. Locals' /\ Chasing'
  BY <1>1, <1>2, <1>3 DEF Locals, Chasing, RouterTypeOK
<1>6. ShortestPathTree' /\ EntriesLeadOut'
  BY <1>1 DEF ShortestPathTree, EntriesLeadOut, neighbors_set
<1>7. QED
  BY <1>1, <1>4, <1>5, <1>6

LEMMA ChaseStep ==
    ASSUME UpdateInv, Chase
    PROVE  UpdateInv'
<1> USE RouterAssumption DEF UpdateInv
<1>1. /\ phase = "table" /\ phase' = "table"
      /\ dest # NULL /\ dest' = dest
      /\ temp \notin neighbors_set /\ temp \in routers \ {self}
      /\ temp' = next_hop[temp]
      /\ UNCHANGED <<routers, neighbors, routing_table, self, distance,
                     next_hop, pq, node, scan, todo>>
  BY DEF Chase, topology, search, RouterTypeOK
<1>2. /\ distance[dest] < Infinity /\ distance[temp] <= distance[dest]
      /\ dest \in todo
      /\ distance \in [routers -> 0 .. Infinity] /\ dest \in routers
  BY <1>1 DEF Chasing, RouterTypeOK
<1>3. distance[temp] < Infinity
  BY <1>1, <1>2
<1>4. /\ next_hop[temp] \in routers \ {self}
      /\ distance[next_hop[temp]] <= distance[temp]
  BY <1>1, <1>3, Predecessor
<1>5. RouterTypeOK'
  BY <1>1, <1>4 DEF RouterTypeOK, Hops
<1>6. distance[next_hop[temp]] <= distance[dest]
  BY <1>1, <1>2, <1>4
<1>7. Locals' /\ Chasing'
  BY <1>1, <1>2, <1>6 DEF Locals, Chasing
<1>8. ShortestPathTree' /\ EntriesLeadOut'
  BY <1>1 DEF ShortestPathTree, EntriesLeadOut, neighbors_set
<1>9. QED
  BY <1>1, <1>5, <1>7, <1>8

LEMMA EndChaseStep ==
    ASSUME UpdateInv, EndChase
    PROVE  UpdateInv'
<1> USE DEF UpdateInv
<1>1. /\ phase = "table" /\ dest # NULL
      /\ temp \in neighbors_set
      /\ SetEntry(dest, temp)
      /\ dest' = NULL /\ temp' = NULL
      /\ UNCHANGED <<topology, phase, self, search>>
  BY DEF EndChase, RouterTypeOK
<1>2. /\ dest \in todo /\ distance[dest] < Infinity
      /\ distance[temp] <= distance[dest]
  BY <1>1 DEF Chasing
<1>3. QED
  BY <1>1, <1>2, EntryStep

LEMMA ReturnStep ==
    ASSUME UpdateInv, Return
    PROVE  UpdateInv'
<1> USE DEF UpdateInv
<1>1. /\ phase = "table" /\ phase' = "idle" /\ todo = {}
      /\ self' = NULL /\ distance' = <<>> /\ next_hop' = <<>> /\ node' = NULL
      /\ UNCHANGED <<routers, neighbors, routing_table, pq, scan, todo, dest,
                     temp>>
  BY DEF Return, topology, build
<1>2. pq = {} /\ scan = {} /\ dest = NULL /\ temp = NULL
  BY <1>1 DEF Locals, Chasing
<1>3. NoUpdate'
  BY <1>1, <1>2 DEF NoUpdate
<1>4. RouterTypeOK'
  BY <1>1, <1>2, <1>3 DEF RouterTypeOK, Hops
<1>5. Locals' /\ ShortestPathTree' /\ EntriesLeadOut'
  BY <1>1, <1>2 DEF Locals, ShortestPathTree, EntriesLeadOut
<1>6. QED
  BY <1>1, <1>4, <1>5

-----------------------------------------------------------------------------

LEMMA UpdateInvStep == UpdateInv /\ [RouterNext]_routerVars => UpdateInv'
<1> SUFFICES ASSUME UpdateInv, [RouterNext]_routerVars PROVE UpdateInv'
  OBVIOUS
<1>1. CASE UpdateStep
  BY <1>1, PopStep, RelaxStep, EndSearchStep, DirectEntryStep,
     IndirectEntryStep, ChaseStep, EndChaseStep, ReturnStep DEF UpdateStep
<1>2. CASE \E r \in routers : Start(r)
  BY <1>2, StartStep
<1>3. CASE UNCHANGED routerVars
  BY <1>3 DEF routerVars, topology, updateVars, search, build, UpdateInv,
              RouterTypeOK, NoUpdate, Locals, SearchInv, Source, Parents,
              Waiting, Relaxed, Frontier, Settled, Scanning, Queue,
              ShortestPathTree, EntriesLeadOut, neighbors_set, Chasing
<1>4. QED
  BY <1>1, <1>2, <1>3 DEF RouterNext

LEMMA UpdateInvariant == RouterSpec => []UpdateInv
  BY UpdateInit, UpdateInvStep, PTL DEF RouterSpec

\* Every pointer followed is a live router: the predecessors never lead to
\* self or to NULL before a neighbor is met (lines 86-90).
THEOREM TypesCorrect == RouterSpec => []RouterTypeOK
<1>1. UpdateInv => RouterTypeOK
  BY DEF UpdateInv
<1>2. QED
  BY <1>1, UpdateInvariant, PTL

\* The search ends with a tree of tight links below Infinity.
THEOREM SearchCorrect == RouterSpec => []ShortestPathTree
<1>1. UpdateInv => ShortestPathTree
  BY DEF UpdateInv
<1>2. QED
  BY <1>1, UpdateInvariant, PTL

\* The table leads to neighbors, and to nowhere exactly when out of reach.
THEOREM TableCorrect == RouterSpec => []EntriesLeadOut
<1>1. UpdateInv => EntriesLeadOut
  BY DEF UpdateInv
<1>2. QED
  BY <1>1, UpdateInvariant, PTL

(***************************************************************************)
(* A settled distance and its predecessor never change, although routers   *)
(* are taken from the queue again at stale distances.                      *)
(***************************************************************************)
THEOREM SettledForGood == RouterSpec => DistancesSettle
<1>1. UpdateInv /\ [RouterNext]_routerVars =>
        [phase = "search" /\ phase' = "search" =>
           \A v \in routers : Settled(v) =>
             distance'[v] = distance[v] /\ next_hop'[v] = next_hop[v]]_routerVars
  <2> SUFFICES ASSUME UpdateInv, [RouterNext]_routerVars,
                      phase = "search", phase' = "search",
                      NEW v \in routers, Settled(v)
               PROVE  distance'[v] = distance[v] /\ next_hop'[v] = next_hop[v]
    OBVIOUS
  <2>1. CASE Relax
    <3>1. PICK link \in scan :
            IF Shorter(link)
            THEN /\ distance' = [distance EXCEPT ![link[1]] = Through(link)]
                 /\ next_hop' = [next_hop EXCEPT ![link[1]] = node]
            ELSE UNCHANGED <<distance, next_hop>>
      BY <2>1 DEF Relax
    <3>2. Shorter(link) => link[1] # v
      BY ShorterUnsettled
    <3>3. QED
      BY <3>1, <3>2 DEF UpdateInv, RouterTypeOK
  <2>2. CASE Pop \/ UNCHANGED routerVars
    BY <2>2 DEF Pop, routerVars, updateVars, search
  <2>3. ~(EndSearch \/ Return \/ \E r \in routers : Start(r))
    BY DEF EndSearch, Return, Start
  <2>4. ~(Chase \/ EndChase)
    BY DEF Chase, EndChase, UpdateInv, RouterTypeOK
  <2>5. ~(\E x \in routers : DirectEntry(x) \/ IndirectEntry(x))
    BY DEF DirectEntry, IndirectEntry
  <2>6. QED
    BY <2>1, <2>2, <2>3, <2>4, <2>5 DEF RouterNext, UpdateStep
<1>2. QED
  BY <1>1, UpdateInvariant, PTL DEF RouterSpec, DistancesSettle

-----------------------------------------------------------------------------
(* That an update ends *)

(***************************************************************************)
(* Following the predecessors of a router reached ends at self: some rank  *)
(* falls with every one of them, although distances need not (lines        *)
(* 86-90).                                                                 *)
(***************************************************************************)
Rooted ==
    \E rank \in [routers -> Nat] :
        \A v \in routers \ {self} :
            distance[v] < Infinity => rank[next_hop[v]] < rank[v]

\* Only settled routers are predecessors, so none gets a new one itself.
ParentsSettled ==
    /\ scan # {} => Settled(node)
    /\ \A v \in routers \ {self} :
         distance[v] < Infinity => Settled(next_hop[v])

RootedInv ==
    /\ phase = "search" => ParentsSettled
    /\ phase # "idle" => Rooted

LEMMA PopRooted ==
    ASSUME UpdateInv, RootedInv, Pop
    PROVE  RootedInv'
<1> USE RouterAssumption DEF UpdateInv, RootedInv
<1>1. PICK p \in pq : Top(p) /\ pq' = pq \ {p} /\ node' = p[2]
  BY DEF Pop
<1>2. /\ phase = "search" /\ phase' = "search"
      /\ UNCHANGED <<routers, self, distance, next_hop>>
  BY DEF Pop, topology
<1>3. /\ p[1] \in 0 .. Infinity - 1 /\ p[2] \in routers /\ p = <<p[1], p[2]>>
      /\ distance[p[2]] \in Nat /\ distance[p[2]] <= p[1]
  BY <1>1, <1>2 DEF RouterTypeOK, SearchInv, Queue
<1>4. \A v : Settled(v) => Settled(v)'
  BY <1>1, <1>2 DEF Settled
<1>5. Settled(p[2])'
  <2>1. CASE distance[p[2]] = p[1]
    BY <1>1, <1>2, <1>3, <2>1 DEF Settled
  <2>2. CASE distance[p[2]] < p[1]
    <3>1. <<distance[p[2]], p[2]>> \notin pq
      <4> SUFFICES ASSUME <<distance[p[2]], p[2]>> \in pq PROVE FALSE
        OBVIOUS
      <4>1. p[1] <= distance[p[2]]
        BY <1>1 DEF Top
      <4>2. QED
        BY <1>3, <2>2, <4>1
    <3>2. QED
      BY <1>1, <1>2, <1>3, <2>2, <3>1 DEF Settled
  <2>3. QED
    BY <1>3, <2>1, <2>2
<1>6. ParentsSettled'
  BY <1>1, <1>2, <1>4, <1>5 DEF ParentsSettled
<1>7. Rooted'
  BY <1>2 DEF Rooted
<1>8. QED
  BY <1>2, <1>6, <1>7

\* The router that gets a predecessor is not one itself, so its rank is free.
LEMMA RelaxRooted ==
    ASSUME UpdateInv, RootedInv, Relax
    PROVE  RootedInv'
<1> USE RouterAssumption DEF UpdateInv, RootedInv
<1>1. /\ phase = "search" /\ phase' = "search"
      /\ UNCHANGED <<routers, self, node>>
  BY DEF Relax, topology
<1>2. PICK link \in scan :
        /\ scan' = scan \ {link}
        /\ IF Shorter(link)
           THEN /\ distance' = [distance EXCEPT ![link[1]] = Through(link)]
                /\ next_hop' = [next_hop EXCEPT ![link[1]] = node]
                /\ pq' = pq \cup {<<Through(link), link[1]>>}
           ELSE UNCHANGED <<distance, next_hop, pq>>
  BY DEF Relax
<1>3. CASE ~Shorter(link)
  BY <1>1, <1>2, <1>3 DEF ParentsSettled, Settled, Rooted
<1>4. CASE Shorter(link)
  <2> DEFINE t == link[1]
             Done(v) == /\ distance'[v] < Infinity
                        /\ <<distance'[v], v>> \notin pq'
  <2>1. /\ node \in routers /\ t \in routers \ {self, node}
        /\ \A v \in routers : Settled(v) => v # t
    BY <1>1, <1>4, ShorterUnsettled
  <2>2. /\ distance \in [routers -> 0 .. Infinity]
        /\ next_hop \in [routers -> Hops(routers)]
    BY <1>1 DEF RouterTypeOK
  <2> HIDE DEF t
  <2>3. /\ distance' = [distance EXCEPT ![t] = Through(link)]
        /\ next_hop' = [next_hop EXCEPT ![t] = node]
        /\ pq' = pq \cup {<<Through(link), t>>}
    BY <1>2, <1>4 DEF t
  <2>4. Settled(node)
    BY <1>1, <1>2 DEF ParentsSettled
  <2>5. ASSUME NEW v \in routers, Settled(v)
        PROVE  v # t /\ Done(v)
    <3>1. v # t
      BY <2>1, <2>5
    <3>2. distance'[v] = distance[v]
      BY <2>2, <2>3, <3>1
    <3>3. <<distance[v], v>> \notin pq'
      BY <2>3, <2>5, <3>1 DEF Settled
    <3>4. QED
      BY <2>5, <3>1, <3>2, <3>3 DEF Settled
  <2>6. ASSUME NEW v \in routers \ {self, t}, distance'[v] < Infinity
        PROVE  /\ distance[v] < Infinity /\ next_hop'[v] = next_hop[v]
               /\ next_hop[v] \in routers /\ next_hop[v] # t
               /\ Done(next_hop[v])
    <3>1. distance[v] < Infinity /\ next_hop'[v] = next_hop[v]
      BY <2>2, <2>3, <2>6
    <3>2. next_hop[v] \in routers
      BY <1>1, <3>1 DEF SearchInv, Parents
    <3>3. Settled(next_hop[v])
      BY <1>1, <3>1 DEF ParentsSettled
    <3>4. QED
      BY <2>5, <3>1, <3>2, <3>3
  <2> HIDE DEF Done
  <2>7. next_hop'[t] = node
    BY <2>1, <2>2, <2>3
  <2>8. ParentsSettled'
    <3>1. Done(node)
      BY <2>1, <2>4, <2>5
    <3>2. ASSUME NEW v \in routers \ {self}, distance'[v] < Infinity
          PROVE  Done(next_hop'[v])
      <4>1. CASE v = t
        BY <2>7, <3>1, <4>1
      <4>2. CASE v # t
        BY <2>6, <3>2, <4>2
      <4>3. QED
        BY <4>1, <4>2
    <3>3. QED
      BY <1>1, <3>1, <3>2 DEF ParentsSettled, Settled, Done
  <2>9. Rooted'
    <3>1. PICK rank \in [routers -> Nat] :
            \A v \in routers \ {self} :
                distance[v] < Infinity => rank[next_hop[v]] < rank[v]
      BY <1>1 DEF Rooted
    <3>2. PICK higher : higher = [rank EXCEPT ![t] = rank[node] + 1]
      OBVIOUS
    <3>3. /\ higher \in [routers -> Nat] /\ higher[t] = rank[node] + 1
          /\ \A v \in routers \ {t} : higher[v] = rank[v]
      BY <2>1, <3>1, <3>2
    <3>4. ASSUME NEW v \in routers \ {self}, distance'[v] < Infinity
          PROVE  higher[next_hop'[v]] < higher[v]
      <4>1. CASE v = t
        BY <2>1, <2>7, <3>1, <3>3, <4>1
      <4>2. CASE v # t
        BY <2>6, <3>1, <3>3, <3>4, <4>2
      <4>3. QED
        BY <4>1, <4>2
    <3>5. QED
      BY <1>1, <3>3, <3>4 DEF Rooted
  <2>10. QED
    BY <1>1, <2>8, <2>9
<1>5. QED
  BY <1>3, <1>4

LEMMA RootedStep ==
    ASSUME UpdateInv, RootedInv, [RouterNext]_routerVars
    PROVE  RootedInv'
<1> USE RouterAssumption DEF UpdateInv, RootedInv
<1>1. ASSUME NEW r \in routers, Start(r) PROVE RootedInv'
  <2>1. /\ phase' = "search" /\ self' = r /\ routers' = routers
        /\ distance' = [x \in routers |-> IF x = r THEN 0 ELSE Infinity]
        /\ scan' = {}
    BY <1>1 DEF Start, topology, RouterTypeOK, NoUpdate
  <2>2. \A v \in routers \ {r} : ~(distance'[v] < Infinity)
    BY <2>1
  <2>3. ParentsSettled'
    BY <2>1, <2>2 DEF ParentsSettled
  <2>4. [v \in routers |-> 0] \in [routers -> Nat]
    OBVIOUS
  <2>5. Rooted'
    BY <2>1, <2>2, <2>4 DEF Rooted
  <2>6. QED
    BY <2>3, <2>5
<1>2. CASE EndSearch
  <2>1. /\ phase = "search" /\ phase' = "table"
        /\ UNCHANGED <<routers, self, distance>>
        /\ next_hop' = [x \in routers |->
                          IF next_hop[x] = NULL THEN x ELSE next_hop[x]]
    BY <1>2 DEF EndSearch, topology
  <2>2. ASSUME NEW v \in routers \ {self}, distance[v] < Infinity
        PROVE  next_hop'[v] = next_hop[v]
    <3>1. next_hop[v] # NULL
      BY <2>1, <2>2 DEF SearchInv, Parents, RouterTypeOK
    <3>2. QED
      BY <2>1, <3>1
  <2>3. PICK rank \in [routers -> Nat] :
          \A v \in routers \ {self} :
              distance[v] < Infinity => rank[next_hop[v]] < rank[v]
    BY <2>1 DEF Rooted
  <2>4. Rooted'
    BY <2>1, <2>2, <2>3 DEF Rooted
  <2>5. QED
    BY <2>1, <2>4
<1>3. CASE \/ Chase \/ EndChase
           \/ \E d \in routers : DirectEntry(d) \/ IndirectEntry(d)
  <2>1. /\ phase = "table" /\ phase' = "table"
        /\ UNCHANGED <<routers, self, distance, next_hop>>
    BY <1>3 DEF Chase, EndChase, DirectEntry, IndirectEntry, search,
                topology, RouterTypeOK
  <2>2. QED
    BY <2>1 DEF Rooted
<1>4. CASE Return
  BY <1>4 DEF Return
<1>5. CASE UNCHANGED routerVars
  BY <1>5 DEF routerVars, topology, updateVars, search, ParentsSettled,
              Settled, Rooted
<1>6. QED
  BY <1>1, <1>2, <1>3, <1>4, <1>5, PopRooted, RelaxRooted
  DEF RouterNext, UpdateStep

(***************************************************************************)
(* The predecessors form a tree from which no path goes round in circles,  *)
(* with links of weight 0, too, where all routers of a circle are equally  *)
(* far: the loop of lines 86-90 ends for every destination.                *)
(***************************************************************************)
THEOREM PredecessorsRooted == RouterSpec => [](phase = "table" => Rooted)
<1>1. RouterInit => RootedInv
  BY DEF RouterInit, NoUpdate, RootedInv
<1>2. RootedInv => (phase = "table" => Rooted)
  BY DEF RootedInv
<1>3. QED
  BY <1>1, <1>2, RootedStep, UpdateInvariant, PTL DEF RouterSpec

\* A step of the search makes a distance smaller, or takes an entry from the
\* queue, or a link from those to be looked at.
SearchAhead ==
    phase = "search" /\ phase' = "search" =>
        /\ \A v \in routers : distance'[v] <= distance[v]
        /\ \/ \E v \in routers : distance'[v] < distance[v]
           \/ /\ distance' = distance
              /\ \/ pq' \subseteq pq /\ pq' # pq
                 \/ pq' = pq /\ scan' \subseteq scan /\ scan' # scan

\* A step of the construction makes an entry, or goes to a predecessor.
TableAhead ==
    phase = "table" /\ phase' = "table" =>
        /\ UNCHANGED <<distance, next_hop>>
        /\ \/ todo' \subseteq todo /\ todo' # todo
           \/ todo' = todo /\ dest' # NULL
              /\ temp' = IF dest = NULL THEN next_hop[dest']
                                        ELSE next_hop[temp]

(***************************************************************************)
(* An update has only finitely many steps when the links are finitely      *)
(* many: no entry of the queue is pushed without a distance that gets      *)
(* smaller, and with PredecessorsRooted each table entry takes finitely    *)
(* many predecessors (lines 47-102).                                       *)
(***************************************************************************)
THEOREM UpdateAdvances ==
    RouterSpec => [][SearchAhead /\ TableAhead]_routerVars
<1>1. ASSUME UpdateInv, RouterNext PROVE SearchAhead /\ TableAhead
  <2> USE RouterAssumption DEF UpdateInv
  <2>1. CASE Pop
    <3>1. phase = "search" /\ distance' = distance
      BY <2>1 DEF Pop
    <3>2. pq' \subseteq pq /\ pq' # pq
      BY <2>1 DEF Pop
    <3>3. distance \in [routers -> 0 .. Infinity]
      BY <1>1, <3>1 DEF RouterTypeOK
    <3>4. \A v \in routers : distance'[v] <= distance[v]
      BY <3>1, <3>3
    <3>5. QED
      BY <3>1, <3>2, <3>4 DEF SearchAhead, TableAhead
  <2>2. CASE Relax
    <3>1. phase = "search"
      BY <2>2 DEF Relax
    <3>2. PICK link \in scan :
            /\ scan' = scan \ {link}
            /\ IF Shorter(link)
               THEN distance' = [distance EXCEPT ![link[1]] = Through(link)]
               ELSE UNCHANGED <<distance, pq>>
      BY <2>2 DEF Relax
    <3>3. distance \in [routers -> 0 .. Infinity]
      BY <1>1, <3>1 DEF RouterTypeOK
    <3>4. CASE Shorter(link)
      <4>1. link[1] \in routers
        BY <1>1, <3>1, <3>4, ShorterUnsettled
      <4>2. /\ distance'[link[1]] < distance[link[1]]
            /\ \A v \in routers \ {link[1]} : distance'[v] = distance[v]
        BY <3>2, <3>3, <3>4, <4>1 DEF Shorter
      <4>3. distance[link[1]] \in Nat /\ distance'[link[1]] \in Nat
        BY <1>1, <3>1, <3>2, <3>3, <3>4, <4>1, ShorterUnsettled DEF Through
      <4>4. \A v \in routers : distance'[v] <= distance[v]
        BY <3>3, <4>2, <4>3
      <4>5. QED
        BY <3>1, <4>1, <4>2, <4>4 DEF SearchAhead, TableAhead
    <3>5. CASE ~Shorter(link)
      <4>1. distance' = distance /\ pq' = pq
        BY <3>2, <3>5
      <4>2. \A v \in routers : distance'[v] <= distance[v]
        BY <3>3, <4>1
      <4>3. scan' \subseteq scan /\ scan' # scan
        BY <3>2
      <4>4. QED
        BY <3>1, <4>1, <4>2, <4>3 DEF SearchAhead, TableAhead
    <3>6. QED
      BY <3>4, <3>5
  <2>3. CASE EndSearch \/ Return \/ \E r \in routers : Start(r)
    BY <2>3 DEF EndSearch, Return, Start, SearchAhead, TableAhead
  <2>4. ASSUME NEW d \in routers, DirectEntry(d)
        PROVE  SearchAhead /\ TableAhead
    BY <2>4 DEF DirectEntry, SetEntry, search, SearchAhead, TableAhead
  <2>5. ASSUME NEW d \in routers, IndirectEntry(d)
        PROVE  SearchAhead /\ TableAhead
    <3>1. d # NULL
      BY <1>1, <2>5 DEF RouterTypeOK
    <3>2. QED
      BY <2>5, <3>1 DEF IndirectEntry, search, SearchAhead, TableAhead
  <2>6. CASE Chase
    BY <1>1, <2>6 DEF Chase, search, RouterTypeOK, SearchAhead, TableAhead
  <2>7. CASE EndChase
    <3>1. dest \in todo /\ phase = "table"
      BY <1>1, <2>7 DEF EndChase, Chasing, RouterTypeOK
    <3>2. QED
      BY <2>7, <3>1 DEF EndChase, SetEntry, search, SearchAhead, TableAhead
  <2>8. QED
    BY <1>1, <2>1, <2>2, <2>3, <2>4, <2>5, <2>6, <2>7
    DEF RouterNext, UpdateStep
<1>2. QED
  BY <1>1, UpdateInvariant, PTL DEF RouterSpec

-----------------------------------------------------------------------------
(* Shortest distances *)

LEMMA TopologyGraph ==
    ASSUME RouterTypeOK
    PROVE  Graph(routers, neighbors)
<1>1. IsFiniteSet(routers)
  BY RouterAssumption, FS_Subset DEF RouterTypeOK
<1>2. QED
  BY <1>1 DEF Graph, RouterTypeOK

LEMMA ShortestGreatest ==
    ASSUME RouterTypeOK, NEW s \in routers
    PROVE  /\ Potential(routers, neighbors, s, Shortest(s))
           /\ \A f : Potential(routers, neighbors, s, f) =>
                \A v \in routers : f[v] <= Shortest(s)[v]
BY TopologyGraph, WalksGreatest DEF Shortest

\* What is used of Shortest: its range, its source and the triangle of a link.
LEMMA ShortestFacts ==
    ASSUME RouterTypeOK, NEW s \in routers
    PROVE  /\ Shortest(s) \in [routers -> 0 .. Infinity]
           /\ Shortest(s)[s] = 0
           /\ \A u \in routers : \A link \in neighbors[u] :
                Shortest(s)[link[1]] <= Shortest(s)[u] + link[2]
BY ShortestGreatest DEF Potential

\* No distance is below the shortest one, from the start of the search on.
LowerBound ==
    phase # "idle" => \A v \in routers : Shortest(self)[v] <= distance[v]

LEMMA LowerBoundStep ==
    ASSUME UpdateInv, LowerBound, UpdateStep \/ \E r \in routers : Start(r)
    PROVE  LowerBound'
<1> USE RouterAssumption
<1> USE DEF UpdateInv
<1>1. ASSUME NEW r \in routers, Start(r) PROVE LowerBound'
  <2>1. /\ self' = r /\ routers' = routers /\ neighbors' = neighbors
        /\ distance' = [x \in routers |-> IF x = r THEN 0 ELSE Infinity]
    BY <1>1 DEF Start, topology
  <2>2. Shortest(r) \in [routers -> 0 .. Infinity] /\ Shortest(r)[r] = 0
    BY ShortestFacts
  <2>3. \A v \in routers : Shortest(r)[v] <= distance'[v]
    BY <2>1, <2>2
  <2>4. QED
    BY <2>1, <2>3 DEF LowerBound, Shortest
<1>2. CASE Relax
  <2>1. /\ phase = "search" /\ self \in routers
        /\ UNCHANGED <<routers, neighbors, self>>
        /\ distance \in [routers -> 0 .. Infinity]
    BY <1>2 DEF Relax, RouterTypeOK, topology
  <2>2. PICK link \in scan :
          \/ /\ Shorter(link)
             /\ distance' = [distance EXCEPT ![link[1]] = Through(link)]
          \/ distance' = distance
    BY <1>2 DEF Relax
  <2>3. CASE distance' = distance
    BY <2>1, <2>3 DEF LowerBound, Shortest
  <2>4. CASE /\ Shorter(link)
             /\ distance' = [distance EXCEPT ![link[1]] = Through(link)]
    <3>1. /\ node \in routers /\ link \in neighbors[node]
          /\ link[1] \in routers /\ link[2] \in Nat
          /\ distance[node] \in Nat
      BY <2>1, <2>4, ShorterUnsettled
    <3>2. /\ Shortest(self) \in [routers -> 0 .. Infinity]
          /\ Shortest(self)[link[1]] <= Shortest(self)[node] + link[2]
      BY <2>1, <3>1, ShortestFacts
    <3>3. Shortest(self)[node] <= distance[node]
      BY <2>1, <3>1 DEF LowerBound
    <3>4. Shortest(self)[link[1]] <= Through(link)
      BY <3>1, <3>2, <3>3 DEF Through
    <3>5. \A v \in routers : Shortest(self)[v] <= distance'[v]
      BY <2>1, <2>4, <3>1, <3>4 DEF LowerBound
    <3>6. QED
      BY <2>1, <3>5 DEF LowerBound, Shortest
  <2>5. QED
    BY <2>2, <2>3, <2>4
<1>3. CASE Pop \/ EndSearch \/ Chase \/ EndChase
           \/ \E x \in routers : DirectEntry(x) \/ IndirectEntry(x)
  <2>1. phase # "idle" /\ UNCHANGED <<routers, neighbors, self, distance>>
    BY <1>3 DEF Pop, EndSearch, Chase, EndChase, DirectEntry, IndirectEntry,
                topology, search, RouterTypeOK
  <2>2. QED
    BY <2>1 DEF LowerBound, Shortest
<1>4. CASE Return
  BY <1>4 DEF Return, LowerBound
<1>5. QED
  BY <1>1, <1>2, <1>3, <1>4 DEF UpdateStep

\* At the end of the search the distances are a potential, so the greatest.
LEMMA DistancesExact ==
    ASSUME UpdateInv, LowerBound
    PROVE  DistancesShortest
<1> USE RouterAssumption
<1> SUFFICES ASSUME phase = "table" PROVE distance = Shortest(self)
  BY DEF DistancesShortest
<1>1. /\ RouterTypeOK /\ self \in routers
      /\ distance \in [routers -> 0 .. Infinity]
  BY DEF UpdateInv, RouterTypeOK
<1>2. Potential(routers, neighbors, self, distance)
  BY <1>1 DEF Potential, UpdateInv, ShortestPathTree
<1>3. \A v \in routers : distance[v] <= Shortest(self)[v]
  BY <1>1, <1>2, ShortestGreatest
<1>4. Shortest(self) \in [routers -> 0 .. Infinity]
  BY <1>1, ShortestFacts
<1>5. \A v \in routers : distance[v] = Shortest(self)[v]
  <2> TAKE v \in routers
  <2>1. distance[v] <= Shortest(self)[v] /\ Shortest(self)[v] <= distance[v]
    BY <1>3 DEF LowerBound
  <2>2. distance[v] \in Nat /\ Shortest(self)[v] \in Nat
    BY <1>1, <1>4
  <2>3. QED
    BY <2>1, <2>2
<1>6. QED
  BY <1>1, <1>4, <1>5

(***************************************************************************)
(* The distances the table is built from are the lengths of the shortest   *)
(* walks, although links of weight 0 may close cycles of predecessors.     *)
(***************************************************************************)
THEOREM ShortestDistances == RouterSpec => []DistancesShortest
<1>1. RouterInit => LowerBound
  BY DEF RouterInit, NoUpdate, LowerBound
<1>2. UpdateInv /\ LowerBound /\ [RouterNext]_routerVars => LowerBound'
  <2>1. UNCHANGED routerVars /\ LowerBound => LowerBound'
    BY DEF routerVars, topology, updateVars, search, LowerBound, Shortest
  <2>2. QED
    BY <2>1, LowerBoundStep DEF RouterNext
<1>3. UpdateInv /\ LowerBound => DistancesShortest
  BY DistancesExact
<1>4. QED
  BY <1>1, <1>2, <1>3, UpdateInvariant, PTL DEF RouterSpec

-----------------------------------------------------------------------------
(* The menu *)

\* The table under construction.
Building ==
    /\ phase = "search" => routing_table[self] = <<>>
    /\ phase = "table" =>
        /\ DOMAIN routing_table[self] = routers \ todo
        /\ \A d \in routers \ todo : routing_table[self][d] \in Hops(routers)

\* A finished table has an entry for every router; findPath leaves entries
\* for others, that are NULL.
Complete(r) ==
    /\ routers \subseteq DOMAIN routing_table[r]
    /\ \A d \in DOMAIN routing_table[r] :
         /\ routing_table[r][d] \in Hops(routers)
         /\ d \notin routers => routing_table[r][d] = NULL

UpToDate == routers \ (pending \cup {self})

Control ==
    /\ program \in {"menu", "path", "exited", "crashed"}
    /\ program # "menu" => phase = "idle" /\ pending = {}
    /\ program = "menu" => path = <<>>
    /\ pending \subseteq routers
    /\ self \notin pending

MenuInv ==
    /\ UpdateInv
    /\ Control
    /\ Building
    /\ \A r \in UpToDate : Complete(r)

LEMMA NothingPending ==
    ASSUME MenuInv, phase = "idle", pending = {}
    PROVE  UpToDate = routers
BY RouterAssumption DEF MenuInv, UpToDate, UpdateInv, RouterTypeOK, NoUpdate

LEMMA IdleInv ==
    ASSUME NoUpdate', routers' \subseteq Router,
           neighbors' \in [routers' -> SUBSET (routers' \X Weight)],
           DOMAIN routing_table' = routers'
    PROVE  UpdateInv' /\ Building'
BY RouterAssumption
   DEF UpdateInv, Locals, NoUpdate, ShortestPathTree, EntriesLeadOut,
       RouterTypeOK, Hops, Building

LEMMA MenuInit == Init => MenuInv
<1> SUFFICES ASSUME Init PROVE MenuInv
  OBVIOUS
<1>1. NoUpdate /\ routers = {} /\ neighbors = <<>> /\ routing_table = <<>>
  BY DEF Init
<1>2. RouterTypeOK
  BY <1>1 DEF RouterTypeOK, NoUpdate, Hops
<1>3. UpdateInv /\ Building
  BY <1>1, <1>2 DEF UpdateInv, Locals, NoUpdate, ShortestPathTree,
                    EntriesLeadOut, Building
<1>4. Control /\ UpToDate = {}
  BY <1>1 DEF Init, Control, UpToDate
<1>5. QED
  BY <1>3, <1>4 DEF MenuInv

\* Creating a router: the links are to routers that exist, itself included.
LEMMA CreateStep ==
    ASSUME MenuInv, NEW id \in Router,
           NEW incoming \in SUBSET Link, NEW outgoing \in SUBSET Link,
           CreateRouter(id, incoming, outgoing)
    PROVE  MenuInv' /\ UpToDate' = {}
<1>1. /\ phase = "idle" /\ NoUpdate /\ program = "menu" /\ id \notin routers
      /\ routers' = routers \cup {id} /\ pending' = routers'
      /\ routing_table' = Put(routing_table, id, <<>>)
      /\ UNCHANGED <<phase, self, distance, next_hop, pq, node, scan, todo,
                     dest, temp, program, at, finish, path>>
  BY DEF CreateRouter, Ready, MenuInv, UpdateInv, RouterTypeOK, search, build,
         walk
<1>2. /\ routers \subseteq Router
      /\ neighbors \in [routers -> SUBSET (routers \X Weight)]
      /\ DOMAIN routing_table = routers
  BY DEF MenuInv, UpdateInv, RouterTypeOK
<1>3. neighbors' \in [routers' -> SUBSET (routers' \X Weight)]
  <2> DEFINE in(r) == {<<id, link[2]>> : link \in {x \in incoming : x[1] = r}}
  <2>1. incoming \in SUBSET Link /\ outgoing \in SUBSET Link
    OBVIOUS
  <2>2. Existing(outgoing) \in SUBSET (routers' \X Weight)
    BY <1>1, <2>1 DEF Existing, Link
  <2>3. ASSUME NEW r PROVE in(r) \in SUBSET (routers' \X Weight)
    <3>1. ASSUME NEW link \in incoming
          PROVE  <<id, link[2]>> \in routers' \X Weight
      BY <1>1, <2>1 DEF Link
    <3>2. QED
      BY <3>1
  <2>4. \A r \in routers : neighbors[r] \in SUBSET (routers' \X Weight)
    BY <1>1, <1>2
  <2>5. neighbors' = [r \in routers' |-> IF r = id THEN Existing(outgoing)
                                         ELSE neighbors[r] \cup in(r)]
    BY <1>1 DEF CreateRouter
  <2> HIDE DEF in
  <2>6. QED
    BY <1>1, <2>2, <2>3, <2>4, <2>5
<1>4. NoUpdate'
  BY <1>1 DEF NoUpdate
<1>5. DOMAIN routing_table' = routers' /\ routers' \subseteq Router
  BY <1>1, <1>2 DEF Put
<1>6. UpdateInv' /\ Building'
  BY <1>3, <1>4, <1>5, IdleInv
<1>7. Control'
  BY <1>1, <1>4, <1>5, RouterAssumption DEF Control, NoUpdate, MenuInv
<1>8. UpToDate' = {}
  BY <1>1 DEF UpToDate
<1>9. QED
  BY <1>6, <1>7, <1>8 DEF MenuInv

\* Deleting a router takes the links to it out of the others.
LEMMA DeleteStep ==
    ASSUME MenuInv, NEW del \in Router, DeleteRouter(del)
    PROVE  MenuInv' /\ UpToDate' = {}
<1>1. /\ phase = "idle" /\ NoUpdate /\ program = "menu"
      /\ routers' = routers \ {del} /\ pending' = routers'
      /\ neighbors' = [r \in routers' |-> Without(neighbors[r], del)]
      /\ routing_table' = [r \in routers' |-> routing_table[r]]
      /\ UNCHANGED <<phase, self, distance, next_hop, pq, node, scan, todo,
                     dest, temp, program, at, finish, path>>
  BY DEF DeleteRouter, Ready, MenuInv, UpdateInv, RouterTypeOK, search, build,
         walk
<1>2. /\ routers \subseteq Router
      /\ neighbors \in [routers -> SUBSET (routers \X Weight)]
  BY DEF MenuInv, UpdateInv, RouterTypeOK
<1>3. ASSUME NEW r \in routers'
      PROVE  Without(neighbors[r], del) \in SUBSET (routers' \X Weight)
  <2>1. neighbors[r] \in SUBSET (routers \X Weight)
    BY <1>1, <1>2
  <2>2. QED
    BY <1>1, <2>1 DEF Without
<1>4. neighbors' \in [routers' -> SUBSET (routers' \X Weight)]
  BY <1>1, <1>3
<1>5. NoUpdate'
  BY <1>1 DEF NoUpdate
<1>6. UpdateInv' /\ Building'
  BY <1>1, <1>2, <1>4, <1>5, IdleInv
<1>7. Control'
  BY <1>1, <1>2, <1>5, RouterAssumption DEF Control, NoUpdate, MenuInv
<1>8. UpToDate' = {}
  BY <1>1 DEF UpToDate
<1>9. QED
  BY <1>6, <1>7, <1>8 DEF MenuInv

\* The loop over all routers starts the next update.
LEMMA UpdateOneStep ==
    ASSUME MenuInv, UpdateOne
    PROVE  MenuInv' /\ UpToDate' = UpToDate
           /\ \A r \in UpToDate : routing_table'[r] = routing_table[r]
<1> USE RouterAssumption
<1>1. PICK r \in pending : Start(r) /\ pending' = pending \ {r}
  BY DEF UpdateOne
<1>2. /\ phase = "idle" /\ NoUpdate /\ phase' = "search" /\ self' = r
      /\ r \in routers /\ routers' = routers /\ neighbors' = neighbors
      /\ routing_table' = [routing_table EXCEPT ![r] = <<>>]
      /\ program' = program /\ path' = path
  BY <1>1 DEF Start, UpdateOne, topology, walk, MenuInv, UpdateInv,
              RouterTypeOK
<1>3. DOMAIN routing_table = routers /\ routers \subseteq Router
  BY DEF MenuInv, UpdateInv, RouterTypeOK
<1>4. UpdateInv'
  BY <1>1, <1>2, StartStep DEF MenuInv
<1>5. Control'
  BY <1>1, <1>2 DEF MenuInv, Control
<1>6. Building'
  BY <1>2, <1>3 DEF Building
<1>7. UpToDate' = UpToDate
  BY <1>1, <1>2, <1>3 DEF UpToDate, NoUpdate
<1>8. \A x \in UpToDate : x # r /\ routing_table'[x] = routing_table[x]
  BY <1>1, <1>2, <1>3 DEF UpToDate
<1>9. \A x \in UpToDate' : Complete(x)'
  BY <1>2, <1>7, <1>8 DEF MenuInv, Complete
<1>10. QED
  BY <1>4, <1>5, <1>6, <1>7, <1>8, <1>9 DEF MenuInv

\* A step of the update writes no table but that of self.
LEMMA UpdateWrites ==
    ASSUME UpdateInv, UpdateStep
    PROVE  /\ phase # "idle"
           /\ UNCHANGED <<routers, neighbors>>
           /\ \A r \in routers \ {self} : routing_table'[r] = routing_table[r]
           /\ \/ phase' # "idle" /\ self' = self
              \/ Return
<1> USE DEF UpdateInv, RouterTypeOK
<1>1. CASE Pop \/ Relax \/ EndSearch \/ Chase \/ Return
  BY <1>1 DEF Pop, Relax, EndSearch, Chase, Return, topology, search
<1>2. CASE EndChase
  BY <1>2 DEF EndChase, SetEntry, topology, search
<1>3. CASE \E d \in routers : DirectEntry(d) \/ IndirectEntry(d)
  BY <1>3 DEF DirectEntry, IndirectEntry, SetEntry, topology, search
<1>4. QED
  BY <1>1, <1>2, <1>3 DEF UpdateStep

\* The entry made names a router, or none.
LEMMA BuildingEntry ==
    ASSUME UpdateInv, Building, phase = "table",
           NEW d \in todo, NEW hop \in Hops(routers), SetEntry(d, hop),
           UNCHANGED <<routers, phase, self>>
    PROVE  Building'
<1>1. /\ DOMAIN routing_table'[self] = DOMAIN routing_table[self] \cup {d}
      /\ \A x \in DOMAIN routing_table'[self] :
           routing_table'[self][x] = IF x = d THEN hop
                                     ELSE routing_table[self][x]
      /\ todo' = todo \ {d}
  BY SetEntryTable DEF UpdateInv, RouterTypeOK
<1>2. d \in routers
  BY DEF UpdateInv, RouterTypeOK
<1>3. QED
  BY <1>1, <1>2 DEF Building

LEMMA BuildingStep ==
    ASSUME UpdateInv, Building, UpdateStep
    PROVE  Building'
<1> USE DEF UpdateInv
<1>1. CASE Pop \/ Relax \/ Chase
  BY <1>1 DEF Pop, Relax, Chase, RouterTypeOK, topology, build, Building
<1>2. CASE EndSearch
  BY <1>2 DEF EndSearch, topology, Building
<1>3. CASE EndChase
  <2>1. /\ phase = "table" /\ dest \in todo /\ temp \in Hops(routers)
        /\ SetEntry(dest, temp) /\ UNCHANGED <<routers, phase, self>>
    BY <1>3 DEF EndChase, RouterTypeOK, Chasing, Hops, topology
  <2>2. QED
    BY <2>1, BuildingEntry
<1>4. ASSUME NEW d \in routers, DirectEntry(d) PROVE Building'
  <2>1. /\ phase = "table" /\ d \in todo /\ UNCHANGED <<routers, phase, self>>
        /\ SetEntry(d, d) \/ SetEntry(d, NULL)
    BY <1>4 DEF DirectEntry, topology
  <2>2. d \in Hops(routers) /\ NULL \in Hops(routers)
    BY DEF Hops
  <2>3. QED
    BY <2>1, <2>2, BuildingEntry
<1>5. ASSUME NEW d \in routers, IndirectEntry(d) PROVE Building'
  BY <1>5 DEF IndirectEntry, topology, Building
<1>6. CASE Return
  BY <1>6 DEF Return, Building
<1>7. QED
  BY <1>1, <1>2, <1>3, <1>4, <1>5, <1>6 DEF UpdateStep

LEMMA UpdateMenuStep ==
    ASSUME MenuInv, Update
    PROVE  MenuInv'
<1> USE RouterAssumption
<1>1. /\ UpdateInv /\ UpdateStep
      /\ UNCHANGED <<program, pending, path>>
  BY DEF Update, MenuInv, walk
<1>2. UpdateInv'
  BY <1>1, PopStep, RelaxStep, EndSearchStep, DirectEntryStep,
     IndirectEntryStep, ChaseStep, EndChaseStep, ReturnStep DEF UpdateStep
<1>3. Building'
  BY <1>1, BuildingStep DEF MenuInv
<1>4. /\ phase # "idle"
      /\ UNCHANGED <<routers, neighbors>>
      /\ \A r \in routers \ {self} : routing_table'[r] = routing_table[r]
      /\ (phase' # "idle" /\ self' = self) \/ Return
  BY <1>1, UpdateWrites
<1>5. Control'
  <2>1. Return => self' = NULL
    BY DEF Return
  <2>2. NULL \notin pending
    BY DEF MenuInv, Control, UpdateInv, RouterTypeOK
  <2>3. QED
    BY <1>1, <1>4, <2>1, <2>2 DEF MenuInv, Control
<1>6. \A r \in UpToDate : Complete(r)'
  <2> TAKE r \in UpToDate
  <2>1. r \in routers \ {self} /\ Complete(r)
    BY DEF MenuInv, UpToDate
  <2>2. QED
    BY <1>4, <2>1 DEF Complete
<1>7. CASE self' = self
  <2>1. UpToDate' = UpToDate
    BY <1>1, <1>4, <1>7 DEF UpToDate
  <2>2. QED
    BY <1>2, <1>3, <1>5, <1>6, <2>1 DEF MenuInv
<1>8. CASE Return
  <2>1. /\ phase = "table" /\ todo = {} /\ UNCHANGED routing_table
        /\ self' = NULL /\ self \in routers
    BY <1>1, <1>8 DEF Return, UpdateInv, RouterTypeOK
  <2>2. Complete(self)
    BY <2>1 DEF Complete, MenuInv, Building
  <2>3. \A r \in routers : r = self => Complete(r)'
    BY <1>4, <2>1, <2>2 DEF Complete
  <2>4. UpToDate' \subseteq UpToDate \cup {self} /\ UpToDate' \subseteq routers
    BY <1>1, <1>4 DEF UpToDate
  <2>5. QED
    BY <1>2, <1>3, <1>5, <1>6, <2>3, <2>4 DEF MenuInv
<1>9. QED
  BY <1>4, <1>7, <1>8

\* An entry that findPath leaves for a router of which there is no way.
LEMMA NoPathStep ==
    ASSUME MenuInv, NoPath
    PROVE  /\ MenuInv' /\ UpToDate' = UpToDate /\ path' = <<>>
           /\ \A r, d \in routers :
                routing_table'[r][d] = routing_table[r][d]
<1> USE RouterAssumption
<1>1. /\ program = "path" /\ at \in routers \ {finish}
      /\ finish \in DOMAIN routing_table[at] =>
           routing_table[at][finish] = NULL
      /\ routing_table' =
          [routing_table EXCEPT ![at] = Put(routing_table[at], finish, NULL)]
      /\ program' = "menu" /\ path' = <<>>
      /\ UNCHANGED <<routers, neighbors, phase, self, distance, next_hop, pq,
                     node, scan, todo, dest, temp, pending>>
  BY DEF NoPath, EndWalk, topology, search, build
<1>2. phase = "idle" /\ pending = {} /\ NoUpdate
  BY <1>1 DEF MenuInv, Control, UpdateInv, RouterTypeOK
<1>3. /\ routers \subseteq Router /\ DOMAIN routing_table = routers
      /\ neighbors \in [routers -> SUBSET (routers \X Weight)]
  BY DEF MenuInv, UpdateInv, RouterTypeOK
<1>4. UpdateInv' /\ Building'
  <2>1. NoUpdate' /\ DOMAIN routing_table' = routers'
    BY <1>1, <1>2, <1>3 DEF NoUpdate
  <2>2. QED
    BY <1>1, <1>3, <2>1, IdleInv
<1>5. Control' /\ UpToDate' = UpToDate
  BY <1>1, <1>2 DEF MenuInv, Control, UpToDate
<1>6. UpToDate = routers
  BY <1>2, NothingPending
<1>7. ASSUME NEW r \in routers
      PROVE  /\ Complete(r)'
             /\ \A d \in routers : routing_table'[r][d] = routing_table[r][d]
  <2>1. Complete(r)
    BY <1>6 DEF MenuInv
  <2>2. CASE r # at
    BY <1>1, <1>3, <2>1, <2>2 DEF Complete
  <2>3. CASE r = at
    <3>1. routing_table'[r] = Put(routing_table[r], finish, NULL)
      BY <1>1, <1>3, <2>3
    <3>2. /\ DOMAIN routing_table'[r] = DOMAIN routing_table[r] \cup {finish}
          /\ \A d \in DOMAIN routing_table'[r] :
               routing_table'[r][d] = IF d = finish THEN NULL
                                      ELSE routing_table[r][d]
      BY <3>1 DEF Put
    <3>3. Complete(r)'
      BY <1>1, <2>1, <3>2 DEF Complete, Hops
    <3>4. \A d \in routers : routing_table'[r][d] = routing_table[r][d]
      BY <1>1, <2>1, <2>3, <3>2 DEF Complete
    <3>5. QED
      BY <3>3, <3>4
  <2>4. QED
    BY <2>2, <2>3
<1>8. QED
  BY <1>1, <1>4, <1>5, <1>6, <1>7 DEF MenuInv

\* The remaining steps of main() and findPath write no link and no table.
Reading ==
    \/ \E from, to \in Router : FindPath(from, to)
    \/ \E id \in Router : FindSelf(id)
    \/ Exit \/ Hop \/ Arrive \/ Crash

LEMMA ReadingStep ==
    ASSUME MenuInv, Reading \/ UNCHANGED vars
    PROVE  MenuInv' /\ UpToDate' = UpToDate /\ UNCHANGED routerVars
<1> USE DEF routerVars, topology, updateVars, search, build
<1>1. UNCHANGED routerVars /\ UNCHANGED pending
  BY DEF Reading, FindPath, FindSelf, Exit, Hop, Arrive, Crash, vars
<1>2. UpdateInv'
  BY <1>1 DEF MenuInv, UpdateInv, RouterTypeOK, NoUpdate, Locals,
              SearchInv, Source, Parents, Waiting, Relaxed, Frontier,
              Settled, Scanning, Queue, ShortestPathTree, EntriesLeadOut,
              neighbors_set, Chasing
<1>3. Control'
  <2>1. CASE UNCHANGED vars
    BY <2>1 DEF MenuInv, Control, vars, walk
  <2>2. CASE Hop \/ Arrive \/ Crash
    BY <2>2, <1>1 DEF MenuInv, Control, Hop, Arrive, Crash, EndWalk, walk
  <2>3. CASE Exit \/ \E id \in Router : FindSelf(id)
    BY <2>3, <1>1 DEF MenuInv, Control, Exit, FindSelf, Ready, walk
  <2>4. CASE \E from, to \in Router : FindPath(from, to)
    BY <2>4, <1>1 DEF MenuInv, Control, FindPath, Ready
  <2>5. QED
    BY <2>1, <2>2, <2>3, <2>4 DEF Reading
<1>4. Building' /\ UpToDate' = UpToDate
  BY <1>1 DEF MenuInv, Building, UpToDate
<1>5. \A r \in UpToDate : Complete(r)'
  BY <1>1 DEF MenuInv, Complete
<1>6. QED
  BY <1>1, <1>2, <1>3, <1>4, <1>5 DEF MenuInv

\* What the user types in are lists of links.
LEMMA ListsTypedIn ==
    ASSUME NEW id \in Router, NEW lists \in LinkLists,
           CreateRouter(id, lists[1], lists[2])
    PROVE  \E incoming, outgoing \in SUBSET Link :
             CreateRouter(id, incoming, outgoing)
<1>1. lists[1] \in SUBSET Link /\ lists[2] \in SUBSET Link
  BY OspfAssumption
<1>2. QED
  BY <1>1

\* The steps of the program, told apart by what they do to the tables.
LEMMA NextSteps ==
    ASSUME [Next]_vars
    PROVE  \/ \E id \in Router, incoming, outgoing \in SUBSET Link :
                CreateRouter(id, incoming, outgoing)
           \/ \E del \in Router : DeleteRouter(del)
           \/ UpdateOne \/ Update \/ NoPath
           \/ Reading \/ UNCHANGED vars
BY ListsTypedIn DEF Next, Menu, Work, Reading

LEMMA MenuStep == MenuInv /\ [Next]_vars => MenuInv'
<1> SUFFICES ASSUME MenuInv, [Next]_vars PROVE MenuInv'
  OBVIOUS
<1>1. QED
  BY NextSteps, CreateStep, DeleteStep, UpdateOneStep, UpdateMenuStep,
     NoPathStep, ReadingStep

LEMMA MenuInvariant == Spec => []MenuInv
  BY MenuInit, MenuStep, PTL DEF Spec

(***************************************************************************)
(* No link and no table that can be read names a deleted router: deletion  *)
(* takes the links out and every table is made anew before the next read.  *)
(***************************************************************************)
THEOREM PointersLive == Spec => []NoDanglingPointer
<1>1. MenuInv => NoDanglingPointer
  <2> SUFFICES ASSUME MenuInv PROVE NoDanglingPointer
    OBVIOUS
  <2>1. RouterTypeOK
    BY DEF MenuInv, UpdateInv
  <2>2. \A r \in routers : \A link \in neighbors[r] : link[1] \in routers
    BY <2>1, LinkType
  <2>3. phase = "idle" => \A r \in routers \ pending : Complete(r)
    BY <2>1, RouterAssumption DEF MenuInv, UpToDate, RouterTypeOK, NoUpdate
  <2>4. QED
    BY <2>2, <2>3 DEF NoDanglingPointer, Complete
<1>2. QED
  BY <1>1, MenuInvariant, PTL

-----------------------------------------------------------------------------
(* The way to a destination *)

LEMMA LowerBoundMenuStep ==
    MenuInv /\ LowerBound /\ [Next]_vars => LowerBound'
<1> SUFFICES ASSUME MenuInv, LowerBound, [Next]_vars PROVE LowerBound'
  OBVIOUS
<1>1. CASE \/ \E id \in Router, incoming, outgoing \in SUBSET Link :
                 CreateRouter(id, incoming, outgoing)
           \/ \E del \in Router : DeleteRouter(del)
  BY <1>1 DEF CreateRouter, DeleteRouter, Ready, LowerBound
<1>2. CASE UpdateOne
  BY <1>2, LowerBoundStep DEF UpdateOne, MenuInv, Control
<1>3. CASE Update
  BY <1>3, LowerBoundStep DEF Update, MenuInv
<1>4. CASE NoPath
  BY <1>4 DEF NoPath, MenuInv, Control, LowerBound
<1>5. CASE Reading \/ UNCHANGED vars
  BY <1>5, ReadingStep
     DEF LowerBound, Shortest, routerVars, topology, updateVars, search
<1>6. QED
  BY <1>1, <1>2, <1>3, <1>4, <1>5, NextSteps

\* The same holds with routers created and deleted between the updates.
THEOREM ShortestInMenu == Spec => []DistancesShortest
<1>1. Init => LowerBound
  BY DEF Init, NoUpdate, LowerBound
<1>2. MenuInv /\ LowerBound => DistancesShortest
  BY DistancesExact DEF MenuInv
<1>3. QED
  BY <1>1, <1>2, LowerBoundMenuStep, MenuInvariant, PTL DEF Spec

\* A link is one way to its end.
LEMMA Detour ==
    ASSUME RouterTypeOK, NEW p \in routers, NEW link \in neighbors[p]
    PROVE  /\ Shortest(p)[link[1]] <= link[2]
           /\ \A v \in routers :
                Shortest(p)[v] <= link[2] + Shortest(link[1])[v]
<1> USE RouterAssumption
<1> DEFINE t == link[1]
           w == link[2]
           f == [v \in routers |-> IF Shortest(p)[v] <= w THEN 0
                                   ELSE Shortest(p)[v] - w]
<1>1. t \in routers /\ w \in Nat
  BY LinkType
<1>2. /\ Shortest(p) \in [routers -> 0 .. Infinity] /\ Shortest(p)[p] = 0
      /\ \A u \in routers : \A l \in neighbors[u] :
           Shortest(p)[l[1]] <= Shortest(p)[u] + l[2]
  BY ShortestFacts
<1>3. Shortest(p)[t] <= w
  BY <1>1, <1>2
<1>4. f \in [routers -> 0 .. Infinity]
  <2>1. ASSUME NEW v \in routers PROVE f[v] \in 0 .. Infinity
    <3>1. Shortest(p)[v] \in 0 .. Infinity
      BY <1>2
    <3> HIDE DEF w
    <3>2. QED
      BY <3>1, <1>1
  <2>2. QED
    BY <2>1
<1>5. f[t] = 0
  BY <1>1, <1>3
<1>6. ASSUME NEW u \in routers, NEW l \in neighbors[u]
      PROVE  f[l[1]] <= f[u] + l[2]
  <2>1. l[1] \in routers /\ l[2] \in Nat
    BY LinkType
  <2>2. /\ Shortest(p)[l[1]] <= Shortest(p)[u] + l[2]
        /\ Shortest(p)[l[1]] \in Nat /\ Shortest(p)[u] \in Nat
    BY <1>2, <2>1
  <2> HIDE DEF w
  <2>3. QED
    BY <1>1, <2>1, <2>2
<1>7. Potential(routers, neighbors, t, f)
  BY <1>4, <1>5, <1>6 DEF Potential
<1> HIDE DEF t
<1>8. \A v \in routers : f[v] <= Shortest(t)[v]
  BY <1>1, <1>7, ShortestGreatest
<1>9. Shortest(t) \in [routers -> 0 .. Infinity]
  BY <1>1, ShortestFacts
<1>10. ASSUME NEW v \in routers PROVE Shortest(p)[v] <= w + Shortest(t)[v]
  <2>1. /\ f[v] <= Shortest(t)[v] /\ Shortest(t)[v] \in Nat
        /\ Shortest(p)[v] \in Nat
    BY <1>2, <1>8, <1>9
  <2> HIDE DEF w
  <2>2. QED
    BY <1>1, <2>1
<1>11. QED
  BY <1>3, <1>10 DEF t

(***************************************************************************)
(* The entry of r for d leads over a link to a router closer to d than the *)
(* length given, or is NULL when d is out of reach.                        *)
(***************************************************************************)
LeadsCloser(r, d, length) ==
    IF length < Infinity
    THEN /\ \E link \in neighbors[r] : link[1] = routing_table[r][d]
         /\ Shortest(routing_table[r][d])[d] < length
    ELSE routing_table[r][d] = NULL

Built ==
    phase = "table" =>
        \A d \in routers \ (todo \cup {self}) :
            LeadsCloser(self, d, distance[d])

\* temp is on a shortest way from self to dest.
OnTheWay ==
    dest # NULL => Shortest(temp)[dest] + distance[temp] <= distance[dest]

Finished ==
    \A r \in UpToDate : \A d \in routers \ {r} :
        LeadsCloser(r, d, Shortest(r)[d])

Leading == Built /\ OnTheWay /\ Finished

\* The predecessor in the table phase: a tight link of positive weight.
LEMMA TightLink ==
    ASSUME 0 \notin Weight, UpdateInv, phase = "table",
           NEW v \in routers \ {self}, distance[v] < Infinity
    PROVE  /\ next_hop[v] \in routers
           /\ \E link \in neighbors[next_hop[v]] :
                /\ link[1] = v /\ link[2] \in Nat \ {0}
                /\ distance[v] = distance[next_hop[v]] + link[2]
           /\ distance[next_hop[v]] < distance[v] /\ 0 < distance[v]
<1> USE RouterAssumption DEF UpdateInv
<1>1. PICK link \in neighbors[next_hop[v]] :
             /\ link[1] = v
             /\ distance[v] = distance[next_hop[v]] + link[2]
  BY DEF ShortestPathTree
<1>2. next_hop[v] \in routers
  BY DEF Locals
<1>3. neighbors[next_hop[v]] \in SUBSET (routers \X Weight)
  BY <1>2 DEF RouterTypeOK
<1>4. link[2] \in Weight
  BY <1>3
<1>5. link[2] \in Nat /\ link[2] # 0
  BY <1>4
<1>6. distance[next_hop[v]] \in Nat
  BY <1>2 DEF RouterTypeOK
<1>7. QED
  BY <1>1, <1>2, <1>5, <1>6

\* One predecessor further back is still on the way.
LEMMA StepBack ==
    ASSUME 0 \notin Weight, UpdateInv, phase = "table",
           NEW v \in routers \ {self}, distance[v] < Infinity,
           NEW d \in routers, Shortest(v)[d] + distance[v] <= distance[d]
    PROVE  /\ next_hop[v] \in routers
           /\ Shortest(next_hop[v])[d] + distance[next_hop[v]] <= distance[d]
<1> USE RouterAssumption
<1>1. next_hop[v] \in routers
  BY TightLink
<1>2. PICK link \in neighbors[next_hop[v]] :
             /\ link[1] = v /\ link[2] \in Nat \ {0}
             /\ distance[v] = distance[next_hop[v]] + link[2]
  BY TightLink
<1>3. RouterTypeOK /\ distance \in [routers -> 0 .. Infinity]
  BY DEF UpdateInv, RouterTypeOK
<1> DEFINE p == next_hop[v]
<1>4. Shortest(p)[d] <= link[2] + Shortest(v)[d]
  BY <1>1, <1>2, <1>3, Detour
<1>5. /\ Shortest(p) \in [routers -> 0 .. Infinity]
      /\ Shortest(v) \in [routers -> 0 .. Infinity]
  BY <1>1, <1>3, ShortestFacts
<1>6. /\ Shortest(p)[d] \in Nat /\ Shortest(v)[d] \in Nat
      /\ distance[p] \in Nat /\ distance[d] \in Nat /\ distance[v] \in Nat
  BY <1>1, <1>3, <1>5
<1> HIDE DEF p
<1>7. distance[v] = distance[p] + link[2] /\ link[2] \in Nat
  BY <1>2 DEF p
<1>8. Shortest(p)[d] + distance[p] <= distance[d]
  BY <1>4, <1>6, <1>7
<1>9. QED
  BY <1>1, <1>8 DEF p

\* The entry made leads closer; the others are as before.
LEMMA BuiltEntry ==
    ASSUME MenuInv, Built, phase = "table",
           NEW d \in todo, NEW hop, SetEntry(d, hop),
           d # self => IF distance[d] < Infinity
                       THEN /\ \E link \in neighbors[self] : link[1] = hop
                            /\ Shortest(hop)[d] < distance[d]
                       ELSE hop = NULL,
           UNCHANGED <<routers, neighbors, phase, self, distance>>
    PROVE  Built'
<1>1. /\ DOMAIN routing_table'[self] = DOMAIN routing_table[self] \cup {d}
      /\ \A x \in DOMAIN routing_table'[self] :
           routing_table'[self][x] = IF x = d THEN hop
                                     ELSE routing_table[self][x]
      /\ todo' = todo \ {d}
  BY SetEntryTable DEF MenuInv, UpdateInv, RouterTypeOK
<1>2. DOMAIN routing_table[self] = routers \ todo /\ d \in routers
  BY DEF MenuInv, Building, UpdateInv, RouterTypeOK
<1> SUFFICES ASSUME NEW x \in routers \ (todo' \cup {self})
             PROVE  LeadsCloser(self, x, distance[x])'
  BY DEF Built
<1>3. CASE x = d
  <2>1. routing_table'[self][x] = hop /\ x # self
    BY <1>1, <1>3
  <2>2. QED
    BY <1>3, <2>1 DEF LeadsCloser, Shortest
<1>4. CASE x # d
  <2>1. routing_table'[self][x] = routing_table[self][x]
    BY <1>1, <1>2, <1>4
  <2>2. LeadsCloser(self, x, distance[x])
    BY <1>1, <1>4 DEF Built
  <2>3. QED
    BY <2>1, <2>2 DEF LeadsCloser, Shortest
<1>5. QED
  BY <1>3, <1>4

\* Finished tables stay as they are while the links do.
LEMMA FinishedKept ==
    ASSUME Finished, UNCHANGED <<routers, neighbors>>,
           NEW r \in UpToDate, UpToDate \subseteq routers,
           \A d \in routers : routing_table'[r][d] = routing_table[r][d]
    PROVE  \A d \in routers \ {r} : LeadsCloser(r, d, Shortest(r)[d])'
<1> TAKE d \in routers \ {r}
<1>1. routing_table'[r][d] = routing_table[r][d]
  OBVIOUS
<1>2. LeadsCloser(r, d, Shortest(r)[d])
  BY DEF Finished
<1>3. QED
  BY <1>1, <1>2 DEF LeadsCloser, Shortest

LEMMA BuiltStep ==
    ASSUME 0 \notin Weight, MenuInv, Built, OnTheWay, UpdateStep
    PROVE  Built' /\ OnTheWay'
<1> USE RouterAssumption
<1>0. UpdateInv /\ RouterTypeOK
  BY DEF MenuInv, UpdateInv
<1>1. CASE Pop \/ Relax \/ EndSearch \/ Return
  <2>1. /\ phase' = "table" => todo' = routers'
        /\ dest' = NULL
    BY <1>0, <1>1 DEF Pop, Relax, EndSearch, Return, build, topology,
                      UpdateInv, Locals, Chasing, RouterTypeOK
  <2>2. QED
    BY <2>1 DEF Built, OnTheWay
<1>2. ASSUME NEW d \in routers, DirectEntry(d) PROVE Built' /\ OnTheWay'
  <2>1. /\ phase = "table" /\ dest' = NULL /\ d \in todo
        /\ UNCHANGED <<routers, neighbors, phase, self, distance>>
        /\ \/ next_hop[d] = self /\ SetEntry(d, d)
           \/ next_hop[d] # self /\ next_hop[d] = d /\ SetEntry(d, NULL)
    BY <1>2 DEF DirectEntry, topology, search
  <2>2. CASE next_hop[d] = self /\ SetEntry(d, d)
    <3>1. ASSUME d # self
          PROVE  /\ distance[d] < Infinity
                 /\ \E link \in neighbors[self] : link[1] = d
                 /\ Shortest(d)[d] < distance[d]
      <4>1. distance[d] < Infinity
        BY <1>0, <2>1, <2>2, <3>1 DEF UpdateInv, ShortestPathTree
      <4>2. \E link \in neighbors[self] : link[1] = d
        BY <1>0, <2>1, <2>2, <3>1, <4>1, TightLink
      <4>3. 0 < distance[d]
        BY <1>0, <2>1, <3>1, <4>1, TightLink
      <4>4. Shortest(d)[d] = 0
        BY <1>0, ShortestFacts
      <4>5. QED
        BY <4>1, <4>2, <4>3, <4>4
    <3>2. QED
      BY <2>1, <2>2, <3>1, BuiltEntry DEF OnTheWay
  <2>3. CASE next_hop[d] # self /\ next_hop[d] = d /\ SetEntry(d, NULL)
    <3>1. d # self => ~(distance[d] < Infinity)
      BY <1>0, <2>1, <2>3 DEF UpdateInv, ShortestPathTree
    <3>2. QED
      BY <2>1, <2>3, <3>1, BuiltEntry DEF OnTheWay
  <2>4. QED
    BY <2>1, <2>2, <2>3
<1>3. ASSUME NEW d \in routers, IndirectEntry(d) PROVE Built' /\ OnTheWay'
  <2>1. /\ phase = "table" /\ dest' = d /\ temp' = next_hop[d]
        /\ next_hop[d] \notin {self, d}
        /\ UNCHANGED <<routers, neighbors, routing_table, phase, self,
                       distance, todo>>
    BY <1>3 DEF IndirectEntry, topology, search
  <2>2. d # self /\ distance[d] < Infinity
    BY <1>0, <2>1 DEF UpdateInv, ShortestPathTree
  <2>3. Shortest(d)[d] + distance[d] <= distance[d]
    BY <1>0, <2>1, ShortestFacts DEF RouterTypeOK
  <2>4. Shortest(next_hop[d])[d] + distance[next_hop[d]] <= distance[d]
    BY <1>0, <2>1, <2>2, <2>3, StepBack
  <2>5. OnTheWay'
    BY <2>1, <2>4 DEF OnTheWay, Shortest
  <2>6. Built'
    BY <2>1 DEF Built, LeadsCloser, Shortest
  <2>7. QED
    BY <2>5, <2>6
<1>4. CASE Chase
  <2>1. /\ dest # NULL /\ phase = "table" /\ temp' = next_hop[temp]
        /\ temp \in routers \ {self} /\ dest \in routers
        /\ UNCHANGED <<routers, neighbors, routing_table, phase, self,
                       distance, todo, dest>>
    BY <1>0, <1>4, RouterAssumption
       DEF Chase, topology, search, RouterTypeOK, Hops
  <2>2. distance[dest] < Infinity /\ distance[temp] <= distance[dest]
    BY <1>0, <2>1 DEF UpdateInv, Chasing
  <2>3. distance[temp] < Infinity
    BY <1>0, <2>1, <2>2 DEF RouterTypeOK
  <2>4. Shortest(temp)[dest] + distance[temp] <= distance[dest]
    BY <2>1 DEF OnTheWay
  <2>5. Shortest(next_hop[temp])[dest] + distance[next_hop[temp]]
            <= distance[dest]
    BY <1>0, <2>1, <2>3, <2>4, StepBack
  <2>6. OnTheWay'
    BY <2>1, <2>5 DEF OnTheWay, Shortest
  <2>7. Built'
    BY <2>1 DEF Built, LeadsCloser, Shortest
  <2>8. QED
    BY <2>6, <2>7
<1>5. CASE EndChase
  <2>1. /\ dest # NULL /\ phase = "table" /\ temp \in neighbors_set
        /\ temp \in routers \ {self} /\ SetEntry(dest, temp) /\ dest' = NULL
        /\ UNCHANGED <<routers, neighbors, phase, self, distance>>
    BY <1>0, <1>5 DEF EndChase, topology, search, RouterTypeOK
  <2>2. /\ dest \in todo /\ distance[dest] < Infinity
        /\ distance[temp] <= distance[dest]
    BY <1>0, <2>1 DEF UpdateInv, Chasing
  <2>3. /\ distance[temp] \in Nat /\ distance[dest] \in Nat
        /\ Shortest(temp)[dest] \in Nat
    BY <1>0, <2>1, <2>2, ShortestFacts DEF RouterTypeOK
  <2>4. 0 < distance[temp]
    BY <1>0, <2>1, <2>2, <2>3, TightLink
  <2>5. Shortest(temp)[dest] + distance[temp] <= distance[dest]
    BY <2>1 DEF OnTheWay
  <2>6. Shortest(temp)[dest] < distance[dest]
    BY <2>3, <2>4, <2>5
  <2>7. \E link \in neighbors[self] : link[1] = temp
    BY <2>1 DEF neighbors_set
  <2>8. QED
    BY <2>1, <2>2, <2>6, <2>7, BuiltEntry DEF OnTheWay
<1>6. QED
  BY <1>1, <1>2, <1>3, <1>4, <1>5 DEF UpdateStep

LEMMA FinishedStep ==
    ASSUME MenuInv, LowerBound, Built, Finished, Update
    PROVE  Finished'
<1> USE RouterAssumption
<1>0. /\ UpdateInv /\ RouterTypeOK /\ UpdateStep /\ pending' = pending
      /\ UpToDate \subseteq routers \ {self}
  BY DEF MenuInv, UpdateInv, Update, UpToDate
<1>1. /\ phase # "idle"
      /\ UNCHANGED <<routers, neighbors>>
      /\ \A r \in routers \ {self} : routing_table'[r] = routing_table[r]
      /\ (phase' # "idle" /\ self' = self) \/ Return
  BY <1>0, UpdateWrites
<1>2. \A r \in UpToDate : \A d \in routers \ {r} :
        LeadsCloser(r, d, Shortest(r)[d])'
  BY <1>0, <1>1, FinishedKept
<1>3. CASE self' = self
  BY <1>0, <1>1, <1>2, <1>3 DEF Finished, UpToDate
<1>4. CASE Return
  <2>1. /\ phase = "table" /\ todo = {} /\ UNCHANGED routing_table
        /\ self' = NULL /\ self \in routers
    BY <1>0, <1>4 DEF Return, RouterTypeOK
  <2>2. distance = Shortest(self)
    BY <1>0, <2>1, DistancesExact DEF DistancesShortest
  <2>3. \A d \in routers \ {self} : LeadsCloser(self, d, Shortest(self)[d])
    BY <2>1, <2>2 DEF Built
  <2>4. ASSUME NEW r \in routers, r = self
        PROVE  \A d \in routers \ {r} : LeadsCloser(r, d, Shortest(r)[d])'
    BY <1>1, <2>1, <2>3, <2>4 DEF LeadsCloser, Shortest
  <2>5. UpToDate' \subseteq UpToDate \cup {self} /\ UpToDate' \subseteq routers
    BY <1>0, <1>1 DEF UpToDate
  <2>6. QED
    BY <1>1, <1>2, <2>4, <2>5 DEF Finished
<1>5. QED
  BY <1>1, <1>3, <1>4

LEMMA LeadingStep ==
    ASSUME 0 \notin Weight, MenuInv, LowerBound, Leading, [Next]_vars
    PROVE  Leading'
<1> USE DEF Leading
<1>0. UpToDate \subseteq routers
  BY DEF UpToDate
<1>1. ASSUME NEW id \in Router, NEW incoming \in SUBSET Link,
             NEW outgoing \in SUBSET Link, CreateRouter(id, incoming, outgoing)
      PROVE  Leading'
  <2>1. UpToDate' = {}
    BY <1>1, CreateStep
  <2>2. phase' = "idle" /\ dest' = dest /\ dest = NULL
    BY <1>1 DEF CreateRouter, Ready, build, MenuInv, UpdateInv, RouterTypeOK,
                NoUpdate
  <2>3. QED
    BY <2>1, <2>2 DEF Built, OnTheWay, Finished
<1>2. ASSUME NEW del \in Router, DeleteRouter(del) PROVE Leading'
  <2>1. UpToDate' = {}
    BY <1>2, DeleteStep
  <2>2. phase' = "idle" /\ dest' = dest /\ dest = NULL
    BY <1>2 DEF DeleteRouter, Ready, build, MenuInv, UpdateInv, RouterTypeOK,
                NoUpdate
  <2>3. QED
    BY <2>1, <2>2 DEF Built, OnTheWay, Finished
<1>3. CASE UpdateOne
  <2>1. /\ UNCHANGED <<routers, neighbors, dest>> /\ phase' = "search"
        /\ dest = NULL
    BY <1>3 DEF UpdateOne, Start, topology, build, MenuInv, UpdateInv,
                RouterTypeOK, NoUpdate
  <2>2. /\ UpToDate' = UpToDate
        /\ \A r \in UpToDate : routing_table'[r] = routing_table[r]
    BY <1>3, UpdateOneStep
  <2>3. \A r \in UpToDate : \A d \in routers \ {r} :
          LeadsCloser(r, d, Shortest(r)[d])'
    BY <1>0, <2>1, <2>2, FinishedKept
  <2>4. QED
    BY <2>1, <2>2, <2>3 DEF Built, OnTheWay, Finished
<1>4. CASE Update
  BY <1>4, BuiltStep, FinishedStep DEF Update
<1>5. CASE NoPath
  <2>1. /\ UNCHANGED <<routers, neighbors, dest>> /\ phase' = "idle"
        /\ dest = NULL
    BY <1>5 DEF NoPath, topology, build, MenuInv, Control, UpdateInv,
                RouterTypeOK, NoUpdate
  <2>2. /\ UpToDate' = UpToDate
        /\ \A r, d \in routers : routing_table'[r][d] = routing_table[r][d]
    BY <1>5, NoPathStep
  <2>3. \A r \in UpToDate : \A d \in routers \ {r} :
          LeadsCloser(r, d, Shortest(r)[d])'
    BY <1>0, <2>1, <2>2, FinishedKept
  <2>4. QED
    BY <2>1, <2>2, <2>3 DEF Built, OnTheWay, Finished
<1>6. CASE Reading \/ UNCHANGED vars
  <2>1. UpToDate' = UpToDate /\ UNCHANGED routerVars
    BY <1>6, ReadingStep
  <2>2. QED
    BY <2>1 DEF Built, OnTheWay, Finished, LeadsCloser, Shortest, routerVars,
                topology, updateVars, search, build
<1>7. QED
  BY <1>1, <1>2, <1>3, <1>4, <1>5, <1>6, NextSteps

\* 0 is no weight: the chase may otherwise end at a router no closer.
LEMMA LeadingInvariant ==
    ASSUME 0 \notin Weight
    PROVE  Spec => [](LowerBound /\ Leading)
<1>1. Init => LowerBound /\ Leading
  BY DEF Init, NoUpdate, LowerBound, Leading, Built, OnTheWay, Finished,
         UpToDate
<1>2. MenuInv /\ LowerBound /\ Leading /\ [Next]_vars =>
        LowerBound' /\ Leading'
  BY LowerBoundMenuStep, LeadingStep
<1>3. QED
  BY <1>1, <1>2, MenuInvariant, PTL DEF Spec

(***************************************************************************)
(* With positive weights every finished table names, for a destination in  *)
(* reach, a neighbor closer to it, whichever order the queue's ties and    *)
(* the links were taken in, after any sequence of creations and deletions. *)
(***************************************************************************)
THEOREM TablesLeadCloser ==
    ASSUME 0 \notin Weight
    PROVE  Spec => []HopsLeadCloser
<1>1. MenuInv /\ Leading => HopsLeadCloser
  <2> SUFFICES ASSUME MenuInv, Leading, Ready,
                      NEW r \in routers, NEW d \in routers \ {r}
               PROVE  LeadsCloser(r, d, Shortest(r)[d])
    BY DEF HopsLeadCloser, LeadsCloser
  <2>1. UpToDate = routers
    BY NothingPending DEF Ready
  <2>2. QED
    BY <2>1 DEF Leading, Finished
<1>2. QED
  BY <1>1, MenuInvariant, LeadingInvariant, PTL

-----------------------------------------------------------------------------
(* findPath *)

Walking ==
    path # <<>> =>
        /\ program = "path"
        /\ at \in routers /\ finish \in routers
        /\ path \in Seq(routers)
        /\ Shortest(at)[finish] < Infinity
        /\ \A i \in DOMAIN path :
             Shortest(at)[finish] < Shortest(path[i])[finish]
        /\ \E link \in neighbors[path[Len(path)]] : link[1] = at

LEMMA HopStep ==
    ASSUME MenuInv, Leading, Walking, Hop
    PROVE  Walking'
<1>1. /\ program = "path" /\ at \in routers \ {finish}
      /\ finish \in DOMAIN routing_table[at]
      /\ routing_table[at][finish] # NULL
      /\ path' = Append(path, at) /\ at' = routing_table[at][finish]
      /\ UNCHANGED <<routers, neighbors, program, finish>>
  BY DEF Hop, routerVars, topology
<1>2. UpToDate = routers
  BY <1>1, NothingPending DEF MenuInv, Control
<1>3. Complete(at)
  BY <1>1, <1>2 DEF MenuInv
<1>4. finish \in routers /\ routing_table[at][finish] \in routers
  BY <1>1, <1>3 DEF Complete, Hops
<1> DEFINE hop == routing_table[at][finish]
<1>5. /\ Shortest(at)[finish] < Infinity
      /\ \E link \in neighbors[at] : link[1] = hop
      /\ Shortest(hop)[finish] < Shortest(at)[finish]
  BY <1>1, <1>2, <1>4 DEF Leading, Finished, LeadsCloser
<1>6. RouterTypeOK
  BY DEF MenuInv, UpdateInv
<1> HIDE DEF hop
<1>7. hop \in routers /\ at' = hop
  BY <1>1, <1>4 DEF hop
<1>8. \A r \in routers : Shortest(r)[finish] \in Nat
  BY <1>4, <1>6, ShortestFacts, RouterAssumption
<1>9. path \in Seq(routers)
  <2>1. CASE path = <<>>
    BY <2>1
  <2>2. CASE path # <<>>
    BY <2>2 DEF Walking
  <2>3. QED
    BY <2>1, <2>2
<1>10. path' \in Seq(routers) /\ Len(path') = Len(path) + 1
       /\ path'[Len(path')] = at /\ path' # <<>>
  BY <1>1, <1>9
<1>11. Shortest(hop)[finish] < Infinity
  BY <1>1, <1>5, <1>7, <1>8, RouterAssumption
<1>12. ASSUME NEW i \in DOMAIN path'
       PROVE  Shortest(hop)[finish] < Shortest(path'[i])[finish]
  <2>1. CASE i = Len(path')
    BY <2>1, <1>5, <1>10
  <2>2. CASE i # Len(path')
    <3>1. i \in DOMAIN path /\ path'[i] = path[i] /\ path[i] \in routers
      BY <2>2, <1>1, <1>9, <1>10, <1>12
    <3>2. Shortest(at)[finish] < Shortest(path[i])[finish]
      BY <3>1 DEF Walking
    <3>3. QED
      BY <3>1, <3>2, <1>1, <1>5, <1>7, <1>8
  <2>3. QED
    BY <2>1, <2>2
<1>13. QED
  BY <1>1, <1>4, <1>5, <1>7, <1>10, <1>11, <1>12 DEF Walking, Shortest

LEMMA WalkingStep ==
    ASSUME MenuInv, Leading, Walking, [Next]_vars
    PROVE  Walking'
<1>1. CASE Hop
  BY <1>1, HopStep
<1>2. CASE Update \/ UpdateOne \/ Exit
  <2>1. path' = path /\ program = "menu"
    BY <1>2, UpdateWrites
       DEF Update, UpdateOne, Exit, Ready, walk, MenuInv, Control
  <2>2. path' = <<>>
    BY <2>1 DEF MenuInv, Control
  <2>3. QED
    BY <2>2 DEF Walking
<1>6. CASE \/ \E id \in Router, incoming, outgoing \in SUBSET Link :
                 CreateRouter(id, incoming, outgoing)
           \/ \E del \in Router : DeleteRouter(del)
           \/ \E from, to \in Router : FindPath(from, to)
           \/ \E id \in Router : FindSelf(id)
  <2>1. path' = path /\ program = "menu"
    BY <1>6 DEF CreateRouter, DeleteRouter, FindPath, FindSelf, Ready, walk
  <2>2. path' = <<>>
    BY <2>1 DEF MenuInv, Control
  <2>3. QED
    BY <2>2 DEF Walking
<1>3. CASE NoPath \/ Arrive
  BY <1>3 DEF NoPath, Arrive, EndWalk, Walking
<1>4. CASE Crash
  <2>1. /\ program = "path" /\ at \notin routers /\ path' = path
    BY <1>4 DEF Crash, walk
  <2>2. QED
    BY <2>1 DEF Walking
<1>5. CASE UNCHANGED vars
  <2>1. UNCHANGED <<routers, neighbors, program, at, finish, path>>
    BY <1>5 DEF vars, walk, routerVars, topology
  <2> SUFFICES ASSUME path' # <<>>
               PROVE  /\ Shortest(at)'[finish'] < Infinity
                      /\ \A i \in DOMAIN path :
                           Shortest(at)'[finish'] < Shortest(path[i])'[finish']
    BY <2>1 DEF Walking
  <2>2. \A i \in DOMAIN path : Shortest(at)[finish] < Shortest(path[i])[finish]
    BY <2>1 DEF Walking
  <2>3. QED
    BY <2>1, <2>2 DEF Walking, Shortest
<1>7. QED
  BY <1>1, <1>2, <1>3, <1>4, <1>5, <1>6, ListsTypedIn DEF Next, Menu, Work

\* What a step of a walk finds: all tables are up to date.
LEMMA WalkFacts ==
    ASSUME MenuInv, Leading, program = "path"
    PROVE  /\ RouterTypeOK /\ NULL \notin routers /\ routers \subseteq Router
           /\ \A r \in routers :
                /\ routers \subseteq DOMAIN routing_table[r]
                /\ \A d \in DOMAIN routing_table[r] :
                     d \notin routers => routing_table[r][d] = NULL
                /\ \A d \in routers \ {r} : LeadsCloser(r, d, Shortest(r)[d])
<1>1. UpToDate = routers
  BY NothingPending DEF MenuInv, Control
<1>2. RouterTypeOK
  BY DEF MenuInv, UpdateInv
<1>3. QED
  BY <1>1, <1>2, RouterAssumption
     DEF MenuInv, Complete, Leading, Finished, RouterTypeOK

LEMMA HopForward ==
    ASSUME MenuInv, Leading, Walking, Hop
    PROVE  \E to \in routers : Service!Forward(to)
<1>1. /\ program = "path" /\ at \in routers \ {finish}
      /\ finish \in DOMAIN routing_table[at]
      /\ routing_table[at][finish] # NULL
      /\ path' = Append(path, at) /\ at' = routing_table[at][finish]
      /\ UNCHANGED <<routers, neighbors, program, finish>>
  BY DEF Hop, routerVars, topology
<1>2. finish \in routers
  BY <1>1, WalkFacts
<1> PICK hop : hop = routing_table[at][finish]
  OBVIOUS
<1>3. /\ Shortest(at)[finish] < Infinity
      /\ \E link \in neighbors[at] : link[1] = hop
      /\ Shortest(hop)[finish] < Shortest(at)[finish]
  BY <1>1, <1>2, WalkFacts DEF LeadsCloser
<1>4. hop \in routers
  BY <1>1, <1>3, WalkFacts, LinkType
<1>5. \A r \in routers : Shortest(r)[finish] \in Nat
  BY <1>2, WalkFacts, <1>1, ShortestFacts, RouterAssumption
<1>6. hop # at
  BY <1>1, <1>3, <1>5
<1>7. ASSUME NEW i \in DOMAIN path, path[i] = hop PROVE FALSE
  <2>1. path # <<>>
    BY <1>7
  <2>2. Shortest(at)[finish] < Shortest(hop)[finish]
    BY <1>7, <2>1 DEF Walking
  <2>3. QED
    BY <1>1, <1>3, <1>4, <1>5, <2>2
<1>8. Service!Forward(hop)
  BY <1>1, <1>3, <1>4, <1>6, <1>7
     DEF Service!Forward, Service!Linked, Service!topology
<1>9. QED
  BY <1>4, <1>8

\* An entry that is NULL: the shortest way is none below Infinity.
LEMMA DeniedRightly ==
    ASSUME MenuInv, Leading, Walking, NoPath
    PROVE  Service!NoPath
<1>1. /\ program = "path" /\ at \in routers \ {finish}
      /\ finish \in DOMAIN routing_table[at] =>
           routing_table[at][finish] = NULL
      /\ program' = "menu" /\ at' = NULL /\ finish' = NULL /\ path' = <<>>
      /\ UNCHANGED <<routers, neighbors>>
  BY DEF NoPath, EndWalk, topology
<1>2. ASSUME finish \in routers
      PROVE  /\ Shortest(at) \in [routers -> 0 .. Infinity]
             /\ Shortest(at)[at] = 0 /\ Shortest(at)[finish] = Infinity
             /\ \A u \in routers : \A link \in neighbors[u] :
                  Shortest(at)[link[1]] <= Shortest(at)[u] + link[2]
  <2>1. routing_table[at][finish] = NULL
    BY <1>1, <1>2, WalkFacts
  <2>2. /\ Shortest(at) \in [routers -> 0 .. Infinity]
        /\ Shortest(at)[at] = 0
        /\ \A u \in routers : \A link \in neighbors[u] :
             Shortest(at)[link[1]] <= Shortest(at)[u] + link[2]
    BY <1>1, WalkFacts, ShortestFacts
  <2>3. ~(Shortest(at)[finish] < Infinity)
    <3> SUFFICES ASSUME Shortest(at)[finish] < Infinity PROVE FALSE
      OBVIOUS
    <3>1. PICK link \in neighbors[at] : link[1] = NULL
      BY <1>1, <1>2, <2>1, WalkFacts DEF LeadsCloser
    <3>2. QED
      BY <1>1, <3>1, WalkFacts, LinkType
  <2>4. Shortest(at)[finish] = Infinity
    BY <1>2, <2>2, <2>3, RouterAssumption
  <2>5. QED
    BY <2>2, <2>4
<1>3. path = <<>>
  <2> SUFFICES ASSUME path # <<>> PROVE FALSE
    OBVIOUS
  <2>1. finish \in routers /\ Shortest(at)[finish] < Infinity
    BY DEF Walking
  <2>2. QED
    BY <1>2, <2>1, RouterAssumption
<1>4. finish \in routers => Service!OutOfReach(at, finish)
  <2> SUFFICES ASSUME finish \in routers PROVE Service!OutOfReach(at, finish)
    OBVIOUS
  <2>1. PICK bound : bound = Shortest(at)
    OBVIOUS
  <2>2. /\ bound \in [routers -> 0 .. Infinity]
        /\ bound[at] = 0 /\ bound[finish] = Infinity
        /\ \A r \in routers : \A link \in neighbors[r] :
             bound[link[1]] <= bound[r] + link[2]
    BY <1>2, <2>1
  <2>3. QED
    BY <2>2 DEF Service!OutOfReach
<1>5. QED
  BY <1>1, <1>3, <1>4 DEF Service!NoPath, Service!EndWalk, Service!topology

\* The walk is only stopped by a null pointer at an unknown start.
LEMMA KilledAtStart ==
    ASSUME MenuInv, Walking, Crash
    PROVE  Service!End
<1>1. /\ program = "path" /\ at \notin routers /\ program' = "crashed"
      /\ UNCHANGED <<routers, neighbors, at, finish, path>>
  BY DEF Crash, routerVars, topology, walk
<1>2. path = <<>>
  BY <1>1 DEF Walking
<1>3. QED
  BY <1>1, <1>2 DEF Service!End, Service!topology, Service!walk

LEMMA CreateAppears ==
    ASSUME MenuInv, NEW id \in Router,
           NEW incoming \in SUBSET Link, NEW outgoing \in SUBSET Link,
           CreateRouter(id, incoming, outgoing)
    PROVE  Service!Appear(id)
<1>1. /\ program = "menu" /\ id \notin routers
      /\ routers' = routers \cup {id}
      /\ UNCHANGED <<program, at, finish, path>>
  BY DEF CreateRouter, Ready, walk
<1>2. neighbors' \in [routers' -> SUBSET (routers' \X Weight)]
  <2>1. MenuInv'
    BY CreateStep
  <2>2. QED
    BY <2>1 DEF MenuInv, UpdateInv, RouterTypeOK
<1>3. ASSUME NEW r \in routers
      PROVE  Service!Without(neighbors'[r], id) = neighbors[r]
  <2> DEFINE in == {<<id, link[2]>> : link \in {x \in incoming : x[1] = r}}
  <2>1. r # id /\ neighbors'[r] = neighbors[r] \cup in
    BY <1>1 DEF CreateRouter
  <2>2. \A link \in in : link[1] = id
    OBVIOUS
  <2>3. neighbors[r] \in SUBSET (routers \X Weight)
    BY DEF MenuInv, UpdateInv, RouterTypeOK
  <2>4. \A link \in neighbors[r] : link[1] # id
    BY <1>1, <2>3
  <2> HIDE DEF in
  <2>5. QED
    BY <2>1, <2>2, <2>4 DEF Service!Without
<1>4. QED
  BY <1>1, <1>2, <1>3 DEF Service!Appear, Service!walk

LEMMA DeleteVanishes ==
    ASSUME NEW del \in Router, DeleteRouter(del)
    PROVE  Service!Vanish(del)
BY DEF DeleteRouter, Ready, walk, Without, Service!Vanish, Service!Without,
       Service!walk

\* Every step serves the paths, or is none of the service.
LEMMA ServiceStep ==
    ASSUME MenuInv, Leading, Walking, [Next]_vars
    PROVE  [Service!Next]_<<Service!topology, program, Service!walk>>
<1> USE DEF Service!topology, Service!walk
<1>1. CASE \E id \in Router, incoming, outgoing \in SUBSET Link :
             CreateRouter(id, incoming, outgoing)
  BY <1>1, CreateAppears DEF Service!Next
<1>2. CASE \E del \in Router : DeleteRouter(del)
  BY <1>2, DeleteVanishes DEF Service!Next
<1>3. CASE \E from, to \in Router : FindPath(from, to)
  <2>1. PICK from \in Router, to \in Router : FindPath(from, to)
    BY <1>3
  <2>2. Service!Ask(from, to)
    BY <2>1 DEF FindPath, Ready, routerVars, topology, Service!Ask
  <2>3. QED
    BY <2>2 DEF Service!Next
<1>4. CASE Exit \/ \E id \in Router : FindSelf(id)
  <2>1. Service!End
    BY <1>4 DEF Exit, FindSelf, Ready, routerVars, topology, walk, Service!End
  <2>2. QED
    BY <2>1 DEF Service!Next
<1>5. CASE UpdateOne
  BY <1>5 DEF UpdateOne, Start, topology, walk
<1>6. CASE Update
  BY <1>6, UpdateWrites DEF Update, walk, MenuInv
<1>7. CASE Hop
  BY <1>7, HopForward DEF Service!Next
<1>8. CASE NoPath
  BY <1>8, DeniedRightly DEF Service!Next
<1>9. CASE Arrive
  <2>1. Service!Arrive
    BY <1>9 DEF Arrive, EndWalk, routerVars, topology, Service!Arrive,
                Service!EndWalk
  <2>2. QED
    BY <2>1 DEF Service!Next
<1>10. CASE Crash
  BY <1>10, KilledAtStart DEF Service!Next
<1>11. CASE UNCHANGED vars
  BY <1>11 DEF vars, routerVars, topology, walk
<1>12. QED
  BY <1>1, <1>2, <1>3, <1>4, <1>5, <1>6, <1>7, <1>8, <1>9, <1>10, <1>11,
     ListsTypedIn DEF Next, Menu, Work

(***************************************************************************)
(* The program implements Forwarding: with positive weights findPath never *)
(* comes back to a router it passed, never stops on the way, for every hop *)
(* brings it closer by the distances of the router it is at, and denies a  *)
(* path only when there is none shorter than Infinity.                     *)
(***************************************************************************)
THEOREM ForwardingImplemented ==
    ASSUME 0 \notin Weight
    PROVE  Spec => PathsServed
<1>1. Init => Walking
  BY DEF Init, Walking
<1>2. MenuInv /\ Leading /\ Walking /\ [Next]_vars => Walking'
  BY WalkingStep
<1>3. Spec => []Walking
  BY <1>1, <1>2, MenuInvariant, LeadingInvariant, PTL DEF Spec
<1>4. Init => Service!Init
  BY DEF Init, Service!Init
<1>5. MenuInv /\ Leading /\ Walking /\ [Next]_vars =>
        [Service!Next]_<<Service!topology, program, Service!walk>>
  BY ServiceStep
<1>6. QED
  BY <1>3, <1>4, <1>5, MenuInvariant, LeadingInvariant, PTL
     DEF Spec, PathsServed, Service!Spec
=============================================================================
