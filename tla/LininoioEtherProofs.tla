------------------------ MODULE LininoioEtherProofs ------------------------
(***************************************************************************)
(* What TLAPS proves about LininoioEther, for any slots, addresses,        *)
(* requests, cores and timers: the lists are only ever in three states, in *)
(* each of which the free list is sound and the search of the nodes does   *)
(* not get back to the head; whoever holds a slot has its timer; and the   *)
(* lists implement the pool of slots.                                      *)
(***************************************************************************)
EXTENDS LininoioEther, NaturalsInduction, FiniteSetTheorems, TLAPS

\* Induction as a fact about a set of numbers: were one missing, so would its
\* predecessor be.
LEMMA NatInductive ==
  ASSUME NEW S, 0 \in S, \A n \in Nat : n \in S => n + 1 \in S
  PROVE  \A n \in Nat : n \in S
<1> SUFFICES ASSUME Nat \ S # {} PROVE FALSE
  BY Zenon
<1>1. PICK m \in Nat \ S : \A k \in Nat \ S : ~(<<k, m>> \in OpToRel(<, Nat))
  BY WFMin, NatLessThanWellFounded, Zenon
<1>2. m \in Nat /\ m # 0
  BY <1>1, Zenon
<1>3. m - 1 \in Nat /\ m - 1 < m /\ (m - 1) + 1 = m
  BY <1>2, SMT
<1>4. <<m - 1, m>> \in OpToRel(<, Nat)
  BY <1>2, <1>3, Zenon DEF OpToRel
<1>5. m - 1 \in S
  BY <1>1, <1>3, <1>4, Zenon
<1> QED BY <1>1, <1>3, <1>5, Zenon

-----------------------------------------------------------------------------
(* Walks along the next links.                                             *)

\* at is the function Trail() is defined by, up to its entry n.
IsTrail(nx, head, n, at) ==
  at = [i \in 0..n |-> IF i = 0 THEN nx[head] ELSE nx[at[i-1]]]

\* The recursion that defines a walk has a solution.
LEMMA TrailExists ==
  ASSUME NEW nx, NEW head, NEW n \in Nat
  PROVE  \E at : IsTrail(nx, head, n, at)
<1> DEFINE S == {m \in Nat : \E at : IsTrail(nx, head, m, at)}
<1>1. 0 \in S
  <2>1. IsTrail(nx, head, 0, [i \in 0..0 |-> nx[head]])
    BY DEF IsTrail
  <2> QED BY <2>1
<1>2. ASSUME NEW m \in Nat, m \in S PROVE m + 1 \in S
  <2>1. PICK at : IsTrail(nx, head, m, at)
    BY <1>2
  <2>2. \A i \in 0..m : at[i] = IF i = 0 THEN nx[head] ELSE nx[at[i-1]]
    BY <2>1, Zenon DEF IsTrail
  <2> DEFINE b == [i \in 0..m+1 |-> IF i = 0 THEN nx[head] ELSE nx[at[i-1]]]
  <2>3. \A i \in 0..m : b[i] = at[i]
    BY <2>2
  <2>4. \A i \in 0..m+1 : i # 0 => i - 1 \in 0..m
    OBVIOUS
  <2>5. \A i \in 0..m+1 : i # 0 => b[i-1] = at[i-1]
    BY <2>3, <2>4
  <2>6. b = [i \in 0..m+1 |-> IF i = 0 THEN nx[head] ELSE nx[b[i-1]]]
    BY <2>5
  <2>7. IsTrail(nx, head, m + 1, b)
    BY <2>6 DEF IsTrail
  <2> QED BY <2>7
<1> HIDE DEF S
<1>3. \A m \in Nat : m \in S
  BY <1>1, <1>2, NatInductive
<1> QED BY <1>3 DEF S

\* The number of steps a walk is given.
Steps(r) == Cardinality(DOMAIN r.next)

\* Trail() is that solution: every cell is the successor of the one before.
LEMMA TrailFacts ==
  ASSUME NEW r, NEW head, Steps(r) \in Nat
  PROVE  /\ DOMAIN Trail(r, head) = 0..Steps(r)
         /\ Trail(r, head)[0] = r.next[head]
         /\ \A i \in 0..Steps(r) : i # 0 =>
              Trail(r, head)[i] = r.next[Trail(r, head)[i-1]]
<1> DEFINE T == Trail(r, head)
<1>1. \E at : IsTrail(r.next, head, Steps(r), at)
  BY TrailExists
<1>2. T = CHOOSE at : IsTrail(r.next, head, Steps(r), at)
  BY Zenon DEF Trail, IsTrail, Steps
<1>3. IsTrail(r.next, head, Steps(r), T)
  BY <1>1, <1>2, Zenon
<1> HIDE DEF T
<1>4. DOMAIN T = 0..Steps(r)
  BY <1>3, Zenon DEF IsTrail
<1>5. \A i \in 0..Steps(r) : T[i] = IF i = 0 THEN r.next[head] ELSE r.next[T[i-1]]
  BY <1>3, Zenon DEF IsTrail
<1>6. 0 \in 0..Steps(r)
  OBVIOUS
<1> QED BY <1>4, <1>5, <1>6 DEF T

\* What a search that stops gives is what it looks for or the head.
LEMMA Found ==
  ASSUME NEW r, NEW head, NEW S, Steps(r) \in Nat, SearchStops(r, head, S)
  PROVE  \E i \in 0..Steps(r) :
           /\ SearchResult(r, head, S) = Trail(r, head)[i]
           /\ Trail(r, head)[i] \in S \cup {head}
<1> DEFINE T == Trail(r, head)
           Hit(i) == T[i] \in S \cup {head}
           First(i) == Hit(i) /\ \A j \in 0..i-1 : ~Hit(j)
           Miss == {n \in Nat : \A i \in 0..n : i \in 0..Steps(r) => ~Hit(i)}
<1>1. DOMAIN T = 0..Steps(r)
  BY TrailFacts
<1>2. PICK h \in 0..Steps(r) : Hit(h)
  BY <1>1 DEF SearchStops
<1>3. \E i \in 0..Steps(r) : First(i)
  <2> SUFFICES ASSUME \A i \in 0..Steps(r) : ~First(i) PROVE FALSE
    OBVIOUS
  <2> HIDE DEF T
  <2>1. 0 \in Miss
    OBVIOUS
  <2>2. ASSUME NEW n \in Nat, n \in Miss PROVE n + 1 \in Miss
    <3> SUFFICES ASSUME NEW i \in 0..n+1, i \in 0..Steps(r) PROVE ~Hit(i)
      OBVIOUS
    <3>1. CASE i \in 0..n
      BY <3>1, <2>2
    <3>2. CASE i = n + 1
      <4>1. \A j \in 0..i-1 : j \in 0..n /\ j \in 0..Steps(r)
        BY <3>2
      <4> QED BY <4>1, <2>2
    <3> QED BY <3>1, <3>2
  <2> HIDE DEF Miss
  <2>3. \A n \in Nat : n \in Miss
    BY <2>1, <2>2, NatInductive
  <2>4. h \in Miss
    BY <2>3
  <2> QED BY <2>4, <1>2 DEF Miss
<1>4. SearchResult(r, head, S) = T[CHOOSE i \in 0..Steps(r) : First(i)]
  BY <1>1, Zenon DEF SearchResult
<1> HIDE DEF T, First, Hit
<1>5. (CHOOSE i \in 0..Steps(r) : First(i)) \in 0..Steps(r)
      /\ First(CHOOSE i \in 0..Steps(r) : First(i))
  BY <1>3, Zenon
<1> QED BY <1>4, <1>5 DEF First, Hit, T

\* A walk that starts in a set of cells closed under next stays there.
LEMMA Closed ==
  ASSUME NEW r, NEW head, NEW C, Steps(r) \in Nat,
         r.next[head] \in C, \A c \in C : r.next[c] \in C
  PROVE  \A i \in 0..Steps(r) : Trail(r, head)[i] \in C
<1> DEFINE T == Trail(r, head)
           S == {n \in Nat : n \in 0..Steps(r) => T[n] \in C}
<1> HIDE DEF T
<1>1. 0 \in S
  BY TrailFacts DEF T
<1>2. ASSUME NEW n \in Nat, n \in S PROVE n + 1 \in S
  <2> SUFFICES ASSUME n + 1 \in 0..Steps(r) PROVE T[n+1] \in C
    OBVIOUS
  <2>1. n \in 0..Steps(r) /\ (n + 1) - 1 = n /\ n + 1 # 0
    OBVIOUS
  <2>2. T[n+1] = r.next[T[n]]
    BY <2>1, TrailFacts DEF T
  <2> QED BY <1>2, <2>1, <2>2
<1> HIDE DEF S
<1>3. \A n \in Nat : n \in S
  BY <1>1, <1>2, NatInductive
<1> QED BY <1>3 DEF S, T

-----------------------------------------------------------------------------
(* Rings.                                                                  *)

\* The cells of a ring of k entries: the head, the entries in order, the head.
At(f, k, i) == IF i \in 1..k THEN f[i] ELSE FreeNodes

\* f is the order of the entries of the free list.
RingOf(r, f, k) ==
  /\ f \in [1..k -> Node]
  /\ \A i \in 0..k : /\ r.next[At(f, k, i)] = At(f, k, i + 1)
                     /\ r.prev[At(f, k, i + 1)] = At(f, k, i)

Typed(r) == r \in [next : [Cell -> Cell], prev : [Cell -> Cell]]

\* A walk is long enough to see every slot.
LEMMA CellCount ==
  /\ Cardinality(Node) \in Nat /\ Cardinality(Node) > 0
  /\ \A r : Typed(r) => Steps(r) \in Nat /\ Steps(r) > Cardinality(Node)
<1>1. Cardinality(Node) \in Nat /\ Cardinality(Node) # 0
  BY PoolAssumption, FS_CardinalityType, FS_EmptySet
<1> DEFINE A == Node \cup {Nodes}
           B == A \cup {FreeNodes}
<1>2. IsFiniteSet(A) /\ Cardinality(A) = Cardinality(Node) + 1
  BY PoolAssumption, FS_AddElement
<1>3. IsFiniteSet(B) /\ Cardinality(B) = Cardinality(A) + 1
  <2>1. FreeNodes \notin A
    BY PoolAssumption
  <2> HIDE DEF A
  <2> QED BY <1>2, <2>1, FS_AddElement
<1>4. B = Cell
  BY DEF Cell
<1>5. \A r : Typed(r) => DOMAIN r.next = Cell
  BY DEF Typed
<1> HIDE DEF A, B
<1> QED BY <1>1, <1>2, <1>3, <1>4, <1>5 DEF Steps

\* A ring of the free list has slots and its head, no other cell.
LEMMA AtCell ==
  ASSUME NEW k \in Nat, NEW f \in [1..k -> Node], NEW i
  PROVE  At(f, k, i) \in Node \cup {FreeNodes}
BY DEF At

\* A walk of the free list passes its entries in order and ends at the head.
LEMMA RingTrail ==
  ASSUME NEW r, Typed(r), NEW k \in 0..Cardinality(Node), NEW f, RingOf(r, f, k)
  PROVE  \A i \in 0..k : Trail(r, FreeNodes)[i] = At(f, k, i + 1)
<1> DEFINE T == Trail(r, FreeNodes)
           S == {n \in Nat : n \in 0..k => T[n] = At(f, k, n + 1)}
<1>1. Steps(r) \in Nat /\ k \in Nat /\ k <= Steps(r)
  BY CellCount
<1>2. At(f, k, 0) = FreeNodes
  BY DEF At
<1> HIDE DEF T
<1>3. 0 \in S
  <2>1. T[0] = r.next[FreeNodes]
    BY <1>1, TrailFacts DEF T
  <2> QED BY <1>1, <1>2, <2>1 DEF RingOf
<1>4. ASSUME NEW n \in Nat, n \in S PROVE n + 1 \in S
  <2> SUFFICES ASSUME n + 1 \in 0..k PROVE T[n+1] = At(f, k, (n + 1) + 1)
    OBVIOUS
  <2>1. n \in 0..k /\ (n + 1) - 1 = n /\ n + 1 # 0 /\ n + 1 \in 0..Steps(r)
    BY <1>1
  <2>2. T[n+1] = r.next[T[n]]
    BY <1>1, <2>1, TrailFacts DEF T
  <2> QED BY <1>4, <2>1, <2>2 DEF RingOf
<1> HIDE DEF S
<1>5. \A n \in Nat : n \in S
  BY <1>3, <1>4, NatInductive
<1> QED BY <1>1, <1>5 DEF S, T

\* The free list is a sound ring of those entries.
LEMMA RingSound ==
  ASSUME NEW r, Typed(r), NEW k \in 0..Cardinality(Node), NEW f, RingOf(r, f, k)
  PROVE  /\ WellFormed(r, FreeNodes)
         /\ Entries(r, FreeNodes) = {f[i] : i \in 1..k}
<1> DEFINE T == Trail(r, FreeNodes)
<1>1. Steps(r) \in Nat /\ k \in Nat /\ k <= Steps(r) /\ DOMAIN T = 0..Steps(r)
  BY CellCount, TrailFacts
<1>2. \A i \in 0..k : T[i] = At(f, k, i + 1)
  BY RingTrail
<1> HIDE DEF T
<1>3. T[k] = FreeNodes
  BY <1>1, <1>2 DEF At
<1>4. \A i \in 0..k-1 : T[i] = f[i+1] /\ T[i] # FreeNodes
  <2>1. \A i \in 0..k-1 : i \in 0..k /\ i + 1 \in 1..k
    BY <1>1
  <2> QED BY <1>2, <2>1, PoolAssumption DEF At, RingOf
<1>5. SearchStops(r, FreeNodes, {})
  BY <1>1, <1>3 DEF SearchStops, T
<1> DEFINE In == {j \in 0..Steps(r) : \A m \in 0..j : T[m] # FreeNodes}
<1>6. In = 0..k-1
  <2>1. ASSUME NEW j \in In PROVE j \in 0..k-1
    BY <1>1, <1>3
  <2>2. ASSUME NEW j \in 0..k-1 PROVE j \in In
    <3>1. j \in 0..Steps(r) /\ \A m \in 0..j : m \in 0..k-1
      BY <1>1
    <3> QED BY <1>4, <3>1
  <2> QED BY <2>1, <2>2
<1>7. Entries(r, FreeNodes) = {T[i] : i \in In}
  BY <1>1 DEF Entries, T
<1> HIDE DEF In
<1>8. {T[i] : i \in 0..k-1} = {f[i] : i \in 1..k}
  <2>1. \A i \in 1..k : i - 1 \in 0..k-1 /\ (i - 1) + 1 = i
    BY <1>1
  <2>2. \A i \in 0..k-1 : i + 1 \in 1..k
    BY <1>1
  <2> QED BY <1>4, <2>1, <2>2
<1>9. Entries(r, FreeNodes) = {f[i] : i \in 1..k}
  BY <1>6, <1>7, <1>8
<1>10. ASSUME NEW c \in Entries(r, FreeNodes) \cup {FreeNodes} PROVE r.prev[r.next[c]] = c
  <2>1. \E i \in 0..k : c = At(f, k, i)
    <3>1. CASE c = FreeNodes
      BY <1>1, <3>1 DEF At
    <3>2. CASE c # FreeNodes
      BY <1>1, <1>9, <1>10, <3>2 DEF At
    <3> QED BY <3>1, <3>2
  <2> QED BY <2>1 DEF RingOf
<1> QED BY <1>5, <1>9, <1>10 DEF WellFormed

-----------------------------------------------------------------------------
(* The three states of the lists.                                          *)

Orders == [1..Cardinality(Node) -> Node]
OneToOne(f) == \A i, j \in DOMAIN f : f[i] = f[j] => i = j

\* Appending an entry to a ring of others.
LEMMA Appended ==
  ASSUME NEW r, Typed(r), NEW f \in Orders, OneToOne(f),
         NEW k \in 0..Cardinality(Node)-1, RingOf(r, [i \in 1..k |-> f[i]], k),
         NEW s, s = ListAddTail(r, f[k+1], FreeNodes)
  PROVE  /\ Typed(s)
         /\ RingOf(s, [i \in 1..k+1 |-> f[i]], k + 1)
         /\ s.next[Nodes] = r.next[Nodes]
<1> DEFINE g == [i \in 1..k |-> f[i]]
           h == [i \in 1..k+1 |-> f[i]]
           n == f[k+1]
           p == r.prev[FreeNodes]
<1>1. k \in Nat /\ k + 1 \in 1..Cardinality(Node) /\ Cardinality(Node) \in Nat
  BY CellCount
<1>2. n \in Node /\ n \in Cell /\ n # FreeNodes /\ n # Nodes /\ FreeNodes \in Cell
      /\ Nodes \in Cell /\ Nodes # FreeNodes
  BY <1>1, PoolAssumption DEF Orders, Cell
<1>3. At(g, k, k + 1) = FreeNodes /\ k \in 0..k
  BY <1>1 DEF At
<1>4. p = At(g, k, k)
  BY <1>3 DEF RingOf
<1>5. p \in Cell /\ p # Nodes
  BY <1>2, <1>4, AtCell, PoolAssumption DEF RingOf, Cell
<1>6. /\ s.next = [r.next EXCEPT ![n] = FreeNodes, ![p] = n]
      /\ s.prev = [r.prev EXCEPT ![FreeNodes] = n, ![n] = p]
      /\ s = [next |-> s.next, prev |-> s.prev]
  BY DEF ListAddTail, AddBetween
<1>7. Typed(s)
  BY <1>2, <1>5, <1>6 DEF Typed
<1>8. s.next[Nodes] = r.next[Nodes]
  BY <1>2, <1>5, <1>6 DEF Typed
<1>9. \A i \in 0..k : At(h, k + 1, i) = At(g, k, i)
  BY <1>1 DEF At
<1>10. At(h, k + 1, k + 1) = n /\ At(h, k + 1, (k + 1) + 1) = FreeNodes
  BY <1>1 DEF At
<1>11. \A i \in 0..k : At(g, k, i) # n
  <2> SUFFICES ASSUME NEW i \in 0..k, At(g, k, i) = n PROVE FALSE
    OBVIOUS
  <2>1. i \in 1..k /\ f[i] = n
    BY <1>2 DEF At
  <2>2. i \in 1..Cardinality(Node) /\ k + 1 \in 1..Cardinality(Node) /\ i # k + 1
    BY <1>1, <2>1
  <2> QED BY <2>1, <2>2 DEF OneToOne, Orders
<1>12. \A i, j \in 0..k : At(g, k, i) = At(g, k, j) => i = j
  <2> SUFFICES ASSUME NEW i \in 0..k, NEW j \in 0..k, At(g, k, i) = At(g, k, j) PROVE i = j
    OBVIOUS
  <2>1. \A m \in 1..k : m \in 1..Cardinality(Node) /\ f[m] \in Node /\ f[m] # FreeNodes
    BY <1>1, PoolAssumption DEF Orders
  <2>2. CASE i \in 1..k /\ j \in 1..k
    BY <2>1, <2>2 DEF At, OneToOne, Orders
  <2>3. CASE i = 0 \/ j = 0
    BY <2>1, <2>3 DEF At
  <2> QED BY <2>2, <2>3
<1>13. \A i \in 0..k : At(g, k, i) \in Cell
  BY <1>1, AtCell DEF RingOf, Cell
<1>14. ASSUME NEW i \in 0..k+1
       PROVE  /\ s.next[At(h, k + 1, i)] = At(h, k + 1, i + 1)
              /\ s.prev[At(h, k + 1, i + 1)] = At(h, k + 1, i)
  <2>1. CASE i \in 0..k-1
    <3>1. i \in 0..k /\ i + 1 \in 0..k /\ i # k /\ i + 1 # 0
      BY <1>1, <2>1
    <3>2. At(h, k + 1, i) = At(g, k, i) /\ At(h, k + 1, i + 1) = At(g, k, i + 1)
      BY <1>9, <3>1
    <3>3. At(g, k, i) # p /\ At(g, k, i) # n /\ At(g, k, i + 1) # n
      BY <1>3, <1>4, <1>11, <1>12, <3>1
    <3>4. At(g, k, i + 1) # FreeNodes
      <4>1. At(g, k, 0) = FreeNodes /\ 0 \in 0..k
        BY <1>1 DEF At
      <4> QED BY <1>12, <3>1, <4>1
    <3>5. r.next[At(g, k, i)] = At(g, k, i + 1) /\ r.prev[At(g, k, i + 1)] = At(g, k, i)
      BY <3>1 DEF RingOf
    <3>6. s.next[At(g, k, i)] = r.next[At(g, k, i)]
      BY <1>6, <1>13, <3>1, <3>3 DEF Typed
    <3>7. s.prev[At(g, k, i + 1)] = r.prev[At(g, k, i + 1)]
      BY <1>6, <1>13, <3>1, <3>3, <3>4 DEF Typed
    <3> QED BY <3>2, <3>5, <3>6, <3>7
  <2>2. CASE i = k
    <3>1. s.next[p] = n
      BY <1>5, <1>6 DEF Typed
    <3>2. s.prev[n] = p
      BY <1>2, <1>6 DEF Typed
    <3> QED BY <1>4, <1>9, <1>10, <1>3, <2>2, <3>1, <3>2
  <2>3. CASE i = k + 1
    <3>1. s.next[n] = FreeNodes
      BY <1>2, <1>3, <1>4, <1>6, <1>11 DEF Typed
    <3>2. s.prev[FreeNodes] = n
      BY <1>2, <1>6 DEF Typed
    <3> QED BY <1>10, <2>3, <3>1, <3>2
  <2> QED BY <1>1, <2>1, <2>2, <2>3
<1>15. h \in [1..k+1 -> Node]
  BY <1>1 DEF Orders
<1> QED BY <1>7, <1>8, <1>14, <1>15 DEF RingOf

\* ring is the function InitialList is defined by, up to its entry n.
IsRings(f, n, ring) ==
  ring = [i \in 0..n |->
            IF i = 0 THEN EmptyRings(Cell)
            ELSE ListAddTail(ring[i-1], f[i], FreeNodes)]

\* The recursion that defines the initial list has a solution.
LEMMA RingsExist ==
  ASSUME NEW f, NEW n \in Nat
  PROVE  \E ring : IsRings(f, n, ring)
<1> DEFINE S == {m \in Nat : \E ring : IsRings(f, m, ring)}
<1>1. 0 \in S
  <2>1. IsRings(f, 0, [i \in 0..0 |-> EmptyRings(Cell)])
    BY DEF IsRings
  <2> QED BY <2>1
<1>2. ASSUME NEW m \in Nat, m \in S PROVE m + 1 \in S
  <2>1. PICK at : IsRings(f, m, at)
    BY <1>2
  <2>2. \A i \in 0..m : at[i] = IF i = 0 THEN EmptyRings(Cell)
                                ELSE ListAddTail(at[i-1], f[i], FreeNodes)
    BY <2>1, Zenon DEF IsRings
  <2> DEFINE b == [i \in 0..m+1 |-> IF i = 0 THEN EmptyRings(Cell)
                                    ELSE ListAddTail(at[i-1], f[i], FreeNodes)]
  <2>3. \A i \in 0..m : b[i] = at[i]
    BY <2>2
  <2>4. \A i \in 0..m+1 : i # 0 => i - 1 \in 0..m
    OBVIOUS
  <2>5. \A i \in 0..m+1 : i # 0 => b[i-1] = at[i-1]
    BY <2>3, <2>4
  <2>6. b = [i \in 0..m+1 |-> IF i = 0 THEN EmptyRings(Cell)
                              ELSE ListAddTail(b[i-1], f[i], FreeNodes)]
    BY <2>5
  <2>7. IsRings(f, m + 1, b)
    BY <2>6 DEF IsRings
  <2> QED BY <2>7
<1> HIDE DEF S
<1>3. \A m \in Nat : m \in S
  BY <1>1, <1>2, NatInductive
<1> QED BY <1>3 DEF S

\* The slots can be counted, and any count names every slot.
LEMMA Counted ==
  /\ \E f \in Orders : OneToOne(f)
  /\ \A f \in Orders : OneToOne(f) => {f[i] : i \in 1..Cardinality(Node)} = Node
<1> DEFINE K == Cardinality(Node)
<1>1. K \in Nat /\ ExistsBijection(1..K, Node)
  BY PoolAssumption, FS_CardinalityType
<1>2. PICK b \in Bijection(1..K, Node) : TRUE
  BY <1>1 DEF ExistsBijection
<1>3. b \in Orders /\ OneToOne(b)
  BY <1>2 DEF Bijection, Injection, IsInjective, Orders, OneToOne
<1>4. ASSUME NEW f \in Orders, OneToOne(f) PROVE {f[i] : i \in 1..K} = Node
  <2>1. f \in Injection(1..K, Node)
    BY <1>4 DEF Injection, IsInjective, Orders, OneToOne
  <2>2. Cardinality(1..K) = K
    BY <1>1, FS_Interval
  <2>3. f \in Surjection(1..K, Node)
    BY <2>1, <2>2, PoolAssumption, FS_Injection
  <2> QED BY <2>3 DEF Surjection
<1> QED BY <1>3, <1>4

\* What lininoio_ether_init() leaves.
LEMMA InitialRing ==
  /\ Typed(InitialList)
  /\ InitialList.next[Nodes] = Nodes
  /\ \E f \in Orders : OneToOne(f) /\ RingOf(InitialList, f, Cardinality(Node))
<1> DEFINE K == Cardinality(Node)
           f == CHOOSE g \in Orders : OneToOne(g)
<1>1. K \in Nat /\ K > 0
  BY CellCount
<1>2. f \in Orders /\ OneToOne(f)
  BY Counted
<1> DEFINE ring == CHOOSE at : IsRings(f, K, at)
<1>3. InitialList = ring[K]
  BY Zenon DEF InitialList, IsRings, Orders, OneToOne
<1>4. IsRings(f, K, ring)
  BY <1>1, RingsExist, Zenon
<1> HIDE DEF f, ring
<1>5. \A i \in 0..K : ring[i] = IF i = 0 THEN EmptyRings(Cell)
                                ELSE ListAddTail(ring[i-1], f[i], FreeNodes)
  BY <1>4, Zenon DEF IsRings
<1> DEFINE Good(i) == /\ Typed(ring[i]) /\ ring[i].next[Nodes] = Nodes
                      /\ RingOf(ring[i], [j \in 1..i |-> f[j]], i)
           S == {i \in Nat : i \in 0..K => Good(i)}
<1>6. 0 \in S
  <2>1. ring[0] = EmptyRings(Cell)
    BY <1>1, <1>5
  <2>2. Typed(EmptyRings(Cell)) /\ EmptyRings(Cell).next[Nodes] = Nodes
    BY DEF Typed, EmptyRings, Cell
  <2>3. RingOf(EmptyRings(Cell), [j \in 1..0 |-> f[j]], 0)
    BY DEF RingOf, At, EmptyRings, Cell
  <2> QED BY <2>1, <2>2, <2>3
<1>7. ASSUME NEW i \in Nat, i \in S PROVE i + 1 \in S
  <2> SUFFICES ASSUME i + 1 \in 0..K PROVE Good(i + 1)
    OBVIOUS
  <2>1. i \in 0..K-1 /\ i \in 0..K /\ (i + 1) - 1 = i /\ i + 1 # 0
    BY <1>1
  <2>2. ring[i+1] = ListAddTail(ring[i], f[i+1], FreeNodes)
    BY <1>5, <2>1
  <2>3. Good(i)
    BY <1>7, <2>1
  <2> HIDE DEF S
  <2> QED BY <1>2, <2>1, <2>2, <2>3, Appended
<1> HIDE DEF Good, S
<1>8. \A i \in Nat : i \in S
  BY <1>6, <1>7, NatInductive
<1>9. Good(K)
  BY <1>1, <1>8 DEF S
<1>10. [j \in 1..K |-> f[j]] = f
  BY <1>2 DEF Orders
<1> QED BY <1>2, <1>3, <1>9, <1>10 DEF Good

\* The order of the free list that lininoio_ether_init() leaves, and the first
\* entries of it.
InitialOrder == CHOOSE f \in Orders : OneToOne(f) /\ RingOf(InitialList, f, Cardinality(Node))
SecondCell == InitialList.next[FirstSlot]

LEMMA First ==
  /\ InitialOrder \in Orders /\ OneToOne(InitialOrder)
  /\ RingOf(InitialList, InitialOrder, Cardinality(Node))
  /\ FirstSlot = InitialOrder[1] /\ FirstSlot \in Node
  /\ SecondCell = At(InitialOrder, Cardinality(Node), 2)
  /\ SecondCell \in Node \cup {FreeNodes} /\ SecondCell # FirstSlot
  /\ InitialList.prev[FirstSlot] = FreeNodes
  /\ InitialList.prev[SecondCell] = FirstSlot
<1> DEFINE K == Cardinality(Node)
           f == InitialOrder
<1>1. K \in Nat /\ K > 0 /\ 1 \in 1..K /\ 0 \in 0..K /\ 1 \in 0..K
  BY CellCount
<1>2. f \in Orders /\ OneToOne(f) /\ RingOf(InitialList, f, K)
  BY InitialRing DEF InitialOrder
<1> HIDE DEF f
<1>3. At(f, K, 0) = FreeNodes /\ At(f, K, 1) = f[1] /\ f[1] \in Node
  BY <1>1, <1>2 DEF At, Orders
<1>4. /\ InitialList.next[At(f, K, 0)] = At(f, K, 0 + 1)
      /\ InitialList.prev[At(f, K, 0 + 1)] = At(f, K, 0)
      /\ InitialList.next[At(f, K, 1)] = At(f, K, 1 + 1)
      /\ InitialList.prev[At(f, K, 1 + 1)] = At(f, K, 1)
  BY <1>1, <1>2 DEF RingOf
<1>5. FirstSlot = f[1] /\ SecondCell = At(f, K, 2)
  BY <1>3, <1>4 DEF FirstSlot, SecondCell
<1>6. At(f, K, 2) # f[1]
  BY <1>1, <1>2, <1>3, PoolAssumption DEF At, OneToOne, Orders
<1>7. At(f, K, 2) \in Node \cup {FreeNodes}
  BY <1>1, <1>2, AtCell DEF Orders
<1> QED BY <1>2, <1>3, <1>4, <1>5, <1>6, <1>7 DEF f

\* After get_node() and list_add_tail(): the slot is linked to itself.
LEMMA Lent ==
  /\ Typed(LentList)
  /\ LentList.next = [InitialList.next EXCEPT ![FreeNodes] = SecondCell,
                                              ![Nodes] = FirstSlot,
                                              ![FirstSlot] = FirstSlot]
  /\ LentList.prev = [InitialList.prev EXCEPT ![SecondCell] = FreeNodes,
                                              ![Nodes] = FirstSlot,
                                              ![FirstSlot] = FirstSlot]
<1> DEFINE r == InitialList
           n == FirstSlot
           m == SecondCell
           d == DelEntry(r, n)
           e == ListAdd(d, n, Nodes)
<1>1. /\ n \in Cell /\ m \in Cell /\ FreeNodes \in Cell /\ Nodes \in Cell
      /\ n # m /\ n # Nodes /\ n # FreeNodes /\ m # Nodes /\ Nodes # FreeNodes
  BY First, PoolAssumption DEF Cell
<1>2. Typed(r) /\ r.next[Nodes] = Nodes /\ r.next[n] = m /\ r.prev[n] = FreeNodes
  BY InitialRing, First DEF SecondCell
<1> HIDE DEF r, n, m
<1>3. d = [next |-> [r.next EXCEPT ![FreeNodes] = m], prev |-> [r.prev EXCEPT ![m] = FreeNodes]]
  BY <1>2 DEF DelEntry
<1>4. Typed(d) /\ d.next[Nodes] = Nodes
  BY <1>1, <1>2, <1>3 DEF Typed
<1> HIDE DEF d
<1>5. e = [next |-> [d.next EXCEPT ![n] = Nodes, ![Nodes] = n],
           prev |-> [d.prev EXCEPT ![Nodes] = n, ![n] = Nodes]]
  BY <1>4 DEF ListAdd, AddBetween
<1>6. Typed(e) /\ e.prev[Nodes] = n
  BY <1>1, <1>4, <1>5 DEF Typed
<1> HIDE DEF e
<1>7. LentList = ListAddTail(e, n, Nodes)
  BY DEF LentList, GetNode, ListMove, e, d, r, n
<1>8. LentList = [next |-> [e.next EXCEPT ![n] = Nodes, ![n] = n],
                  prev |-> [e.prev EXCEPT ![Nodes] = n, ![n] = n]]
  BY <1>6, <1>7 DEF ListAddTail, AddBetween
<1>9. Typed(LentList)
  BY <1>1, <1>6, <1>8 DEF Typed
<1>10. LentList.next = [r.next EXCEPT ![FreeNodes] = m, ![Nodes] = n, ![n] = n]
  <2>1. LentList.next = [e.next EXCEPT ![n] = Nodes, ![n] = n]
    BY <1>8
  <2>2. e.next = [d.next EXCEPT ![n] = Nodes, ![Nodes] = n]
    BY <1>5
  <2>3. d.next = [r.next EXCEPT ![FreeNodes] = m]
    BY <1>3
  <2> QED BY <1>1, <1>2, <2>1, <2>2, <2>3 DEF Typed
<1>11. LentList.prev = [r.prev EXCEPT ![m] = FreeNodes, ![Nodes] = n, ![n] = n]
  <2>1. LentList.prev = [e.prev EXCEPT ![Nodes] = n, ![n] = n]
    BY <1>8
  <2>2. e.prev = [d.prev EXCEPT ![Nodes] = n, ![n] = Nodes]
    BY <1>5
  <2>3. d.prev = [r.prev EXCEPT ![m] = FreeNodes]
    BY <1>3
  <2> QED BY <1>1, <1>2, <2>1, <2>2, <2>3 DEF Typed
<1> QED BY <1>9, <1>10, <1>11 DEF r, n, m

\* After kill_node(): the free list is what it was, but data->nodes still
\* leads into it.
LEMMA Returned ==
  /\ Typed(ReturnedList)
  /\ ReturnedList.next = [InitialList.next EXCEPT ![Nodes] = FirstSlot]
  /\ ReturnedList.prev = [InitialList.prev EXCEPT ![Nodes] = FirstSlot]
<1> DEFINE r == InitialList
           n == FirstSlot
           m == SecondCell
           l == LentList
<1>1. /\ n \in Cell /\ m \in Cell /\ FreeNodes \in Cell /\ Nodes \in Cell
      /\ n # m /\ n # Nodes /\ n # FreeNodes /\ m # Nodes /\ Nodes # FreeNodes
  BY First, PoolAssumption DEF Cell
<1>2. /\ Typed(r) /\ r.next[n] = m /\ r.prev[n] = FreeNodes
      /\ r.next[FreeNodes] = n /\ r.prev[m] = n
  BY InitialRing, First DEF SecondCell, FirstSlot
<1>3. /\ Typed(l)
      /\ l.next = [r.next EXCEPT ![FreeNodes] = m, ![Nodes] = n, ![n] = n]
      /\ l.prev = [r.prev EXCEPT ![m] = FreeNodes, ![Nodes] = n, ![n] = n]
  BY Lent
<1>4. ReturnedList = ListAdd(DelEntry(l, n), n, FreeNodes)
  BY DEF ReturnedList, PutNode, ListMove
<1> HIDE DEF r, n, m, l
<1>5. l.next[n] = n /\ l.prev[n] = n /\ l.next[FreeNodes] = m
  BY <1>1, <1>2, <1>3 DEF Typed
<1>6. DelEntry(l, n) = l
  BY <1>1, <1>3, <1>5 DEF DelEntry, Typed
<1>7. ReturnedList = [next |-> [l.next EXCEPT ![n] = m, ![FreeNodes] = n],
                      prev |-> [l.prev EXCEPT ![m] = n, ![n] = FreeNodes]]
  BY <1>4, <1>5, <1>6 DEF ListAdd, AddBetween
<1>8. Typed(ReturnedList)
  BY <1>1, <1>3, <1>7 DEF Typed
<1>9. ReturnedList.next = [r.next EXCEPT ![Nodes] = n]
  <2>1. ReturnedList.next = [l.next EXCEPT ![n] = m, ![FreeNodes] = n]
    BY <1>7
  <2> QED BY <1>1, <1>2, <1>3, <2>1 DEF Typed
<1>10. ReturnedList.prev = [r.prev EXCEPT ![Nodes] = n]
  <2>1. ReturnedList.prev = [l.prev EXCEPT ![m] = n, ![n] = FreeNodes]
    BY <1>7
  <2> QED BY <1>1, <1>2, <1>3, <2>1 DEF Typed
<1> QED BY <1>8, <1>9, <1>10 DEF r, n

\* At first every slot is on the free list.
LEMMA InitialFree ==
  WellFormed(InitialList, FreeNodes) /\ Entries(InitialList, FreeNodes) = Node
<1>1. Cardinality(Node) \in 0..Cardinality(Node)
  BY CellCount
<1>2. {InitialOrder[i] : i \in 1..Cardinality(Node)} = Node
  BY First, Counted
<1>3. Typed(InitialList) /\ RingOf(InitialList, InitialOrder, Cardinality(Node))
  BY First, InitialRing
<1> QED BY <1>1, <1>2, <1>3, RingSound

\* After the slot was returned every slot is there again.
LEMMA ReturnedFree ==
  WellFormed(ReturnedList, FreeNodes) /\ Entries(ReturnedList, FreeNodes) = Node
<1> DEFINE K == Cardinality(Node)
           f == InitialOrder
           r == InitialList
           s == ReturnedList
<1>1. K \in 0..K /\ K \in Nat
  BY CellCount
<1>2. \A i : At(f, K, i) \in Cell /\ At(f, K, i) # Nodes
  BY <1>1, First, AtCell, PoolAssumption DEF Orders, Cell
<1>3. RingOf(r, f, K) /\ Typed(r)
  BY First, InitialRing
<1>4. /\ Typed(s) /\ s.next = [r.next EXCEPT ![Nodes] = FirstSlot]
      /\ s.prev = [r.prev EXCEPT ![Nodes] = FirstSlot]
  BY Returned
<1> HIDE DEF f, r, s
<1>5. \A i : s.next[At(f, K, i)] = r.next[At(f, K, i)] /\ s.prev[At(f, K, i)] = r.prev[At(f, K, i)]
  BY <1>2, <1>3, <1>4 DEF Typed
<1>6. RingOf(s, f, K)
  BY <1>3, <1>5 DEF RingOf
<1>7. {f[i] : i \in 1..K} = Node
  BY First, Counted DEF f
<1> QED BY <1>1, <1>4, <1>6, <1>7, RingSound DEF s

\* While the first slot is lent, all the others are.
LEMMA LentFree ==
  WellFormed(LentList, FreeNodes) /\ Entries(LentList, FreeNodes) = Node \ {FirstSlot}
<1> DEFINE K == Cardinality(Node)
           f == InitialOrder
           g == [i \in 1..K-1 |-> f[i+1]]
           r == InitialList
           s == LentList
           n == FirstSlot
           m == SecondCell
<1>1. K \in Nat /\ K > 0 /\ K - 1 \in Nat /\ K - 1 \in 0..K
  BY CellCount
<1>2. f \in Orders /\ OneToOne(f) /\ RingOf(r, f, K) /\ Typed(r) /\ n = f[1] /\ n \in Node
      /\ m = At(f, K, 2) /\ m # n /\ m \in Cell /\ m # Nodes
  BY First, InitialRing, PoolAssumption DEF Cell
<1>3. /\ Typed(s) /\ s.next = [r.next EXCEPT ![FreeNodes] = m, ![Nodes] = n, ![n] = n]
      /\ s.prev = [r.prev EXCEPT ![m] = FreeNodes, ![Nodes] = n, ![n] = n]
  BY Lent
<1>4. {f[i] : i \in 1..K} = Node
  BY First, Counted
<1> HIDE DEF f, r, s, n, m
<1>5. \A i : At(f, K, i) \in Cell /\ At(f, K, i) # Nodes
  BY <1>1, <1>2, AtCell, PoolAssumption DEF Orders, Cell
<1>6. \A i \in 1..K-1 : i + 1 \in 1..K /\ i + 1 # 1 /\ f[i+1] \in Node /\ f[i+1] # n
  BY <1>1, <1>2 DEF Orders, OneToOne
<1>7. g \in [1..K-1 -> Node]
  BY <1>6
<1>8. At(g, K - 1, 0) = FreeNodes
  BY DEF At
<1>9. \A i \in 1..K : At(g, K - 1, i) = At(f, K, i + 1)
  BY <1>1 DEF At
<1>10. ASSUME NEW i \in 0..K-1
       PROVE  /\ s.next[At(g, K - 1, i)] = At(g, K - 1, i + 1)
              /\ s.prev[At(g, K - 1, i + 1)] = At(g, K - 1, i)
  <2>1. CASE i = 0
    <3>1. At(g, K - 1, i + 1) = m
      BY <1>1, <1>2, <1>9, <2>1
    <3>2. s.next[FreeNodes] = m /\ s.prev[m] = FreeNodes
      BY <1>2, <1>3, PoolAssumption DEF Typed, Cell
    <3> QED BY <1>8, <2>1, <3>1, <3>2
  <2>2. CASE i # 0
    <3>1. i \in 1..K-1 /\ i \in 1..K /\ i + 1 \in 1..K /\ i + 1 \in 0..K /\ (i + 1) + 1 # 2
          /\ (i + 1) + 1 # 1 /\ 2 \in 1..K /\ i + 1 \in Nat
      BY <1>1, <2>2
    <3>2. At(g, K - 1, i) = At(f, K, i + 1) /\ At(g, K - 1, i + 1) = At(f, K, (i + 1) + 1)
      BY <1>9, <3>1
    <3>3. At(f, K, i + 1) = f[i+1] /\ f[i+1] # n /\ f[i+1] # FreeNodes
      BY <1>6, <3>1, PoolAssumption DEF At
    <3>4. m = f[2] /\ m # FreeNodes
      BY <1>2, <3>1, PoolAssumption DEF At, Orders
    <3>5. At(f, K, (i + 1) + 1) # n /\ At(f, K, (i + 1) + 1) # m
      <4>1. CASE (i + 1) + 1 \in 1..K
        BY <1>1, <1>2, <3>1, <3>4, <4>1 DEF At, OneToOne, Orders
      <4>2. CASE (i + 1) + 1 \notin 1..K
        BY <1>2, <3>4, <4>2, PoolAssumption DEF At
      <4> QED BY <4>1, <4>2
    <3>6. s.next[At(f, K, i + 1)] = r.next[At(f, K, i + 1)]
      BY <1>2, <1>3, <1>5, <3>3 DEF Typed
    <3>7. s.prev[At(f, K, (i + 1) + 1)] = r.prev[At(f, K, (i + 1) + 1)]
      BY <1>2, <1>3, <1>5, <3>5 DEF Typed
    <3> QED BY <1>2, <3>1, <3>2, <3>6, <3>7 DEF RingOf
  <2> QED BY <2>1, <2>2
<1>11. RingOf(s, g, K - 1)
  BY <1>7, <1>10 DEF RingOf
<1>12. {g[i] : i \in 1..K-1} = Node \ {n}
  <2>1. \A c \in Node \ {n} : \E i \in 1..K-1 : g[i] = c
    <3> SUFFICES ASSUME NEW c \in Node \ {n} PROVE \E i \in 1..K-1 : g[i] = c
      OBVIOUS
    <3>1. PICK j \in 1..K : f[j] = c
      BY <1>4
    <3>2. j - 1 \in 1..K-1 /\ (j - 1) + 1 = j
      BY <1>1, <1>2, <3>1
    <3> QED BY <3>1, <3>2
  <2>2. \A i \in 1..K-1 : g[i] \in Node \ {n}
    BY <1>6
  <2> QED BY <2>1, <2>2
<1> HIDE DEF g
<1> QED BY <1>1, <1>3, <1>11, <1>12, RingSound DEF s, n

\* Once a slot was lent, no search of the nodes gets back to the head.
LEMMA NeverBack ==
  ASSUME NEW l \in {LentList, ReturnedList}, NEW S, SearchStops(l, Nodes, S)
  PROVE  SearchResult(l, Nodes, S) # Nodes
<1> DEFINE C == Node \cup {FreeNodes}
           K == Cardinality(Node)
           f == InitialOrder
           r == InitialList
<1>1. Typed(l) /\ Steps(l) \in Nat /\ K \in Nat
  BY Lent, Returned, CellCount
<1>2. \A c \in C : r.next[c] \in C
  <2> SUFFICES ASSUME NEW c \in C PROVE r.next[c] \in C
    OBVIOUS
  <2>1. \E i \in 0..K : c = At(f, K, i)
    <3>1. CASE c = FreeNodes
      BY <1>1, <3>1 DEF At
    <3>2. CASE c \in Node
      <4>1. PICK i \in 1..K : f[i] = c
        BY <3>2, First, Counted
      <4>2. i \in 0..K /\ c = At(f, K, i)
        BY <1>1, <4>1 DEF At
      <4> QED BY <4>2
    <3> QED BY <3>1, <3>2
  <2>2. PICK i \in 0..K : c = At(f, K, i)
    BY <2>1
  <2>3. r.next[c] = At(f, K, i + 1)
    BY <2>2, First DEF RingOf
  <2> QED BY <1>1, <2>3, First, AtCell DEF Orders
<1>3. l.next[Nodes] = FirstSlot /\ FirstSlot \in C /\ Nodes \notin C /\ SecondCell \in C
  BY Lent, Returned, First, InitialRing, PoolAssumption DEF Typed, Cell
<1>4. \A c \in C : l.next[c] \in C
  BY <1>2, <1>3, Lent, Returned, First, InitialRing DEF Typed, Cell
<1> HIDE DEF C, f, r
<1>5. \A i \in 0..Steps(l) : Trail(l, Nodes)[i] \in C
  BY <1>1, <1>3, <1>4, Closed
<1> QED BY <1>1, <1>3, <1>5, Found

-----------------------------------------------------------------------------
(* The callbacks.                                                          *)

\* A request that gets as far as get_node() finds the lists as
\* lininoio_ether_init() left them.
LEMMA NewNodeLists ==
  ASSUME ListsKnown, NEW a, NEW chans, NewNode(a, chans)
  PROVE  list = InitialList /\ owned = {} /\ list.next[FreeNodes] = FirstSlot
<1>1. list \notin {LentList, ReturnedList}
  BY NeverBack DEF NewNode
<1> QED BY <1>1 DEF ListsKnown, FirstSlot

\* The initial state.
LEMMA InitInv == Init => IInv
<1> SUFFICES ASSUME Init PROVE IInv
  OBVIOUS
<1>1. Typed(list)
  BY InitialRing DEF Init
<1>2. TypeOK
  BY <1>1, BoundAssumption DEF Init, TypeOK, Typed, Alive!TypeOK
<1>3. OneTimerPerOwner /\ ListsKnown
  BY DEF Init, OneTimerPerOwner, ListsKnown
<1> QED BY <1>2, <1>3, BoundAssumption DEF Init, IInv

\* Steps that leave the slots and their timers alone.
LEMMA KeepLists ==
  ASSUME IInv, UNCHANGED <<list, owned, channels, alive_to, priv>>,
         armed' = armed, running' \subseteq armed', now' \in 0..MaxNow, TypeOK'
  PROVE  IInv'
<1>1. OneTimerPerOwner'
  BY DEF IInv, OneTimerPerOwner
<1>2. ListsKnown'
  BY DEF IInv, ListsKnown
<1> QED BY <1>1, <1>2, BoundAssumption DEF IInv

\* Who holds no slot has no timer.
LEMMA NoneArmed ==
  ASSUME OneTimerPerOwner, owned = {}
  PROVE  armed = {}
BY DEF OneTimerPerOwner

\* The types of the timer service.
LEMMA ServiceTypes ==
  ASSUME IInv
  PROVE  /\ now \in 0..MaxNow /\ now \in Nat /\ due \in [Timer -> Nat]
         /\ pending \subseteq Timer /\ running \subseteq Timer
         /\ armed \subseteq pending \cup running
<1>1. Alive!TypeOK /\ now <= MaxNow
  BY DEF IInv, TypeOK
<1>2. /\ now \in Nat /\ due \in [Timer -> Nat]
      /\ pending \subseteq Timer /\ running \subseteq Timer
      /\ armed \subseteq pending \cup running
  BY <1>1 DEF Alive!TypeOK
<1>3. now \in 0..MaxNow
  BY <1>1, <1>2, BoundAssumption
<1> QED BY <1>2, <1>3

\* What an association leaves.
LEMMA AssociateInv ==
  ASSUME IInv, NEW a \in Addr, NEW chans \in Request, Associate(a, chans)
  PROVE  IInv'
<1>1. /\ list = InitialList /\ owned = {} /\ list.next[FreeNodes] = FirstSlot
      /\ armed = {} /\ running = {} /\ FirstSlot \in Node
  BY NewNodeLists, NoneArmed, First DEF IInv, Associate, NewNode, Idle
<1> DEFINE n == list.next[FreeNodes]
<1>2. PICK k \in Connectable(chans), t \in (Timer \ pending) \cup {None} :
     LET ok == Len(chans) > 0 /\ k = Len(chans)
         started == IF ok THEN StartedCores(chans, k) ELSE {}
     IN
     /\ list' = IF ok THEN GetNode(list, n) ELSE PutNode(GetNode(list, n), n)
     /\ owned' = IF ok THEN owned \cup {n} ELSE owned
     /\ addr' = [addr EXCEPT ![n] = a]
     /\ nchannels' = [nchannels EXCEPT ![n] = Len(chans)]
     /\ channels' = [channels EXCEPT ![n] = NewChannels]
     /\ cores' = [cores EXCEPT ![n] = [c \in Core |-> OnCore(chans, k, c)]]
     /\ alive_to' = [alive_to EXCEPT ![n] = t]
     /\ priv' = [x \in Timer |-> IF x = t THEN n ELSE priv[x]]
     /\ pending' = pending \cup Scheduled(t)
     /\ armed' = Armed(t, ok)
     /\ due' = [x \in Timer |-> IF x = t THEN now + AliveTimeout ELSE due[x]]
     /\ heard' = [heard EXCEPT ![n] = now]
     /\ setup' = {x \in setup : x[1] # n} \cup {<<n, c>> : c \in started}
     /\ SendReply(a, IF ok THEN "ok" ELSE "error")
     /\ \/ mode' = "running"
        \/ CopiesWild(chans, k, started) /\ mode' = "crashed"
  BY Zenon DEF Associate
<1> DEFINE ok == Len(chans) > 0 /\ k = Len(chans)
<1>3. now' = now /\ running' = running /\ Accepted(chans)
  BY DEF Associate, NewNode
<1>4. ListsKnown'
  BY <1>1, <1>2 DEF ListsKnown, LentList, ReturnedList
<1>5. list' \in [next : [Cell -> Cell], prev : [Cell -> Cell]]
  BY <1>1, <1>4, Lent, Returned, InitialRing DEF ListsKnown, Typed
<1>6. armed' = IF ok THEN Scheduled(t) ELSE {}
  BY <1>1, <1>2 DEF Armed
<1>7. Scheduled(t) \subseteq Timer /\ Scheduled(t) \subseteq {t}
  BY DEF Scheduled
<1>8. OneTimerPerOwner'
  <2>1. alive_to'[n] = t
    BY <1>1, <1>2 DEF IInv, TypeOK
  <2>2. CASE ok
    <3>1. owned' = {n} /\ armed' = Scheduled(t)
      BY <1>1, <1>2, <1>6, <2>2
    <3>2. t # None => t \in armed' /\ priv'[t] = n
      BY <1>2, <3>1 DEF Scheduled
    <3>3. \A x \in armed' : x = t /\ priv'[x] = n
      BY <1>2, <1>7, <3>1 DEF Scheduled
    <3> HIDE DEF n, ok
    <3> QED BY <2>1, <3>1, <3>2, <3>3 DEF OneTimerPerOwner
  <2>3. CASE ~ok
    <3>1. owned' = {} /\ armed' = {}
      BY <1>1, <1>2, <1>6, <2>3
    <3> QED BY <3>1 DEF OneTimerPerOwner
  <2> QED BY <2>2, <2>3
<1>9. addr' \in [Node -> Addr \cup {None}] /\ owned' \subseteq Node
  BY <1>1, <1>2 DEF IInv, TypeOK
<1>10. nchannels' \in [Node -> 0..MaxNChannels]
  <2>1. Len(chans) \in 0..MaxNChannels
    BY <1>3, RequestAssumption, BoundAssumption DEF Accepted
  <2> QED BY <1>2, <2>1 DEF IInv, TypeOK
<1>11. channels' \in [Node -> SUBSET ChanId] /\ \A x \in Node : channels'[x] = {}
  BY <1>2 DEF IInv, TypeOK, NewChannels
<1>12. cores' \in [Node -> [Core -> SUBSET ChanId]]
  <2>1. [c \in Core |-> OnCore(chans, k, c)] \in [Core -> SUBSET ChanId]
    BY DEF OnCore, Created
  <2> QED BY <1>2, <2>1 DEF IInv, TypeOK
<1>13. alive_to' \in [Node -> Timer \cup {None}] /\ priv' \in [Timer -> Node \cup {None}]
  BY <1>1, <1>2 DEF IInv, TypeOK
<1>14. setup' \subseteq Node \X Core
  <2> DEFINE started == IF ok THEN StartedCores(chans, k) ELSE {}
  <2>1. started \subseteq Core
    BY DEF StartedCores
  <2>2. setup' = {x \in setup : x[1] # n} \cup {<<n, c>> : c \in started}
    BY <1>2, Zenon
  <2>3. setup \subseteq Node \X Core
    BY DEF IInv, TypeOK
  <2> HIDE DEF started
  <2> QED BY <1>1, <2>1, <2>2, <2>3
<1>15. reply' = NoReply \/ reply'.to \in Addr
  <2>1. PICK status : SendReply(a, status)
    BY <1>2, Zenon
  <2>2. CASE reply' = [to |-> a, status |-> status]
    BY <2>2
  <2>3. CASE reply' = reply
    BY <2>3 DEF IInv, TypeOK, NoReply
  <2> QED BY <2>1, <2>2, <2>3 DEF SendReply
<1>16. mode' \in {"running", "spinning", "crashed", "out of memory"}
  BY <1>2
<1>17. heard' \in [Node -> 0..MaxNow]
  <2>1. heard \in [Node -> 0..MaxNow] /\ heard' = [heard EXCEPT ![n] = now]
    BY <1>2, Zenon DEF IInv, TypeOK
  <2> QED BY <2>1, ServiceTypes
<1>18. Alive!TypeOK'
  <2>1. now \in Nat /\ now + AliveTimeout \in Nat /\ due \in [Timer -> Nat]
    BY BoundAssumption, ServiceTypes
  <2>2. due' \in [Timer -> Nat]
    BY <1>2, <2>1
  <2>3. pending' \subseteq Timer /\ armed' \subseteq pending' \cup running'
    BY <1>1, <1>2, <1>6, <1>7, ServiceTypes
  <2> QED BY <1>1, <1>3, <2>1, <2>2, <2>3 DEF Alive!TypeOK
<1>19. TypeOK'
  BY <1>5, <1>9, <1>10, <1>11, <1>12, <1>13, <1>14, <1>15, <1>16, <1>17, <1>18 DEF TypeOK
<1> QED BY <1>1, <1>3, <1>4, <1>8, <1>11, <1>19 DEF IInv

\* Steps that change nothing but the last reply, what was heard and the mode.
LEMMA KeepTimers ==
  ASSUME IInv, UNCHANGED <<pool, nchannels, channels, cores, alive_to, setup, priv, timers>>,
         heard' \in [Node -> 0..MaxNow], reply' = NoReply \/ reply'.to \in Addr,
         mode' \in {"running", "spinning", "crashed", "out of memory"}
  PROVE  IInv'
<1>1. TypeOK'
  BY DEF IInv, TypeOK, Alive!TypeOK, pool, timers
<1>2. armed' = armed /\ running' \subseteq armed' /\ now' \in 0..MaxNow
  BY ServiceTypes DEF IInv, timers
<1> QED BY <1>1, <1>2, KeepLists DEF pool

\* A search that never ends changes nothing but the mode.
LEMMA SpinInv == ASSUME IInv, Spin PROVE IInv'
<1>1. heard' \in [Node -> 0..MaxNow] /\ (reply' = NoReply \/ reply'.to \in Addr)
  BY DEF Spin, IInv, TypeOK, node
<1> QED BY <1>1, KeepTimers DEF Spin, node

\* Nor does a null pointer that is written through.
LEMMA NoMemoryInv ==
  ASSUME IInv, NEW a, NEW chans, AssociateOutOfMemory(a, chans)
  PROVE  IInv'
<1>1. heard' \in [Node -> 0..MaxNow] /\ (reply' = NoReply \/ reply'.to \in Addr)
  BY DEF AssociateOutOfMemory, IInv, TypeOK, node
<1> QED BY <1>1, KeepTimers DEF AssociateOutOfMemory, node

\* A reply goes to the address that was found, which is the one that asked.
LEMMA RequestKnownInv ==
  ASSUME IInv, NEW a \in Addr, RequestKnown(a)
  PROVE  IInv'
<1> DEFINE n == SearchResult(list, Nodes, Holders(a))
<1>1. n # Nodes /\ SearchStops(list, Nodes, Holders(a)) /\ SendReply(addr[n], "ok")
  BY Zenon DEF RequestKnown
<1>2. Steps(list) \in Nat
  BY CellCount DEF IInv, TypeOK, Typed
<1>3. n \in Holders(a)
  BY <1>1, <1>2, Found
<1>4. addr[n] = a
  BY <1>3 DEF Holders
<1>5. reply' = NoReply \/ reply'.to \in Addr
  <2>1. CASE reply' = [to |-> addr[n], status |-> "ok"]
    BY <1>4, <2>1
  <2>2. CASE reply' = reply
    BY <2>2 DEF IInv, TypeOK, NoReply
  <2> QED BY <1>1, <2>1, <2>2 DEF SendReply
<1>6. heard' \in [Node -> 0..MaxNow] /\ mode' = mode
  BY DEF RequestKnown, IInv, TypeOK, node
<1>7. mode = "running"
  BY DEF RequestKnown, Idle
<1> QED BY <1>5, <1>6, <1>7, KeepTimers DEF RequestKnown, node

\* No data packet postpones an alive timeout: channels[] has no entry.
LEMMA DataPacketInv ==
  ASSUME IInv, NEW a, NEW len, DataPacket(a, len)
  PROVE  IInv'
<1> DEFINE n == SearchResult(list, Nodes, WithMac(a))
<1>1. /\ n # Nodes /\ SearchStops(list, Nodes, WithMac(a))
      /\ heard' = [heard EXCEPT ![n] = now]
      /\ len % 256 \notin channels[n] => UNCHANGED <<alive_to, priv, pending, armed, due>>
  BY Zenon DEF DataPacket
<1>2. Steps(list) \in Nat
  BY CellCount DEF IInv, TypeOK, Typed
<1>3. n \in Node
  BY <1>1, <1>2, Found DEF WithMac
<1>4. UNCHANGED <<alive_to, priv, pending, armed, due>>
  BY <1>1, <1>3 DEF IInv
<1>5. heard' \in [Node -> 0..MaxNow]
  <2>1. heard \in [Node -> 0..MaxNow]
    BY DEF IInv, TypeOK
  <2> QED BY <1>1, <2>1, ServiceTypes
<1>6. reply' = NoReply \/ reply'.to \in Addr
  BY DEF DataPacket, IInv, TypeOK
<1>7. mode' = "running"
  BY DEF DataPacket, Idle
<1> QED BY <1>4, <1>5, <1>6, <1>7, KeepTimers DEF DataPacket, timers

\* Time passes while no alive timeout is due.
LEMMA TickInv == ASSUME IInv, Tick PROVE IInv'
<1>1. now' \in 0..MaxNow
  BY ServiceTypes, BoundAssumption DEF Tick
<1>2. UNCHANGED <<pending, armed, due, running>>
  BY DEF Tick, Alive!Elapse
<1>3. TypeOK'
  <2>1. Alive!TypeOK'
    BY <1>1, <1>2, ServiceTypes, BoundAssumption DEF Alive!TypeOK
  <2> QED BY <2>1 DEF Tick, IInv, TypeOK, pool, node
<1> QED BY <1>1, <1>2, <1>3, KeepLists DEF Tick, IInv, pool, node

\* A timer fires while it is armed, and stays so until its handler returns.
LEMMA FiresInv == ASSUME IInv, AliveTimeoutFires PROVE IInv'
<1>1. PICK t \in Timer : Alive!Fire(t)
  BY DEF AliveTimeoutFires
<1>2. /\ running = {} /\ t \in armed /\ pending' = pending \ {t} /\ running' = {t}
      /\ now' = now /\ armed' = armed /\ due' = due
  BY <1>1 DEF Alive!Fire
<1>3. Alive!TypeOK'
  BY <1>2, ServiceTypes DEF Alive!TypeOK
<1>4. TypeOK'
  BY <1>3 DEF AliveTimeoutFires, IInv, TypeOK, pool, node
<1> QED BY <1>2, <1>4, ServiceTypes, KeepLists DEF AliveTimeoutFires, pool, node

\* Only cancelled timers are dropped.
LEMMA DiscardInv == ASSUME IInv, CancelledTimeoutEnds PROVE IInv'
<1>1. PICK t \in Timer : Alive!Discard(t)
  BY DEF CancelledTimeoutEnds
<1>2. /\ t \notin armed /\ pending' = pending \ {t} /\ running' = running
      /\ now' = now /\ armed' = armed /\ due' = due
  BY <1>1 DEF Alive!Discard
<1>3. Alive!TypeOK'
  BY <1>2, ServiceTypes DEF Alive!TypeOK
<1>4. TypeOK'
  BY <1>3 DEF CancelledTimeoutEnds, IInv, TypeOK, pool, node
<1> QED BY <1>2, <1>4, ServiceTypes, KeepLists DEF CancelledTimeoutEnds, IInv, pool, node

\* The handler that runs is that of the only timer there is, and that timer
\* is the one of the slot that is lent.
LEMMA Killed ==
  ASSUME IInv, KillNode
  PROVE  /\ owned = {FirstSlot} /\ owned' = {} /\ list = LentList /\ list' = ReturnedList
         /\ armed' = {} /\ running' = {}
<1>1. PICK t \in running : list' = PutNode(list, priv[t]) /\ owned' = owned \ {priv[t]}
  BY Zenon DEF KillNode
<1>2. t \in armed /\ priv[t] \in owned
  BY <1>1 DEF IInv, OneTimerPerOwner
<1>3. owned = {FirstSlot} /\ list = LentList /\ priv[t] = FirstSlot
  BY <1>2 DEF IInv, ListsKnown
<1>4. \A x \in armed : x = t
  <2>1. \A x \in armed : priv[x] = FirstSlot /\ alive_to[priv[x]] = x
    BY <1>3 DEF IInv, OneTimerPerOwner
  <2> QED BY <1>2, <2>1
<1>5. armed' = armed \ running /\ running' = {}
  BY DEF KillNode, Alive!Return
<1>6. armed' = {}
  BY <1>1, <1>4, <1>5
<1> QED BY <1>1, <1>3, <1>5, <1>6 DEF ReturnedList

\* kill_node() leaves the third state of the lists, without timers.
LEMMA KillNodeInv == ASSUME IInv, KillNode PROVE IInv'
<1>1. ListsKnown' /\ OneTimerPerOwner'
  BY Killed DEF ListsKnown, OneTimerPerOwner
<1>2. list' \in [next : [Cell -> Cell], prev : [Cell -> Cell]] /\ owned' \subseteq Node
  BY Killed, Returned DEF Typed
<1>3. now' = now /\ pending' = pending /\ due' = due
  BY DEF KillNode, Alive!Return
<1>4. Alive!TypeOK'
  BY <1>3, Killed, ServiceTypes DEF Alive!TypeOK
<1>5. TypeOK'
  BY <1>2, <1>4 DEF KillNode, IInv, TypeOK
<1> QED BY <1>1, <1>3, <1>5, Killed DEF KillNode, IInv

\* Every step.
LEMMA NextInv == ASSUME IInv, [Next]_vars PROVE IInv'
<1>1. ASSUME NEW a \in Addr, RequestSpins(a) \/ DataSpins(a) PROVE IInv'
  BY <1>1, SpinInv DEF RequestSpins, DataSpins
<1>2. ASSUME NEW a \in Addr, RequestKnown(a) PROVE IInv'
  BY <1>2, RequestKnownInv
<1>3. ASSUME NEW a \in Addr, NEW chans \in Request, Associate(a, chans) PROVE IInv'
  BY <1>3, AssociateInv
<1>4. ASSUME NEW a \in Addr, NEW chans \in Request, AssociateOutOfMemory(a, chans) PROVE IInv'
  BY <1>4, NoMemoryInv
<1>5. ASSUME NEW a \in Addr, NEW len \in DataLen, DataPacket(a, len) PROVE IInv'
  BY <1>5, DataPacketInv
<1>6. CASE Tick
  BY <1>6, TickInv
<1>7. CASE AliveTimeoutFires
  BY <1>7, FiresInv
<1>8. CASE KillNode
  BY <1>8, KillNodeInv
<1>9. CASE CancelledTimeoutEnds
  BY <1>9, DiscardInv
<1>10. CASE UNCHANGED vars
  <2>1. heard' \in [Node -> 0..MaxNow] /\ (reply' = NoReply \/ reply'.to \in Addr)
        /\ mode' \in {"running", "spinning", "crashed", "out of memory"}
    BY <1>10 DEF IInv, TypeOK, vars, node
  <2> QED BY <1>10, <2>1, KeepTimers DEF vars, node
<1> QED BY <1>1, <1>2, <1>3, <1>4, <1>5, <1>6, <1>7, <1>8, <1>9, <1>10 DEF Next

-----------------------------------------------------------------------------
\* The lists are only ever as lininoio_ether_init() left them, with the first
\* slot lent, or with that slot returned; the timers match.
THEOREM Invariance == Spec => []IInv
<1>1. Init => IInv
  BY InitInv
<1>2. IInv /\ [Next]_vars => IInv'
  BY NextInv
<1> QED BY <1>1, <1>2, PTL DEF Spec

\* Every variable of the association keeps its type.
THEOREM TypeCorrect == Spec => []TypeOK
<1>1. IInv => TypeOK
  BY DEF IInv
<1> QED BY Invariance, <1>1, PTL

\* Through get_node(), the second list_add_tail() and kill_node() the free
\* list stays a ring of exactly the slots nobody holds.
LEMMA ListsIntact == IInv => FreeListIntact
<1> SUFFICES ASSUME IInv PROVE FreeListIntact
  OBVIOUS
<1>1. CASE owned = {} /\ list = InitialList
  BY <1>1, InitialFree DEF FreeListIntact
<1>2. CASE owned = {} /\ list = ReturnedList
  BY <1>2, ReturnedFree DEF FreeListIntact
<1>3. CASE owned = {FirstSlot} /\ list = LentList
  BY <1>3, LentFree DEF FreeListIntact
<1> QED BY <1>1, <1>2, <1>3 DEF IInv, ListsKnown

THEOREM FreeList == Spec => []FreeListIntact
<1> QED BY Invariance, ListsIntact, PTL

\* Whoever holds a slot has the one armed alive timer that returns it.
THEOREM Timers == Spec => []OneTimerPerOwner
<1>1. IInv => OneTimerPerOwner
  BY DEF IInv
<1> QED BY Invariance, <1>1, PTL

-----------------------------------------------------------------------------
(* The pool of slots.                                                      *)

\* The free slots are those nobody holds.
LEMMA Slots == ASSUME ListsKnown PROVE Entries(list, FreeNodes) = Node \ owned
BY InitialFree, ReturnedFree, LentFree DEF ListsKnown

\* The same after a step.
LEMMA SlotsNext == ASSUME ListsKnown' PROVE Entries(list', FreeNodes) = Node \ owned'
BY InitialFree, ReturnedFree, LentFree DEF ListsKnown

\* Where no slot changes hands and no address of a held slot changes, the
\* pool does not notice.
LEMMA PoolStutters ==
  ASSUME ListsKnown, ListsKnown', owned' = owned,
         \A n \in owned : addr'[n] = addr[n]
  PROVE  UNCHANGED Pool!vars
<1>1. Entries(list', FreeNodes) = Entries(list, FreeNodes)
  BY Slots, SlotsNext
<1>2. [n \in Node |-> IF n \in owned' THEN addr'[n] ELSE None]
        = [n \in Node |-> IF n \in owned THEN addr[n] ELSE None]
  OBVIOUS
<1> QED BY <1>1, <1>2 DEF Pool!vars

\* An association that succeeds lends the first slot; one that fails borrows
\* it and gives it back in one step.
LEMMA PoolAssociate ==
  ASSUME IInv, IInv', NEW a \in Addr, NEW chans \in Request, Associate(a, chans)
  PROVE  Pool!Next \/ UNCHANGED Pool!vars
<1> DEFINE n == FirstSlot
<1>1. list = InitialList /\ owned = {} /\ list.next[FreeNodes] = n /\ n \in Node
  BY NewNodeLists, First DEF IInv, Associate
<1>2. addr' = [addr EXCEPT ![n] = a] /\ (owned' = owned \cup {n} \/ owned' = owned)
  <2>1. addr' = [addr EXCEPT ![list.next[FreeNodes]] = a]
        /\ (owned' = owned \cup {list.next[FreeNodes]} \/ owned' = owned)
    BY Zenon DEF Associate
  <2> QED BY <1>1, <2>1
<1>3. ListsKnown /\ ListsKnown' /\ addr \in [Node -> Addr \cup {None}]
  BY DEF IInv, TypeOK
<1>4. CASE owned' = owned
  BY <1>1, <1>3, <1>4, PoolStutters
<1>5. CASE owned' = owned \cup {n}
  <2>1. Entries(list, FreeNodes) = Node /\ Entries(list', FreeNodes) = Node \ {n}
    BY <1>1, <1>3, <1>5, Slots, SlotsNext
  <2>2. [m \in Node |-> IF m \in owned' THEN addr'[m] ELSE None]
          = [[m \in Node |-> IF m \in owned THEN addr[m] ELSE None] EXCEPT ![n] = a]
    BY <1>1, <1>2, <1>3, <1>5
  <2>3. Pool!Lend(n, a)
    BY <1>1, <2>1, <2>2 DEF Pool!Lend
  <2> QED BY <1>1, <2>3 DEF Pool!Next
<1> QED BY <1>2, <1>4, <1>5

\* kill_node() takes it back.
LEMMA PoolKill ==
  ASSUME IInv, IInv', KillNode
  PROVE  Pool!Next
<1> DEFINE n == FirstSlot
<1>1. owned = {n} /\ owned' = {} /\ n \in Node /\ addr' = addr
  BY Killed, First DEF KillNode
<1>2. Entries(list, FreeNodes) = Node \ {n} /\ Entries(list', FreeNodes) = Node
  BY <1>1, Slots, SlotsNext DEF IInv
<1>3. [m \in Node |-> IF m \in owned' THEN addr'[m] ELSE None]
        = [[m \in Node |-> IF m \in owned THEN addr[m] ELSE None] EXCEPT ![n] = None]
  BY <1>1
<1>4. Pool!TakeBack(n)
  BY <1>1, <1>2, <1>3 DEF Pool!TakeBack
<1> QED BY <1>1, <1>4 DEF Pool!Next

\* Every step of the daemon is one of the pool or none.
LEMMA PoolStep ==
  ASSUME IInv, IInv', [Next]_vars
  PROVE  Pool!Next \/ UNCHANGED Pool!vars
<1>1. CASE UNCHANGED pool
  BY <1>1, PoolStutters DEF IInv, pool
<1>2. ASSUME NEW a \in Addr, NEW chans \in Request, Associate(a, chans)
      PROVE  Pool!Next \/ UNCHANGED Pool!vars
  BY <1>2, PoolAssociate
<1>3. CASE KillNode
  BY <1>3, PoolKill
<1>4. ASSUME NEW a \in Addr,
             \/ RequestSpins(a) \/ RequestKnown(a) \/ DataSpins(a)
             \/ \E chans \in Request : AssociateOutOfMemory(a, chans)
             \/ \E len \in DataLen : DataPacket(a, len)
      PROVE  UNCHANGED pool
  BY <1>4 DEF RequestSpins, RequestKnown, DataSpins, Spin, AssociateOutOfMemory, DataPacket
<1>5. CASE Tick \/ AliveTimeoutFires \/ CancelledTimeoutEnds \/ UNCHANGED vars
  BY <1>1, <1>5 DEF Tick, AliveTimeoutFires, CancelledTimeoutEnds, vars
<1> QED BY <1>1, <1>2, <1>3, <1>4, <1>5 DEF Next

\* At first every slot is free.
LEMMA PoolInit == Init => Pool!Init
<1> SUFFICES ASSUME Init PROVE Pool!Init
  OBVIOUS
<1>1. Entries(list, FreeNodes) = Node /\ owned = {}
  BY InitialFree DEF Init
<1>2. [n \in Node |-> IF n \in owned THEN addr[n] ELSE None] = [n \in Node |-> None]
  BY <1>1
<1> QED BY <1>1, <1>2 DEF Pool!Init

\* The lists of lininoio-ether.c implement a pool that lends a free slot to
\* one address at a time and takes it back, for any slots and addresses,
\* although a lent slot is linked twice and taken out while linked to itself.
THEOREM ImplementsPool == Spec => PoolSpec
<1>1. IInv /\ IInv' /\ [Next]_vars => [Pool!Next]_Pool!vars
  BY PoolStep
<1> QED BY <1>1, PoolInit, Invariance, PTL DEF Spec, PoolSpec, Pool!Spec
=============================================================================
