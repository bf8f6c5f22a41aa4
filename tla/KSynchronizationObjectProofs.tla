--------------------- MODULE KSynchronizationObjectProofs ---------------------
(***************************************************************************)
(* The wait lists of synchronization objects are sound, serve waiters in   *)
(* the order in which they blocked, and implement WaitSynchronization:     *)
(* proofs for any finite set of threads, any objects and any MaxObjects.   *)
(*                                                                         *)
(* The invariant gives every node of a current wait a place, a number that *)
(* grows from node to node along its list.  A walk then cannot come back   *)
(* to a node, and ends after as many steps as there are nodes.  While a    *)
(* handler runs, the places also order the nodes it has unlinked: what     *)
(* NotifyAvailable reads from an unlinked node is a node behind it, with   *)
(* no linked node in between, so the loop misses nobody.                   *)
(*                                                                         *)
(* The loops of the model are functions over 0..n.  That such a function   *)
(* exists, and what holds after k rounds, is shown by a smallest           *)
(* counterexample.                                                         *)
(***************************************************************************)
EXTENDS KSynchronizationObject, FiniteSetTheorems, WellFoundedInduction, TLAPS

\* No list is longer than this.
N == Cardinality(Nodes)

-----------------------------------------------------------------------------
(* Numbers, and functions defined step by step.                            *)

\* Every nonempty set of natural numbers has a least element.
LEMMA LeastNatural ==
  ASSUME NEW S, S \subseteq Nat, S # {}
  PROVE  \E x \in S : \A y \in S : x <= y
<1>1. PICK x \in S : \A y \in S : <<y, x>> \notin OpToRel(<, Nat)
  BY WFMin, NatLessThanWellFounded
<1>2. \A y \in S : ~(y < x)
  BY <1>1 DEF OpToRel
<1> QED BY <1>2

\* What F does to a, n times in a row, is a function: the loops of the model
\* are defined.
Iterates(f, S, a, n, F) ==
  /\ f \in [0..n -> S]
  /\ f[0] = a
  /\ \A k \in 1..n : f[k] = F[k][f[k - 1]]

\* The steps F[1], F[2], ... from a on can be taken one after the other.
LEMMA Iteration ==
  ASSUME NEW S, NEW a, a \in S, NEW n, n \in Nat, NEW F, F \in [1..n -> [S -> S]]
  PROVE  \E f : Iterates(f, S, a, n, F)
<1> DEFINE Defined(m) == \E f \in [0..m -> S] :
             f[0] = a /\ \A k \in 1..m : f[k] = F[k][f[k - 1]]
           Bad == {m \in 0..n : ~Defined(m)}
<1> SUFFICES ASSUME ~Defined(n) PROVE FALSE
  BY DEF Iterates
<1>1. PICK m \in Bad : \A j \in Bad : m <= j
  <2>1. Bad \subseteq Nat
    OBVIOUS
  <2>2. n \in Bad
    <3> HIDE DEF Defined
    <3> QED OBVIOUS
  <2> HIDE DEF Bad
  <2> QED BY <2>1, <2>2, LeastNatural
<1>2. Defined(0)
  <2> DEFINE f == [k \in 0..0 |-> a]
  <2>1. f \in [0..0 -> S] /\ f[0] = a /\ \A k \in 1..0 : f[k] = F[k][f[k - 1]]
    OBVIOUS
  <2> QED BY <2>1
<1>3. m \in 1..n /\ m - 1 \in 0..n /\ m - 1 \notin Bad
  <2> HIDE DEF Defined
  <2>1. m \in 0..n /\ m # 0
    BY <1>1, <1>2
  <2>2. m \in 1..n /\ m - 1 \in 0..n /\ ~(m <= m - 1)
    BY <2>1
  <2> QED BY <1>1, <2>2
<1>4. PICK f \in [0..(m - 1) -> S] :
        f[0] = a /\ \A k \in 1..(m - 1) : f[k] = F[k][f[k - 1]]
  BY <1>3
<1> DEFINE g == [k \in 0..m |-> IF k = m THEN F[m][f[m - 1]] ELSE f[k]]
<1>5. g \in [0..m -> S]
  <2>1. F[m] \in [S -> S] /\ f[m - 1] \in S
    BY <1>3, <1>4
  <2> QED BY <1>3, <1>4, <2>1
<1>6. g[0] = a /\ \A k \in 1..m : g[k] = F[k][g[k - 1]]
  BY <1>3, <1>4
<1>7. Defined(m)
  BY <1>5, <1>6
<1> QED BY <1>1, <1>7

\* Numbers that grow from step to step never come back.
LEMMA Growing ==
  ASSUME NEW n \in Nat, NEW g \in [0..n -> Nat],
         \A k \in 1..n : g[k - 1] < g[k]
  PROVE  \A j, k \in 0..n : j < k => g[j] < g[k]
<1> SUFFICES ASSUME NEW j \in 0..n, NEW i \in 0..n, j < i, ~(g[j] < g[i])
             PROVE  FALSE
  OBVIOUS
<1> DEFINE Bad == {k \in 0..n : j < k /\ ~(g[j] < g[k])}
<1>1. PICK k \in Bad : \A l \in Bad : k <= l
  <2>1. Bad \subseteq Nat /\ i \in Bad
    OBVIOUS
  <2> HIDE DEF Bad
  <2> QED BY <2>1, LeastNatural
<1>2. k \in 1..n /\ k - 1 \in 0..n /\ k - 1 \notin Bad
  <2>1. k \in 1..n
    BY <1>1
  <2>2. k - 1 \in 0..n /\ ~(k <= k - 1)
    BY <2>1
  <2> HIDE DEF Bad
  <2> QED BY <1>1, <2>1, <2>2
<1>3. g[j] <= g[k - 1]
  <2>1. j \in Int /\ k \in Int /\ j <= k - 1
    BY <1>1
  <2>2. j = k - 1 \/ j < k - 1
    BY <2>1
  <2>3. g[j] \in Nat /\ g[k - 1] \in Nat
    BY <1>2
  <2> QED BY <1>2, <2>2, <2>3
<1> QED BY <1>1, <1>2, <1>3

\* There are finitely many nodes.
LEMMA NodesFinite == IsFiniteSet(Nodes) /\ N \in Nat
<1>1. IsFiniteSet(1..MaxObjects)
  BY SyncAssumption, FS_Interval
<1>2. IsFiniteSet(Threads \X (1..MaxObjects))
  BY <1>1, SyncAssumption, FS_Product
<1> QED BY <1>2, FS_CardinalityType DEF Nodes, N

\* Nodes in growing order: after as many steps as there are nodes, none is left.
LEMMA RunsOut ==
  ASSUME NEW f \in [0..N -> Nodes], NEW pos \in [Nodes -> Nat],
         \A k \in 1..N : pos[f[k - 1]] < pos[f[k]]
  PROVE  FALSE
<1> DEFINE g == [k \in 0..N |-> pos[f[k]]]
<1>1. N \in Nat /\ IsFiniteSet(Nodes)
  BY NodesFinite
<1>2. g \in [0..N -> Nat] /\ \A k \in 1..N : g[k - 1] < g[k]
  BY <1>1
<1>3. \A j, k \in 0..N : j < k => g[j] < g[k]
  <2> HIDE DEF g
  <2> QED BY <1>1, <1>2, Growing
<1>4. IsFiniteSet(0..N) /\ Cardinality(0..N) = N + 1
  BY <1>1, FS_Interval
<1>5. PICK x, y \in 0..N : x # y /\ f[x] = f[y]
  <2>1. Cardinality(Nodes) < Cardinality(0..N)
    BY <1>1, <1>4 DEF N
  <2> QED BY <1>1, <1>4, <2>1, FS_PigeonHole
<1>6. g[x] = g[y]
  BY <1>5
<1>7. g[x] \in Nat /\ g[y] \in Nat /\ (x < y \/ y < x)
  BY <1>1, <1>2, <1>5
<1> QED BY <1>3, <1>5, <1>6, <1>7

-----------------------------------------------------------------------------
(* The lists.  L[o] are the nodes linked for o when a handler began, D the *)
(* nodes it has unlinked since, pos the order in which they were linked.   *)

Cells  == Objects \cup Nodes
NodeOrNull == Nodes \cup {NULL}
ListStates == [next : [Cells -> NodeOrNull], tail : [Objects -> NodeOrNull],
               fault : BOOLEAN]

\* Cell c, the head cell of a list or a node of it, comes before node n.
Before(pos, c, n) == c \in Objects \/ pos[c] < pos[n]

\* A list can be followed from every cell, also from one that was unlinked: the
\* next cell is behind it, and no linked node lies between them; linked cells
\* lead to linked cells.
Follows(nx, L, D, pos, o, c) ==
  /\ nx[c] \in L[o] \cup {NULL}
  /\ nx[c] # NULL => Before(pos, c, nx[c])
  /\ \A m \in L[o] \ D : Before(pos, c, m) => nx[c] # NULL /\ pos[nx[c]] <= pos[m]
  /\ c \notin D => nx[c] \notin D

ChainOK(nx, L, D, pos, o) ==
  \A c \in L[o] \cup {o} : Follows(nx, L, D, pos, o, c)

TailOK(tl, L, D, pos, o) ==
  IF tl[o] = NULL THEN L[o] \subseteq D
  ELSE tl[o] \in L[o] \ D /\ \A m \in L[o] \ D : pos[m] <= pos[tl[o]]

\* The nodes of different lists are different, and no two have one place.
Placed(L, D, pos) ==
  /\ L \in [Objects -> SUBSET Nodes]
  /\ D \in SUBSET Nodes
  /\ pos \in [Nodes -> Nat]
  /\ \A o, p \in Objects : o # p => L[o] \cap L[p] = {}
  /\ \A o \in Objects : \A m, n \in L[o] : pos[m] = pos[n] => m = n

ListsOK(nx, tl, L, D, pos) ==
  \A o \in Objects : ChainOK(nx, L, D, pos, o) /\ TailOK(tl, L, D, pos, o)

\* What Walk computes.
IsWalk(at, s, o) ==
  /\ at \in [0..N -> Cells \cup {NULL}]
  /\ at[0] = o
  /\ \A k \in 1..N : at[k] = IF at[k - 1] = NULL THEN NULL ELSE s.next[at[k - 1]]

\* Walk computes what its definition says, and stays in the cells.
LEMMA WalkDefined ==
  ASSUME NEW s, s.next \in [Cells -> NodeOrNull], NEW o \in Objects
  PROVE  IsWalk(Walk(s, o), s, o)
<1> DEFINE S == Cells \cup {NULL}
           F == [k \in 1..N |-> [c \in S |-> IF c = NULL THEN NULL ELSE s.next[c]]]
           W(f) == f = [k \in 0..N |->
                     IF k = 0 THEN o
                     ELSE IF f[k - 1] = NULL THEN NULL ELSE s.next[f[k - 1]]]
<1>1. N \in Nat /\ o \in S
  BY NodesFinite DEF Cells
<1>2. F \in [1..N -> [S -> S]]
  BY DEF Cells, NodeOrNull
<1>3. PICK f \in [0..N -> S] : f[0] = o /\ \A k \in 1..N : f[k] = F[k][f[k - 1]]
  <2> HIDE DEF F, S
  <2>1. PICK f : Iterates(f, S, o, N, F)
    BY <1>1, <1>2, Iteration
  <2> QED BY <2>1 DEF Iterates
<1>4. W(f)
  <2>1. \A k \in 1..N : f[k - 1] \in S
    BY <1>1, <1>3
  <2>2. \A k \in 1..N : f[k] = IF f[k - 1] = NULL THEN NULL ELSE s.next[f[k - 1]]
    BY <1>3, <2>1
  <2> HIDE DEF F, S
  <2>3. \A k \in 0..N : k = 0 \/ k \in 1..N
    BY <1>1
  <2> QED BY <1>3, <2>2, <2>3
<1>5. W(Walk(s, o))
  BY <1>4 DEF Walk, N
<1> HIDE DEF F
<1>6. PICK w : w = Walk(s, o)
  OBVIOUS
<1>7. W(w)
  BY <1>5, <1>6
<1>8. w[0] = o /\ DOMAIN w = 0..N
  BY <1>1, <1>7
<1>9. \A k \in 1..N : w[k] = IF w[k - 1] = NULL THEN NULL ELSE s.next[w[k - 1]]
  BY <1>1, <1>7
<1>10. \A k \in 0..N : w[k] \in S
  <2> SUFFICES ASSUME NEW i \in 0..N, w[i] \notin S PROVE FALSE
    OBVIOUS
  <2> DEFINE Bad == {k \in 0..N : w[k] \notin S}
  <2>1. PICK k \in Bad : \A l \in Bad : k <= l
    <3>1. Bad \subseteq Nat /\ i \in Bad
      BY <1>1
    <3> HIDE DEF Bad
    <3> QED BY <3>1, LeastNatural
  <2>2. k \in 1..N /\ k - 1 \in 0..N /\ ~(k <= k - 1)
    BY <1>1, <1>8, <2>1
  <2>3. w[k - 1] \in S
    BY <2>1, <2>2
  <2>4. w[k] \in S
    BY <1>9, <2>2, <2>3 DEF Cells, NodeOrNull
  <2> QED BY <2>1, <2>4
<1>11. w \in [0..N -> S]
  <2>1. w = [k \in 0..N |-> w[k]]
    BY <1>7
  <2> HIDE DEF S
  <2> QED BY <1>10, <2>1
<1> QED BY <1>6, <1>8, <1>9, <1>11 DEF IsWalk

\* Following a list from its head: the walk visits the linked nodes, in order,
\* and each of them.
Visits(at, L, D, pos, o) ==
  /\ \A k \in 1..N : at[k] \in (L[o] \ D) \cup {NULL}
  /\ \A k \in 1..N : at[k] # NULL =>
       /\ at[k - 1] # NULL
       /\ Before(pos, at[k - 1], at[k])
       /\ at[k - 1] \in (IF k = 1 THEN {o} ELSE L[o] \ D)
  /\ \A j, k \in 1..N : j < k /\ at[k] # NULL => at[j] # NULL /\ pos[at[j]] < pos[at[k]]
  /\ \A m \in L[o] \ D : \E k \in 1..N : at[k] = m

\* A walk from the head of a sound list visits exactly its linked nodes, in order.
LEMMA WalkVisits ==
  ASSUME NEW s, s.next \in [Cells -> NodeOrNull],
         NEW L, NEW D, NEW pos, Placed(L, D, pos), NEW o \in Objects,
         ChainOK(s.next, L, D, pos, o),
         NEW at, IsWalk(at, s, o)
  PROVE  Visits(at, L, D, pos, o)
<1>1. N \in Nat /\ o \notin Nodes /\ o # NULL /\ NULL \notin Nodes
  BY NodesFinite, SyncAssumption
<1>2. L[o] \subseteq Nodes /\ D \subseteq Nodes /\ pos \in [Nodes -> Nat]
  BY DEF Placed
<1>3. \A k \in 1..N : at[k] = IF at[k - 1] = NULL THEN NULL ELSE s.next[at[k - 1]]
  BY DEF IsWalk
<1>4. at[0] = o
  BY DEF IsWalk
<1>5. \A c \in (L[o] \ D) \cup {o} :
        /\ s.next[c] \in (L[o] \ D) \cup {NULL}
        /\ s.next[c] # NULL => Before(pos, c, s.next[c])
        /\ \A m \in L[o] \ D : Before(pos, c, m)
             => s.next[c] # NULL /\ pos[s.next[c]] <= pos[m]
  BY <1>1, <1>2 DEF ChainOK, Follows
<1>6. \A k \in 1..N : at[k] \in (L[o] \ D) \cup {NULL}
  <2> SUFFICES ASSUME NEW i \in 1..N, at[i] \notin (L[o] \ D) \cup {NULL} PROVE FALSE
    OBVIOUS
  <2> DEFINE Bad == {k \in 1..N : at[k] \notin (L[o] \ D) \cup {NULL}}
  <2>1. PICK k \in Bad : \A l \in Bad : k <= l
    <3>1. Bad \subseteq Nat /\ i \in Bad
      BY <1>1
    <3> HIDE DEF Bad
    <3> QED BY <3>1, LeastNatural
  <2>2. k \in 1..N /\ (k = 1 \/ k - 1 \in 1..N) /\ ~(k <= k - 1)
    BY <1>1, <2>1
  <2>3. at[k - 1] \in (L[o] \ D) \cup {o, NULL}
    BY <1>4, <2>1, <2>2
  <2>4. at[k] \in (L[o] \ D) \cup {NULL}
    BY <1>3, <1>5, <2>2, <2>3
  <2> QED BY <2>1, <2>4
<1>7. ASSUME NEW k \in 1..N, at[k] # NULL
      PROVE  /\ at[k - 1] # NULL
             /\ Before(pos, at[k - 1], at[k])
             /\ at[k - 1] \in (IF k = 1 THEN {o} ELSE L[o] \ D)
  <2>1. at[k - 1] # NULL /\ at[k] = s.next[at[k - 1]]
    BY <1>3, <1>7
  <2>2. k = 1 \/ k - 1 \in 1..N
    BY <1>1
  <2>3. at[k - 1] \in (IF k = 1 THEN {o} ELSE L[o] \ D)
    BY <1>1, <1>4, <1>6, <2>1, <2>2
  <2> QED BY <1>5, <1>7, <2>1, <2>3
<1>8. ASSUME NEW j \in 1..N, NEW i \in 1..N, j < i, at[i] # NULL,
             ~(at[j] # NULL /\ pos[at[j]] < pos[at[i]])
      PROVE  FALSE
  <2> DEFINE Bad == {k \in 1..N : /\ j < k /\ at[k] # NULL
                                  /\ ~(at[j] # NULL /\ pos[at[j]] < pos[at[k]])}
  <2>1. PICK k \in Bad : \A l \in Bad : k <= l
    <3>1. Bad \subseteq Nat /\ i \in Bad
      BY <1>1, <1>8
    <3> HIDE DEF Bad
    <3> QED BY <3>1, LeastNatural
  <2>2. k \in 2..N /\ k - 1 \in 1..N /\ ~(k <= k - 1) /\ (j = k - 1 \/ j < k - 1)
    BY <1>1, <2>1
  <2>3. at[k - 1] # NULL /\ at[k - 1] \in L[o] \ D /\ Before(pos, at[k - 1], at[k])
    BY <1>7, <2>1, <2>2
  <2>4. pos[at[k - 1]] < pos[at[k]]
    BY <1>1, <1>2, <2>3, SyncAssumption DEF Before
  <2>5. at[j] # NULL /\ (j = k - 1 \/ pos[at[j]] < pos[at[k - 1]])
    BY <2>1, <2>2, <2>3
  <2>6. at[j] \in Nodes /\ at[k - 1] \in Nodes /\ at[k] \in Nodes
    BY <1>2, <1>6, <2>1, <2>2, <2>3, <2>5
  <2>7. pos[at[j]] \in Nat /\ pos[at[k - 1]] \in Nat /\ pos[at[k]] \in Nat
    BY <1>2, <2>6
  <2> QED BY <2>1, <2>4, <2>5, <2>7
<1>9. ASSUME NEW m \in L[o] \ D, \A k \in 1..N : at[k] # m PROVE FALSE
  <2>1. \A k \in 1..N : at[k] \in L[o] \ D /\ pos[at[k]] < pos[m]
    <3> SUFFICES ASSUME NEW i \in 1..N, ~(at[i] \in L[o] \ D /\ pos[at[i]] < pos[m])
                 PROVE  FALSE
      OBVIOUS
    <3> DEFINE Bad == {k \in 1..N : ~(at[k] \in L[o] \ D /\ pos[at[k]] < pos[m])}
    <3>1. PICK k \in Bad : \A l \in Bad : k <= l
      <4>1. Bad \subseteq Nat /\ i \in Bad
        BY <1>1
      <4> HIDE DEF Bad
      <4> QED BY <4>1, LeastNatural
    <3>2. k \in 1..N /\ (k = 1 \/ k - 1 \in 1..N) /\ ~(k <= k - 1)
      BY <1>1, <3>1
    <3>3. at[k - 1] \in (L[o] \ D) \cup {o} /\ Before(pos, at[k - 1], m)
      BY <1>4, <3>1, <3>2 DEF Before
    <3>4. s.next[at[k - 1]] # NULL /\ pos[s.next[at[k - 1]]] <= pos[m]
      BY <1>5, <1>9, <3>3
    <3>5. at[k] = s.next[at[k - 1]] /\ at[k] \in L[o] \ D
      BY <1>1, <1>2, <1>3, <1>6, <3>2, <3>3, <3>4
    <3>6. pos[at[k]] # pos[m]
      BY <1>9, <3>2, <3>5 DEF Placed
    <3>7. pos[at[k]] \in Nat /\ pos[m] \in Nat
      BY <1>2, <3>5
    <3>8. pos[at[k]] < pos[m]
      BY <3>4, <3>5, <3>6, <3>7
    <3> QED BY <3>1, <3>5, <3>8
  <2> DEFINE f == [k \in 0..N |-> IF k = N THEN m ELSE at[k + 1]]
  <2>2. f \in [0..N -> Nodes]
    BY <1>1, <1>2, <2>1
  <2>3. \A k \in 1..N : pos[f[k - 1]] < pos[f[k]]
    <3> TAKE k \in 1..N
    <3>1. f[k - 1] = at[k] /\ (k = N \/ k + 1 \in 1..N)
      BY <1>1
    <3>2. CASE k = N
      BY <1>1, <2>1, <3>1, <3>2
    <3>3. CASE k # N
      <4>1. f[k] = at[k + 1] /\ at[k + 1] # NULL /\ k < k + 1 /\ k + 1 \in 1..N
        BY <1>1, <1>2, <2>1, <3>1, <3>3
      <4> QED BY <1>8, <3>1, <4>1
    <3> QED BY <3>2, <3>3
  <2> HIDE DEF f
  <2> QED BY <1>2, <2>2, <2>3, RunsOut
<1> QED BY <1>6, <1>7, <1>8, <1>9 DEF Visits

-----------------------------------------------------------------------------
(* Unlinking.                                                              *)

\* What UnlinkNode does to a list with the node in it: some linked cell c in
\* front of the node skips it.
LEMMA UnlinkFinds ==
  ASSUME NEW s \in ListStates, NEW L, NEW D, NEW pos, Placed(L, D, pos),
         ListsOK(s.next, s.tail, L, D, pos),
         NEW o \in Objects, NEW node \in L[o] \ D
  PROVE  \E c \in (L[o] \ D) \cup {o} :
           /\ s.next[c] = node
           /\ UnlinkNode(s, o, node) =
                [next |-> [s.next EXCEPT ![c] = s.next[node]],
                 tail |-> [s.tail EXCEPT ![o] =
                             IF s.tail[o] # node THEN s.tail[o]
                             ELSE IF c = o THEN NULL ELSE c],
                 fault |-> s.fault]
<1>1. PICK at : at = Walk(s, o)
  OBVIOUS
<1>2. N \in Nat /\ o \notin Nodes /\ o # NULL /\ NULL \notin Nodes
  BY NodesFinite, SyncAssumption
<1>3. L[o] \subseteq Nodes
  BY DEF Placed
<1>4. s.next \in [Cells -> NodeOrNull] /\ s.tail \in [Objects -> NodeOrNull]
  BY DEF ListStates
<1>5. IsWalk(at, s, o) /\ Visits(at, L, D, pos, o)
  BY <1>1, <1>4, WalkDefined, WalkVisits DEF ListsOK
<1> DEFINE steps == {k \in 1..N : at[k] = node}
           first == CHOOSE k \in steps : \A j \in steps : k <= j
<1>6. first \in steps
  <2>1. steps \subseteq Nat /\ steps # {}
    BY <1>2, <1>5 DEF Visits
  <2> HIDE DEF steps
  <2>2. \E k \in steps : \A j \in steps : k <= j
    BY <2>1, LeastNatural
  <2> QED BY <2>2
<1>7. first \in 1..N /\ at[first] = node /\ node # NULL
  BY <1>2, <1>3, <1>6
<1>8. /\ at[first - 1] # NULL
      /\ at[first - 1] \in (IF first = 1 THEN {o} ELSE L[o] \ D)
  <2> HIDE DEF first, steps
  <2> QED BY <1>5, <1>7 DEF Visits
<1>9. s.next[at[first - 1]] = node
  <2> HIDE DEF first, steps
  <2> QED BY <1>5, <1>7, <1>8 DEF IsWalk
<1>10. UnlinkNode(s, o, node) =
         [s EXCEPT
            !.next = [s.next EXCEPT ![at[first - 1]] = s.next[node]],
            !.tail[o] = IF s.tail[o] # node THEN s.tail[o]
                        ELSE IF first = 1 THEN NULL ELSE at[first - 1]]
  <2>1. steps # {}
    BY <1>6
  <2> QED BY <1>1, <2>1 DEF UnlinkNode, N
<1>11. (first = 1) <=> (at[first - 1] = o)
  BY <1>2, <1>3, <1>8
<1> HIDE DEF first, steps
<1>12. at[first - 1] \in (L[o] \ D) \cup {o}
  BY <1>8
<1>13. UnlinkNode(s, o, node) =
         [s EXCEPT
            !.next = [s.next EXCEPT ![at[first - 1]] = s.next[node]],
            !.tail[o] = IF s.tail[o] # node THEN s.tail[o]
                        ELSE IF at[first - 1] = o THEN NULL ELSE at[first - 1]]
  BY <1>10, <1>11
<1>14. UnlinkNode(s, o, node) =
         [next |-> [s.next EXCEPT ![at[first - 1]] = s.next[node]],
          tail |-> [s.tail EXCEPT ![o] =
                      IF s.tail[o] # node THEN s.tail[o]
                      ELSE IF at[first - 1] = o THEN NULL ELSE at[first - 1]],
          fault |-> s.fault]
  BY <1>13 DEF ListStates
<1> QED BY <1>9, <1>12, <1>14

\* UnlinkNode takes its node out of the list, and leaves all lists sound.
LEMMA UnlinkOne ==
  ASSUME NEW s \in ListStates, NEW L, NEW D, NEW pos, Placed(L, D, pos),
         ListsOK(s.next, s.tail, L, D, pos),
         NEW o \in Objects, NEW node \in L[o] \ D
  PROVE  LET r == UnlinkNode(s, o, node) IN
         /\ r \in ListStates /\ r.fault = s.fault
         /\ Placed(L, D \cup {node}, pos)
         /\ ListsOK(r.next, r.tail, L, D \cup {node}, pos)
<1> DEFINE r  == UnlinkNode(s, o, node)
           D2 == D \cup {node}
<1>1. PICK c \in (L[o] \ D) \cup {o} :
           /\ s.next[c] = node
           /\ r = [next |-> [s.next EXCEPT ![c] = s.next[node]],
                 tail |-> [s.tail EXCEPT ![o] =
                             IF s.tail[o] # node THEN s.tail[o]
                             ELSE IF c = o THEN NULL ELSE c],
                 fault |-> s.fault]
  BY UnlinkFinds
<1> HIDE DEF r
<1>2. /\ o \notin Nodes /\ o # NULL /\ NULL \notin Nodes
      /\ \A p \in Objects : p \notin Nodes /\ p # NULL
  BY SyncAssumption
<1>3. /\ \A p \in Objects : L[p] \subseteq Nodes
      /\ D \subseteq Nodes /\ pos \in [Nodes -> Nat]
      /\ \A m \in Nodes : pos[m] \in Nat
  BY DEF Placed
<1>4. /\ s.next \in [Cells -> NodeOrNull] /\ s.tail \in [Objects -> NodeOrNull]
      /\ s.fault \in BOOLEAN
  BY DEF ListStates
<1>5. c \in Cells /\ node \in Cells /\ node \in Nodes /\ node # NULL
  BY <1>2, <1>3 DEF Cells
<1>6. r \in ListStates /\ r.fault = s.fault
  <2>1. [s.next EXCEPT ![c] = s.next[node]] \in [Cells -> NodeOrNull]
    BY <1>4, <1>5
  <2>2. [s.tail EXCEPT ![o] = IF s.tail[o] # node THEN s.tail[o]
                              ELSE IF c = o THEN NULL ELSE c]
          \in [Objects -> NodeOrNull]
    BY <1>3, <1>4 DEF NodeOrNull
  <2> QED BY <1>1, <1>4, <2>1, <2>2 DEF ListStates
<1>7. Placed(L, D2, pos)
  BY <1>5 DEF Placed
<1>8. \A d \in Cells : r.next[d] = IF d = c THEN s.next[node] ELSE s.next[d]
  BY <1>1, <1>4
<1>9. \A d \in L[o] \cup {o} : Follows(s.next, L, D, pos, o, d)
  BY DEF ListsOK, ChainOK
<1>10. /\ Before(pos, c, node)
       /\ \A m \in L[o] \ D : Before(pos, c, m) => pos[node] <= pos[m]
  BY <1>1, <1>5, <1>9 DEF Follows
<1>11. ASSUME NEW d \in L[o] \cup {o} PROVE Follows(r.next, L, D2, pos, o, d)
  <2>1. CASE d # c
    <3>1. r.next[d] = s.next[d]
      BY <1>3, <1>8, <2>1 DEF Cells
    <3>2. d \notin D => s.next[d] # node
      <4> SUFFICES ASSUME d \notin D, s.next[d] = node PROVE FALSE
        OBVIOUS
      <4>1. /\ Before(pos, d, node)
            /\ \A m \in L[o] \ D : Before(pos, d, m) => pos[node] <= pos[m]
        BY <1>5, <1>9 DEF Follows
      <4>2. CASE d = o
        <5>1. c \in L[o] \ D
          BY <2>1, <4>2
        <5> QED BY <1>2, <1>3, <1>5, <1>10, <4>1, <4>2, <5>1 DEF Before
      <4>3. CASE c = o
        <5>1. d \in L[o] \ D
          BY <2>1, <4>3
        <5> QED BY <1>2, <1>3, <1>5, <1>10, <4>1, <4>3, <5>1 DEF Before
      <4>4. CASE d # o /\ c # o
        <5>1. d \in L[o] \ D /\ c \in L[o] \ D
          BY <4>4
        <5>2. pos[c] # pos[d] /\ pos[c] \in Nat /\ pos[d] \in Nat /\ pos[node] \in Nat
          BY <1>3, <1>5, <2>1, <5>1 DEF Placed
        <5>3. pos[c] < pos[node] /\ pos[d] < pos[node]
          BY <1>2, <1>3, <1>10, <4>1, <5>1 DEF Before
        <5>4. pos[c] < pos[d] => pos[node] <= pos[d]
          BY <1>10, <5>1 DEF Before
        <5>5. pos[d] < pos[c] => pos[node] <= pos[c]
          BY <4>1, <5>1 DEF Before
        <5> QED BY <5>2, <5>3, <5>4, <5>5
      <4> QED BY <4>2, <4>3, <4>4
    <3> QED BY <1>9, <3>1, <3>2 DEF Follows
  <2>2. CASE d = c
    <3>1. r.next[d] = s.next[node]
      BY <1>5, <1>8, <2>2
    <3>2. Follows(s.next, L, D, pos, o, node)
      BY <1>9
    <3>3. /\ s.next[node] \in (L[o] \ D) \cup {NULL}
          /\ s.next[node] # NULL => pos[node] < pos[s.next[node]]
      BY <1>2, <1>3, <1>5, <3>2 DEF Follows, Before
    <3>4. s.next[node] # NULL => Before(pos, d, s.next[node])
      BY <1>2, <1>3, <1>5, <1>10, <2>2, <3>3 DEF Before
    <3>5. s.next[node] \notin D2
      BY <1>2, <1>3, <1>5, <3>3
    <3>6. ASSUME NEW m \in L[o] \ D2, Before(pos, d, m)
          PROVE  s.next[node] # NULL /\ pos[s.next[node]] <= pos[m]
      <4>1. pos[node] <= pos[m] /\ m # node /\ m \in L[o] \ D
        BY <1>10, <2>2, <3>6
      <4>2. pos[node] # pos[m]
        BY <4>1 DEF Placed
      <4>3. pos[node] < pos[m]
        BY <1>3, <1>5, <4>1, <4>2
      <4> QED BY <3>2, <4>1, <4>3 DEF Follows, Before
    <3> QED BY <3>1, <3>3, <3>4, <3>5, <3>6 DEF Follows
  <2> QED BY <2>1, <2>2
<1>12. ASSUME NEW p \in Objects, p # o, NEW d \in L[p] \cup {p}
       PROVE  Follows(r.next, L, D2, pos, p, d)
  <2>1. L[o] \cap L[p] = {}
    BY <1>12 DEF Placed
  <2>2. d # c /\ d \in Cells
    BY <1>2, <1>3, <1>12, <2>1 DEF Cells
  <2>3. r.next[d] = s.next[d] /\ Follows(s.next, L, D, pos, p, d)
    BY <1>8, <2>2 DEF ListsOK, ChainOK
  <2>4. node \notin L[p]
    BY <2>1
  <2> QED BY <1>5, <2>3, <2>4 DEF Follows
<1>13. TailOK(r.tail, L, D2, pos, o)
  <2>1. TailOK(s.tail, L, D, pos, o)
    BY DEF ListsOK
  <2>2. s.tail[o] # NULL
    BY <2>1 DEF TailOK
  <2>3. CASE s.tail[o] # node
    <3>1. r.tail[o] = s.tail[o]
      BY <1>1, <1>4, <2>3
    <3> QED BY <2>1, <2>2, <2>3, <3>1 DEF TailOK
  <2>4. CASE s.tail[o] = node
    <3>1. r.tail[o] = IF c = o THEN NULL ELSE c
      BY <1>1, <1>4, <2>4
    <3>2. ASSUME NEW m \in L[o] \ D2 PROVE ~Before(pos, c, m)
      <4>1. pos[m] <= pos[node] /\ m # node /\ pos[m] # pos[node]
        BY <1>5, <2>1, <2>4, <3>2 DEF TailOK, Placed
      <4>2. pos[m] \in Nat /\ pos[node] \in Nat
        BY <1>3, <1>5
      <4> QED BY <1>10, <4>1, <4>2
    <3>3. CASE c = o
      BY <3>1, <3>2, <3>3 DEF TailOK, Before
    <3>4. CASE c # o
      <4>1. c \in L[o] \ D2 /\ c # NULL
        BY <1>2, <1>3, <1>5, <1>10, <3>4 DEF Before
      <4>2. \A m \in L[o] \ D2 : pos[m] <= pos[c]
        BY <1>2, <1>3, <3>2, <4>1 DEF Before
      <4> QED BY <3>1, <3>4, <4>1, <4>2 DEF TailOK
    <3> QED BY <3>3, <3>4
  <2> QED BY <2>3, <2>4
<1>14. ASSUME NEW p \in Objects, p # o PROVE TailOK(r.tail, L, D2, pos, p)
  <2>1. r.tail[p] = s.tail[p] /\ TailOK(s.tail, L, D, pos, p)
    BY <1>1, <1>4, <1>14 DEF ListsOK
  <2>2. L[o] \cap L[p] = {}
    BY <1>14 DEF Placed
  <2> QED BY <2>1, <2>2 DEF TailOK
<1>15. ListsOK(r.next, r.tail, L, D2, pos)
  BY <1>11, <1>12, <1>13, <1>14 DEF ListsOK, ChainOK
<1> QED BY <1>6, <1>7, <1>15 DEF r

\* Whatever the lists, UnlinkNode returns lists.
LEMMA UnlinkType ==
  ASSUME NEW s \in ListStates, NEW o \in Objects, NEW node \in Nodes
  PROVE  UnlinkNode(s, o, node) \in ListStates
<1>1. PICK at : at = Walk(s, o)
  OBVIOUS
<1>2. N \in Nat /\ NULL \notin Nodes
  BY NodesFinite, SyncAssumption
<1>3. /\ s.next \in [Cells -> NodeOrNull] /\ s.tail \in [Objects -> NodeOrNull]
      /\ s.fault \in BOOLEAN
  BY DEF ListStates
<1>4. IsWalk(at, s, o)
  BY <1>1, <1>3, WalkDefined
<1> DEFINE steps == {k \in 1..N : at[k] = node}
           first == CHOOSE k \in steps : \A j \in steps : k <= j
<1>5. CASE steps = {}
  <2>1. UnlinkNode(s, o, node) = [s EXCEPT !.fault = TRUE]
    BY <1>1, <1>5 DEF UnlinkNode, N
  <2> HIDE DEF steps
  <2> QED BY <2>1 DEF ListStates
<1>6. CASE steps # {}
  <2>1. first \in steps
    <3>1. steps \subseteq Nat
      BY <1>2
    <3> HIDE DEF steps
    <3>2. \E k \in steps : \A j \in steps : k <= j
      BY <1>6, <3>1, LeastNatural
    <3> QED BY <3>2
  <2>2. first \in 1..N /\ at[first] = node
    BY <2>1
  <2>3. UnlinkNode(s, o, node) =
          [s EXCEPT
             !.next = [s.next EXCEPT ![at[first - 1]] = s.next[node]],
             !.tail[o] = IF s.tail[o] # node THEN s.tail[o]
                         ELSE IF first = 1 THEN NULL ELSE at[first - 1]]
    BY <1>1, <1>6 DEF UnlinkNode, N
  <2> HIDE DEF first, steps
  <2>4. first - 1 \in 0..N /\ (first = 1 \/ first - 1 \in 1..N)
    BY <1>2, <2>2
  <2>5. at[first - 1] # NULL /\ at[first - 1] \in Cells
    BY <1>2, <1>4, <2>2, <2>4 DEF IsWalk
  <2>6. first # 1 => at[first - 1] \in NodeOrNull
    <3> SUFFICES ASSUME first # 1 PROVE at[first - 1] \in NodeOrNull
      OBVIOUS
    <3> DEFINE k == first - 1
    <3>1. k \in 1..N /\ k - 1 \in 0..N
      BY <1>2, <2>4
    <3> HIDE DEF k
    <3>2. at[k - 1] \in Cells \cup {NULL}
      BY <1>4, <3>1 DEF IsWalk
    <3>3. at[k] \in NodeOrNull
      BY <1>3, <1>4, <3>1, <3>2 DEF IsWalk, NodeOrNull
    <3> QED BY <3>3 DEF k
  <2>7. [s.next EXCEPT ![at[first - 1]] = s.next[node]] \in [Cells -> NodeOrNull]
    BY <1>3 DEF Cells
  <2>8. [s.tail EXCEPT ![o] = IF s.tail[o] # node THEN s.tail[o]
                         ELSE IF first = 1 THEN NULL ELSE at[first - 1]]
          \in [Objects -> NodeOrNull]
    BY <1>3, <2>6 DEF NodeOrNull
  <2> QED BY <1>3, <2>3, <2>7, <2>8 DEF ListStates
<1> QED BY <1>5, <1>6

\* The positions of a call are nodes.
LEMMA CallNodes ==
  ASSUME NEW t \in Threads, NEW objs \in ObjectLists
  PROVE  /\ Len(objs) \in 0..MaxObjects /\ objs \in [1..Len(objs) -> Objects]
         /\ DOMAIN objs = 1..Len(objs)
         /\ \A i \in 1..Len(objs) : <<t, i>> \in Nodes /\ objs[i] \in Objects
<1>1. PICK n \in 0..MaxObjects : objs \in [1..n -> Objects]
  BY DEF ObjectLists
<1>2. n \in Nat /\ MaxObjects \in Nat
  BY SyncAssumption
<1>3. Len(objs) = n
  BY <1>1, <1>2
<1> QED BY <1>1, <1>2, <1>3 DEF Nodes

\* The loop of UnlinkAll.
LEMMA UnlinkAllRuns ==
  ASSUME NEW s \in ListStates, NEW t \in Threads, NEW objs \in ObjectLists
  PROVE  \E after \in [0..Len(objs) -> ListStates] :
           /\ after[0] = s
           /\ \A k \in 1..Len(objs) :
                after[k] = UnlinkNode(after[k - 1], objs[k], <<t, k>>)
           /\ UnlinkAll(s, t, objs) = after[Len(objs)]
<1> DEFINE n == Len(objs)
           F == [k \in 1..n |->
                   [r \in ListStates |-> UnlinkNode(r, objs[k], <<t, k>>)]]
           W(f) == f = [i \in 0..Len(objs) |->
                     IF i = 0 THEN s ELSE UnlinkNode(f[i - 1], objs[i], <<t, i>>)]
<1>1. n \in Nat /\ \A i \in 1..n : <<t, i>> \in Nodes /\ objs[i] \in Objects
  BY CallNodes, SyncAssumption
<1>2. F \in [1..n -> [ListStates -> ListStates]]
  BY <1>1, UnlinkType
<1>3. PICK f \in [0..n -> ListStates] :
        f[0] = s /\ \A k \in 1..n : f[k] = F[k][f[k - 1]]
  <2> HIDE DEF F, n
  <2>1. PICK f : Iterates(f, ListStates, s, n, F)
    BY <1>1, <1>2, Iteration
  <2> QED BY <2>1 DEF Iterates
<1>4. \A k \in 1..n : f[k] = UnlinkNode(f[k - 1], objs[k], <<t, k>>)
  <2>1. \A k \in 1..n : f[k - 1] \in ListStates
    BY <1>1, <1>3
  <2> QED BY <1>3, <2>1
<1>5. W(f)
  <2>1. \A k \in 0..n : k = 0 \/ k \in 1..n
    BY <1>1
  <2> HIDE DEF F
  <2> QED BY <1>3, <1>4, <2>1
<1> DEFINE u == CHOOSE f2 : W(f2)
<1>6. W(u) /\ UnlinkAll(s, t, objs) = u[Len(objs)]
  <2>1. W(u)
    BY <1>5, Zenon
  <2>2. UnlinkAll(s, t, objs) = u[Len(objs)]
    BY DEF UnlinkAll
  <2> QED BY <2>1, <2>2
<1> HIDE DEF u, F
<1>7. u[0] = s /\ \A k \in 1..n : u[k] = UnlinkNode(u[k - 1], objs[k], <<t, k>>)
  BY <1>1, <1>6
<1>8. \A k \in 0..n : u[k] \in ListStates
  <2> SUFFICES ASSUME NEW i \in 0..n, u[i] \notin ListStates PROVE FALSE
    OBVIOUS
  <2> DEFINE Bad == {k \in 0..n : u[k] \notin ListStates}
  <2>1. PICK k \in Bad : \A l \in Bad : k <= l
    <3>1. Bad \subseteq Nat /\ i \in Bad
      BY <1>1
    <3> HIDE DEF Bad
    <3> QED BY <3>1, LeastNatural
  <2>2. k \in 1..n /\ k - 1 \in 0..n /\ ~(k <= k - 1)
    BY <1>1, <1>7, <2>1
  <2>3. u[k - 1] \in ListStates
    BY <2>1, <2>2
  <2>4. u[k] \in ListStates
    BY <1>1, <1>7, <2>2, <2>3, UnlinkType
  <2> QED BY <2>1, <2>4
<1>9. u \in [0..n -> ListStates]
  BY <1>6, <1>8
<1> QED BY <1>6, <1>7, <1>9

\* The first k nodes of a call of thread t.
CallOf(t, k) == {<<t, i>> : i \in 1..k}

\* The nodes of the wait of t for objs are linked.
Linked(L, D, t, objs) == \A i \in 1..Len(objs) : <<t, i>> \in L[objs[i]] \ D

\* The lists r, with the nodes E taken out of s.
UnlinkedTo(r, s, L, E, pos) ==
  /\ r \in ListStates /\ r.fault = s.fault
  /\ Placed(L, E, pos)
  /\ ListsOK(r.next, r.tail, L, E, pos)

\* UnlinkAll takes the nodes of a wait out of their lists and finds each of them.
LEMMA UnlinkAllOK ==
  ASSUME NEW s \in ListStates, NEW L, NEW D, NEW pos, Placed(L, D, pos),
         ListsOK(s.next, s.tail, L, D, pos),
         NEW t \in Threads, NEW objs \in ObjectLists, Linked(L, D, t, objs)
  PROVE  UnlinkedTo(UnlinkAll(s, t, objs), s, L, D \cup CallOf(t, Len(objs)), pos)
<1> DEFINE n == Len(objs)
<1>1. n \in Nat /\ \A i \in 1..n : objs[i] \in Objects
  BY CallNodes, SyncAssumption
<1>2. PICK after \in [0..n -> ListStates] :
           /\ after[0] = s
           /\ \A k \in 1..n : after[k] = UnlinkNode(after[k - 1], objs[k], <<t, k>>)
           /\ UnlinkAll(s, t, objs) = after[n]
  BY UnlinkAllRuns
<1> DEFINE Good(k) == /\ after[k].fault = s.fault
                      /\ Placed(L, D \cup CallOf(t, k), pos)
                      /\ ListsOK(after[k].next, after[k].tail, L,
                                 D \cup CallOf(t, k), pos)
           Bad == {k \in 0..n : ~Good(k)}
<1>3. Good(0)
  <2>1. D \cup CallOf(t, 0) = D
    BY DEF CallOf
  <2> QED BY <1>2, <2>1
<1>4. ASSUME NEW k \in 1..n, Good(k - 1) PROVE Good(k)
  <2> DEFINE E == D \cup CallOf(t, k - 1)
             x == <<t, k>>
  <2>1. after[k - 1] \in ListStates /\ after[k] = UnlinkNode(after[k - 1], objs[k], x)
    BY <1>1, <1>2
  <2>2. x \in L[objs[k]] \ E
    <3>1. \A i \in 1..(k - 1) : i # k
      BY <1>1
    <3>2. x \notin CallOf(t, k - 1)
      BY <3>1 DEF CallOf
    <3> QED BY <3>2 DEF Linked
  <2>3. E \cup {x} = D \cup CallOf(t, k)
    <3>1. 1..k = 1..(k - 1) \cup {k}
      BY <1>1
    <3>2. CallOf(t, k) = CallOf(t, k - 1) \cup {x}
      BY <3>1 DEF CallOf
    <3> QED BY <3>2
  <2>4. Placed(L, E, pos) /\ ListsOK(after[k - 1].next, after[k - 1].tail, L, E, pos)
    BY <1>4
  <2> HIDE DEF E, x
  <2>5. /\ after[k].fault = after[k - 1].fault
        /\ Placed(L, E \cup {x}, pos)
        /\ ListsOK(after[k].next, after[k].tail, L, E \cup {x}, pos)
    <3>1. PICK b \in ListStates, p \in Objects : b = after[k - 1] /\ p = objs[k]
      BY <1>1, <2>1
    <3>2. Placed(L, E, pos) /\ ListsOK(b.next, b.tail, L, E, pos) /\ x \in L[p] \ E
      BY <2>2, <2>4, <3>1
    <3>3. /\ UnlinkNode(b, p, x).fault = b.fault
          /\ Placed(L, E \cup {x}, pos)
          /\ ListsOK(UnlinkNode(b, p, x).next, UnlinkNode(b, p, x).tail, L,
                     E \cup {x}, pos)
      BY <3>2, UnlinkOne
    <3> QED BY <2>1, <3>1, <3>3
  <2> QED BY <1>4, <2>3, <2>5
<1>5. Good(n)
  <2> SUFFICES ASSUME ~Good(n) PROVE FALSE
    OBVIOUS
  <2> HIDE DEF Good, n
  <2>1. PICK k \in Bad : \A l \in Bad : k <= l
    <3>1. Bad \subseteq Nat /\ n \in Bad
      BY <1>1
    <3> HIDE DEF Bad
    <3> QED BY <3>1, LeastNatural
  <2>2. k # 0
    BY <1>3, <2>1
  <2>3. k \in 1..n /\ k - 1 \in 0..n /\ ~(k <= k - 1)
    BY <1>1, <2>1, <2>2
  <2>4. Good(k - 1)
    BY <2>1, <2>3
  <2> QED BY <1>4, <2>1, <2>3, <2>4
<1>6. after[n] \in ListStates
  BY <1>1, <1>2
<1> QED BY <1>2, <1>5, <1>6 DEF UnlinkedTo

-----------------------------------------------------------------------------
(* Linking.                                                                *)

\* LinkNode leaves pointers to nodes.
LEMMA LinkType ==
  ASSUME NEW s \in ListStates, NEW o \in Objects, NEW node \in Nodes
  PROVE  LET c == IF s.tail[o] = NULL THEN o ELSE s.tail[o]
             r == LinkNode(s, o, node)
         IN  /\ c \in Cells
             /\ r = [next |-> [s.next EXCEPT ![node] = NULL, ![c] = node],
                     tail |-> [s.tail EXCEPT ![o] = node],
                     fault |-> s.fault]
             /\ r \in ListStates
<1> DEFINE c == IF s.tail[o] = NULL THEN o ELSE s.tail[o]
           r == LinkNode(s, o, node)
<1>1. /\ s.next \in [Cells -> NodeOrNull] /\ s.tail \in [Objects -> NodeOrNull]
      /\ s.fault \in BOOLEAN
  BY DEF ListStates
<1>2. c \in Cells
  BY <1>1 DEF Cells, NodeOrNull
<1>3. r = [s EXCEPT !.next = [s.next EXCEPT ![node] = NULL, ![c] = node],
                    !.tail[o] = node]
  BY DEF LinkNode
<1> HIDE DEF c, r
<1>4. r = [next |-> [s.next EXCEPT ![node] = NULL, ![c] = node],
           tail |-> [s.tail EXCEPT ![o] = node],
           fault |-> s.fault]
  BY <1>3 DEF ListStates
<1>5. [s.next EXCEPT ![node] = NULL, ![c] = node] \in [Cells -> NodeOrNull]
  BY <1>1 DEF NodeOrNull
<1>6. [s.tail EXCEPT ![o] = node] \in [Objects -> NodeOrNull]
  BY <1>1 DEF NodeOrNull
<1>7. r \in ListStates
  BY <1>1, <1>4, <1>5, <1>6 DEF ListStates
<1> QED BY <1>2, <1>4, <1>7 DEF c, r

\* LinkNode puts its node behind all others, and leaves all lists sound.
LEMMA LinkOne ==
  ASSUME NEW s \in ListStates, NEW L, NEW pos, Placed(L, {}, pos),
         ListsOK(s.next, s.tail, L, {}, pos),
         NEW o \in Objects, NEW node \in Nodes,
         \A p \in Objects : node \notin L[p],
         \A m \in L[o] : pos[m] < pos[node]
  PROVE  LET r  == LinkNode(s, o, node)
             L2 == [L EXCEPT ![o] = L[o] \cup {node}]
         IN  /\ r \in ListStates /\ r.fault = s.fault
             /\ Placed(L2, {}, pos)
             /\ ListsOK(r.next, r.tail, L2, {}, pos)
<1> DEFINE c  == IF s.tail[o] = NULL THEN o ELSE s.tail[o]
           r  == LinkNode(s, o, node)
           L2 == [L EXCEPT ![o] = L[o] \cup {node}]
<1>1. /\ c \in Cells
      /\ r = [next |-> [s.next EXCEPT ![node] = NULL, ![c] = node],
              tail |-> [s.tail EXCEPT ![o] = node],
              fault |-> s.fault]
      /\ r \in ListStates
  BY LinkType
<1> HIDE DEF r
<1>2. /\ o \notin Nodes /\ o # NULL /\ NULL \notin Nodes
      /\ \A p \in Objects : p \notin Nodes /\ p # NULL
  BY SyncAssumption
<1>3. /\ \A p \in Objects : L[p] \subseteq Nodes
      /\ pos \in [Nodes -> Nat] /\ L \in [Objects -> SUBSET Nodes]
      /\ \A m \in Nodes : pos[m] \in Nat
  BY DEF Placed
<1>4. /\ s.next \in [Cells -> NodeOrNull] /\ s.tail \in [Objects -> NodeOrNull]
  BY DEF ListStates
<1>5. TailOK(s.tail, L, {}, pos, o) /\ ChainOK(s.next, L, {}, pos, o)
  BY DEF ListsOK
<1>6. c \in L[o] \cup {o} /\ c # node
  BY <1>2, <1>5 DEF TailOK
<1>7. \A m \in L[o] : c # o /\ pos[m] <= pos[c]
  BY <1>2, <1>3, <1>5 DEF TailOK
<1> HIDE DEF c
<1>8. node \in Cells /\ node # NULL
  BY <1>2 DEF Cells
<1>9. \A d \in Cells : r.next[d] =
        IF d = c THEN node ELSE IF d = node THEN NULL ELSE s.next[d]
  BY <1>1, <1>4, <1>6, <1>8
<1>10. \A p \in Objects : L2[p] = IF p = o THEN L[o] \cup {node} ELSE L[p]
  BY <1>3
<1>11. Placed(L2, {}, pos)
  <2>1. L2 \in [Objects -> SUBSET Nodes]
    BY <1>3
  <2>2. \A p, q \in Objects : p # q => L2[p] \cap L2[q] = {}
    BY <1>10 DEF Placed
  <2>3. ASSUME NEW p \in Objects, NEW m \in L2[p], NEW k \in L2[p], pos[m] = pos[k]
        PROVE  m = k
    BY <1>3, <1>10, <2>3 DEF Placed
  <2> HIDE DEF L2
  <2> QED BY <1>3, <2>1, <2>2, <2>3 DEF Placed
<1>12. ASSUME NEW d \in L[o] \cup {node, o} PROVE Follows(r.next, L2, {}, pos, o, d)
  <2>0. L2[o] = L[o] \cup {node}
    BY <1>10
  <2> HIDE DEF L2
  <2>1. CASE d = node
    <3>1. r.next[d] = NULL
      BY <1>6, <1>8, <1>9, <2>1
    <3>2. \A m \in L2[o] : ~Before(pos, d, m)
      BY <1>2, <1>3, <2>0, <2>1 DEF Before
    <3> QED BY <3>1, <3>2 DEF Follows
  <2>2. CASE d = c
    <3>1. r.next[d] = node
      BY <1>1, <1>9, <2>2
    <3>2. Before(pos, d, node)
      BY <1>6, <2>2 DEF Before
    <3>3. ASSUME NEW m \in L2[o], Before(pos, d, m) PROVE m = node
      <4> SUFFICES ASSUME m \in L[o] PROVE FALSE
        BY <2>0
      <4>1. c \in L[o] /\ pos[m] <= pos[c]
        BY <1>6, <1>7
      <4>2. pos[c] < pos[m] /\ pos[c] \in Nat /\ pos[m] \in Nat
        BY <1>2, <1>3, <2>2, <3>3, <4>1 DEF Before
      <4> QED BY <4>1, <4>2
    <3>4. pos[node] <= pos[node]
      BY <1>3
    <3> QED BY <1>8, <2>0, <3>1, <3>2, <3>3, <3>4 DEF Follows
  <2>3. CASE d # node /\ d # c
    <3>1. d \in Cells /\ d \in L[o] \cup {o}
      BY <1>3, <2>3 DEF Cells
    <3>2. r.next[d] = s.next[d] /\ Follows(s.next, L, {}, pos, o, d)
      BY <1>5, <1>9, <2>3, <3>1 DEF ChainOK
    <3>3. c \in L[o] /\ Before(pos, d, c)
      <4>1. CASE d = o
        BY <1>6, <2>3, <4>1 DEF Before
      <4>2. CASE d \in L[o]
        <5>1. c \in L[o] /\ pos[d] <= pos[c]
          BY <1>6, <1>7, <4>2
        <5>2. pos[d] # pos[c] /\ pos[d] \in Nat /\ pos[c] \in Nat
          BY <1>3, <2>3, <4>2, <5>1 DEF Placed
        <5> QED BY <5>1, <5>2 DEF Before
      <4> QED BY <3>1, <4>1, <4>2
    <3>4. s.next[d] # NULL /\ s.next[d] \in L[o]
      BY <3>2, <3>3 DEF Follows
    <3>5. pos[s.next[d]] <= pos[node]
      BY <1>3, <3>4
    <3> QED BY <2>0, <3>2, <3>4, <3>5 DEF Follows
  <2> QED BY <2>1, <2>2, <2>3
<1>13. ASSUME NEW p \in Objects, p # o, NEW d \in L[p] \cup {p}
       PROVE  Follows(r.next, L2, {}, pos, p, d)
  <2>1. L[o] \cap L[p] = {} /\ L2[p] = L[p]
    BY <1>10, <1>13 DEF Placed
  <2> HIDE DEF L2
  <2>2. d # c /\ d # node /\ d \in Cells
    BY <1>2, <1>3, <1>6, <1>13, <2>1 DEF Cells
  <2>3. r.next[d] = s.next[d] /\ Follows(s.next, L, {}, pos, p, d)
    BY <1>9, <2>2 DEF ListsOK, ChainOK
  <2> QED BY <2>1, <2>3 DEF Follows
<1>14. ASSUME NEW p \in Objects PROVE TailOK(r.tail, L2, {}, pos, p)
  <2>1. CASE p = o
    <3>1. r.tail[o] = node /\ L2[o] = L[o] \cup {node}
      BY <1>1, <1>4, <1>10
    <3>2. \A m \in L[o] \cup {node} : pos[m] <= pos[node]
      BY <1>3
    <3> HIDE DEF L2
    <3> QED BY <1>8, <2>1, <3>1, <3>2 DEF TailOK
  <2>2. CASE p # o
    <3>1. r.tail[p] = s.tail[p] /\ L2[p] = L[p] /\ TailOK(s.tail, L, {}, pos, p)
      BY <1>1, <1>4, <1>10, <2>2 DEF ListsOK
    <3> HIDE DEF L2
    <3> QED BY <3>1 DEF TailOK
  <2> QED BY <2>1, <2>2
<1>15. ListsOK(r.next, r.tail, L2, {}, pos)
  <2>1. ASSUME NEW p \in Objects PROVE ChainOK(r.next, L2, {}, pos, p)
    <3>1. CASE p = o
      <4>1. L2[p] = L[o] \cup {node}
        BY <1>10, <3>1
      <4> HIDE DEF L2
      <4> QED BY <1>12, <3>1, <4>1 DEF ChainOK
    <3>2. CASE p # o
      <4>1. L2[p] = L[p]
        BY <1>10, <3>2
      <4> HIDE DEF L2
      <4> QED BY <1>13, <3>2, <4>1 DEF ChainOK
    <3> QED BY <3>1, <3>2
  <2> HIDE DEF L2
  <2> QED BY <1>14, <2>1 DEF ListsOK
<1>16. r.fault = s.fault
  BY <1>1
<1> QED BY <1>1, <1>11, <1>15, <1>16 DEF r

\* The loop of LinkAll.
LEMMA LinkAllRuns ==
  ASSUME NEW s \in ListStates, NEW t \in Threads, NEW objs \in ObjectLists
  PROVE  \E after \in [0..Len(objs) -> ListStates] :
           /\ after[0] = s
           /\ \A k \in 1..Len(objs) :
                after[k] = LinkNode(after[k - 1], objs[k], <<t, k>>)
           /\ LinkAll(s, t, objs) = after[Len(objs)]
<1> DEFINE n == Len(objs)
           F == [k \in 1..n |->
                   [r \in ListStates |-> LinkNode(r, objs[k], <<t, k>>)]]
           W(f) == f = [i \in 0..Len(objs) |->
                     IF i = 0 THEN s ELSE LinkNode(f[i - 1], objs[i], <<t, i>>)]
<1>1. n \in Nat /\ \A i \in 1..n : <<t, i>> \in Nodes /\ objs[i] \in Objects
  BY CallNodes, SyncAssumption
<1>0. \A r \in ListStates, o \in Objects, x \in Nodes : LinkNode(r, o, x) \in ListStates
  BY LinkType
<1>2. F \in [1..n -> [ListStates -> ListStates]]
  BY <1>0, <1>1
<1>3. PICK f \in [0..n -> ListStates] :
        f[0] = s /\ \A k \in 1..n : f[k] = F[k][f[k - 1]]
  <2> HIDE DEF F, n
  <2>1. PICK f : Iterates(f, ListStates, s, n, F)
    BY <1>1, <1>2, Iteration
  <2> QED BY <2>1 DEF Iterates
<1>4. \A k \in 1..n : f[k] = LinkNode(f[k - 1], objs[k], <<t, k>>)
  <2>1. \A k \in 1..n : f[k - 1] \in ListStates
    BY <1>1, <1>3
  <2> QED BY <1>3, <2>1
<1>5. W(f)
  <2>1. \A k \in 0..n : k = 0 \/ k \in 1..n
    BY <1>1
  <2> HIDE DEF F
  <2> QED BY <1>3, <1>4, <2>1
<1> DEFINE u == CHOOSE f2 : W(f2)
<1>6. W(u) /\ LinkAll(s, t, objs) = u[Len(objs)]
  <2>1. W(u)
    BY <1>5, Zenon
  <2>2. LinkAll(s, t, objs) = u[Len(objs)]
    BY DEF LinkAll
  <2> QED BY <2>1, <2>2
<1> HIDE DEF u, F
<1>7. u[0] = s /\ \A k \in 1..n : u[k] = LinkNode(u[k - 1], objs[k], <<t, k>>)
  BY <1>1, <1>6
<1>8. \A k \in 0..n : u[k] \in ListStates
  <2> SUFFICES ASSUME NEW i \in 0..n, u[i] \notin ListStates PROVE FALSE
    OBVIOUS
  <2> DEFINE Bad == {k \in 0..n : u[k] \notin ListStates}
  <2>1. PICK k \in Bad : \A l \in Bad : k <= l
    <3>1. Bad \subseteq Nat /\ i \in Bad
      BY <1>1
    <3> HIDE DEF Bad
    <3> QED BY <3>1, LeastNatural
  <2>2. k \in 1..n /\ k - 1 \in 0..n /\ ~(k <= k - 1)
    BY <1>1, <1>7, <2>1
  <2>3. u[k - 1] \in ListStates
    BY <2>1, <2>2
  <2>4. u[k] \in ListStates
    BY <1>0, <1>1, <1>7, <2>2, <2>3
  <2> QED BY <2>1, <2>4
<1>9. u \in [0..n -> ListStates]
  BY <1>6, <1>8
<1> QED BY <1>6, <1>7, <1>9

\* The lists L with the first k nodes of a call of t.
Joined(L, t, objs, k) ==
  [o \in Objects |-> L[o] \cup {x \in CallOf(t, k) : objs[x[2]] = o}]

\* LinkAll puts the nodes of a call behind all others of their lists.
LEMMA LinkAllOK ==
  ASSUME NEW s \in ListStates, NEW L, NEW pos, Placed(L, {}, pos),
         ListsOK(s.next, s.tail, L, {}, pos),
         NEW t \in Threads, NEW objs \in ObjectLists,
         \A o \in Objects : \A m \in L[o] :
            m[1] # t /\ \A i \in 1..Len(objs) : pos[m] < pos[<<t, i>>],
         \A i, j \in 1..Len(objs) : i < j => pos[<<t, i>>] < pos[<<t, j>>]
  PROVE  LET r  == LinkAll(s, t, objs)
             L2 == Joined(L, t, objs, Len(objs))
         IN  /\ r \in ListStates /\ r.fault = s.fault
             /\ Placed(L2, {}, pos)
             /\ ListsOK(r.next, r.tail, L2, {}, pos)
<1> DEFINE n == Len(objs)
<1>1. n \in Nat /\ \A i \in 1..n : objs[i] \in Objects /\ <<t, i>> \in Nodes
  BY CallNodes, SyncAssumption
<1>2. PICK after \in [0..n -> ListStates] :
           /\ after[0] = s
           /\ \A k \in 1..n : after[k] = LinkNode(after[k - 1], objs[k], <<t, k>>)
           /\ LinkAll(s, t, objs) = after[n]
  BY LinkAllRuns
<1>3. L \in [Objects -> SUBSET Nodes]
  BY DEF Placed
<1> DEFINE Good(k) == /\ after[k].fault = s.fault
                      /\ Placed(Joined(L, t, objs, k), {}, pos)
                      /\ ListsOK(after[k].next, after[k].tail,
                                 Joined(L, t, objs, k), {}, pos)
           Bad == {k \in 0..n : ~Good(k)}
<1>4. Good(0)
  <2>1. CallOf(t, 0) = {}
    BY DEF CallOf
  <2>2. Joined(L, t, objs, 0) = L
    BY <1>3, <2>1 DEF Joined
  <2> QED BY <1>2, <2>2
<1>5. ASSUME NEW k \in 1..n, Good(k - 1) PROVE Good(k)
  <2> DEFINE x == <<t, k>>
  <2>0. PICK M : M = Joined(L, t, objs, k - 1)
    OBVIOUS
  <2>1. PICK b \in ListStates, p \in Objects : b = after[k - 1] /\ p = objs[k]
    <3>1. after[k - 1] \in ListStates
      BY <1>1, <1>2
    <3> QED BY <1>1, <3>1
  <2>2. Placed(M, {}, pos) /\ ListsOK(b.next, b.tail, M, {}, pos) /\ b.fault = s.fault
    BY <1>5, <2>0, <2>1
  <2>3. \A o \in Objects : M[o] = L[o] \cup {y \in CallOf(t, k - 1) : objs[y[2]] = o}
    BY <2>0 DEF Joined
  <2>4. \A y \in CallOf(t, k - 1) : \E i \in 1..n : i < k /\ y = <<t, i>>
    BY <1>1 DEF CallOf
  <2>5. x \in Nodes /\ x[1] = t /\ x[2] = k
    BY <1>1
  <2>6. \A o \in Objects : x \notin M[o]
    <3>1. x \notin CallOf(t, k - 1)
      BY <1>1, <2>4
    <3> QED BY <2>3, <2>5, <3>1
  <2>7. \A m \in M[p] : pos[m] < pos[x]
    <3> TAKE m \in M[p]
    <3>1. CASE m \in L[p]
      BY <3>1
    <3>2. CASE m \in CallOf(t, k - 1)
      BY <2>4, <3>2
    <3> QED BY <2>3, <3>1, <3>2
  <2>8. Joined(L, t, objs, k) = [M EXCEPT ![p] = M[p] \cup {x}]
    <3>1. CallOf(t, k) = CallOf(t, k - 1) \cup {x}
      <4>1. 1..k = 1..(k - 1) \cup {k}
        BY <1>1
      <4> QED BY <4>1 DEF CallOf
    <3>2. \A o \in Objects : {y \in CallOf(t, k) : objs[y[2]] = o} =
             IF o = p THEN {y \in CallOf(t, k - 1) : objs[y[2]] = o} \cup {x}
             ELSE {y \in CallOf(t, k - 1) : objs[y[2]] = o}
      BY <2>1, <2>5, <3>1
    <3>3. \A o \in Objects : Joined(L, t, objs, k)[o] =
             IF o = p THEN M[p] \cup {x} ELSE M[o]
      BY <2>3, <3>2 DEF Joined
    <3>4. Joined(L, t, objs, k) = [o \in Objects |-> Joined(L, t, objs, k)[o]]
      BY DEF Joined
    <3>5. M \in [Objects -> SUBSET Nodes]
      BY <2>2 DEF Placed
    <3> HIDE DEF x
    <3>6. [M EXCEPT ![p] = M[p] \cup {x}] =
            [o \in Objects |-> IF o = p THEN M[p] \cup {x} ELSE M[o]]
      BY <3>5
    <3> QED BY <3>3, <3>4, <3>6
  <2> HIDE DEF x
  <2>9. /\ LinkNode(b, p, x).fault = b.fault
        /\ Placed([M EXCEPT ![p] = M[p] \cup {x}], {}, pos)
        /\ ListsOK(LinkNode(b, p, x).next, LinkNode(b, p, x).tail,
                   [M EXCEPT ![p] = M[p] \cup {x}], {}, pos)
    BY <2>2, <2>5, <2>6, <2>7, LinkOne
  <2>10. after[k] = LinkNode(b, p, x)
    BY <1>2, <2>1 DEF x
  <2> QED BY <2>2, <2>8, <2>9, <2>10
<1>6. Good(n)
  <2> SUFFICES ASSUME ~Good(n) PROVE FALSE
    OBVIOUS
  <2> HIDE DEF Good, n
  <2>1. PICK k \in Bad : \A l \in Bad : k <= l
    <3>1. Bad \subseteq Nat /\ n \in Bad
      BY <1>1
    <3> HIDE DEF Bad
    <3> QED BY <3>1, LeastNatural
  <2>2. k # 0
    BY <1>4, <2>1
  <2>3. k \in 1..n /\ k - 1 \in 0..n /\ ~(k <= k - 1)
    BY <1>1, <2>1, <2>2
  <2>4. Good(k - 1)
    BY <2>1, <2>3
  <2> QED BY <1>5, <2>1, <2>3, <2>4
<1>7. after[n] \in ListStates
  BY <1>1, <1>2
<1> QED BY <1>2, <1>6, <1>7

-----------------------------------------------------------------------------
(* The fields of threads.                                                  *)

\* How the fields of a thread that belong to its wait fit together.
FieldsOK(f) ==
  /\ f.m_state = "wait" <=> f.m_wait_queue # "none"
  /\ f.m_wait_queue # "sync" => f.m_objects = << >> /\ ~f.m_cancellable
  /\ f.m_task => f.m_hardware_timer
  /\ f.m_hardware_timer => f.m_state = "wait"
  /\ f.m_wait_queue = "sync" => f.m_cancellable /\ ~f.m_wait_cancelled
  /\ f.m_wait_queue = "sleep" => f.m_task
  /\ f.m_state = "wait" => ~f.m_termination_requested

Results == {"Success", "TimedOut", "Cancelled", "TerminationRequested"}

GoodFields == {f \in ThreadFields : FieldsOK(f)}

\* A thread after its wait ended: what EndWait and the code around it leave.
Ended(f, result, index, task) ==
  [m_state |-> "run", m_wait_queue |-> "none", m_objects |-> << >>,
   m_hardware_timer |-> FALSE, m_task |-> task,
   m_wait_result |-> result, m_synced_index |-> index,
   m_cancellable |-> FALSE, m_wait_cancelled |-> f.m_wait_cancelled,
   m_termination_requested |-> f.m_termination_requested]

Released(f, o) == Ended(f, "Success", SyncIndex(f.m_objects, o), FALSE)

\* A call may name no object.
LEMMA EmptyList == << >> \in ObjectLists
<1>1. << >> \in [1..0 -> Objects] /\ 0 \in 0..MaxObjects
  BY SyncAssumption
<1> QED BY <1>1 DEF ObjectLists

\* SyncIndex is the first position of the object in the call.
LEMMA IndexInCall ==
  ASSUME NEW objs \in ObjectLists, NEW o
  PROVE  /\ SyncIndex(objs, o) \in 0..MaxObjects
         /\ (\E i \in DOMAIN objs : objs[i] = o) =>
               /\ SyncIndex(objs, o) \in DOMAIN objs
               /\ objs[SyncIndex(objs, o)] = o
               /\ \A j \in DOMAIN objs : j < SyncIndex(objs, o) => objs[j] # o
<1> DEFINE at == {i \in DOMAIN objs : objs[i] = o}
<1>1. PICK n \in 0..MaxObjects : objs \in [1..n -> Objects]
  BY DEF ObjectLists
<1>2. MaxObjects \in Nat /\ n \in Nat /\ DOMAIN objs = 1..n
  BY <1>1, SyncAssumption
<1>3. CASE at = {}
  <2>1. SyncIndex(objs, o) = 0
    BY <1>3 DEF SyncIndex
  <2> QED BY <1>2, <1>3, <2>1
<1>4. CASE at # {}
  <2> DEFINE x == CHOOSE i \in at : \A j \in at : i <= j
  <2>1. at \subseteq Nat
    BY <1>2
  <2>2. x \in at /\ \A j \in at : x <= j
    <3> HIDE DEF at
    <3>1. \E i \in at : \A j \in at : i <= j
      BY <1>4, <2>1, LeastNatural
    <3> QED BY <3>1
  <2>3. SyncIndex(objs, o) = x
    BY <1>4 DEF SyncIndex
  <2> HIDE DEF x
  <2>4. x \in 1..n /\ objs[x] = o
    BY <1>2, <2>2
  <2>5. \A j \in DOMAIN objs : j < x => objs[j] # o
    BY <1>2, <2>2, <2>4
  <2> QED BY <1>2, <2>3, <2>4, <2>5
<1> QED BY <1>3, <1>4

\* The fields of a thread whose wait ended are fields.
LEMMA EndedType ==
  ASSUME NEW f \in ThreadFields, NEW index \in 0..MaxObjects, NEW task \in BOOLEAN,
         NEW result \in Results
  PROVE  Ended(f, result, index, task) \in ThreadFields
BY EmptyList DEF Ended, ThreadFields, Results

\* Records with equal fields are equal.
LEMMA SameFields ==
  ASSUME NEW f \in ThreadFields, NEW g \in ThreadFields,
         f.m_state = g.m_state, f.m_wait_queue = g.m_wait_queue,
         f.m_objects = g.m_objects, f.m_hardware_timer = g.m_hardware_timer,
         f.m_task = g.m_task, f.m_wait_result = g.m_wait_result,
         f.m_synced_index = g.m_synced_index, f.m_cancellable = g.m_cancellable,
         f.m_wait_cancelled = g.m_wait_cancelled,
         f.m_termination_requested = g.m_termination_requested
  PROVE  f = g
BY DEF ThreadFields

\* What EndWait leaves in the fields g of a thread whose fields were f.
EndedFields(g, f, result, cancel) ==
  /\ g.m_state = "run" /\ g.m_wait_queue = "none" /\ g.m_objects = << >>
  /\ g.m_hardware_timer = FALSE /\ g.m_wait_result = result
  /\ g.m_synced_index = f.m_synced_index
  /\ g.m_cancellable = f.m_cancellable
  /\ g.m_wait_cancelled = f.m_wait_cancelled
  /\ g.m_termination_requested = f.m_termination_requested
  /\ g.m_task = (f.m_task /\ ~(cancel /\ f.m_hardware_timer))
  /\ g \in ThreadFields

\* EndWait field by field.
LEMMA EndWaitIs ==
  ASSUME NEW f \in ThreadFields, NEW cancel \in BOOLEAN, NEW result \in Results
  PROVE  EndedFields(EndWait(f, result, cancel), f, result, cancel)
<1> PICK g : g = EndWait(f, result, cancel)
  OBVIOUS
<1>1. /\ g.m_state = "run" /\ g.m_wait_queue = "none" /\ g.m_objects = << >>
      /\ g.m_hardware_timer = FALSE /\ g.m_wait_result = result
      /\ g.m_synced_index = f.m_synced_index
      /\ g.m_cancellable = f.m_cancellable
      /\ g.m_wait_cancelled = f.m_wait_cancelled
      /\ g.m_termination_requested = f.m_termination_requested
  BY DEF ThreadFields, EndWait
<1>2. g.m_task = (f.m_task /\ ~(cancel /\ f.m_hardware_timer))
  BY DEF ThreadFields, EndWait
<1>3. g \in ThreadFields
  BY EmptyList DEF ThreadFields, EndWait, Results
<1> QED BY <1>1, <1>2, <1>3 DEF EndedFields

\* A thread released by a signal.
EndedBySignal(f, o) ==
  [EndWait(f, "Success", TRUE) EXCEPT
     !.m_synced_index = SyncIndex(f.m_objects, o),
     !.m_cancellable = FALSE]

\* NotifyAvailable of the wait queue leaves the fields that Released names.
LEMMA ReleasedIs ==
  ASSUME NEW f \in GoodFields, NEW o
  PROVE  /\ EndedBySignal(f, o) = Released(f, o)
         /\ Released(f, o) \in GoodFields
<1>1. f \in ThreadFields /\ f.m_objects \in ObjectLists
  BY DEF ThreadFields, GoodFields
<1>2. SyncIndex(f.m_objects, o) \in 0..MaxObjects
  BY <1>1, IndexInCall
<1>3. PICK x \in 0..MaxObjects : x = SyncIndex(f.m_objects, o)
  BY <1>2
<1>4. ~(f.m_task /\ ~(TRUE /\ f.m_hardware_timer))
  <2>1. f.m_task => f.m_hardware_timer
    BY DEF GoodFields, FieldsOK
  <2> QED BY <2>1
<1>5. PICK e : e = EndWait(f, "Success", TRUE)
  OBVIOUS
<1>6. /\ e.m_state = "run" /\ e.m_wait_queue = "none" /\ e.m_objects = << >>
      /\ e.m_hardware_timer = FALSE /\ e.m_wait_result = "Success"
      /\ e.m_wait_cancelled = f.m_wait_cancelled
      /\ e.m_termination_requested = f.m_termination_requested
      /\ e.m_task = (f.m_task /\ ~(TRUE /\ f.m_hardware_timer))
      /\ e \in ThreadFields
  <2>1. "Success" \in Results
    BY DEF Results
  <2>2. EndedFields(e, f, "Success", TRUE)
    BY <1>1, <1>5, <2>1, EndWaitIs
  <2> QED BY <2>2 DEF EndedFields
<1>7. PICK g : g = [e EXCEPT !.m_synced_index = x, !.m_cancellable = FALSE]
  OBVIOUS
<1>8. g \in ThreadFields
  BY <1>6, <1>7 DEF ThreadFields
<1>9. /\ g.m_state = e.m_state /\ g.m_wait_queue = e.m_wait_queue
      /\ g.m_objects = e.m_objects /\ g.m_hardware_timer = e.m_hardware_timer
      /\ g.m_task = e.m_task /\ g.m_wait_result = e.m_wait_result
      /\ g.m_synced_index = x /\ g.m_cancellable = FALSE
      /\ g.m_wait_cancelled = e.m_wait_cancelled
      /\ g.m_termination_requested = e.m_termination_requested
  BY <1>6, <1>7 DEF ThreadFields
<1>10. PICK h : h = Ended(f, "Success", x, FALSE)
  OBVIOUS
<1>11. h \in ThreadFields
  BY <1>1, <1>10, EndedType DEF Results
<1>12. FieldsOK(h)
  BY <1>10 DEF FieldsOK, Ended
<1>13. g = h
  <2>1. /\ h.m_state = "run" /\ h.m_wait_queue = "none" /\ h.m_objects = << >>
        /\ h.m_hardware_timer = FALSE /\ h.m_wait_result = "Success"
        /\ h.m_wait_cancelled = f.m_wait_cancelled
        /\ h.m_termination_requested = f.m_termination_requested
        /\ h.m_task = FALSE /\ h.m_synced_index = x /\ h.m_cancellable = FALSE
    BY <1>10 DEF Ended
  <2>2. g.m_task = FALSE
    <3>1. g.m_task \in BOOLEAN
      BY <1>8 DEF ThreadFields
    <3>2. ~g.m_task
      BY <1>4, <1>6, <1>9
    <3> QED BY <3>1, <3>2
  <2> QED BY <1>6, <1>8, <1>9, <1>11, <2>1, <2>2, SameFields
<1> QED BY <1>3, <1>5, <1>7, <1>10, <1>11, <1>12, <1>13 DEF Released, GoodFields, EndedBySignal

-----------------------------------------------------------------------------
(* NotifyAvailable.                                                        *)

\* The nodes of the waits in th that name o.
OnList(th, o) ==
  {n \in Nodes : /\ th[n[1]].m_wait_queue = "sync"
                 /\ n[2] \in DOMAIN th[n[1]].m_objects
                 /\ th[n[1]].m_objects[n[2]] = o}

OnLists(th) == [o \in Objects |-> OnList(th, o)]

\* The nodes of the threads in E.
NodesOf(th, E) == {n \in Nodes : n[1] \in E /\ n[2] \in DOMAIN th[n[1]].m_objects}

\* The threads that wait for o, and th after those in E were released.
WaitersOf(th, o) == {t \in Threads : \E n \in OnList(th, o) : n[1] = t}

Releasing(th, E, o) ==
  [t \in Threads |-> IF t \in E THEN Released(th[t], o) ELSE th[t]]

LoopStates == [cur : NodeOrNull, lists : ListStates, thread : [Threads -> GoodFields]]

\* One round of the loop.
LoopStep(s, o) ==
  IF s.cur = NULL THEN s
  ELSE LET r == NotifyThread(s, s.cur[1], o)
       IN  [r EXCEPT !.cur = r.lists.next[s.cur]]

\* UnlinkAll leaves pointers to nodes.
LEMMA UnlinkAllType ==
  ASSUME NEW s \in ListStates, NEW t \in Threads, NEW objs \in ObjectLists
  PROVE  UnlinkAll(s, t, objs) \in ListStates
<1>1. Len(objs) \in Nat
  BY CallNodes, SyncAssumption
<1>2. Len(objs) \in 0..Len(objs)
  BY <1>1
<1> QED BY <1>2, UnlinkAllRuns

\* Notifying a thread that waits for objects.
Notified(s, t, o) ==
  [cur |-> s.cur,
   lists |-> UnlinkAll(s.lists, t, s.thread[t].m_objects),
   thread |-> [s.thread EXCEPT ![t] = Released(s.thread[t], o)]]

\* A thread that waits for objects is taken out of all lists and released.
LEMMA NotifyWaiter ==
  ASSUME NEW s \in LoopStates, NEW t \in Threads, NEW o,
         s.thread[t].m_wait_queue = "sync"
  PROVE  NotifyThread(s, t, o) = Notified(s, t, o)
<1>1. s.thread[t] \in GoodFields /\ s.thread \in [Threads -> GoodFields]
  BY DEF LoopStates
<1>2. s.thread[t].m_state = "wait"
  BY <1>1 DEF GoodFields, FieldsOK
<1>3. PICK e, u : /\ e = EndedBySignal(s.thread[t], o)
                  /\ u = UnlinkAll(s.lists, t, s.thread[t].m_objects)
  OBVIOUS
<1>4. e = Released(s.thread[t], o) /\ e \in GoodFields
  BY <1>1, <1>3, ReleasedIs
<1>5. u \in ListStates
  BY <1>1, <1>3, UnlinkAllType DEF LoopStates, GoodFields, ThreadFields
<1>6. NotifyThread(s, t, o) = [s EXCEPT !.lists = u, !.thread[t] = e]
  BY <1>2, <1>3 DEF NotifyThread, EndedBySignal
<1>7. [s EXCEPT !.lists = u, !.thread[t] = e] =
        [cur |-> s.cur, lists |-> u, thread |-> [s.thread EXCEPT ![t] = e]]
  <2>1. [s EXCEPT !.lists = u, !.thread[t] = e] =
          [s EXCEPT !.lists = u, !.thread = [s.thread EXCEPT ![t] = e]]
    BY DEF LoopStates
  <2>2. PICK h \in [Threads -> GoodFields] : h = [s.thread EXCEPT ![t] = e]
    BY <1>1, <1>4
  <2>3. [s EXCEPT !.lists = u, !.thread = h] =
          [cur |-> s.cur, lists |-> u, thread |-> h]
    <3>1. PICK g : g = [s EXCEPT !.lists = u, !.thread = h]
      OBVIOUS
    <3>2. g \in LoopStates /\ g.cur = s.cur /\ g.lists = u /\ g.thread = h
      BY <1>5, <3>1 DEF LoopStates
    <3>3. g = [cur |-> g.cur, lists |-> g.lists, thread |-> g.thread]
      BY <3>2 DEF LoopStates
    <3> QED BY <3>1, <3>2, <3>3
  <2> QED BY <2>1, <2>2, <2>3
<1> QED BY <1>3, <1>4, <1>6, <1>7 DEF Notified

\* Notifying a thread that runs does nothing.
LEMMA NotifyOther ==
  ASSUME NEW s, NEW t, NEW o, s.thread[t].m_state = "run"
  PROVE  NotifyThread(s, t, o) = s
BY DEF NotifyThread

\* One round of the loop leaves pointers to nodes and fields that fit together.
LEMMA LoopType ==
  ASSUME NEW s \in LoopStates, NEW o \in Objects
  PROVE  LoopStep(s, o) \in LoopStates
<1>1. CASE s.cur = NULL
  BY <1>1 DEF LoopStep
<1>2. CASE s.cur # NULL
  <2>1. /\ s.cur \in Nodes /\ s.lists \in ListStates
        /\ s.thread \in [Threads -> GoodFields]
    BY <1>2 DEF LoopStates, NodeOrNull
  <2>2. PICK t \in Threads : t = s.cur[1]
    BY <2>1 DEF Nodes
  <2>3. PICK r : r = NotifyThread(s, t, o)
    OBVIOUS
  <2>4. s.thread[t] \in GoodFields /\ s.thread[t].m_objects \in ObjectLists
    BY <2>1 DEF GoodFields, ThreadFields
  <2>5. r \in LoopStates
    <3>1. CASE s.thread[t].m_wait_queue = "sync"
      <4>1. UnlinkAll(s.lists, t, s.thread[t].m_objects) \in ListStates
        BY <2>1, <2>4, UnlinkAllType
      <4>2. Released(s.thread[t], o) \in GoodFields
        BY <2>4, ReleasedIs
      <4>3. [s.thread EXCEPT ![t] = Released(s.thread[t], o)] \in [Threads -> GoodFields]
        BY <2>1, <4>2
      <4>4. r = [cur |-> s.cur,
                 lists |-> UnlinkAll(s.lists, t, s.thread[t].m_objects),
                 thread |-> [s.thread EXCEPT ![t] = Released(s.thread[t], o)]]
        BY <2>3, <3>1, NotifyWaiter DEF Notified
      <4>5. s.cur \in NodeOrNull
        BY DEF LoopStates
      <4> QED BY <4>1, <4>3, <4>4, <4>5 DEF LoopStates
    <3>2. CASE s.thread[t].m_wait_queue # "sync" /\ s.thread[t].m_state = "wait"
      <4>1. r = [s EXCEPT !.lists.fault = TRUE]
        BY <2>3, <3>2 DEF NotifyThread
      <4>2. r = [s EXCEPT !.lists = [s.lists EXCEPT !.fault = TRUE]]
        BY <4>1
      <4>3. [s.lists EXCEPT !.fault = TRUE] \in ListStates
        BY <2>1 DEF ListStates
      <4> QED BY <4>2, <4>3 DEF LoopStates
    <3>3. CASE s.thread[t].m_state # "wait"
      <4>1. r = s
        BY <2>3, <3>3 DEF NotifyThread
      <4> QED BY <4>1
    <3> QED BY <3>1, <3>2, <3>3
  <2>6. LoopStep(s, o) = [r EXCEPT !.cur = r.lists.next[s.cur]]
    BY <1>2, <2>2, <2>3 DEF LoopStep
  <2>7. r.lists.next[s.cur] \in NodeOrNull
    BY <2>1, <2>5 DEF LoopStates, ListStates, Cells
  <2> QED BY <2>5, <2>6, <2>7 DEF LoopStates
<1> QED BY <1>1, <1>2

\* The loop, from the lists and threads it finds.
LEMMA LoopRuns ==
  ASSUME Lists \in ListStates, thread \in [Threads -> GoodFields], NEW o \in Objects
  PROVE  \E step \in [0..N -> LoopStates] :
           /\ step[0] = [cur |-> next[o], lists |-> Lists, thread |-> thread]
           /\ \A k \in 1..N : step[k] = LoopStep(step[k - 1], o)
           /\ NotifyAvailable(o) = step[N]
<1> DEFINE a == [cur |-> next[o], lists |-> Lists, thread |-> thread]
           F == [k \in 1..N |-> [s \in LoopStates |-> LoopStep(s, o)]]
           W(f) == f = [k \in 0..N |-> IF k = 0 THEN a ELSE LoopStep(f[k - 1], o)]
<1>1. N \in Nat
  BY NodesFinite
<1>2. a \in LoopStates
  <2>1. next[o] \in NodeOrNull
    BY DEF ListStates, Lists, Cells
  <2> QED BY <2>1 DEF LoopStates
<1> HIDE DEF a
<1>3. F \in [1..N -> [LoopStates -> LoopStates]]
  BY LoopType
<1>4. PICK f \in [0..N -> LoopStates] :
        f[0] = a /\ \A k \in 1..N : f[k] = F[k][f[k - 1]]
  <2> HIDE DEF F
  <2>1. PICK f : Iterates(f, LoopStates, a, N, F)
    BY <1>1, <1>2, <1>3, Iteration
  <2> QED BY <2>1 DEF Iterates
<1>5. \A k \in 1..N : f[k] = LoopStep(f[k - 1], o)
  <2>1. \A k \in 1..N : f[k - 1] \in LoopStates
    BY <1>1, <1>4
  <2> QED BY <1>4, <2>1
<1>6. W(f)
  <2>1. \A k \in 0..N : k = 0 \/ k \in 1..N
    BY <1>1
  <2> HIDE DEF F
  <2> QED BY <1>4, <1>5, <2>1
<1> DEFINE u == CHOOSE f2 : W(f2)
<1>7. W(u) /\ NotifyAvailable(o) = u[N]
  <2>1. W(u)
    BY <1>6, Zenon
  <2>2. NotifyAvailable(o) = u[N]
    BY Zenon DEF NotifyAvailable, LoopStep, a, N
  <2> QED BY <2>1, <2>2
<1> HIDE DEF u, F
<1>8. u[0] = a /\ \A k \in 1..N : u[k] = LoopStep(u[k - 1], o)
  BY <1>1, <1>7
<1>9. \A k \in 0..N : u[k] \in LoopStates
  <2> SUFFICES ASSUME NEW i \in 0..N, u[i] \notin LoopStates PROVE FALSE
    OBVIOUS
  <2> DEFINE Bad == {k \in 0..N : u[k] \notin LoopStates}
  <2>1. PICK k \in Bad : \A l \in Bad : k <= l
    <3>1. Bad \subseteq Nat /\ i \in Bad
      BY <1>1
    <3> HIDE DEF Bad
    <3> QED BY <3>1, LeastNatural
  <2>2. k \in 1..N /\ k - 1 \in 0..N /\ ~(k <= k - 1)
    BY <1>1, <1>2, <1>8, <2>1
  <2>3. u[k - 1] \in LoopStates
    BY <2>1, <2>2
  <2>4. u[k] \in LoopStates
    BY <1>8, <2>2, <2>3, LoopType
  <2> QED BY <2>1, <2>4
<1>10. u \in [0..N -> LoopStates]
  BY <1>7, <1>9
<1> QED BY <1>7, <1>8, <1>10 DEF a

\* The loop has released the threads in E; it has come to s.cur, and every waiter
\* in front of it is in E.
LoopInv(s, E, th, pos, o, flt) ==
  /\ E \in SUBSET WaitersOf(th, o)
  /\ s.thread = Releasing(th, E, o)
  /\ s.lists.fault = flt
  /\ Placed(OnLists(th), NodesOf(th, E), pos)
  /\ ListsOK(s.lists.next, s.lists.tail, OnLists(th), NodesOf(th, E), pos)
  /\ s.cur \in OnList(th, o) \cup {NULL}
  /\ \A m \in OnList(th, o) : s.cur = NULL \/ pos[m] < pos[s.cur] => m[1] \in E

\* The successor of a node whose thread is released, read after that.
LEMMA LoopMoves ==
  ASSUME NEW th \in [Threads -> GoodFields], NEW pos, NEW o \in Objects, NEW flt,
         NEW s \in LoopStates, NEW E, LoopInv(s, E, th, pos, o, flt),
         s.cur # NULL, s.cur[1] \in E,
         NEW r, r = [s EXCEPT !.cur = s.lists.next[s.cur]]
  PROVE  /\ LoopInv(r, E, th, pos, o, flt)
         /\ r.cur # NULL => pos[s.cur] < pos[r.cur]
<1> DEFINE L == OnLists(th)
           D == NodesOf(th, E)
           c == s.cur
           d == s.lists.next[c]
<1>1. r.cur = d /\ r.lists = s.lists /\ r.thread = s.thread
  BY DEF LoopStates
<1>2. L[o] = OnList(th, o) /\ L[o] \subseteq Nodes /\ c \in L[o] /\ c \in Nodes
  BY DEF OnLists, OnList, LoopInv
<1>3. Placed(L, D, pos) /\ ListsOK(s.lists.next, s.lists.tail, L, D, pos)
  BY DEF LoopInv
<1>4. \A m \in L[o] : m \in D <=> m[1] \in E
  BY <1>2 DEF NodesOf, OnList
<1>5. /\ \A m \in L[o] : pos[m] < pos[c] => m[1] \in E
      /\ \A m \in Nodes : pos[m] \in Nat
      /\ \A m \in L[o] : pos[m] = pos[c] => m = c
  <2>1. \A m \in L[o] : pos[m] < pos[c] => m[1] \in E
    BY <1>2 DEF LoopInv
  <2> HIDE DEF L, D
  <2> QED BY <1>2, <1>3, <2>1 DEF Placed
<1> HIDE DEF L, D, c
<1>6. Follows(s.lists.next, L, D, pos, o, c)
  BY <1>2, <1>3 DEF ListsOK, ChainOK
<1>7. d \in L[o] \cup {NULL} /\ (d # NULL => pos[c] < pos[d])
  BY <1>2, <1>6, SyncAssumption DEF Follows, Before
<1>8. ASSUME NEW m \in L[o], d = NULL \/ pos[m] < pos[d] PROVE m[1] \in E
  <2>1. CASE pos[m] < pos[c]
    BY <1>5, <2>1
  <2>2. CASE pos[m] = pos[c]
    BY <1>5, <2>2 DEF c
  <2>3. CASE pos[c] < pos[m]
    <3> SUFFICES ASSUME m \notin D PROVE FALSE
      BY <1>4
    <3>1. d # NULL /\ pos[d] <= pos[m]
      BY <1>6, <2>3 DEF Follows, Before
    <3>2. pos[d] \in Nat /\ pos[m] \in Nat
      BY <1>2, <1>5, <1>7, <3>1
    <3> QED BY <1>8, <3>1, <3>2
  <2> QED BY <1>2, <1>5, <2>1, <2>2, <2>3
<1>9. LoopInv(r, E, th, pos, o, flt)
  <2>1. r.cur \in OnList(th, o) \cup {NULL}
    BY <1>1, <1>2, <1>7
  <2>2. \A m \in OnList(th, o) : r.cur = NULL \/ pos[m] < pos[r.cur] => m[1] \in E
    BY <1>1, <1>2, <1>8
  <2> QED BY <1>1, <2>1, <2>2 DEF LoopInv
<1> QED BY <1>1, <1>7, <1>9 DEF c

\* Releasing the thread the loop has come to.
LEMMA LoopReleases ==
  ASSUME NEW th \in [Threads -> GoodFields], NEW pos, NEW o \in Objects, NEW flt,
         NEW s \in LoopStates, NEW E, LoopInv(s, E, th, pos, o, flt),
         NEW t \in Threads, s.cur # NULL, s.cur[1] = t, t \notin E,
         NEW r, r = NotifyThread(s, t, o)
  PROVE  /\ r \in LoopStates /\ r.cur = s.cur
         /\ LoopInv(r, E \cup {t}, th, pos, o, flt)
<1> DEFINE L == OnLists(th)
           D == NodesOf(th, E)
           objs == th[t].m_objects
           u == UnlinkAll(s.lists, t, objs)
<1>1. s.cur \in OnList(th, o) /\ th[t] \in GoodFields /\ th[t] \in ThreadFields
  BY DEF LoopInv, GoodFields
<1>2. th[t].m_wait_queue = "sync" /\ objs \in ObjectLists
  BY <1>1 DEF OnList, ThreadFields
<1>3. s.thread[t] = th[t]
  BY DEF LoopInv, Releasing
<1>4. r = [cur |-> s.cur, lists |-> u,
           thread |-> [s.thread EXCEPT ![t] = Released(th[t], o)]]
  BY <1>2, <1>3, NotifyWaiter DEF Notified
<1>5. s.lists \in ListStates /\ s.cur \in NodeOrNull
      /\ s.thread \in [Threads -> GoodFields]
  BY DEF LoopStates
<1>6. Placed(L, D, pos) /\ ListsOK(s.lists.next, s.lists.tail, L, D, pos)
  BY DEF LoopInv
<1>7. \A i \in 1..Len(objs) : <<t, i>> \in L[objs[i]] \ D
  <2>1. /\ DOMAIN objs = 1..Len(objs)
        /\ \A i \in 1..Len(objs) : <<t, i>> \in Nodes /\ objs[i] \in Objects
    BY <1>2, CallNodes
  <2>2. \A i \in 1..Len(objs) : <<t, i>>[1] = t /\ <<t, i>>[2] = i
    OBVIOUS
  <2> QED BY <1>2, <2>1, <2>2 DEF OnLists, OnList, NodesOf
<1>8. D \cup CallOf(t, Len(objs)) = NodesOf(th, E \cup {t})
  <2>1. /\ DOMAIN objs = 1..Len(objs)
        /\ \A i \in 1..Len(objs) : <<t, i>> \in Nodes
    BY <1>2, CallNodes
  <2>2. \A n \in Nodes : n = <<n[1], n[2]>>
    BY DEF Nodes
  <2>3. ASSUME NEW n \in CallOf(t, Len(objs)) PROVE n \in NodesOf(th, E \cup {t})
    <3>1. PICK i \in 1..Len(objs) : n = <<t, i>>
      BY DEF CallOf
    <3> QED BY <2>1, <3>1 DEF NodesOf
  <2>4. ASSUME NEW n \in NodesOf(th, E \cup {t}), n[1] = t
        PROVE  n \in CallOf(t, Len(objs))
    <3>1. n = <<t, n[2]>> /\ n[2] \in 1..Len(objs)
      BY <2>1, <2>2, <2>4 DEF NodesOf
    <3> QED BY <3>1 DEF CallOf
  <2> QED BY <2>3, <2>4 DEF NodesOf
<1> HIDE DEF objs
<1>9. /\ u \in ListStates /\ u.fault = s.lists.fault
      /\ Placed(L, NodesOf(th, E \cup {t}), pos)
      /\ ListsOK(u.next, u.tail, L, NodesOf(th, E \cup {t}), pos)
  <2> HIDE DEF L, D
  <2>1. /\ u \in ListStates /\ u.fault = s.lists.fault
        /\ Placed(L, D \cup CallOf(t, Len(objs)), pos)
        /\ ListsOK(u.next, u.tail, L, D \cup CallOf(t, Len(objs)), pos)
    <3>1. PICK l \in ListStates, q \in ObjectLists : l = s.lists /\ q = objs
      BY <1>2, <1>5
    <3>2. /\ Placed(L, D, pos) /\ ListsOK(l.next, l.tail, L, D, pos)
          /\ Linked(L, D, t, q)
      BY <1>6, <1>7, <3>1 DEF Linked
    <3>3. UnlinkedTo(UnlinkAll(l, t, q), l, L, D \cup CallOf(t, Len(q)), pos)
      BY <3>2, UnlinkAllOK
    <3> QED BY <3>1, <3>3 DEF UnlinkedTo
  <2> QED BY <1>8, <2>1
<1> HIDE DEF u
<1>10. r.lists = u /\ r.cur = s.cur
       /\ r.thread = [s.thread EXCEPT ![t] = Released(th[t], o)]
  BY <1>4
<1>11. r.thread = Releasing(th, E \cup {t}, o) /\ r.thread \in [Threads -> GoodFields]
  <2>1. s.thread = Releasing(th, E, o)
    BY DEF LoopInv
  <2>2. Released(th[t], o) \in GoodFields
    BY <1>1, ReleasedIs
  <2> QED BY <1>5, <1>10, <2>1, <2>2 DEF Releasing
<1>12. r \in LoopStates
  BY <1>4, <1>5, <1>9, <1>10, <1>11 DEF LoopStates
<1>13. E \cup {t} \in SUBSET WaitersOf(th, o)
  BY <1>1 DEF WaitersOf, LoopInv
<1>14. r.lists.fault = flt
  BY <1>9, <1>10 DEF LoopInv
<1>15. r.cur \in OnList(th, o) \cup {NULL}
  BY <1>1, <1>10
<1>16. \A m \in OnList(th, o) :
         r.cur = NULL \/ pos[m] < pos[r.cur] => m[1] \in E \cup {t}
  BY <1>10 DEF LoopInv
<1> QED BY <1>9, <1>10, <1>11, <1>12, <1>13, <1>14, <1>15, <1>16 DEF LoopInv

\* One round keeps the invariant and moves on.
LEMMA LoopKeeps ==
  ASSUME NEW th \in [Threads -> GoodFields], NEW pos, NEW o \in Objects, NEW flt,
         NEW s \in LoopStates, NEW E, LoopInv(s, E, th, pos, o, flt),
         s.cur # NULL,
         NEW r, r = LoopStep(s, o)
  PROVE  /\ \E E2 : LoopInv(r, E2, th, pos, o, flt)
         /\ r.cur # NULL => pos[s.cur] < pos[r.cur]
<1>1. s.cur \in OnList(th, o)
  BY DEF LoopInv
<1>2. PICK t \in Threads : t = s.cur[1]
  BY <1>1 DEF OnList, Nodes
<1>3. PICK n : n = NotifyThread(s, t, o)
  OBVIOUS
<1>4. r = [n EXCEPT !.cur = n.lists.next[s.cur]]
  BY <1>2, <1>3 DEF LoopStep
<1>5. CASE t \in E
  <2>1. s.thread[t].m_state = "run"
    BY <1>5 DEF LoopInv, Releasing, Released, Ended
  <2>2. n = s
    BY <1>3, <2>1, NotifyOther
  <2>3. /\ LoopInv(r, E, th, pos, o, flt)
        /\ r.cur # NULL => pos[s.cur] < pos[r.cur]
    BY <1>2, <1>4, <1>5, <2>2, LoopMoves
  <2> QED BY <2>3
<1>6. CASE t \notin E
  <2>1. n \in LoopStates /\ n.cur = s.cur /\ LoopInv(n, E \cup {t}, th, pos, o, flt)
    BY <1>2, <1>3, <1>6, LoopReleases
  <2>2. PICK E2 : E2 = E \cup {t}
    OBVIOUS
  <2>3. r = [n EXCEPT !.cur = n.lists.next[n.cur]] /\ n.cur # NULL /\ n.cur[1] \in E2
    BY <1>2, <1>4, <2>1, <2>2
  <2>4. /\ LoopInv(r, E2, th, pos, o, flt)
        /\ r.cur # NULL => pos[n.cur] < pos[r.cur]
    BY <2>1, <2>2, <2>3, LoopMoves
  <2> QED BY <2>1, <2>4
<1> QED BY <1>5, <1>6

\* NotifyAvailable ends, and has then released everybody who waits for o.
LEMMA LoopEnds ==
  ASSUME Lists \in ListStates, thread \in [Threads -> GoodFields], NEW o \in Objects,
         NEW pos, Placed(OnLists(thread), {}, pos),
         ListsOK(next, m_thread_list_tail, OnLists(thread), {}, pos)
  PROVE  LET r == NotifyAvailable(o)
             E == WaitersOf(thread, o)
         IN  /\ r \in LoopStates /\ r.cur = NULL
             /\ LoopInv(r, E, thread, pos, o, fault)
<1>1. PICK step \in [0..N -> LoopStates] :
           /\ step[0] = [cur |-> next[o], lists |-> Lists, thread |-> thread]
           /\ \A k \in 1..N : step[k] = LoopStep(step[k - 1], o)
           /\ NotifyAvailable(o) = step[N]
  BY LoopRuns
<1>2. N \in Nat /\ pos \in [Nodes -> Nat]
  BY NodesFinite DEF Placed
<1>3. PICK th, flt : th = thread /\ flt = fault
  OBVIOUS
<1> DEFINE Good(k) == \E E : LoopInv(step[k], E, th, pos, o, flt)
<1>4. LoopInv(step[0], {}, th, pos, o, flt)
  <2>1. OnLists(th)[o] = OnList(th, o)
    BY DEF OnLists
  <2>2. NodesOf(th, {}) = {}
    BY DEF NodesOf
  <2>3. /\ step[0].cur = next[o] /\ step[0].thread = th
        /\ step[0].lists.next = next /\ step[0].lists.tail = m_thread_list_tail
        /\ step[0].lists.fault = flt
    BY <1>1, <1>3 DEF Lists
  <2>4. Releasing(th, {}, o) = th
    BY <1>3 DEF Releasing
  <2>5. Follows(next, OnLists(th), {}, pos, o, o)
    BY <1>3 DEF ListsOK, ChainOK
  <2>6. next[o] \in OnList(th, o) \cup {NULL}
    BY <2>1, <2>5 DEF Follows
  <2>7. \A m \in OnList(th, o) : next[o] # NULL /\ pos[next[o]] <= pos[m]
    BY <2>1, <2>5 DEF Follows, Before
  <2>8. \A m \in OnList(th, o) : ~(next[o] = NULL \/ pos[m] < pos[next[o]])
    <3>1. \A m \in OnList(th, o) : m \in Nodes
      BY DEF OnList
    <3>2. \A m \in OnList(th, o) : next[o] \in Nodes
      BY <2>6, <2>7, <3>1
    <3> QED BY <1>2, <2>7, <3>1, <3>2
  <2> QED BY <1>3, <2>2, <2>3, <2>4, <2>6, <2>8 DEF LoopInv
<1>5. ASSUME NEW k \in 1..N, Good(k - 1)
      PROVE  /\ Good(k)
             /\ step[k].cur # NULL =>
                  step[k - 1].cur # NULL /\ pos[step[k - 1].cur] < pos[step[k].cur]
  <2>1. PICK s \in LoopStates : s = step[k - 1]
    BY <1>1, <1>2
  <2>2. PICK E : LoopInv(s, E, th, pos, o, flt)
    BY <1>5, <2>1
  <2>3. step[k] = LoopStep(s, o)
    BY <1>1, <2>1
  <2>4. CASE s.cur = NULL
    <3>1. step[k] = s
      BY <2>3, <2>4 DEF LoopStep
    <3> QED BY <2>2, <2>4, <3>1
  <2>5. CASE s.cur # NULL
    <3>1. th \in [Threads -> GoodFields]
      BY <1>3
    <3>2. PICK r : r = step[k]
      OBVIOUS
    <3>3. /\ \E E2 : LoopInv(r, E2, th, pos, o, flt)
          /\ r.cur # NULL => pos[s.cur] < pos[r.cur]
      BY <2>2, <2>3, <2>5, <3>1, <3>2, LoopKeeps
    <3> QED BY <2>1, <2>5, <3>2, <3>3
  <2> QED BY <2>4, <2>5
<1>6. \A k \in 0..N : Good(k)
  <2> DEFINE Bad == {k \in 0..N : ~Good(k)}
  <2>1. Good(0)
    BY <1>4
  <2> HIDE DEF Good
  <2> SUFFICES ASSUME NEW i \in 0..N, ~Good(i) PROVE FALSE
    OBVIOUS
  <2>2. PICK k \in Bad : \A l \in Bad : k <= l
    <3>1. Bad \subseteq Nat /\ i \in Bad
      BY <1>2
    <3> HIDE DEF Bad
    <3> QED BY <3>1, LeastNatural
  <2>3. k # 0
    BY <2>1, <2>2
  <2>4. k \in 1..N /\ k - 1 \in 0..N /\ ~(k <= k - 1)
    BY <1>2, <2>2, <2>3
  <2>5. Good(k - 1)
    BY <2>2, <2>4
  <2> QED BY <1>5, <2>2, <2>4, <2>5
<1>7. step[N].cur = NULL
  <2> SUFFICES ASSUME step[N].cur # NULL PROVE FALSE
    OBVIOUS
  <2>1. \A k \in 0..N : step[k].cur # NULL
    <3> SUFFICES ASSUME NEW i \in 0..N, step[i].cur = NULL PROVE FALSE
      OBVIOUS
    <3> DEFINE After == {j \in 0..N : step[N - j].cur = NULL}
    <3>1. PICK j \in After : \A l \in After : j <= l
      <4>1. N - i \in 0..N /\ N - (N - i) = i
        BY <1>2
      <4>2. After \subseteq Nat /\ N - i \in After
        BY <1>2, <4>1
      <4> HIDE DEF After
      <4> QED BY <4>2, LeastNatural
    <3>2. j # 0
      BY <1>2, <3>1
    <3>3. j - 1 \in 0..N /\ ~(j <= j - 1) /\ N - (j - 1) \in 1..N
          /\ (N - (j - 1)) - 1 = N - j /\ N - j \in 0..N
      BY <1>2, <3>1, <3>2
    <3>4. step[N - (j - 1)].cur # NULL
      BY <3>1, <3>3
    <3>5. PICK k \in 1..N : k = N - (j - 1) /\ k - 1 = N - j
      BY <3>3
    <3>6. step[k - 1].cur # NULL
      <4>1. Good(k - 1)
        <5> HIDE DEF Good
        <5> QED BY <1>6, <3>3, <3>5
      <4> HIDE DEF Good
      <4> QED BY <1>5, <3>4, <3>5, <4>1
    <3> QED BY <3>1, <3>5, <3>6
  <2> DEFINE f == [k \in 0..N |-> step[k].cur]
  <2>2. f \in [0..N -> Nodes]
    <3>1. \A k \in 0..N : step[k].cur \in Nodes
      BY <1>1, <2>1 DEF LoopStates, NodeOrNull
    <3> QED BY <3>1
  <2>3. \A k \in 1..N : pos[f[k - 1]] < pos[f[k]]
    <3> HIDE DEF Good
    <3> TAKE k \in 1..N
    <3>1. k \in 0..N /\ k - 1 \in 0..N
      BY <1>2
    <3>2. pos[step[k - 1].cur] < pos[step[k].cur]
      BY <1>5, <1>6, <2>1, <3>1
    <3> QED BY <3>1, <3>2
  <2> HIDE DEF f
  <2> QED BY <1>2, <2>2, <2>3, RunsOut
<1>8. PICK r, E : r \in LoopStates /\ r = step[N] /\ LoopInv(r, E, th, pos, o, flt)
  <2>1. N \in 0..N
    BY <1>2
  <2> QED BY <1>1, <1>6, <2>1
<1>9. E = WaitersOf(th, o)
  <2>1. \A m \in OnList(th, o) : m[1] \in E
    BY <1>7, <1>8 DEF LoopInv
  <2> QED BY <1>8, <2>1 DEF LoopInv, WaitersOf
<1> QED BY <1>1, <1>3, <1>7, <1>8, <1>9

-----------------------------------------------------------------------------
(* The invariant: there are places for the nodes of all waits, up to M, so *)
(* that the lists hold these nodes in the order of their places.           *)

Arranged(nx, tl, th, pos, M) ==
  /\ Placed(OnLists(th), {}, pos)
  /\ ListsOK(nx, tl, OnLists(th), {}, pos)
  /\ M \in Nat
  /\ \A o \in Objects : \A n \in OnList(th, o) : pos[n] <= M

Sound(nx, tl, flt, th) ==
  /\ nx \in [Cells -> NodeOrNull]
  /\ tl \in [Objects -> NodeOrNull]
  /\ flt = FALSE
  /\ th \in [Threads -> GoodFields]

Inv ==
  /\ m_is_signaled \in [Objects -> BOOLEAN]
  /\ Sound(next, m_thread_list_tail, fault, thread)
  /\ \E pos, M : Arranged(next, m_thread_list_tail, thread, pos, M)

\* Nodes that stay in a list keep their order, and new ones are behind them.
OrderKept(th, th2, pos, pos2) ==
  \A o \in Objects :
    \A m \in OnList(th, o) \cap OnList(th2, o), n \in OnList(th2, o) :
      n \notin OnList(th, o) \/ pos[m] < pos[n] => pos2[m] < pos2[n]

\* What a step does to lists that were arranged by pos.
Rearranged(th, pos, nx2, tl2, flt2, th2) ==
  /\ Sound(nx2, tl2, flt2, th2)
  /\ \E pos2, M2 : Arranged(nx2, tl2, th2, pos2, M2) /\ OrderKept(th, th2, pos, pos2)

\* The record of the lists, of the right type.
LEMMA ListsType ==
  ASSUME Sound(next, m_thread_list_tail, fault, thread)
  PROVE  /\ Lists \in ListStates /\ Lists.next = next /\ Lists.fault = FALSE
         /\ Lists.tail = m_thread_list_tail
BY DEF Lists, ListStates, Sound

\* The nodes of waits, by thread and position.
LEMMA OnListNodes ==
  ASSUME NEW th, NEW o
  PROVE  /\ OnList(th, o) \subseteq Nodes
         /\ \A n \in OnList(th, o) : n[1] \in Threads /\ n = <<n[1], n[2]>>
BY DEF OnList, Nodes

\* Threads whose waits are the same have the same nodes.
SameWaits(th, th2) ==
  \A t \in Threads :
    /\ th[t].m_wait_queue = "sync" <=> th2[t].m_wait_queue = "sync"
    /\ th[t].m_wait_queue = "sync" => th2[t].m_objects = th[t].m_objects

\* Waits that are the same have the same nodes in the same lists.
LEMMA SameNodes ==
  ASSUME NEW th, NEW th2, SameWaits(th, th2)
  PROVE  /\ \A o : OnList(th2, o) = OnList(th, o)
         /\ OnLists(th2) = OnLists(th)
<1>1. ASSUME NEW o, NEW n PROVE n \in OnList(th2, o) <=> n \in OnList(th, o)
  <2>1. n \in Nodes => n[1] \in Threads
    BY DEF Nodes
  <2> QED BY <2>1 DEF OnList, SameWaits
<1>2. \A o : OnList(th2, o) = OnList(th, o)
  BY <1>1
<1> QED BY <1>2 DEF OnLists

\* A step that leaves waits and lists alone.
LEMMA NothingMoves ==
  ASSUME NEW nx, NEW tl, NEW flt, NEW th, NEW pos, NEW M,
         Sound(nx, tl, flt, th), Arranged(nx, tl, th, pos, M),
         NEW th2 \in [Threads -> GoodFields], SameWaits(th, th2)
  PROVE  Rearranged(th, pos, nx, tl, flt, th2)
<1>1. /\ \A o : OnList(th2, o) = OnList(th, o)
      /\ OnLists(th2) = OnLists(th)
  BY SameNodes
<1>2. Sound(nx, tl, flt, th2)
  BY DEF Sound
<1>3. Arranged(nx, tl, th2, pos, M)
  BY <1>1 DEF Arranged
<1>4. OrderKept(th, th2, pos, pos)
  BY <1>1 DEF OrderKept
<1> QED BY <1>2, <1>3, <1>4 DEF Rearranged

\* What SetLists makes of next.
Cleared(nx, th) ==
  [c \in Objects \cup Nodes |->
     IF c \in Nodes /\ th[c[1]].m_wait_queue # "sync" THEN NULL ELSE nx[c]]

\* Unlinked nodes are gone, and nothing leads to them.
LEMMA Settle ==
  ASSUME NEW s \in ListStates, NEW L, NEW D, NEW pos, Placed(L, D, pos),
         ListsOK(s.next, s.tail, L, D, pos),
         NEW th, \A o \in Objects : OnList(th, o) = L[o] \ D
  PROVE  /\ Cleared(s.next, th) \in [Cells -> NodeOrNull]
         /\ Placed(OnLists(th), {}, pos)
         /\ ListsOK(Cleared(s.next, th), s.tail, OnLists(th), {}, pos)
<1> DEFINE L2 == OnLists(th)
<1>1. PICK nx : nx = Cleared(s.next, th)
  OBVIOUS
<1>2. \A o \in Objects : L2[o] = L[o] \ D
  BY DEF OnLists
<1>3. s.next \in [Cells -> NodeOrNull]
  BY DEF ListStates
<1>4. nx \in [Cells -> NodeOrNull]
  BY <1>1, <1>3 DEF Cleared, Cells, NodeOrNull
<1>5. Placed(L2, {}, pos)
  <2>1. L2 \in [Objects -> SUBSET Nodes]
    BY OnListNodes DEF OnLists
  <2> HIDE DEF L2
  <2> QED BY <1>2, <2>1 DEF Placed
<1>6. ASSUME NEW o \in Objects, NEW c \in L2[o] \cup {o}
      PROVE  nx[c] = s.next[c] /\ c \notin D /\ c \in L[o] \cup {o}
  <2>1. c \in L2[o] => c \in Nodes /\ th[c[1]].m_wait_queue = "sync"
    BY DEF OnLists, OnList
  <2>2. o \notin Nodes /\ D \subseteq Nodes
    BY SyncAssumption DEF Placed
  <2>3. c \in Cells
    BY <1>6, <2>1 DEF Cells
  <2>4. nx[c] = s.next[c]
    <3> HIDE DEF L2
    <3> QED BY <1>1, <1>6, <2>1, <2>2, <2>3 DEF Cleared, Cells
  <2> HIDE DEF L2
  <2> QED BY <1>2, <1>6, <2>2, <2>4
<1> HIDE DEF L2
<1>7. ASSUME NEW o \in Objects, NEW c \in L2[o] \cup {o}
      PROVE  Follows(nx, L2, {}, pos, o, c)
  <2>1. nx[c] = s.next[c] /\ c \notin D /\ c \in L[o] \cup {o}
    BY <1>6
  <2>2. Follows(s.next, L, D, pos, o, c)
    BY <2>1 DEF ListsOK, ChainOK
  <2> QED BY <1>2, <2>1, <2>2 DEF Follows
<1>8. \A o \in Objects : TailOK(s.tail, L2, {}, pos, o)
  BY <1>2 DEF ListsOK, TailOK
<1>9. ListsOK(nx, s.tail, L2, {}, pos)
  BY <1>7, <1>8 DEF ListsOK, ChainOK
<1> QED BY <1>1, <1>4, <1>5, <1>9 DEF L2

\* A step that only unlinks nodes.
LEMMA NodesLeave ==
  ASSUME NEW nx, NEW tl, NEW th, NEW pos, NEW M, Arranged(nx, tl, th, pos, M),
         NEW s \in ListStates, s.fault = FALSE, NEW D, Placed(OnLists(th), D, pos),
         ListsOK(s.next, s.tail, OnLists(th), D, pos),
         NEW th2 \in [Threads -> GoodFields],
         \A o \in Objects : OnList(th2, o) = OnList(th, o) \ D
  PROVE  Rearranged(th, pos, Cleared(s.next, th2), s.tail, s.fault, th2)
<1>1. \A o \in Objects : OnList(th2, o) = OnLists(th)[o] \ D
  BY DEF OnLists
<1>2. /\ Cleared(s.next, th2) \in [Cells -> NodeOrNull]
      /\ Placed(OnLists(th2), {}, pos)
      /\ ListsOK(Cleared(s.next, th2), s.tail, OnLists(th2), {}, pos)
  BY <1>1, Settle
<1>3. Sound(Cleared(s.next, th2), s.tail, s.fault, th2)
  BY <1>2 DEF Sound, ListStates
<1>4. Arranged(Cleared(s.next, th2), s.tail, th2, pos, M)
  BY <1>2 DEF Arranged
<1>5. OrderKept(th, th2, pos, pos)
  BY DEF OrderKept
<1> QED BY <1>3, <1>4, <1>5 DEF Rearranged

\* SetLists in these terms.
LEMMA SetListsIs ==
  ASSUME NEW s, SetLists(s)
  PROVE  /\ next' = Cleared(s.next, thread')
         /\ m_thread_list_tail' = s.tail /\ fault' = s.fault
BY DEF SetLists, Cleared

\* A wait ends early, or a wait without nodes does.
LEMMA WaitEnds ==
  ASSUME Sound(next, m_thread_list_tail, fault, thread),
         NEW pos, NEW M, Arranged(next, m_thread_list_tail, thread, pos, M),
         NEW t \in Threads, NEW h \in GoodFields, h.m_wait_queue # "sync",
         thread' = [thread EXCEPT ![t] = h],
         NEW l, l = (IF thread[t].m_wait_queue = "sync"
                     THEN UnlinkAll(Lists, t, thread[t].m_objects) ELSE Lists),
         SetLists(l)
  PROVE  Rearranged(thread, pos, next', m_thread_list_tail', fault', thread')
<1>1. PICK th, th2 : th = thread /\ th2 = thread'
  OBVIOUS
<1>2. th \in [Threads -> GoodFields] /\ th2 \in [Threads -> GoodFields]
      /\ \A u \in Threads : th2[u] = IF u = t THEN h ELSE th[u]
  BY <1>1 DEF Sound
<1>3. PICK s0 \in ListStates :
        s0 = Lists /\ s0.next = next /\ s0.tail = m_thread_list_tail /\ s0.fault = FALSE
  BY ListsType
<1>4. Arranged(next, m_thread_list_tail, th, pos, M)
  BY <1>1
<1>5. Placed(OnLists(th), {}, pos) /\ ListsOK(s0.next, s0.tail, OnLists(th), {}, pos)
  BY <1>3, <1>4 DEF Arranged
<1> DEFINE D == IF th[t].m_wait_queue = "sync" THEN CallOf(t, Len(th[t].m_objects))
                ELSE {}
<1>6. /\ l \in ListStates /\ l.fault = FALSE
      /\ Placed(OnLists(th), D, pos) /\ ListsOK(l.next, l.tail, OnLists(th), D, pos)
  <2>1. CASE th[t].m_wait_queue # "sync"
    BY <1>1, <1>3, <1>5, <2>1
  <2>2. CASE th[t].m_wait_queue = "sync"
    <3>1. PICK q \in ObjectLists : q = th[t].m_objects
      BY <1>2 DEF GoodFields, ThreadFields
    <3>2. Linked(OnLists(th), {}, t, q)
      <4>1. /\ DOMAIN q = 1..Len(q)
            /\ \A i \in 1..Len(q) : <<t, i>> \in Nodes /\ q[i] \in Objects
        BY CallNodes
      <4>2. \A i \in 1..Len(q) : <<t, i>>[1] = t /\ <<t, i>>[2] = i
        OBVIOUS
      <4> QED BY <2>2, <3>1, <4>1, <4>2 DEF Linked, OnLists, OnList
    <3>3. PICK L : L = OnLists(th)
      OBVIOUS
    <3>4. UnlinkedTo(UnlinkAll(s0, t, q), s0, L, {} \cup CallOf(t, Len(q)), pos)
      BY <1>5, <3>2, <3>3, UnlinkAllOK
    <3>5. {} \cup CallOf(t, Len(q)) = D /\ l = UnlinkAll(s0, t, q)
      BY <1>1, <1>3, <2>2, <3>1
    <3> HIDE DEF D
    <3> QED BY <1>3, <3>3, <3>4, <3>5 DEF UnlinkedTo
  <2> QED BY <2>1, <2>2
<1>7. ASSUME NEW o \in Objects PROVE OnList(th2, o) = OnList(th, o) \ D
  <2>1. ASSUME NEW n \in Nodes, n[1] # t
        PROVE  n \notin D /\ (n \in OnList(th2, o) <=> n \in OnList(th, o))
    <3>1. th2[n[1]] = th[n[1]]
      BY <1>2, <2>1 DEF Nodes
    <3>2. n \notin D
      BY <2>1 DEF CallOf
    <3> QED BY <3>1, <3>2 DEF OnList
  <2>2. ASSUME NEW n \in Nodes, n[1] = t
        PROVE  n \notin OnList(th2, o) /\ (n \in OnList(th, o) => n \in D)
    <3>1. n \notin OnList(th2, o)
      BY <1>2, <2>2 DEF OnList
    <3>2. ASSUME n \in OnList(th, o) PROVE n \in D
      <4>1. th[t].m_wait_queue = "sync" /\ n[2] \in DOMAIN th[t].m_objects
        BY <2>2, <3>2 DEF OnList
      <4>2. th[t].m_objects \in ObjectLists
        BY <1>2 DEF GoodFields, ThreadFields
      <4>3. n[2] \in 1..Len(th[t].m_objects) /\ n = <<t, n[2]>>
        BY <2>2, <3>2, <4>1, <4>2, CallNodes, OnListNodes
      <4> QED BY <4>1, <4>3 DEF CallOf
    <3> QED BY <3>1, <3>2
  <2> HIDE DEF D
  <2> QED BY <2>1, <2>2, OnListNodes
<1> HIDE DEF D
<1>8. Rearranged(th, pos, Cleared(l.next, th2), l.tail, l.fault, th2)
  <2>1. PICK nx, tl : nx = next /\ tl = m_thread_list_tail
    OBVIOUS
  <2>2. Arranged(nx, tl, th, pos, M)
    BY <1>4, <2>1
  <2> QED BY <1>2, <1>6, <1>7, <2>2, NodesLeave
<1> QED BY <1>1, <1>8, SetListsIs

\* Only the places of linked nodes matter.
LEMMA SamePlaces ==
  ASSUME NEW nx, NEW tl, NEW L, NEW pos, Placed(L, {}, pos),
         ListsOK(nx, tl, L, {}, pos),
         NEW pos2 \in [Nodes -> Nat],
         \A o \in Objects : \A n \in L[o] : pos2[n] = pos[n]
  PROVE  Placed(L, {}, pos2) /\ ListsOK(nx, tl, L, {}, pos2)
<1>1. Placed(L, {}, pos2)
  BY DEF Placed
<1>2. ASSUME NEW o \in Objects, NEW c \in L[o] \cup {o}
      PROVE  Follows(nx, L, {}, pos2, o, c)
  <2>1. Follows(nx, L, {}, pos, o, c)
    BY DEF ListsOK, ChainOK
  <2>2. \A n \in L[o] : Before(pos2, c, n) <=> Before(pos, c, n)
    BY DEF Before
  <2> QED BY <2>1, <2>2 DEF Follows
<1>3. ASSUME NEW o \in Objects PROVE TailOK(tl, L, {}, pos2, o)
  BY DEF ListsOK, TailOK
<1> QED BY <1>1, <1>2, <1>3 DEF ListsOK, ChainOK

\* A thread that blocks: its nodes come behind all others.
LEMMA WaitBegins ==
  ASSUME Sound(next, m_thread_list_tail, fault, thread),
         NEW pos, NEW M, Arranged(next, m_thread_list_tail, thread, pos, M),
         NEW t \in Threads, NEW h \in GoodFields, NEW objs \in ObjectLists,
         thread[t].m_wait_queue # "sync",
         h.m_wait_queue = "sync", h.m_objects = objs,
         thread' = [thread EXCEPT ![t] = h],
         SetLists(LinkAll(Lists, t, objs))
  PROVE  Rearranged(thread, pos, next', m_thread_list_tail', fault', thread')
<1>1. PICK th, th2 : th = thread /\ th2 = thread'
  OBVIOUS
<1>2. th \in [Threads -> GoodFields] /\ th2 \in [Threads -> GoodFields]
      /\ \A u \in Threads : th2[u] = IF u = t THEN h ELSE th[u]
  BY <1>1 DEF Sound
<1>3. PICK s0 \in ListStates :
        s0 = Lists /\ s0.next = next /\ s0.tail = m_thread_list_tail /\ s0.fault = FALSE
  BY ListsType
<1>4. Arranged(s0.next, s0.tail, th, pos, M)
  BY <1>1, <1>3
<1>5. PICK L : L = OnLists(th)
  OBVIOUS
<1>6. /\ Placed(L, {}, pos) /\ ListsOK(s0.next, s0.tail, L, {}, pos) /\ M \in Nat
      /\ pos \in [Nodes -> Nat]
      /\ \A o \in Objects : L[o] = OnList(th, o)
      /\ \A o \in Objects : \A n \in L[o] : pos[n] <= M
  BY <1>4, <1>5 DEF Arranged, OnLists, Placed
<1>7. \A o \in Objects : \A n \in L[o] : n \in Nodes /\ n[1] # t /\ n = <<n[1], n[2]>>
  <2> SUFFICES ASSUME NEW o \in Objects, NEW n \in L[o]
               PROVE  n \in Nodes /\ n[1] # t /\ n = <<n[1], n[2]>>
    OBVIOUS
  <2>1. n \in OnList(th, o)
    BY <1>6
  <2>2. n \in Nodes /\ n = <<n[1], n[2]>>
    BY <2>1, OnListNodes
  <2>3. th[n[1]].m_wait_queue = "sync"
    BY <2>1 DEF OnList
  <2> QED BY <1>1, <2>2, <2>3
<1>8. /\ MaxObjects \in Nat
      /\ \A n \in Nodes : n[2] \in 1..MaxObjects /\ n = <<n[1], n[2]>> /\ n[1] \in Threads
      /\ Len(objs) \in Nat /\ DOMAIN objs = 1..Len(objs)
      /\ \A i \in 1..Len(objs) : <<t, i>> \in Nodes /\ objs[i] \in Objects
      /\ \A i \in 1..Len(objs) : <<t, i>>[1] = t /\ <<t, i>>[2] = i
  <2>1. \A n \in Nodes : n[2] \in 1..MaxObjects /\ n = <<n[1], n[2]>> /\ n[1] \in Threads
    BY DEF Nodes
  <2>2. /\ Len(objs) \in Nat /\ DOMAIN objs = 1..Len(objs)
        /\ \A i \in 1..Len(objs) : <<t, i>> \in Nodes /\ objs[i] \in Objects
    <3>1. /\ Len(objs) \in 0..MaxObjects /\ DOMAIN objs = 1..Len(objs)
          /\ \A i \in 1..Len(objs) : <<t, i>> \in Nodes /\ objs[i] \in Objects
      BY CallNodes
    <3> QED BY <3>1, SyncAssumption
  <2>3. \A i \in 1..Len(objs) : <<t, i>>[1] = t /\ <<t, i>>[2] = i
    OBVIOUS
  <2> QED BY <2>1, <2>2, <2>3, SyncAssumption
<1> DEFINE pos2 == [n \in Nodes |-> IF n[1] = t THEN M + n[2] ELSE pos[n]]
<1>9. /\ pos2 \in [Nodes -> Nat]
      /\ \A o \in Objects : \A n \in L[o] : pos2[n] = pos[n]
      /\ \A i \in 1..Len(objs) : pos2[<<t, i>>] = M + i
      /\ \A n \in Nodes : n[1] = t => pos2[n] = M + n[2]
  BY <1>6, <1>7, <1>8
<1> HIDE DEF pos2
<1>10. Placed(L, {}, pos2) /\ ListsOK(s0.next, s0.tail, L, {}, pos2)
  <2>1. PICK nx, tl : nx = s0.next /\ tl = s0.tail
    OBVIOUS
  <2> QED BY <1>6, <1>9, <2>1, SamePlaces
<1>11. \A o \in Objects : \A m \in L[o] :
         m[1] # t /\ \A i \in 1..Len(objs) : pos2[m] < pos2[<<t, i>>]
  <2> SUFFICES ASSUME NEW o \in Objects, NEW m \in L[o], NEW i \in 1..Len(objs)
               PROVE  m[1] # t /\ pos2[m] < pos2[<<t, i>>]
    BY <1>7
  <2>1. pos[m] <= M /\ pos[m] \in Nat /\ pos2[m] = pos[m] /\ pos2[<<t, i>>] = M + i
    BY <1>6, <1>7, <1>9
  <2>2. i \in Nat /\ i > 0
    BY <1>8
  <2> QED BY <1>6, <1>7, <2>1, <2>2
<1>12. \A i, j \in 1..Len(objs) : i < j => pos2[<<t, i>>] < pos2[<<t, j>>]
  BY <1>6, <1>8, <1>9
<1>13. PICK r, L2 : r = LinkAll(s0, t, objs) /\ L2 = Joined(L, t, objs, Len(objs))
  OBVIOUS
<1>14. /\ r \in ListStates /\ r.fault = s0.fault
       /\ Placed(L2, {}, pos2)
       /\ ListsOK(r.next, r.tail, L2, {}, pos2)
  BY <1>10, <1>11, <1>12, <1>13, LinkAllOK
<1>15. ASSUME NEW o \in Objects PROVE OnList(th2, o) = L2[o] \ {}
  <2>1. L2[o] = L[o] \cup {x \in CallOf(t, Len(objs)) : objs[x[2]] = o}
    BY <1>13 DEF Joined
  <2>2. ASSUME NEW n \in Nodes, n[1] # t PROVE n \in OnList(th2, o) <=> n \in L2[o]
    <3>1. th2[n[1]] = th[n[1]] /\ n \notin CallOf(t, Len(objs))
      BY <1>2, <1>8, <2>2 DEF CallOf
    <3>2. n \in OnList(th2, o) <=> n \in OnList(th, o)
      BY <3>1 DEF OnList
    <3> QED BY <1>6, <2>1, <3>1, <3>2
  <2>3. ASSUME NEW n \in Nodes, n[1] = t PROVE n \in OnList(th2, o) <=> n \in L2[o]
    <3>1. th2[n[1]] = h /\ n \notin L[o] /\ n = <<t, n[2]>>
      BY <1>2, <1>7, <1>8, <2>3
    <3>2. n \in CallOf(t, Len(objs)) <=> n[2] \in DOMAIN objs
      <4>1. ASSUME NEW i \in 1..Len(objs), n = <<t, i>> PROVE n[2] \in DOMAIN objs
        BY <1>8, <4>1
      <4>2. n[2] \in DOMAIN objs => \E i \in 1..Len(objs) : n = <<t, i>>
        BY <1>8, <3>1
      <4> QED BY <4>1, <4>2 DEF CallOf
    <3>3. n \in OnList(th2, o) <=> n[2] \in DOMAIN objs /\ objs[n[2]] = o
      BY <3>1 DEF OnList
    <3> QED BY <2>1, <3>1, <3>2, <3>3
  <2>4. L2[o] \subseteq Nodes /\ OnList(th2, o) \subseteq Nodes
    BY <1>14, OnListNodes DEF Placed
  <2> QED BY <2>2, <2>3, <2>4
<1>16. /\ Cleared(r.next, th2) \in [Cells -> NodeOrNull]
       /\ Placed(OnLists(th2), {}, pos2)
       /\ ListsOK(Cleared(r.next, th2), r.tail, OnLists(th2), {}, pos2)
  BY <1>14, <1>15, Settle
<1>17. Sound(Cleared(r.next, th2), r.tail, r.fault, th2)
  BY <1>2, <1>3, <1>14, <1>16 DEF Sound, ListStates
<1>18. ASSUME NEW o \in Objects, NEW n \in OnList(th2, o)
       PROVE  n \in Nodes /\ IF n \in OnList(th, o)
                             THEN pos2[n] = pos[n] /\ pos[n] \in Nat /\ pos[n] <= M
                             ELSE pos2[n] = M + n[2] /\ n[2] \in 1..MaxObjects
  <2>1. n \in Nodes
    BY OnListNodes
  <2>2. CASE n \in OnList(th, o)
    BY <1>6, <1>9, <2>1, <2>2
  <2>3. CASE n \notin OnList(th, o)
    <3>1. n[1] = t
      BY <1>2, <1>8, <2>1, <2>3 DEF OnList
    <3> QED BY <1>8, <1>9, <2>1, <2>3, <3>1
  <2> QED BY <2>2, <2>3
<1>19. Arranged(Cleared(r.next, th2), r.tail, th2, pos2, M + MaxObjects)
  <2>1. ASSUME NEW o \in Objects, NEW n \in OnList(th2, o)
        PROVE  pos2[n] <= M + MaxObjects
    BY <1>6, <1>8, <1>18
  <2> QED BY <1>6, <1>8, <1>16, <2>1 DEF Arranged
<1>20. OrderKept(th, th2, pos, pos2)
  <2> SUFFICES ASSUME NEW o \in Objects, NEW m \in OnList(th, o) \cap OnList(th2, o),
                      NEW n \in OnList(th2, o),
                      n \notin OnList(th, o) \/ pos[m] < pos[n]
               PROVE  pos2[m] < pos2[n]
    BY DEF OrderKept
  <2> QED BY <1>6, <1>8, <1>18
<1>21. Rearranged(th, pos, Cleared(r.next, th2), r.tail, r.fault, th2)
  BY <1>17, <1>19, <1>20 DEF Rearranged
<1>22. /\ next' = Cleared(r.next, th2)
       /\ m_thread_list_tail' = r.tail /\ fault' = r.fault
  BY <1>1, <1>3, <1>13, SetListsIs
<1> QED BY <1>1, <1>21, <1>22

\* A signal: everybody who waits for o is released and in no list any more.
LEMMA SignalReleases ==
  ASSUME Sound(next, m_thread_list_tail, fault, thread),
         NEW pos, NEW M, Arranged(next, m_thread_list_tail, thread, pos, M),
         NEW o \in Objects, Signal(o), ~m_is_signaled[o]
  PROVE  /\ Rearranged(thread, pos, next', m_thread_list_tail', fault', thread')
         /\ thread' = Releasing(thread, WaitersOf(thread, o), o)
<1>1. PICK th, th2 : th = thread /\ th2 = thread'
  OBVIOUS
<1>2. th \in [Threads -> GoodFields] /\ Lists \in ListStates
  BY <1>1, ListsType DEF Sound
<1>3. PICK r, E : r = NotifyAvailable(o) /\ E = WaitersOf(th, o)
  OBVIOUS
<1>4. r \in LoopStates /\ r.cur = NULL /\ LoopInv(r, E, th, pos, o, fault)
  BY <1>1, <1>2, <1>3, LoopEnds DEF Arranged
<1>5. /\ thread' = r.thread
      /\ SetLists([r.lists EXCEPT !.fault = @ \/ r.cur # NULL])
  BY <1>3 DEF Signal
<1>6. PICK l : l = [r.lists EXCEPT !.fault = @ \/ r.cur # NULL]
  OBVIOUS
<1>7. r.lists \in ListStates /\ r.lists.fault = FALSE /\ r.thread \in [Threads -> GoodFields]
  BY <1>4 DEF LoopStates, LoopInv, Sound
<1>8. (r.lists.fault \/ r.cur # NULL) = FALSE
  BY <1>4, <1>7
<1>9. l \in ListStates /\ l.next = r.lists.next /\ l.tail = r.lists.tail /\ l.fault = FALSE
  <2>1. l = [r.lists EXCEPT !.fault = FALSE]
    BY <1>6, <1>8
  <2> QED BY <1>7, <2>1 DEF ListStates
<1> DEFINE D == NodesOf(th, E)
<1>10. Placed(OnLists(th), D, pos) /\ ListsOK(l.next, l.tail, OnLists(th), D, pos)
  BY <1>4, <1>9 DEF LoopInv
<1>11. th2 = Releasing(th, E, o) /\ th2 \in [Threads -> GoodFields]
  BY <1>1, <1>4, <1>5, <1>7 DEF LoopInv
<1>12. ASSUME NEW p \in Objects PROVE OnList(th2, p) = OnList(th, p) \ D
  <2>1. ASSUME NEW n \in Nodes
        PROVE  n \in OnList(th2, p) <=> n \in OnList(th, p) /\ n \notin D
    <3>1. n[1] \in Threads
      BY DEF Nodes
    <3>2. CASE n[1] \in E
      <4>1. th2[n[1]].m_wait_queue = "none"
        BY <1>11, <3>1, <3>2 DEF Releasing, Released, Ended
      <4>2. n \notin OnList(th2, p)
        BY <4>1 DEF OnList
      <4> QED BY <3>2, <4>2 DEF OnList, NodesOf
    <3>3. CASE n[1] \notin E
      <4>1. th2[n[1]] = th[n[1]] /\ n \notin D
        BY <1>11, <3>1, <3>3 DEF Releasing, NodesOf
      <4> QED BY <4>1 DEF OnList
    <3> QED BY <3>2, <3>3
  <2> HIDE DEF D
  <2> QED BY <2>1, OnListNodes
<1> HIDE DEF D
<1>13. Rearranged(th, pos, Cleared(l.next, th2), l.tail, l.fault, th2)
  <2>1. PICK nx, tl : nx = next /\ tl = m_thread_list_tail
    OBVIOUS
  <2>2. Arranged(nx, tl, th, pos, M)
    BY <1>1, <2>1
  <2> QED BY <1>9, <1>10, <1>11, <1>12, <2>2, NodesLeave
<1> QED BY <1>1, <1>3, <1>5, <1>6, <1>11, <1>13, SetListsIs

-----------------------------------------------------------------------------
(* What the operations do to the fields of a thread.                       *)

\* The wait of a thread with fields f ended early.
EndsEarly(h, f, result) ==
  /\ h \in ThreadFields
  /\ h.m_state = "run" /\ h.m_wait_queue = "none" /\ h.m_objects = << >>
  /\ ~h.m_hardware_timer /\ ~h.m_cancellable
  /\ h.m_wait_result = result
  /\ h.m_synced_index = f.m_synced_index

\* Flags that CancelWait leaves alone.
SameFlags(h, f) ==
  /\ h.m_wait_cancelled = f.m_wait_cancelled
  /\ h.m_termination_requested = f.m_termination_requested

\* What CancelWait makes of the fields f of a waiting thread.
CancelledFields(f, result, cancel) ==
  IF f.m_wait_queue = "sync"
  THEN [EndWait(f, result, cancel) EXCEPT !.m_cancellable = FALSE]
  ELSE EndWait(f, result, cancel)

\* CancelWait field by field, for a thread that waits.
LEMMA CancelEnds ==
  ASSUME NEW f \in GoodFields, f.m_state = "wait", NEW result \in Results,
         NEW cancel \in BOOLEAN
  PROVE  /\ EndsEarly(CancelledFields(f, result, cancel), f, result)
         /\ SameFlags(CancelledFields(f, result, cancel), f)
         /\ cancel => ~CancelledFields(f, result, cancel).m_task
<1>1. f \in ThreadFields /\ (f.m_wait_queue # "sync" => ~f.m_cancellable)
      /\ (f.m_task => f.m_hardware_timer)
  BY DEF GoodFields, FieldsOK
<1>2. PICK e : e = EndWait(f, result, cancel)
  OBVIOUS
<1>3. EndedFields(e, f, result, cancel)
  BY <1>1, <1>2, EndWaitIs
<1>4. cancel => ~e.m_task
  BY <1>1, <1>3 DEF EndedFields
<1>5. CASE f.m_wait_queue # "sync"
  <2>1. CancelledFields(f, result, cancel) = e
    BY <1>2, <1>5 DEF CancelledFields
  <2>2. ~e.m_cancellable
    BY <1>1, <1>3, <1>5 DEF EndedFields
  <2> QED BY <1>3, <1>4, <2>1, <2>2 DEF EndedFields, EndsEarly, SameFlags
<1>6. CASE f.m_wait_queue = "sync"
  <2>1. PICK g : g = [e EXCEPT !.m_cancellable = FALSE]
    OBVIOUS
  <2>2. CancelledFields(f, result, cancel) = g
    BY <1>2, <1>6, <2>1 DEF CancelledFields
  <2>3. e \in ThreadFields
    BY <1>3 DEF EndedFields
  <2>4. /\ g \in ThreadFields
        /\ g.m_state = e.m_state /\ g.m_wait_queue = e.m_wait_queue
        /\ g.m_objects = e.m_objects /\ g.m_hardware_timer = e.m_hardware_timer
        /\ g.m_task = e.m_task /\ g.m_wait_result = e.m_wait_result
        /\ g.m_synced_index = e.m_synced_index
        /\ g.m_wait_cancelled = e.m_wait_cancelled
        /\ g.m_termination_requested = e.m_termination_requested
    BY <2>1, <2>3 DEF ThreadFields
  <2>5. ~g.m_cancellable
    BY <2>1, <2>3 DEF ThreadFields
  <2> QED BY <1>3, <1>4, <2>2, <2>4, <2>5 DEF EndedFields, EndsEarly, SameFlags
<1> QED BY <1>5, <1>6

\* The last assignments of OnTimer, WaitCancel and RequestTerminate.
LEMMA LastFlag ==
  ASSUME NEW f \in GoodFields, f.m_state = "wait", NEW result \in Results
  PROVE  /\ LET h == [CancelledFields(f, result, FALSE) EXCEPT !.m_task = FALSE]
            IN  EndsEarly(h, f, result) /\ ~h.m_task /\ SameFlags(h, f)
         /\ LET h == [CancelledFields(f, result, TRUE) EXCEPT !.m_wait_cancelled = FALSE]
            IN  /\ EndsEarly(h, f, result) /\ ~h.m_task /\ h.m_wait_cancelled = FALSE
                /\ h.m_termination_requested = f.m_termination_requested
         /\ LET h == [CancelledFields(f, result, TRUE) EXCEPT
                        !.m_termination_requested = TRUE]
            IN  /\ EndsEarly(h, f, result) /\ ~h.m_task
                /\ h.m_termination_requested = TRUE
                /\ h.m_wait_cancelled = f.m_wait_cancelled
<1>1. PICK a, b : /\ a = CancelledFields(f, result, FALSE)
                  /\ b = CancelledFields(f, result, TRUE)
  OBVIOUS
<1>2. /\ EndsEarly(a, f, result) /\ SameFlags(a, f)
      /\ EndsEarly(b, f, result) /\ SameFlags(b, f) /\ ~b.m_task
  BY <1>1, CancelEnds
<1>3. a \in ThreadFields /\ b \in ThreadFields
  BY <1>2 DEF EndsEarly
<1>4. ASSUME NEW h, h = [a EXCEPT !.m_task = FALSE]
      PROVE  EndsEarly(h, f, result) /\ ~h.m_task /\ SameFlags(h, f)
  <2>1. /\ h \in ThreadFields
        /\ h.m_state = a.m_state /\ h.m_wait_queue = a.m_wait_queue
        /\ h.m_objects = a.m_objects /\ h.m_hardware_timer = a.m_hardware_timer
        /\ h.m_wait_result = a.m_wait_result
        /\ h.m_synced_index = a.m_synced_index
        /\ h.m_cancellable = a.m_cancellable
        /\ h.m_wait_cancelled = a.m_wait_cancelled
        /\ h.m_termination_requested = a.m_termination_requested
    BY <1>3, <1>4 DEF ThreadFields
  <2>2. ~h.m_task
    BY <1>3, <1>4 DEF ThreadFields
  <2> QED BY <1>2, <2>1, <2>2 DEF EndsEarly, SameFlags
<1>5. ASSUME NEW h, h = [b EXCEPT !.m_wait_cancelled = FALSE]
      PROVE  /\ EndsEarly(h, f, result) /\ ~h.m_task /\ h.m_wait_cancelled = FALSE
             /\ h.m_termination_requested = f.m_termination_requested
  <2>1. /\ h \in ThreadFields
        /\ h.m_state = b.m_state /\ h.m_wait_queue = b.m_wait_queue
        /\ h.m_objects = b.m_objects /\ h.m_hardware_timer = b.m_hardware_timer
        /\ h.m_task = b.m_task /\ h.m_wait_result = b.m_wait_result
        /\ h.m_synced_index = b.m_synced_index
        /\ h.m_cancellable = b.m_cancellable
        /\ h.m_wait_cancelled = FALSE
        /\ h.m_termination_requested = b.m_termination_requested
    BY <1>3, <1>5 DEF ThreadFields
  <2> QED BY <1>2, <2>1 DEF EndsEarly, SameFlags
<1>6. ASSUME NEW h, h = [b EXCEPT !.m_termination_requested = TRUE]
      PROVE  /\ EndsEarly(h, f, result) /\ ~h.m_task
             /\ h.m_termination_requested = TRUE
             /\ h.m_wait_cancelled = f.m_wait_cancelled
  <2>1. /\ h \in ThreadFields
        /\ h.m_state = b.m_state /\ h.m_wait_queue = b.m_wait_queue
        /\ h.m_objects = b.m_objects /\ h.m_hardware_timer = b.m_hardware_timer
        /\ h.m_task = b.m_task /\ h.m_wait_result = b.m_wait_result
        /\ h.m_synced_index = b.m_synced_index
        /\ h.m_cancellable = b.m_cancellable
        /\ h.m_termination_requested = TRUE
        /\ h.m_wait_cancelled = b.m_wait_cancelled
    BY <1>3, <1>6 DEF ThreadFields
  <2> QED BY <1>2, <2>1 DEF EndsEarly, SameFlags
<1> QED BY <1>1, <1>4, <1>5, <1>6

\* The fields of a thread whose wait ended early fit together.
LEMMA EarlyIsGood ==
  ASSUME NEW h, NEW f, NEW result, EndsEarly(h, f, result), ~h.m_task
  PROVE  h \in GoodFields /\ h.m_wait_queue = "none"
<1>1. FieldsOK(h)
  BY DEF EndsEarly, FieldsOK
<1> QED BY <1>1 DEF EndsEarly, GoodFields

\* The fields of a thread that waits neither before nor after.
Return(f, result, index) ==
  [f EXCEPT !.m_wait_result = result, !.m_synced_index = index,
            !.m_wait_cancelled = @ /\ result # "Cancelled"]

Returned(h, f, result, index) ==
  /\ h \in GoodFields
  /\ h.m_state = f.m_state /\ h.m_wait_queue = f.m_wait_queue
  /\ h.m_objects = f.m_objects /\ h.m_task = f.m_task
  /\ h.m_wait_result = result /\ h.m_synced_index = index
  /\ h.m_cancellable = f.m_cancellable
  /\ h.m_wait_cancelled = (f.m_wait_cancelled /\ result # "Cancelled")
  /\ h.m_termination_requested = f.m_termination_requested

\* Wait() that returns at once, field by field.
LEMMA ReturnFields ==
  ASSUME NEW f \in GoodFields, f.m_state = "run", NEW result \in Results,
         NEW index \in 0..MaxObjects
  PROVE  Returned(Return(f, result, index), f, result, index)
<1>1. f \in ThreadFields /\ FieldsOK(f)
  BY DEF GoodFields
<1>2. PICK h : h = Return(f, result, index)
  OBVIOUS
<1>3. /\ h \in ThreadFields
      /\ h.m_state = f.m_state /\ h.m_wait_queue = f.m_wait_queue
      /\ h.m_objects = f.m_objects /\ h.m_hardware_timer = f.m_hardware_timer
      /\ h.m_task = f.m_task
      /\ h.m_wait_result = result /\ h.m_synced_index = index
      /\ h.m_cancellable = f.m_cancellable
      /\ h.m_wait_cancelled = (f.m_wait_cancelled /\ result # "Cancelled")
      /\ h.m_termination_requested = f.m_termination_requested
  BY <1>1, <1>2 DEF ThreadFields, Results, Return
<1>4. FieldsOK(h)
  BY <1>1, <1>3 DEF FieldsOK
<1> QED BY <1>2, <1>3, <1>4 DEF GoodFields, Returned

Block(f, objs, timeout) ==
  [f EXCEPT !.m_state = "wait",
            !.m_wait_queue = "sync",
            !.m_objects = objs,
            !.m_hardware_timer = timeout = "timed",
            !.m_task = @ \/ timeout = "timed",
            !.m_cancellable = TRUE,
            !.m_synced_index = 0]

Blocked(h, f, objs, timeout) ==
  /\ h \in GoodFields
  /\ h.m_state = "wait" /\ h.m_wait_queue = "sync" /\ h.m_objects = objs
  /\ h.m_task <=> timeout = "timed"
  /\ ~f.m_task
  /\ h.m_wait_result = f.m_wait_result /\ h.m_synced_index = 0
  /\ h.m_cancellable = TRUE /\ h.m_wait_cancelled = f.m_wait_cancelled
  /\ h.m_termination_requested = f.m_termination_requested

\* Wait() that blocks, field by field.
LEMMA BlockFields ==
  ASSUME NEW f \in GoodFields, f.m_state = "run", NEW objs \in ObjectLists, NEW timeout,
         ~f.m_wait_cancelled, ~f.m_termination_requested
  PROVE  Blocked(Block(f, objs, timeout), f, objs, timeout)
<1>1. f \in ThreadFields /\ FieldsOK(f)
  BY DEF GoodFields
<1>2. 0 \in 0..MaxObjects
  BY SyncAssumption
<1>3. PICK h : h = Block(f, objs, timeout)
  OBVIOUS
<1>4. /\ h \in ThreadFields
      /\ h.m_state = "wait" /\ h.m_wait_queue = "sync" /\ h.m_objects = objs
      /\ h.m_wait_result = f.m_wait_result /\ h.m_synced_index = 0
      /\ h.m_cancellable = TRUE /\ h.m_wait_cancelled = f.m_wait_cancelled
      /\ h.m_termination_requested = f.m_termination_requested
  BY <1>1, <1>2, <1>3 DEF ThreadFields, Block
<1>5. h.m_task <=> f.m_task \/ timeout = "timed"
  BY <1>1, <1>3 DEF ThreadFields, Block
<1>6. h.m_hardware_timer <=> timeout = "timed"
  BY <1>1, <1>3 DEF ThreadFields, Block
<1>7. ~f.m_task
  BY <1>1 DEF FieldsOK
<1>8. FieldsOK(h)
  BY <1>4, <1>5, <1>6, <1>7 DEF FieldsOK
<1> QED BY <1>3, <1>4, <1>5, <1>7, <1>8 DEF GoodFields, Blocked

Asleep(h, f) ==
  /\ h \in GoodFields
  /\ h.m_state = "wait" /\ h.m_wait_queue = "sleep"
  /\ h.m_objects = f.m_objects /\ h.m_task
  /\ h.m_wait_result = f.m_wait_result
  /\ h.m_synced_index = f.m_synced_index
  /\ h.m_cancellable = f.m_cancellable
  /\ h.m_wait_cancelled = f.m_wait_cancelled
  /\ h.m_termination_requested = f.m_termination_requested

FallAsleep(f) == [f EXCEPT !.m_state = "wait", !.m_wait_queue = "sleep",
                           !.m_hardware_timer = TRUE, !.m_task = TRUE]

\* SleepThread, field by field.
LEMMA SleepFields ==
  ASSUME NEW f \in GoodFields, f.m_state = "run", ~f.m_termination_requested
  PROVE  Asleep(FallAsleep(f), f)
<1> PICK h : h = FallAsleep(f)
  OBVIOUS
<1>1. f \in ThreadFields /\ FieldsOK(f)
  BY DEF GoodFields
<1>2. /\ h \in ThreadFields
      /\ h.m_state = "wait" /\ h.m_wait_queue = "sleep"
      /\ h.m_objects = f.m_objects /\ h.m_hardware_timer /\ h.m_task
      /\ h.m_wait_result = f.m_wait_result
      /\ h.m_synced_index = f.m_synced_index
      /\ h.m_cancellable = f.m_cancellable
      /\ h.m_wait_cancelled = f.m_wait_cancelled
      /\ h.m_termination_requested = f.m_termination_requested
  BY <1>1 DEF ThreadFields, FallAsleep
<1>3. FieldsOK(h)
  BY <1>1, <1>2 DEF FieldsOK
<1> QED BY <1>2, <1>3 DEF GoodFields, Asleep

\* Assignments to the flags, and to the state of a thread that exits.
RememberCancel(f) == [f EXCEPT !.m_wait_cancelled = TRUE]
AskToTerminate(f) == [f EXCEPT !.m_termination_requested = TRUE]
HasExited(f) == [f EXCEPT !.m_state = "exited", !.m_termination_requested = TRUE]

Flagged(h, f) ==
  /\ h \in GoodFields
  /\ h.m_wait_queue = f.m_wait_queue
  /\ h.m_objects = f.m_objects /\ h.m_task = f.m_task
  /\ h.m_wait_result = f.m_wait_result
  /\ h.m_synced_index = f.m_synced_index
  /\ h.m_cancellable = f.m_cancellable

\* A remembered cancel, a requested termination and an exit, field by field.
LEMMA FlagFields ==
  ASSUME NEW f \in GoodFields,
         NEW h, \/ ~(f.m_state = "wait" /\ f.m_cancellable) /\ h = RememberCancel(f)
                \/ f.m_state # "wait" /\ h = AskToTerminate(f)
                \/ f.m_state = "run" /\ h = HasExited(f)
  PROVE  /\ Flagged(h, f)
         /\ h = RememberCancel(f) =>
              /\ h.m_state = f.m_state /\ h.m_wait_cancelled = TRUE
              /\ h.m_termination_requested = f.m_termination_requested
         /\ h = AskToTerminate(f) =>
              /\ h.m_state = f.m_state /\ h.m_wait_cancelled = f.m_wait_cancelled
              /\ h.m_termination_requested = TRUE
         /\ h = HasExited(f) =>
              /\ h.m_state = "exited" /\ h.m_wait_cancelled = f.m_wait_cancelled
              /\ h.m_termination_requested = TRUE
<1>1. f \in ThreadFields /\ FieldsOK(f)
  BY DEF GoodFields
<1>2. /\ h \in ThreadFields
      /\ h.m_wait_queue = f.m_wait_queue /\ h.m_hardware_timer = f.m_hardware_timer
      /\ h.m_objects = f.m_objects /\ h.m_task = f.m_task
      /\ h.m_wait_result = f.m_wait_result
      /\ h.m_synced_index = f.m_synced_index
      /\ h.m_cancellable = f.m_cancellable
  BY <1>1 DEF ThreadFields, RememberCancel, AskToTerminate, HasExited
<1>3. h.m_state = f.m_state \/ (f.m_state = "run" /\ h.m_state = "exited")
  BY <1>1 DEF ThreadFields, RememberCancel, AskToTerminate, HasExited
<1>4. FieldsOK(h)
  <2>1. CASE ~(f.m_state = "wait" /\ f.m_cancellable) /\ h = RememberCancel(f)
    <3>1. /\ h.m_state = f.m_state
          /\ h.m_termination_requested = f.m_termination_requested
      BY <1>1, <2>1 DEF ThreadFields, RememberCancel
    <3> QED BY <1>1, <1>2, <2>1, <3>1 DEF FieldsOK
  <2>2. CASE f.m_state # "wait"
    <3>1. h.m_state # "wait"
      BY <1>3, <2>2
    <3> QED BY <1>1, <1>2, <2>2, <3>1 DEF FieldsOK
  <2> QED BY <2>1, <2>2
<1>5. Flagged(h, f)
  BY <1>2, <1>4 DEF GoodFields, Flagged
<1>6. ASSUME h = RememberCancel(f)
      PROVE  /\ h.m_state = f.m_state /\ h.m_wait_cancelled = TRUE
             /\ h.m_termination_requested = f.m_termination_requested
  BY <1>1, <1>6 DEF ThreadFields, RememberCancel
<1>7. ASSUME h = AskToTerminate(f)
      PROVE  /\ h.m_state = f.m_state /\ h.m_wait_cancelled = f.m_wait_cancelled
             /\ h.m_termination_requested = TRUE
  BY <1>1, <1>7 DEF ThreadFields, AskToTerminate
<1>8. ASSUME h = HasExited(f)
      PROVE  /\ h.m_state = "exited" /\ h.m_wait_cancelled = f.m_wait_cancelled
             /\ h.m_termination_requested = TRUE
  BY <1>1, <1>8 DEF ThreadFields, HasExited
<1> QED BY <1>5, <1>6, <1>7, <1>8

-----------------------------------------------------------------------------
(* The abstract specification: the values of its variables.                *)

StateOf(f) == IF f.m_state = "wait" THEN f.m_wait_queue ELSE f.m_state

States(th)     == [t \in Threads |-> IF th[t].m_state = "wait" THEN th[t].m_wait_queue
                                     ELSE th[t].m_state]
Calls(th)      == [t \in Threads |-> th[t].m_objects]
WaitResults(th) == [t \in Threads |-> th[t].m_wait_result]
Indices(th)    == [t \in Threads |-> th[t].m_synced_index]
Cancellable(th) == [t \in Threads |-> th[t].m_cancellable]
WaitCancelled(th) == [t \in Threads |-> th[t].m_wait_cancelled]
Timers(th)     == {t \in Threads : th[t].m_task}
Terminations(th) == [t \in Threads |-> th[t].m_termination_requested]

\* The fields of one thread change.
Changed(th2, th, t, h) ==
  /\ States(th2) = [States(th) EXCEPT ![t] = StateOf(h)]
  /\ Calls(th2) = [Calls(th) EXCEPT ![t] = h.m_objects]
  /\ WaitResults(th2) = [WaitResults(th) EXCEPT ![t] = h.m_wait_result]
  /\ Indices(th2) = [Indices(th) EXCEPT ![t] = h.m_synced_index]
  /\ Cancellable(th2) = [Cancellable(th) EXCEPT ![t] = h.m_cancellable]
  /\ WaitCancelled(th2) = [WaitCancelled(th) EXCEPT ![t] = h.m_wait_cancelled]
  /\ Timers(th2) = IF h.m_task THEN Timers(th) \cup {t} ELSE Timers(th) \ {t}
  /\ Terminations(th2) = [Terminations(th) EXCEPT ![t] = h.m_termination_requested]

\* Changing the fields of one thread changes the abstract variables at it.
LEMMA OneChanges ==
  ASSUME NEW th \in [Threads -> GoodFields], NEW t \in Threads, NEW h,
         NEW th2, th2 = [th EXCEPT ![t] = h]
  PROVE  Changed(th2, th, t, h)
<1>1. \A u \in Threads : th2[u] = IF u = t THEN h ELSE th[u]
  OBVIOUS
<1>2. States(th2) = [States(th) EXCEPT ![t] = StateOf(h)]
  BY <1>1 DEF States, StateOf
<1>3. Calls(th2) = [Calls(th) EXCEPT ![t] = h.m_objects]
  BY <1>1 DEF Calls
<1>4. WaitResults(th2) = [WaitResults(th) EXCEPT ![t] = h.m_wait_result]
  BY <1>1 DEF WaitResults
<1>5. Indices(th2) = [Indices(th) EXCEPT ![t] = h.m_synced_index]
  BY <1>1 DEF Indices
<1>6. Cancellable(th2) = [Cancellable(th) EXCEPT ![t] = h.m_cancellable]
  BY <1>1 DEF Cancellable
<1>7. WaitCancelled(th2) = [WaitCancelled(th) EXCEPT ![t] = h.m_wait_cancelled]
  BY <1>1 DEF WaitCancelled
<1>8. Timers(th2) = IF h.m_task THEN Timers(th) \cup {t} ELSE Timers(th) \ {t}
  BY <1>1 DEF Timers
<1>9. Terminations(th2) = [Terminations(th) EXCEPT ![t] = h.m_termination_requested]
  BY <1>1 DEF Terminations
<1> QED BY <1>2, <1>3, <1>4, <1>5, <1>6, <1>7, <1>8, <1>9 DEF Changed

\* A field that keeps its value.
Unchanging(th2, th, t, h) ==
  /\ StateOf(h) = StateOf(th[t]) => States(th2) = States(th)
  /\ h.m_objects = th[t].m_objects => Calls(th2) = Calls(th)
  /\ h.m_wait_result = th[t].m_wait_result => WaitResults(th2) = WaitResults(th)
  /\ h.m_synced_index = th[t].m_synced_index => Indices(th2) = Indices(th)
  /\ h.m_cancellable = th[t].m_cancellable => Cancellable(th2) = Cancellable(th)
  /\ h.m_wait_cancelled = th[t].m_wait_cancelled => WaitCancelled(th2) = WaitCancelled(th)
  /\ h.m_task = th[t].m_task => Timers(th2) = Timers(th)
  /\ h.m_termination_requested = th[t].m_termination_requested => Terminations(th2) = Terminations(th)

\* A field that keeps its value leaves its abstract variable alone.
LEMMA NoChange ==
  ASSUME NEW th \in [Threads -> GoodFields], NEW t \in Threads, NEW h,
         NEW th2, th2 = [th EXCEPT ![t] = h]
  PROVE  Unchanging(th2, th, t, h)
<1>1. \A u \in Threads : th2[u] = IF u = t THEN h ELSE th[u]
  OBVIOUS
<1>2. StateOf(h) = StateOf(th[t]) => States(th2) = States(th)
  BY <1>1 DEF States, StateOf
<1>3. h.m_objects = th[t].m_objects => Calls(th2) = Calls(th)
  BY <1>1 DEF Calls
<1>4. h.m_wait_result = th[t].m_wait_result => WaitResults(th2) = WaitResults(th)
  BY <1>1 DEF WaitResults
<1>5. h.m_synced_index = th[t].m_synced_index => Indices(th2) = Indices(th)
  BY <1>1 DEF Indices
<1>6. h.m_cancellable = th[t].m_cancellable => Cancellable(th2) = Cancellable(th)
  BY <1>1 DEF Cancellable
<1>7. h.m_wait_cancelled = th[t].m_wait_cancelled => WaitCancelled(th2) = WaitCancelled(th)
  BY <1>1 DEF WaitCancelled
<1>8. h.m_task = th[t].m_task => Timers(th2) = Timers(th)
  BY <1>1 DEF Timers
<1>9. h.m_termination_requested = th[t].m_termination_requested => Terminations(th2) = Terminations(th)
  BY <1>1 DEF Terminations
<1> QED BY <1>2, <1>3, <1>4, <1>5, <1>6, <1>7, <1>8, <1>9 DEF Unchanging

\* What the abstract variables of one thread are.
LEMMA ValuesOf ==
  ASSUME NEW th, NEW t \in Threads
  PROVE  /\ States(th)[t] = StateOf(th[t]) /\ Calls(th)[t] = th[t].m_objects
         /\ Cancellable(th)[t] = th[t].m_cancellable
         /\ WaitCancelled(th)[t] = th[t].m_wait_cancelled
         /\ Terminations(th)[t] = th[t].m_termination_requested
         /\ t \in Timers(th) <=> th[t].m_task
BY DEF States, StateOf, Calls, Cancellable, WaitCancelled, Terminations, Timers

-----------------------------------------------------------------------------
(* The operations, one by one.                                             *)

\* What Wait() returns, and when it blocks.
LEMMA WaitCheckIs ==
  ASSUME NEW f, NEW objs, NEW timeout
  PROVE  /\ WaitCheck(f, objs, timeout) \in Results \cup {"block"}
         /\ WaitCheck(f, objs, timeout) = "TerminationRequested" =>
              f.m_termination_requested
         /\ WaitCheck(f, objs, timeout) = "Success" =>
              /\ ~f.m_termination_requested
              /\ \E i \in DOMAIN objs : m_is_signaled[objs[i]]
         /\ WaitCheck(f, objs, timeout) = "TimedOut" =>
              /\ ~f.m_termination_requested /\ timeout = "zero"
              /\ \A i \in DOMAIN objs : ~m_is_signaled[objs[i]]
         /\ WaitCheck(f, objs, timeout) = "Cancelled" =>
              /\ ~f.m_termination_requested /\ timeout # "zero" /\ f.m_wait_cancelled
              /\ \A i \in DOMAIN objs : ~m_is_signaled[objs[i]]
         /\ WaitCheck(f, objs, timeout) = "block" =>
              /\ ~f.m_termination_requested /\ timeout # "zero" /\ ~f.m_wait_cancelled
              /\ \A i \in DOMAIN objs : ~m_is_signaled[objs[i]]
BY DEF WaitCheck, Results

\* Wait() that returns at once.
LEMMA WaitReturnsStep ==
  ASSUME Sound(next, m_thread_list_tail, fault, thread),
         NEW pos, NEW M, Arranged(next, m_thread_list_tail, thread, pos, M),
         NEW t \in Threads, NEW objs \in ObjectLists, NEW timeout \in Timeouts,
         WaitReturns(t, objs, timeout)
  PROVE  /\ Rearranged(thread, pos, next', m_thread_list_tail', fault', thread')
         /\ Abs!WaitReturns(t, objs, timeout)
<1>1. PICK th, th2, nx, tl, flt :
        /\ th = thread /\ th2 = thread'
        /\ nx = next /\ tl = m_thread_list_tail /\ flt = fault
  OBVIOUS
<1>2. th \in [Threads -> GoodFields]
  BY <1>1 DEF Sound
<1>3. PICK f \in GoodFields : f = th[t]
  BY <1>2
<1> DEFINE signaled == {i \in DOMAIN objs : m_is_signaled[objs[i]]}
<1>4. PICK check : check = WaitCheck(f, objs, timeout)
  OBVIOUS
<1>5. PICK index : index = IF check = "Success"
                           THEN CHOOSE i \in signaled : \A j \in signaled : i <= j
                           ELSE 0
  OBVIOUS
<1>6. f.m_state = "run" /\ check # "block"
  BY <1>1, <1>3, <1>4 DEF WaitReturns
<1>7. /\ check \in Results
      /\ check = "TerminationRequested" => f.m_termination_requested
      /\ check = "Success" => ~f.m_termination_requested /\ signaled # {}
      /\ check = "TimedOut" => ~f.m_termination_requested /\ timeout = "zero" /\ signaled = {}
      /\ check = "Cancelled" => /\ ~f.m_termination_requested /\ timeout # "zero"
                                /\ f.m_wait_cancelled /\ signaled = {}
  BY <1>4, <1>6, WaitCheckIs
<1>8. /\ index \in 0..MaxObjects
      /\ check = "Success" => index \in signaled /\ \A j \in signaled : index <= j
      /\ check # "Success" => index = 0
  <2>1. DOMAIN objs = 1..Len(objs) /\ Len(objs) \in 0..MaxObjects
    BY CallNodes
  <2>2. MaxObjects \in Nat
    BY SyncAssumption
  <2>3. signaled \subseteq Nat /\ signaled \subseteq 0..MaxObjects
    BY <2>1, <2>2
  <2> HIDE DEF signaled
  <2>4. signaled # {} => \E i \in signaled : \A j \in signaled : i <= j
    BY <2>3, LeastNatural
  <2>5. CASE check = "Success"
    <3>1. index = CHOOSE i \in signaled : \A j \in signaled : i <= j
      BY <1>5, <2>5
    <3>2. index \in signaled /\ \A j \in signaled : index <= j
      BY <1>7, <2>4, <2>5, <3>1
    <3> QED BY <2>3, <2>5, <3>2
  <2>6. CASE check # "Success"
    BY <1>5, <2>2, <2>6
  <2> QED BY <2>5, <2>6
<1>10. PICK h : h = Return(f, check, index)
  OBVIOUS
<1>11. th2 = [th EXCEPT ![t] = h]
  BY <1>1, <1>3, <1>4, <1>5, <1>10 DEF WaitReturns, Return
<1>12. /\ h \in GoodFields
       /\ h.m_state = f.m_state /\ h.m_wait_queue = f.m_wait_queue
       /\ h.m_objects = f.m_objects /\ h.m_task = f.m_task
       /\ h.m_wait_result = check /\ h.m_synced_index = index
       /\ h.m_cancellable = f.m_cancellable
       /\ h.m_wait_cancelled = (f.m_wait_cancelled /\ check # "Cancelled")
       /\ h.m_termination_requested = f.m_termination_requested
  <2>1. Returned(h, f, check, index)
    BY <1>6, <1>7, <1>8, <1>10, ReturnFields
  <2> QED BY <2>1 DEF Returned
<1>13. Rearranged(th, pos, nx, tl, flt, th2)
  <2>1. th2 \in [Threads -> GoodFields] /\ SameWaits(th, th2)
    BY <1>2, <1>3, <1>11, <1>12 DEF SameWaits
  <2>2. Sound(nx, tl, flt, th) /\ Arranged(nx, tl, th, pos, M)
    BY <1>1
  <2> QED BY <2>1, <2>2, NothingMoves
<1>14. UNCHANGED <<m_is_signaled, next, m_thread_list_tail, fault>>
  BY DEF WaitReturns, UnchangedLists
<1>15. /\ States(th2) = States(th) /\ Calls(th2) = Calls(th)
       /\ WaitResults(th2) = [WaitResults(th) EXCEPT ![t] = check]
       /\ Indices(th2) = [Indices(th) EXCEPT ![t] = index]
       /\ Cancellable(th2) = Cancellable(th) /\ Timers(th2) = Timers(th)
       /\ WaitCancelled(th2) = [WaitCancelled(th) EXCEPT ![t] = h.m_wait_cancelled]
       /\ Terminations(th2) = Terminations(th)
  <2>1. StateOf(h) = StateOf(f)
    BY <1>12 DEF StateOf
  <2>2. Changed(th2, th, t, h) /\ Unchanging(th2, th, t, h)
    BY <1>2, <1>11, OneChanges, NoChange
  <2> QED BY <1>3, <1>12, <2>1, <2>2 DEF Changed, Unchanging
<1>16. /\ States(th)[t] = "run" /\ WaitCancelled(th)[t] = f.m_wait_cancelled
       /\ Terminations(th)[t] = f.m_termination_requested
  BY <1>3, <1>6, ValuesOf DEF StateOf
<1>17. check # "Cancelled" => WaitCancelled(th2) = WaitCancelled(th)
  <2>1. f.m_wait_cancelled \in BOOLEAN
    BY DEF GoodFields, ThreadFields
  <2>2. h.m_wait_cancelled \in BOOLEAN
    BY <1>12 DEF GoodFields, ThreadFields
  <2>3. check # "Cancelled" => h.m_wait_cancelled = f.m_wait_cancelled
    BY <1>12, <2>1, <2>2
  <2> QED BY <1>2, <1>3, <1>11, <2>3, NoChange DEF Unchanging
<1>18. check = "Cancelled" => h.m_wait_cancelled = FALSE
  <2>1. h.m_wait_cancelled \in BOOLEAN
    BY <1>12 DEF GoodFields, ThreadFields
  <2> QED BY <1>12, <2>1
<1>19. Abs!Return(t, check, index)
  BY <1>1, <1>14, <1>15 DEF Abs!Return, States, Calls, WaitResults, Indices, Cancellable,
     Timers, Terminations
<1>20. Abs!WaitReturns(t, objs, timeout)
  <2>1. States(thread)[t] = "run"
    BY <1>1, <1>16
  <2>2. CASE check = "TerminationRequested"
    BY <1>1, <1>7, <1>8, <1>16, <1>17, <1>19, <2>1, <2>2
       DEF Abs!WaitReturns, States, WaitCancelled, Terminations
  <2>3. CASE check = "Success"
    BY <1>1, <1>7, <1>8, <1>16, <1>17, <1>19, <2>1, <2>3
       DEF Abs!WaitReturns, States, WaitCancelled, Terminations
  <2>4. CASE check = "TimedOut"
    BY <1>1, <1>7, <1>8, <1>16, <1>17, <1>19, <2>1, <2>4
       DEF Abs!WaitReturns, States, WaitCancelled, Terminations
  <2>5. CASE check = "Cancelled"
    BY <1>1, <1>7, <1>8, <1>15, <1>16, <1>18, <1>19, <2>1, <2>5
       DEF Abs!WaitReturns, States, WaitCancelled, Terminations
  <2> QED BY <1>7, <2>2, <2>3, <2>4, <2>5 DEF Results
<1> QED BY <1>1, <1>13, <1>14, <1>20

\* Wait() that blocks.
LEMMA WaitBlocksStep ==
  ASSUME Sound(next, m_thread_list_tail, fault, thread),
         NEW pos, NEW M, Arranged(next, m_thread_list_tail, thread, pos, M),
         NEW t \in Threads, NEW objs \in ObjectLists, NEW timeout \in Timeouts,
         WaitBlocks(t, objs, timeout)
  PROVE  /\ Rearranged(thread, pos, next', m_thread_list_tail', fault', thread')
         /\ Abs!WaitBlocks(t, objs, timeout)
<1>1. PICK th, th2 : th = thread /\ th2 = thread'
  OBVIOUS
<1>2. th \in [Threads -> GoodFields]
  BY <1>1 DEF Sound
<1>3. PICK f \in GoodFields : f = th[t]
  BY <1>2
<1>4. f.m_state = "run" /\ WaitCheck(f, objs, timeout) = "block"
  BY <1>1, <1>3 DEF WaitBlocks
<1>5. /\ ~f.m_termination_requested /\ timeout # "zero" /\ ~f.m_wait_cancelled
      /\ \A i \in DOMAIN objs : ~m_is_signaled[objs[i]]
  BY <1>4, WaitCheckIs
<1>6. PICK h : h = Block(f, objs, timeout)
  OBVIOUS
<1>7. th2 = [th EXCEPT ![t] = h]
  BY <1>1, <1>3, <1>6 DEF WaitBlocks, Block
<1>8. /\ h \in GoodFields
      /\ h.m_state = "wait" /\ h.m_wait_queue = "sync" /\ h.m_objects = objs
      /\ h.m_task <=> timeout = "timed"
      /\ ~f.m_task
      /\ h.m_wait_result = f.m_wait_result /\ h.m_synced_index = 0
      /\ h.m_cancellable = TRUE /\ h.m_wait_cancelled = f.m_wait_cancelled
      /\ h.m_termination_requested = f.m_termination_requested
  <2>1. Blocked(h, f, objs, timeout)
    BY <1>4, <1>5, <1>6, BlockFields
  <2> QED BY <2>1 DEF Blocked
<1>9. Rearranged(thread, pos, next', m_thread_list_tail', fault', thread')
  <2>1. thread[t].m_wait_queue # "sync"
    BY <1>1, <1>3, <1>4 DEF GoodFields, FieldsOK
  <2>2. SetLists(LinkAll(Lists, t, objs))
    BY DEF WaitBlocks
  <2>3. thread' = [thread EXCEPT ![t] = h]
    BY <1>1, <1>7
  <2> QED BY <1>8, <2>1, <2>2, <2>3, WaitBegins
<1>10. Changed(th2, th, t, h) /\ Unchanging(th2, th, t, h)
  BY <1>2, <1>7, OneChanges, NoChange
<1>11. /\ States(th2) = [States(th) EXCEPT ![t] = "sync"]
       /\ Calls(th2) = [Calls(th) EXCEPT ![t] = objs]
       /\ WaitResults(th2) = WaitResults(th)
       /\ Indices(th2) = [Indices(th) EXCEPT ![t] = 0]
       /\ Cancellable(th2) = [Cancellable(th) EXCEPT ![t] = TRUE]
       /\ WaitCancelled(th2) = WaitCancelled(th)
       /\ Terminations(th2) = Terminations(th)
  <2>1. StateOf(h) = "sync"
    BY <1>8 DEF StateOf
  <2> QED BY <1>3, <1>8, <1>10, <2>1 DEF Changed, Unchanging
<1>12. Timers(th2) = IF timeout = "timed" THEN Timers(th) \cup {t} ELSE Timers(th)
  <2>1. t \notin Timers(th)
    BY <1>3, <1>8 DEF Timers
  <2>2. Timers(th2) = IF h.m_task THEN Timers(th) \cup {t} ELSE Timers(th) \ {t}
    BY <1>10 DEF Changed
  <2> QED BY <1>8, <2>1, <2>2
<1>13. /\ States(th)[t] = "run" /\ ~WaitCancelled(th)[t] /\ ~Terminations(th)[t]
  BY <1>3, <1>4, <1>5, ValuesOf DEF StateOf
<1>14. UNCHANGED m_is_signaled
  BY DEF WaitBlocks
<1>15. Abs!WaitBlocks(t, objs, timeout)
  BY <1>1, <1>5, <1>11, <1>12, <1>13, <1>14
     DEF Abs!WaitBlocks, States, Calls, WaitResults, Indices, Cancellable, WaitCancelled,
         Timers, Terminations
<1> QED BY <1>9, <1>15

\* SleepThread.
LEMMA SleepStep ==
  ASSUME Sound(next, m_thread_list_tail, fault, thread),
         NEW pos, NEW M, Arranged(next, m_thread_list_tail, thread, pos, M),
         NEW t \in Threads, Sleep(t)
  PROVE  /\ Rearranged(thread, pos, next', m_thread_list_tail', fault', thread')
         /\ Abs!Sleep(t)
<1>1. PICK th, th2, nx, tl, flt :
        /\ th = thread /\ th2 = thread'
        /\ nx = next /\ tl = m_thread_list_tail /\ flt = fault
  OBVIOUS
<1>2. th \in [Threads -> GoodFields]
  BY <1>1 DEF Sound
<1>3. PICK f \in GoodFields : f = th[t]
  BY <1>2
<1>4. f.m_state = "run" /\ ~f.m_termination_requested
  BY <1>1, <1>3 DEF Sleep
<1>5. PICK h : h = FallAsleep(f)
  OBVIOUS
<1>6. th2 = [th EXCEPT ![t] = h]
  BY <1>1, <1>3, <1>5 DEF Sleep, FallAsleep
<1>7. /\ h \in GoodFields
      /\ h.m_state = "wait" /\ h.m_wait_queue = "sleep"
      /\ h.m_objects = f.m_objects /\ h.m_task
      /\ h.m_wait_result = f.m_wait_result
      /\ h.m_synced_index = f.m_synced_index
      /\ h.m_cancellable = f.m_cancellable
      /\ h.m_wait_cancelled = f.m_wait_cancelled
      /\ h.m_termination_requested = f.m_termination_requested
  <2>1. Asleep(h, f)
    BY <1>4, <1>5, SleepFields
  <2> QED BY <2>1 DEF Asleep
<1>8. Rearranged(th, pos, nx, tl, flt, th2)
  <2>1. f.m_wait_queue # "sync"
    BY <1>4 DEF GoodFields, FieldsOK
  <2>2. th2 \in [Threads -> GoodFields] /\ SameWaits(th, th2)
    BY <1>2, <1>3, <1>6, <1>7, <2>1 DEF SameWaits
  <2>3. Sound(nx, tl, flt, th) /\ Arranged(nx, tl, th, pos, M)
    BY <1>1
  <2> QED BY <2>2, <2>3, NothingMoves
<1>9. UNCHANGED <<m_is_signaled, next, m_thread_list_tail, fault>>
  BY DEF Sleep, UnchangedLists
<1>10. Changed(th2, th, t, h) /\ Unchanging(th2, th, t, h)
  BY <1>2, <1>6, OneChanges, NoChange
<1>11. /\ States(th2) = [States(th) EXCEPT ![t] = "sleep"]
       /\ Calls(th2) = Calls(th)
       /\ WaitResults(th2) = WaitResults(th)
       /\ Indices(th2) = Indices(th)
       /\ Cancellable(th2) = Cancellable(th)
       /\ WaitCancelled(th2) = WaitCancelled(th)
       /\ Timers(th2) = Timers(th) \cup {t}
       /\ Terminations(th2) = Terminations(th)
  <2>1. StateOf(h) = "sleep"
    BY <1>7 DEF StateOf
  <2> QED BY <1>3, <1>7, <1>10, <2>1 DEF Changed, Unchanging
<1>12. States(th)[t] = "run" /\ ~Terminations(th)[t]
  BY <1>3, <1>4, ValuesOf DEF StateOf
<1>13. Abs!Sleep(t)
  BY <1>1, <1>9, <1>11, <1>12
     DEF Abs!Sleep, States, Calls, WaitResults, Indices, Cancellable, WaitCancelled,
         Timers, Terminations
<1> QED BY <1>1, <1>8, <1>9, <1>13

\* KReadableEvent::Reset.
LEMMA ResetStep ==
  ASSUME Sound(next, m_thread_list_tail, fault, thread),
         NEW pos, NEW M, Arranged(next, m_thread_list_tail, thread, pos, M),
         NEW o \in Objects, Reset(o)
  PROVE  /\ Rearranged(thread, pos, next', m_thread_list_tail', fault', thread')
         /\ Abs!Reset(o)
<1>1. PICK th, nx, tl, flt :
        th = thread /\ nx = next /\ tl = m_thread_list_tail /\ flt = fault
  OBVIOUS
<1>2. UNCHANGED <<next, m_thread_list_tail, fault, thread>>
  BY DEF Reset, UnchangedLists
<1>3. Rearranged(th, pos, nx, tl, flt, th)
  <2>1. th \in [Threads -> GoodFields]
    BY <1>1 DEF Sound
  <2>2. SameWaits(th, th)
    BY DEF SameWaits
  <2>3. Sound(nx, tl, flt, th) /\ Arranged(nx, tl, th, pos, M)
    BY <1>1
  <2> QED BY <2>1, <2>2, <2>3, NothingMoves
<1>4. Abs!Reset(o)
  BY <1>2 DEF Reset, Abs!Reset
<1> QED BY <1>1, <1>2, <1>3, <1>4

\* KThread::Exit.
LEMMA ExitStep ==
  ASSUME Sound(next, m_thread_list_tail, fault, thread),
         NEW pos, NEW M, Arranged(next, m_thread_list_tail, thread, pos, M),
         NEW t \in Threads, Exit(t)
  PROVE  /\ Rearranged(thread, pos, next', m_thread_list_tail', fault', thread')
         /\ Abs!Exit(t)
<1>1. PICK th, th2, nx, tl, flt :
        /\ th = thread /\ th2 = thread'
        /\ nx = next /\ tl = m_thread_list_tail /\ flt = fault
  OBVIOUS
<1>2. th \in [Threads -> GoodFields]
  BY <1>1 DEF Sound
<1>3. PICK f \in GoodFields : f = th[t]
  BY <1>2
<1>4. f.m_state = "run"
  BY <1>1, <1>3 DEF Exit
<1>5. PICK h : h = HasExited(f)
  OBVIOUS
<1>6. th2 = [th EXCEPT ![t] = h]
  BY <1>1, <1>2, <1>3, <1>5 DEF Exit, HasExited
<1>7. /\ Flagged(h, f)
      /\ h.m_state = "exited" /\ h.m_wait_cancelled = f.m_wait_cancelled
      /\ h.m_termination_requested = TRUE
  BY <1>4, <1>5, FlagFields
<1>8. Rearranged(th, pos, nx, tl, flt, th2)
  <2>1. th2 \in [Threads -> GoodFields] /\ SameWaits(th, th2)
    BY <1>2, <1>3, <1>6, <1>7 DEF SameWaits, Flagged
  <2>2. Sound(nx, tl, flt, th) /\ Arranged(nx, tl, th, pos, M)
    BY <1>1
  <2> QED BY <2>1, <2>2, NothingMoves
<1>9. UNCHANGED <<m_is_signaled, next, m_thread_list_tail, fault>>
  BY DEF Exit, UnchangedLists
<1>10. Changed(th2, th, t, h) /\ Unchanging(th2, th, t, h)
  BY <1>2, <1>6, OneChanges, NoChange
<1>11. /\ States(th2) = [States(th) EXCEPT ![t] = "exited"]
       /\ Calls(th2) = Calls(th)
       /\ WaitResults(th2) = WaitResults(th)
       /\ Indices(th2) = Indices(th)
       /\ Cancellable(th2) = Cancellable(th)
       /\ WaitCancelled(th2) = WaitCancelled(th)
       /\ Timers(th2) = Timers(th)
       /\ Terminations(th2) = [Terminations(th) EXCEPT ![t] = TRUE]
  <2>1. StateOf(h) = "exited"
    BY <1>7 DEF StateOf
  <2> QED BY <1>3, <1>7, <1>10, <2>1 DEF Changed, Unchanging, Flagged
<1>12. States(th)[t] = "run"
  BY <1>3, <1>4, ValuesOf DEF StateOf
<1>13. Abs!Exit(t)
  BY <1>1, <1>9, <1>11, <1>12
     DEF Abs!Exit, States, Calls, WaitResults, Indices, Cancellable, WaitCancelled,
         Timers, Terminations
<1> QED BY <1>1, <1>8, <1>9, <1>13

\* CancelWait, and what its callers assign after it.
LEMMA CancelStep ==
  ASSUME Sound(next, m_thread_list_tail, fault, thread),
         NEW pos, NEW M, Arranged(next, m_thread_list_tail, thread, pos, M),
         NEW t \in Threads, NEW result, NEW cancel, NEW h,
         EndsEarly(h, thread[t], result), ~h.m_task,
         thread' = [thread EXCEPT ![t] = h],
         SetLists(CancelWait(t, result, cancel).lists), UNCHANGED m_is_signaled
  PROVE  /\ Rearranged(thread, pos, next', m_thread_list_tail', fault', thread')
         /\ Abs!Cancel(t, result)
         /\ Changed(thread', thread, t, h) /\ Unchanging(thread', thread, t, h)
<1>1. PICK th, th2 : th = thread /\ th2 = thread'
  OBVIOUS
<1>2. th \in [Threads -> GoodFields] /\ th2 = [th EXCEPT ![t] = h]
  BY <1>1 DEF Sound
<1>3. h \in GoodFields /\ h.m_wait_queue = "none"
  <2>1. PICK f : f = thread[t]
    OBVIOUS
  <2> QED BY <2>1, EarlyIsGood
<1>4. Rearranged(thread, pos, next', m_thread_list_tail', fault', thread')
  <2>1. PICK l : l = IF thread[t].m_wait_queue = "sync"
                     THEN UnlinkAll(Lists, t, thread[t].m_objects) ELSE Lists
    OBVIOUS
  <2>2. CancelWait(t, result, cancel).lists = l
    BY <2>1 DEF CancelWait
  <2>3. SetLists(l)
    BY <2>2
  <2> QED BY <1>3, <2>1, <2>3, WaitEnds
<1>5. Changed(th2, th, t, h) /\ Unchanging(th2, th, t, h)
  BY <1>2, OneChanges, NoChange
<1>6. /\ States(th2) = [States(th) EXCEPT ![t] = "run"]
      /\ Calls(th2) = [Calls(th) EXCEPT ![t] = << >>]
      /\ WaitResults(th2) = [WaitResults(th) EXCEPT ![t] = result]
      /\ Indices(th2) = Indices(th)
      /\ Cancellable(th2) = [Cancellable(th) EXCEPT ![t] = FALSE]
      /\ Timers(th2) = Timers(th) \ {t}
  <2>1. StateOf(h) = "run"
    BY DEF StateOf, EndsEarly
  <2>2. h.m_cancellable = FALSE
    <3>1. h.m_cancellable \in BOOLEAN
      BY DEF EndsEarly, ThreadFields
    <3> QED BY <3>1 DEF EndsEarly
  <2>3. h.m_synced_index = th[t].m_synced_index
    BY <1>1 DEF EndsEarly
  <2> QED BY <1>5, <2>1, <2>2, <2>3 DEF Changed, Unchanging, EndsEarly
<1>7. Abs!Cancel(t, result)
  BY <1>1, <1>6
     DEF Abs!Cancel, States, Calls, WaitResults, Indices, Cancellable, Timers
<1> QED BY <1>1, <1>4, <1>5, <1>7

\* The fields that CancelWait returns, for a thread that waits or does not.
LEMMA CancelWaitIs ==
  ASSUME NEW t, NEW result, NEW cancel
  PROVE  /\ thread[t].m_state = "wait" =>
              CancelWait(t, result, cancel).fields = CancelledFields(thread[t], result, cancel)
         /\ thread[t].m_state # "wait" => CancelWait(t, result, cancel).fields = thread[t]
BY DEF CancelWait, CancelledFields

\* KThread::OnTimer.
LEMMA OnTimerStep ==
  ASSUME Sound(next, m_thread_list_tail, fault, thread),
         NEW pos, NEW M, Arranged(next, m_thread_list_tail, thread, pos, M),
         NEW t \in Threads, OnTimer(t)
  PROVE  /\ Rearranged(thread, pos, next', m_thread_list_tail', fault', thread')
         /\ Abs!OnTimer(t)
<1>1. PICK f \in GoodFields : f = thread[t]
  BY DEF Sound
<1>2. f.m_task /\ f.m_state = "wait"
  <2>1. f.m_task
    BY <1>1 DEF OnTimer
  <2> QED BY <2>1 DEF GoodFields, FieldsOK
<1>3. PICK h : h = [CancelledFields(f, "TimedOut", FALSE) EXCEPT !.m_task = FALSE]
  OBVIOUS
<1>4. EndsEarly(h, f, "TimedOut") /\ ~h.m_task /\ SameFlags(h, f)
  <2>1. "TimedOut" \in Results
    BY DEF Results
  <2> QED BY <1>2, <1>3, <2>1, LastFlag
<1>5. thread' = [thread EXCEPT ![t] = h]
  <2>1. CancelWait(t, "TimedOut", FALSE).fields = CancelledFields(f, "TimedOut", FALSE)
    BY <1>1, <1>2, CancelWaitIs
  <2> QED BY <1>3, <2>1 DEF OnTimer
<1>6. SetLists(CancelWait(t, "TimedOut", FALSE).lists) /\ UNCHANGED m_is_signaled
  BY DEF OnTimer
<1>7. /\ Rearranged(thread, pos, next', m_thread_list_tail', fault', thread')
      /\ Abs!Cancel(t, "TimedOut")
      /\ Unchanging(thread', thread, t, h)
  BY <1>1, <1>4, <1>5, <1>6, CancelStep
<1>8. /\ WaitCancelled(thread') = WaitCancelled(thread)
      /\ Terminations(thread') = Terminations(thread)
  BY <1>1, <1>4, <1>7 DEF Unchanging, SameFlags
<1>9. t \in Timers(thread)
  BY <1>1, <1>2, ValuesOf
<1>10. Abs!OnTimer(t)
  BY <1>7, <1>8, <1>9 DEF Abs!OnTimer, WaitCancelled, Terminations, Timers
<1> QED BY <1>7, <1>10

\* KThread::WaitCancel.
LEMMA WaitCancelStep ==
  ASSUME Sound(next, m_thread_list_tail, fault, thread),
         NEW pos, NEW M, Arranged(next, m_thread_list_tail, thread, pos, M),
         NEW t \in Threads, WaitCancel(t)
  PROVE  /\ Rearranged(thread, pos, next', m_thread_list_tail', fault', thread')
         /\ Abs!WaitCancel(t)
<1>1. PICK f \in GoodFields : f = thread[t]
  BY DEF Sound
<1>2. UNCHANGED m_is_signaled
  BY DEF WaitCancel
<1>3. States(thread)[t] = StateOf(f) /\ Cancellable(thread)[t] = f.m_cancellable
  BY <1>1, ValuesOf
<1>4. CASE f.m_state = "wait" /\ f.m_cancellable
  <2>1. f.m_wait_queue = "sync"
    BY <1>4 DEF GoodFields, FieldsOK
  <2>2. PICK h : h = [CancelledFields(f, "Cancelled", TRUE) EXCEPT !.m_wait_cancelled = FALSE]
    OBVIOUS
  <2>3. /\ EndsEarly(h, f, "Cancelled") /\ ~h.m_task
        /\ h.m_wait_cancelled = FALSE
        /\ h.m_termination_requested = f.m_termination_requested
    <3>1. "Cancelled" \in Results
      BY DEF Results
    <3>2. f.m_state = "wait"
      BY <1>4
    <3> HIDE <1>4
    <3> QED BY <2>2, <3>1, <3>2, LastFlag
  <2>4. thread' = [thread EXCEPT ![t] = h]
    <3>1. CancelWait(t, "Cancelled", TRUE).fields = CancelledFields(f, "Cancelled", TRUE)
      BY <1>1, <1>4, CancelWaitIs
    <3>2. thread' = [thread EXCEPT ![t] =
                       [CancelWait(t, "Cancelled", TRUE).fields EXCEPT
                          !.m_wait_cancelled = FALSE]]
      BY <1>1, <1>4 DEF WaitCancel
    <3> QED BY <2>2, <3>1, <3>2
  <2>5. SetLists(CancelWait(t, "Cancelled", TRUE).lists)
    BY <1>1, <1>4 DEF WaitCancel
  <2>6. /\ Rearranged(thread, pos, next', m_thread_list_tail', fault', thread')
        /\ Abs!Cancel(t, "Cancelled")
        /\ Changed(thread', thread, t, h) /\ Unchanging(thread', thread, t, h)
    BY <1>1, <1>2, <2>3, <2>4, <2>5, CancelStep
  <2>7. /\ WaitCancelled(thread') = [WaitCancelled(thread) EXCEPT ![t] = FALSE]
        /\ Terminations(thread') = Terminations(thread)
    BY <1>1, <2>3, <2>6 DEF Changed, Unchanging
  <2>8. States(thread)[t] = "sync" /\ Cancellable(thread)[t]
    BY <1>3, <1>4, <2>1 DEF StateOf
  <2>9. Abs!WaitCancel(t)
    BY <2>6, <2>7, <2>8 DEF Abs!WaitCancel, WaitCancelled, Terminations, States, Cancellable
  <2> QED BY <2>6, <2>9
<1>5. CASE ~(f.m_state = "wait" /\ f.m_cancellable)
  <2>1. PICK th, th2, nx, tl, flt :
          /\ th = thread /\ th2 = thread'
          /\ nx = next /\ tl = m_thread_list_tail /\ flt = fault
    OBVIOUS
  <2>2. th \in [Threads -> GoodFields]
    BY <2>1 DEF Sound
  <2>3. PICK h : h = RememberCancel(f)
    OBVIOUS
  <2>4. th2 = [th EXCEPT ![t] = h] /\ UnchangedLists
    BY <1>1, <1>5, <2>1, <2>2, <2>3 DEF WaitCancel, RememberCancel
  <2>5. /\ Flagged(h, f)
        /\ h.m_state = f.m_state /\ h.m_wait_cancelled = TRUE
        /\ h.m_termination_requested = f.m_termination_requested
    BY <1>5, <2>3, FlagFields
  <2>6. Rearranged(th, pos, nx, tl, flt, th2)
    <3>1. th2 \in [Threads -> GoodFields] /\ SameWaits(th, th2)
      BY <1>1, <2>1, <2>2, <2>4, <2>5 DEF SameWaits, Flagged
    <3>2. Sound(nx, tl, flt, th) /\ Arranged(nx, tl, th, pos, M)
      BY <2>1
    <3> QED BY <3>1, <3>2, NothingMoves
  <2>7. Changed(th2, th, t, h) /\ Unchanging(th2, th, t, h)
    BY <2>2, <2>4, OneChanges, NoChange
  <2>8. /\ States(th2) = States(th) /\ Calls(th2) = Calls(th)
        /\ WaitResults(th2) = WaitResults(th)
        /\ Indices(th2) = Indices(th)
        /\ Cancellable(th2) = Cancellable(th)
        /\ WaitCancelled(th2) = [WaitCancelled(th) EXCEPT ![t] = TRUE]
        /\ Timers(th2) = Timers(th)
        /\ Terminations(th2) = Terminations(th)
    <3>1. StateOf(h) = StateOf(f)
      BY <2>5 DEF StateOf, Flagged
    <3> QED BY <1>1, <2>1, <2>5, <2>7, <3>1 DEF Changed, Unchanging, Flagged
  <2>9. ~(States(thread)[t] = "sync" /\ Cancellable(thread)[t])
    <3>1. f \in ThreadFields
      BY DEF GoodFields
    <3>2. StateOf(f) = "sync" => f.m_state = "wait"
      BY <3>1 DEF StateOf, ThreadFields
    <3> QED BY <1>3, <1>5, <3>2
  <2>10. Abs!WaitCancel(t)
    BY <1>2, <2>1, <2>8, <2>9
       DEF Abs!WaitCancel, States, Calls, WaitResults, Indices, Cancellable,
           WaitCancelled, Timers, Terminations
  <2> QED BY <2>1, <2>4, <2>6, <2>10 DEF UnchangedLists
<1> QED BY <1>4, <1>5

\* KThread::RequestTerminate.
LEMMA RequestTerminateStep ==
  ASSUME Sound(next, m_thread_list_tail, fault, thread),
         NEW pos, NEW M, Arranged(next, m_thread_list_tail, thread, pos, M),
         NEW t \in Threads, RequestTerminate(t)
  PROVE  /\ Rearranged(thread, pos, next', m_thread_list_tail', fault', thread')
         /\ Abs!RequestTerminate(t)
<1>1. PICK f \in GoodFields : f = thread[t]
  BY DEF Sound
<1>2. /\ UNCHANGED m_is_signaled /\ f.m_state # "exited" /\ ~f.m_termination_requested
      /\ SetLists(CancelWait(t, "TerminationRequested", TRUE).lists)
  BY <1>1 DEF RequestTerminate
<1>3. States(thread)[t] = StateOf(f) /\ Terminations(thread)[t] = f.m_termination_requested
  BY <1>1, ValuesOf
<1>4. /\ f.m_state \in {"run", "wait", "exited"}
      /\ f.m_wait_queue \in {"none", "sync", "sleep"}
      /\ f.m_state = "wait" <=> f.m_wait_queue # "none"
  BY DEF GoodFields, FieldsOK, ThreadFields
<1>5. CASE f.m_state = "wait"
  <2>1. PICK h : h = [CancelledFields(f, "TerminationRequested", TRUE) EXCEPT
                        !.m_termination_requested = TRUE]
    OBVIOUS
  <2>2. /\ EndsEarly(h, f, "TerminationRequested") /\ ~h.m_task
        /\ h.m_termination_requested = TRUE
        /\ h.m_wait_cancelled = f.m_wait_cancelled
    <3>1. "TerminationRequested" \in Results
      BY DEF Results
    <3> QED BY <1>5, <2>1, <3>1, LastFlag
  <2>3. thread' = [thread EXCEPT ![t] = h]
    <3>1. CancelWait(t, "TerminationRequested", TRUE).fields
            = CancelledFields(f, "TerminationRequested", TRUE)
      BY <1>1, <1>5, CancelWaitIs
    <3> QED BY <2>1, <3>1 DEF RequestTerminate
  <2>4. /\ Rearranged(thread, pos, next', m_thread_list_tail', fault', thread')
        /\ Abs!Cancel(t, "TerminationRequested")
        /\ Changed(thread', thread, t, h) /\ Unchanging(thread', thread, t, h)
    BY <1>1, <1>2, <2>2, <2>3, CancelStep
  <2>5. /\ WaitCancelled(thread') = WaitCancelled(thread)
        /\ Terminations(thread') = [Terminations(thread) EXCEPT ![t] = TRUE]
    BY <1>1, <2>2, <2>4 DEF Changed, Unchanging
  <2>6. /\ States(thread)[t] \in {"sync", "sleep"} /\ States(thread)[t] # "exited"
        /\ ~Terminations(thread)[t]
    BY <1>2, <1>3, <1>4, <1>5 DEF StateOf
  <2>7. Abs!RequestTerminate(t)
    BY <2>4, <2>5, <2>6 DEF Abs!RequestTerminate, WaitCancelled, Terminations, States
  <2> QED BY <2>4, <2>7
<1>6. CASE f.m_state # "wait"
  <2>1. PICK th, th2 : th = thread /\ th2 = thread'
    OBVIOUS
  <2>2. th \in [Threads -> GoodFields]
    BY <2>1 DEF Sound
  <2>3. PICK h : h = AskToTerminate(f)
    OBVIOUS
  <2>4. th2 = [th EXCEPT ![t] = h]
    <3>1. CancelWait(t, "TerminationRequested", TRUE).fields = f
      BY <1>1, <1>6, CancelWaitIs
    <3> QED BY <2>1, <2>3, <3>1 DEF RequestTerminate, AskToTerminate
  <2>5. /\ Flagged(h, f)
        /\ h.m_state = f.m_state /\ h.m_wait_cancelled = f.m_wait_cancelled
        /\ h.m_termination_requested = TRUE
    BY <1>6, <2>3, FlagFields
  <2>6. Rearranged(thread, pos, next', m_thread_list_tail', fault', thread')
    <3>1. PICK l : l = CancelWait(t, "TerminationRequested", TRUE).lists
      OBVIOUS
    <3>2. l = IF thread[t].m_wait_queue = "sync"
              THEN UnlinkAll(Lists, t, thread[t].m_objects) ELSE Lists
      BY <3>1 DEF CancelWait
    <3>3. h \in GoodFields /\ h.m_wait_queue # "sync"
      BY <1>4, <1>6, <2>5 DEF Flagged
    <3>4. thread' = [thread EXCEPT ![t] = h] /\ SetLists(l)
      BY <1>2, <2>1, <2>4, <3>1
    <3> QED BY <3>2, <3>3, <3>4, WaitEnds
  <2>7. Changed(th2, th, t, h) /\ Unchanging(th2, th, t, h)
    BY <2>2, <2>4, OneChanges, NoChange
  <2>8. /\ States(th2) = States(th) /\ Calls(th2) = Calls(th)
        /\ WaitResults(th2) = WaitResults(th)
        /\ Indices(th2) = Indices(th)
        /\ Cancellable(th2) = Cancellable(th)
        /\ WaitCancelled(th2) = WaitCancelled(th)
        /\ Timers(th2) = Timers(th)
        /\ Terminations(th2) = [Terminations(th) EXCEPT ![t] = TRUE]
    <3>1. StateOf(h) = StateOf(f)
      BY <2>5 DEF StateOf, Flagged
    <3> QED BY <1>1, <2>1, <2>5, <2>7, <3>1 DEF Changed, Unchanging, Flagged
  <2>9. States(thread)[t] = "run" /\ ~Terminations(thread)[t]
    BY <1>2, <1>3, <1>4, <1>6 DEF StateOf
  <2>10. Abs!RequestTerminate(t)
    BY <1>2, <2>1, <2>8, <2>9
       DEF Abs!RequestTerminate, States, Calls, WaitResults, Indices, Cancellable,
           WaitCancelled, Timers, Terminations
  <2> QED BY <2>6, <2>10
<1> QED BY <1>5, <1>6

\* The index that a released thread reports.
LEMMA IndexIsFirst ==
  ASSUME NEW objs \in ObjectLists, NEW o, \E i \in DOMAIN objs : objs[i] = o
  PROVE  SyncIndex(objs, o) = Abs!FirstIndex(objs, o)
<1>1. PICK x : x = SyncIndex(objs, o)
  OBVIOUS
<1>2. x \in DOMAIN objs /\ objs[x] = o /\ \A j \in DOMAIN objs : j < x => objs[j] # o
  BY <1>1, IndexInCall
<1>3. PICK n \in 0..MaxObjects : objs \in [1..n -> Objects]
  BY DEF ObjectLists
<1>4. DOMAIN objs \subseteq Nat
  BY <1>3
<1>5. ASSUME NEW y \in DOMAIN objs, objs[y] = o, \A j \in DOMAIN objs : j < y => objs[j] # o
      PROVE  y = x
  <2>1. ~(x < y) /\ ~(y < x) /\ x \in Nat /\ y \in Nat
    BY <1>2, <1>4, <1>5
  <2> QED BY <2>1
<1>6. PICK y : y = Abs!FirstIndex(objs, o)
  OBVIOUS
<1>7. y \in DOMAIN objs /\ objs[y] = o /\ \A j \in DOMAIN objs : j < y => objs[j] # o
  BY <1>2, <1>6 DEF Abs!FirstIndex
<1> QED BY <1>1, <1>5, <1>6, <1>7

\* The threads on the list of o are those that wait for it.
LEMMA WaitersWait ==
  ASSUME NEW th \in [Threads -> GoodFields], NEW o, NEW t \in Threads
  PROVE  /\ t \in WaitersOf(th, o) <=>
              States(th)[t] = "sync" /\ \E i \in DOMAIN Calls(th)[t] : Calls(th)[t][i] = o
         /\ t \in WaitersOf(th, o) => \E i \in DOMAIN th[t].m_objects : th[t].m_objects[i] = o
<1>1. PICK f \in GoodFields : f = th[t]
  OBVIOUS
<1>2. PICK q \in ObjectLists : q = f.m_objects
  BY DEF GoodFields, ThreadFields
<1>3. DOMAIN q = 1..Len(q) /\ \A i \in 1..Len(q) : <<t, i>> \in Nodes
  BY CallNodes
<1>4. \A i : <<t, i>>[1] = t /\ <<t, i>>[2] = i
  OBVIOUS
<1>5. States(th)[t] = "sync" <=> f.m_wait_queue = "sync"
  <2>1. f \in ThreadFields /\ FieldsOK(f)
    BY DEF GoodFields
  <2>2. StateOf(f) = "sync" <=> f.m_wait_queue = "sync"
    BY <2>1 DEF StateOf, ThreadFields, FieldsOK
  <2> QED BY <1>1, <2>2, ValuesOf
<1>6. Calls(th)[t] = q
  BY <1>1, <1>2, ValuesOf
<1>7. ASSUME t \in WaitersOf(th, o)
      PROVE  f.m_wait_queue = "sync" /\ \E i \in DOMAIN q : q[i] = o
  <2>1. PICK n \in OnList(th, o) : n[1] = t
    BY <1>7 DEF WaitersOf
  <2> QED BY <1>1, <1>2, <2>1 DEF OnList
<1>8. ASSUME f.m_wait_queue = "sync", NEW i \in DOMAIN q, q[i] = o
      PROVE  t \in WaitersOf(th, o)
  <2>1. <<t, i>> \in OnList(th, o)
    BY <1>1, <1>2, <1>3, <1>4, <1>8 DEF OnList
  <2> QED BY <1>4, <2>1 DEF WaitersOf
<1> QED BY <1>1, <1>2, <1>5, <1>6, <1>7, <1>8

\* The abstract variables when the threads in E are released.
AllReleased(th2, th, E, o) ==
  /\ States(th2) = [t \in Threads |-> IF t \in E THEN "run" ELSE States(th)[t]]
  /\ Calls(th2) = [t \in Threads |-> IF t \in E THEN << >> ELSE Calls(th)[t]]
  /\ WaitResults(th2) = [t \in Threads |->
       IF t \in E THEN "Success" ELSE WaitResults(th)[t]]
  /\ Indices(th2) = [t \in Threads |->
       IF t \in E THEN Abs!FirstIndex(Calls(th)[t], o) ELSE Indices(th)[t]]
  /\ Cancellable(th2) = [t \in Threads |-> t \notin E /\ Cancellable(th)[t]]
  /\ Timers(th2) = Timers(th) \ E
  /\ WaitCancelled(th2) = WaitCancelled(th)
  /\ Terminations(th2) = Terminations(th)

\* Releasing the threads in E is what the abstract Signal does to them.
LEMMA ManyReleased ==
  ASSUME NEW th \in [Threads -> GoodFields], NEW o, NEW E,
         \A t \in E : t \in Threads /\ \E i \in DOMAIN th[t].m_objects : th[t].m_objects[i] = o,
         NEW th2, th2 = Releasing(th, E, o)
  PROVE  AllReleased(th2, th, E, o)
<1>1. \A t \in Threads : th2[t] = IF t \in E THEN Released(th[t], o) ELSE th[t]
  BY DEF Releasing
<1>2. ASSUME NEW t \in E
      PROVE  /\ th2[t].m_state = "run" /\ th2[t].m_objects = << >>
             /\ th2[t].m_wait_result = "Success"
             /\ th2[t].m_synced_index = Abs!FirstIndex(th[t].m_objects, o)
             /\ th2[t].m_cancellable = FALSE /\ ~th2[t].m_task
             /\ th2[t].m_wait_cancelled = th[t].m_wait_cancelled
             /\ th2[t].m_termination_requested = th[t].m_termination_requested
  <2>1. PICK q \in ObjectLists : q = th[t].m_objects
    BY DEF GoodFields, ThreadFields
  <2>2. SyncIndex(q, o) = Abs!FirstIndex(q, o)
    BY <2>1, IndexIsFirst
  <2>3. th2[t] = Ended(th[t], "Success", SyncIndex(q, o), FALSE)
    BY <1>1, <2>1 DEF Released
  <2> QED BY <2>1, <2>2, <2>3 DEF Ended
<1>3. \A t \in Threads : t \notin E => th2[t] = th[t]
  BY <1>1
<1>4. States(th2) = [t \in Threads |-> IF t \in E THEN "run" ELSE States(th)[t]]
  BY <1>2, <1>3 DEF States
<1>5. Calls(th2) = [t \in Threads |-> IF t \in E THEN << >> ELSE Calls(th)[t]]
  BY <1>2, <1>3 DEF Calls
<1>6. WaitResults(th2) = [t \in Threads |->
        IF t \in E THEN "Success" ELSE WaitResults(th)[t]]
  BY <1>2, <1>3 DEF WaitResults
<1>7. Indices(th2) = [t \in Threads |->
        IF t \in E THEN Abs!FirstIndex(Calls(th)[t], o) ELSE Indices(th)[t]]
  BY <1>2, <1>3 DEF Indices, Calls
<1>8. Cancellable(th2) = [t \in Threads |-> t \notin E /\ Cancellable(th)[t]]
  <2>1. \A t \in Threads : th[t].m_cancellable \in BOOLEAN
    BY DEF GoodFields, ThreadFields
  <2>2. \A t \in Threads : th2[t].m_cancellable = (t \notin E /\ th[t].m_cancellable)
    BY <1>2, <1>3, <2>1
  <2> QED BY <2>2 DEF Cancellable
<1>9. Timers(th2) = Timers(th) \ E
  BY <1>2, <1>3 DEF Timers
<1>10. WaitCancelled(th2) = WaitCancelled(th) /\ Terminations(th2) = Terminations(th)
  BY <1>2, <1>3 DEF WaitCancelled, Terminations
<1> QED BY <1>4, <1>5, <1>6, <1>7, <1>8, <1>9, <1>10 DEF AllReleased

\* KReadableEvent::Signal.
LEMMA SignalStep ==
  ASSUME Sound(next, m_thread_list_tail, fault, thread),
         NEW pos, NEW M, Arranged(next, m_thread_list_tail, thread, pos, M),
         m_is_signaled \in [Objects -> BOOLEAN], NEW o \in Objects, Signal(o)
  PROVE  /\ Rearranged(thread, pos, next', m_thread_list_tail', fault', thread')
         /\ Abs!Signal(o)
<1>1. PICK th, th2, nx, tl, flt :
        /\ th = thread /\ th2 = thread'
        /\ nx = next /\ tl = m_thread_list_tail /\ flt = fault
  OBVIOUS
<1>2. th \in [Threads -> GoodFields]
  BY <1>1 DEF Sound
<1> DEFINE E == IF m_is_signaled[o] THEN {} ELSE WaitersOf(th, o)
<1>3. /\ Rearranged(thread, pos, next', m_thread_list_tail', fault', thread')
      /\ th2 = Releasing(th, E, o)
  <2>1. CASE m_is_signaled[o]
    <3>1. UNCHANGED <<next, m_thread_list_tail, fault, thread>>
      BY <2>1 DEF Signal, UnchangedLists
    <3>2. SameWaits(th, th)
      BY DEF SameWaits
    <3>3. Sound(nx, tl, flt, th) /\ Arranged(nx, tl, th, pos, M)
      BY <1>1
    <3>4. Rearranged(th, pos, nx, tl, flt, th)
      BY <1>2, <3>2, <3>3, NothingMoves
    <3>5. th = Releasing(th, {}, o)
      BY <1>2 DEF Releasing
    <3> QED BY <1>1, <2>1, <3>1, <3>4, <3>5
  <2>2. CASE ~m_is_signaled[o]
    BY <1>1, <2>2, SignalReleases
  <2> QED BY <2>1, <2>2
<1>4. \A t \in E : t \in Threads /\ \E i \in DOMAIN th[t].m_objects : th[t].m_objects[i] = o
  <2>1. \A t \in E : t \in Threads /\ t \in WaitersOf(th, o)
    BY DEF WaitersOf
  <2> QED BY <1>2, <2>1, WaitersWait
<1>5. {t \in Threads : ~m_is_signaled[o] /\ Abs!WaitsFor(t, o)} = E
  <2>1. ASSUME NEW t \in Threads PROVE Abs!WaitsFor(t, o) <=> t \in WaitersOf(th, o)
    <3>1. Abs!WaitsFor(t, o) <=>
            /\ States(thread)[t] = "sync"
            /\ \E i \in DOMAIN Calls(thread)[t] : Calls(thread)[t][i] = o
      BY DEF Abs!WaitsFor, States, Calls
    <3> QED BY <1>1, <1>2, <3>1, WaitersWait
  <2> QED BY <2>1 DEF WaitersOf
<1> HIDE DEF E
<1>6. AllReleased(th2, th, E, o)
  BY <1>2, <1>3, <1>4, ManyReleased
<1>7. m_is_signaled' = [m_is_signaled EXCEPT ![o] = TRUE]
  BY DEF Signal
<1>8. Abs!Signal(o)
  <2> DEFINE R == {t \in Threads : ~m_is_signaled[o] /\ Abs!WaitsFor(t, o)}
  <2>1. R = E
    BY <1>5
  <2> HIDE DEF R
  <2>2. /\ States(thread') = [t \in Threads |-> IF t \in R THEN "run" ELSE States(thread)[t]]
        /\ Calls(thread') = [t \in Threads |-> IF t \in R THEN << >> ELSE Calls(thread)[t]]
        /\ WaitResults(thread') = [t \in Threads |->
             IF t \in R THEN "Success" ELSE WaitResults(thread)[t]]
        /\ Indices(thread') = [t \in Threads |->
             IF t \in R THEN Abs!FirstIndex(Calls(thread)[t], o) ELSE Indices(thread)[t]]
        /\ Cancellable(thread') = [t \in Threads |-> t \notin R /\ Cancellable(thread)[t]]
        /\ Timers(thread') = Timers(thread) \ R
        /\ WaitCancelled(thread') = WaitCancelled(thread)
        /\ Terminations(thread') = Terminations(thread)
    BY <1>1, <1>6, <2>1 DEF AllReleased
  <2> QED BY <1>7, <2>2, Zenon
     DEF Abs!Signal, States, Calls, WaitResults, Indices, Cancellable, WaitCancelled,
         Timers, Terminations, R
<1> QED BY <1>3, <1>8

-----------------------------------------------------------------------------
(* The invariant holds, and the abstract specification is implemented.     *)

\* The invariant holds initially: all lists are empty.
LEMMA InvInit == Init => Inv
<1> SUFFICES ASSUME Init PROVE Inv
  OBVIOUS
<1>1. Sound(next, m_thread_list_tail, fault, thread)
  <2>1. 0 \in 0..MaxObjects
    BY SyncAssumption
  <2>2. PICK f : f = [m_state |-> "run", m_wait_queue |-> "none", m_objects |-> << >>,
                      m_hardware_timer |-> FALSE, m_task |-> FALSE,
                      m_wait_result |-> "Success", m_synced_index |-> 0,
                      m_cancellable |-> FALSE, m_wait_cancelled |-> FALSE,
                      m_termination_requested |-> FALSE]
    OBVIOUS
  <2>3. f \in ThreadFields /\ FieldsOK(f)
    BY <2>1, <2>2, EmptyList DEF ThreadFields, FieldsOK
  <2>4. thread = [t \in Threads |-> f]
    BY <2>2 DEF Init
  <2>5. thread \in [Threads -> GoodFields]
    BY <2>3, <2>4 DEF GoodFields
  <2> QED BY <2>5 DEF Sound, Init, Cells, NodeOrNull
<1>2. \A o : OnList(thread, o) = {}
  <2>1. \A t \in Threads : thread[t].m_wait_queue = "none"
    BY DEF Init
  <2>2. \A n \in Nodes : n[1] \in Threads
    BY DEF Nodes
  <2> QED BY <2>1, <2>2 DEF OnList
<1>3. PICK L : L = OnLists(thread)
  OBVIOUS
<1>4. L \in [Objects -> SUBSET Nodes] /\ \A o \in Objects : L[o] = {}
  BY <1>2, <1>3 DEF OnLists
<1> DEFINE pos == [n \in Nodes |-> 0]
<1>5. Placed(L, {}, pos)
  BY <1>4 DEF Placed
<1>6. ListsOK(next, m_thread_list_tail, L, {}, pos)
  <2>1. \A o \in Objects : next[o] = NULL /\ m_thread_list_tail[o] = NULL
    BY DEF Init
  <2> QED BY <1>4, <2>1 DEF ListsOK, ChainOK, Follows, TailOK
<1>7. Arranged(next, m_thread_list_tail, thread, pos, 0)
  BY <1>2, <1>3, <1>5, <1>6 DEF Arranged
<1>8. m_is_signaled \in [Objects -> BOOLEAN]
  BY DEF Init
<1> QED BY <1>1, <1>7, <1>8 DEF Inv

\* Every step rearranges the lists, and is a step of the abstract specification.
LEMMA StepIs ==
  ASSUME Sound(next, m_thread_list_tail, fault, thread),
         NEW pos, NEW M, Arranged(next, m_thread_list_tail, thread, pos, M),
         m_is_signaled \in [Objects -> BOOLEAN], Next
  PROVE  /\ Rearranged(thread, pos, next', m_thread_list_tail', fault', thread')
         /\ Abs!Next
         /\ m_is_signaled' \in [Objects -> BOOLEAN]
<1>1. ASSUME NEW t \in Threads, NEW objs \in ObjectLists, NEW timeout \in Timeouts,
             WaitReturns(t, objs, timeout)
      PROVE  /\ Rearranged(thread, pos, next', m_thread_list_tail', fault', thread')
             /\ Abs!WaitReturns(t, objs, timeout) /\ UNCHANGED m_is_signaled
  <2>1. UNCHANGED m_is_signaled
    BY <1>1 DEF WaitReturns
  <2> QED BY <1>1, <2>1, WaitReturnsStep
<1>2. ASSUME NEW t \in Threads, NEW objs \in ObjectLists, NEW timeout \in Timeouts,
             WaitBlocks(t, objs, timeout)
      PROVE  /\ Rearranged(thread, pos, next', m_thread_list_tail', fault', thread')
             /\ Abs!WaitBlocks(t, objs, timeout) /\ UNCHANGED m_is_signaled
  <2>1. UNCHANGED m_is_signaled
    BY <1>2 DEF WaitBlocks
  <2> QED BY <1>2, <2>1, WaitBlocksStep
<1>3. ASSUME NEW o \in Objects, Signal(o)
      PROVE  /\ Rearranged(thread, pos, next', m_thread_list_tail', fault', thread')
             /\ Abs!Signal(o) /\ m_is_signaled' = [m_is_signaled EXCEPT ![o] = TRUE]
  <2>1. m_is_signaled' = [m_is_signaled EXCEPT ![o] = TRUE]
    BY <1>3 DEF Signal
  <2> QED BY <1>3, <2>1, SignalStep
<1>4. ASSUME NEW o \in Objects, Reset(o)
      PROVE  /\ Rearranged(thread, pos, next', m_thread_list_tail', fault', thread')
             /\ Abs!Reset(o) /\ m_is_signaled' = [m_is_signaled EXCEPT ![o] = FALSE]
  <2>1. m_is_signaled' = [m_is_signaled EXCEPT ![o] = FALSE]
    BY <1>4 DEF Reset
  <2> QED BY <1>4, <2>1, ResetStep
<1>5. ASSUME NEW t \in Threads, Sleep(t)
      PROVE  /\ Rearranged(thread, pos, next', m_thread_list_tail', fault', thread')
             /\ Abs!Sleep(t) /\ UNCHANGED m_is_signaled
  <2>1. UNCHANGED m_is_signaled
    BY <1>5 DEF Sleep
  <2> QED BY <1>5, <2>1, SleepStep
<1>6. ASSUME NEW t \in Threads, OnTimer(t)
      PROVE  /\ Rearranged(thread, pos, next', m_thread_list_tail', fault', thread')
             /\ Abs!OnTimer(t) /\ UNCHANGED m_is_signaled
  <2>1. UNCHANGED m_is_signaled
    BY <1>6 DEF OnTimer
  <2> QED BY <1>6, <2>1, OnTimerStep
<1>7. ASSUME NEW t \in Threads, WaitCancel(t)
      PROVE  /\ Rearranged(thread, pos, next', m_thread_list_tail', fault', thread')
             /\ Abs!WaitCancel(t) /\ UNCHANGED m_is_signaled
  <2>1. UNCHANGED m_is_signaled
    BY <1>7 DEF WaitCancel
  <2> QED BY <1>7, <2>1, WaitCancelStep
<1>8. ASSUME NEW t \in Threads, RequestTerminate(t)
      PROVE  /\ Rearranged(thread, pos, next', m_thread_list_tail', fault', thread')
             /\ Abs!RequestTerminate(t) /\ UNCHANGED m_is_signaled
  <2>1. UNCHANGED m_is_signaled
    BY <1>8 DEF RequestTerminate
  <2> QED BY <1>8, <2>1, RequestTerminateStep
<1>9. ASSUME NEW t \in Threads, Exit(t)
      PROVE  /\ Rearranged(thread, pos, next', m_thread_list_tail', fault', thread')
             /\ Abs!Exit(t) /\ UNCHANGED m_is_signaled
  <2>1. UNCHANGED m_is_signaled
    BY <1>9 DEF Exit
  <2> QED BY <1>9, <2>1, ExitStep
<1>10. Abs!ObjectLists = ObjectLists /\ Abs!Timeouts = Timeouts
  BY DEF Abs!ObjectLists, ObjectLists, Abs!Timeouts, Timeouts
<1>11. Rearranged(thread, pos, next', m_thread_list_tail', fault', thread')
  BY <1>1, <1>2, <1>3, <1>4, <1>5, <1>6, <1>7, <1>8, <1>9 DEF Next
<1>12. Abs!Next
  BY <1>1, <1>2, <1>3, <1>4, <1>5, <1>6, <1>7, <1>8, <1>9, <1>10 DEF Next, Abs!Next
<1>13. m_is_signaled' \in [Objects -> BOOLEAN]
  BY <1>1, <1>2, <1>3, <1>4, <1>5, <1>6, <1>7, <1>8, <1>9 DEF Next
<1> QED BY <1>11, <1>12, <1>13

\* Every step preserves the invariant.
LEMMA InvStep == Inv /\ [Next]_vars => Inv'
<1> SUFFICES ASSUME Inv, [Next]_vars PROVE Inv'
  OBVIOUS
<1>1. PICK pos, M : Arranged(next, m_thread_list_tail, thread, pos, M)
  BY DEF Inv
<1>2. Sound(next, m_thread_list_tail, fault, thread) /\ m_is_signaled \in [Objects -> BOOLEAN]
  BY DEF Inv
<1>3. CASE Next
  <2>1. /\ Rearranged(thread, pos, next', m_thread_list_tail', fault', thread')
        /\ m_is_signaled' \in [Objects -> BOOLEAN]
    BY <1>1, <1>2, <1>3, StepIs
  <2>2. /\ Sound(next', m_thread_list_tail', fault', thread')
        /\ \E pos2, M2 : Arranged(next', m_thread_list_tail', thread', pos2, M2)
    BY <2>1 DEF Rearranged
  <2> QED BY <2>1, <2>2 DEF Inv
<1>4. CASE UNCHANGED vars
  <2>1. UNCHANGED <<m_is_signaled, next, m_thread_list_tail, thread, fault>>
    BY <1>4 DEF vars
  <2> QED BY <1>1, <1>2, <2>1 DEF Inv
<1> QED BY <1>3, <1>4

\* Lists that are arranged are walked in the order of the places.
LEMMA WalkOfArranged ==
  ASSUME NEW nx \in [Cells -> NodeOrNull], NEW tl, NEW th, NEW pos, NEW M,
         Arranged(nx, tl, th, pos, M), NEW o \in Objects,
         NEW s, s.next = nx, NEW at, at = Walk(s, o)
  PROVE  /\ Visits(at, OnLists(th), {}, pos, o)
         /\ NodesOn(at) = OnList(th, o)
         /\ \A n \in OnList(th, o) : pos[n] \in Nat
<1>1. PICK L : L = OnLists(th)
  OBVIOUS
<1>2. /\ Placed(L, {}, pos) /\ ListsOK(nx, tl, L, {}, pos) /\ L[o] = OnList(th, o)
  BY <1>1 DEF Arranged, OnLists
<1>3. IsWalk(at, s, o)
  BY WalkDefined
<1>4. ChainOK(s.next, L, {}, pos, o)
  BY <1>2 DEF ListsOK
<1>5. Visits(at, L, {}, pos, o)
  BY <1>2, <1>3, <1>4, WalkVisits
<1>6. L[o] \subseteq Nodes /\ NULL \notin Nodes /\ pos \in [Nodes -> Nat]
  BY <1>2, SyncAssumption DEF Placed
<1>7. NodesOn(at) = L[o]
  <2>1. /\ \A k \in 1..N : at[k] \in (L[o] \ {}) \cup {NULL}
        /\ \A m \in L[o] \ {} : \E k \in 1..N : at[k] = m
    BY <1>5 DEF Visits
  <2> QED BY <1>6, <2>1 DEF NodesOn, N
<1> QED BY <1>1, <1>2, <1>5, <1>6, <1>7

\* The steps of a walk are in the order of the places.
LEMMA WalkOrder ==
  ASSUME NEW at, NEW L, NEW pos, NEW o, Visits(at, L, {}, pos, o),
         NEW i \in 1..N, NEW j \in 1..N, at[i] # NULL, at[j] # NULL,
         pos[at[i]] \in Nat, pos[at[j]] \in Nat
  PROVE  /\ i < j <=> pos[at[i]] < pos[at[j]]
         /\ at[i] = at[j] => i = j
<1>1. i < j => pos[at[i]] < pos[at[j]]
  BY DEF Visits
<1>2. j < i => pos[at[j]] < pos[at[i]]
  BY DEF Visits
<1>3. i < j \/ j < i \/ i = j
  BY NodesFinite
<1>4. PICK a \in Nat, b \in Nat : a = pos[at[i]] /\ b = pos[at[j]]
  OBVIOUS
<1>5. (i < j => a < b) /\ (j < i => b < a) /\ (i = j => a = b) /\ (at[i] = at[j] => a = b)
  BY <1>1, <1>2, <1>4
<1>6. i \in Int /\ j \in Int
  BY NodesFinite
<1> QED BY <1>3, <1>4, <1>5, <1>6

\* The invariant implies the soundness of the lists.
LEMMA InvSound == Inv => ListsAreSound
<1> SUFFICES ASSUME Inv PROVE ListsAreSound
  OBVIOUS
<1>1. PICK nx, tl, th : nx = next /\ tl = m_thread_list_tail /\ th = thread
  OBVIOUS
<1>2. PICK pos, M : Arranged(nx, tl, th, pos, M)
  BY <1>1 DEF Inv
<1>3. nx \in [Cells -> NodeOrNull] /\ Lists.next = nx /\ ~fault
  BY <1>1 DEF Inv, Sound, Lists
<1>4. ASSUME NEW o \in Objects, NEW at, at = Walk(Lists, o)
      PROVE  /\ NodesOn(at) = WaitingNodes(o)
             /\ \A j, k \in 1..Cardinality(Nodes) : at[j] = at[k] /\ at[j] # NULL => j = k
             /\ IF NodesOn(at) = {} THEN m_thread_list_tail[o] = NULL
                ELSE /\ m_thread_list_tail[o] \in NodesOn(at)
                     /\ next[m_thread_list_tail[o]] = NULL
  <2>1. /\ Visits(at, OnLists(th), {}, pos, o) /\ NodesOn(at) = OnList(th, o)
        /\ \A n \in OnList(th, o) : pos[n] \in Nat
    <3>1. PICK s : s = Lists
      OBVIOUS
    <3> QED BY <1>2, <1>3, <1>4, <3>1, WalkOfArranged
  <2>2. OnList(th, o) = WaitingNodes(o)
    BY <1>1 DEF OnList, WaitingNodes
  <2>3. ASSUME NEW j \in 1..N, NEW k \in 1..N, at[j] = at[k], at[j] # NULL PROVE j = k
    <3>1. at[j] \in OnList(th, o) /\ at[k] \in OnList(th, o)
      BY <2>1, <2>3 DEF NodesOn, N
    <3>2. PICK L : L = OnLists(th)
      OBVIOUS
    <3> QED BY <2>1, <2>3, <3>1, <3>2, WalkOrder
  <2>4. PICK L : L = OnLists(th) /\ L[o] = OnList(th, o)
    <3>1. OnLists(th)[o] = OnList(th, o)
      BY DEF OnLists
    <3> QED BY <3>1
  <2>5. TailOK(tl, L, {}, pos, o) /\ ChainOK(nx, L, {}, pos, o)
    BY <1>2, <2>4 DEF Arranged, ListsOK
  <2>6. tl[o] = NULL => NodesOn(at) = {}
    <3>1. ASSUME tl[o] = NULL PROVE L[o] \subseteq {}
      BY <2>5, <3>1 DEF TailOK
    <3> QED BY <2>1, <2>4, <3>1
  <2>7. ASSUME tl[o] # NULL PROVE tl[o] \in NodesOn(at) /\ nx[tl[o]] = NULL
    <3>1. PICK c : c = tl[o]
      OBVIOUS
    <3>2. c \in L[o] /\ \A m \in L[o] : pos[m] <= pos[c]
      BY <2>5, <2>7, <3>1 DEF TailOK
    <3>3. Follows(nx, L, {}, pos, o, c)
      BY <2>5, <3>2 DEF ChainOK
    <3>4. c \notin Objects
      BY <2>4, <3>2, OnListNodes, SyncAssumption
    <3>5. nx[c] # NULL => nx[c] \in L[o] /\ pos[c] < pos[nx[c]]
      BY <3>3, <3>4 DEF Follows, Before
    <3>6. nx[c] # NULL => pos[nx[c]] <= pos[c] /\ pos[c] \in Nat /\ pos[nx[c]] \in Nat
      BY <2>1, <2>4, <3>2, <3>5
    <3> QED BY <2>1, <2>4, <3>1, <3>2, <3>5, <3>6
  <2> QED BY <1>1, <2>1, <2>2, <2>3, <2>6, <2>7 DEF N
<1>5. ListsMatchWaits
  BY <1>4 DEF ListsMatchWaits
<1> QED BY <1>3, <1>5 DEF ListsAreSound, NoListFault

\* UnlinkNode() always finds its node, the loop of NotifyAvailable() ends, no
\* handler marked UNREACHABLE() is called, and every list holds exactly the nodes
\* of the current waits for its object, each once, up to its tail: for any number
\* of threads and objects, and any calls, also calls that name an object twice.
THEOREM ListsStaySound == Spec => []ListsAreSound
<1> QED BY InvInit, InvStep, InvSound, PTL DEF Spec

\* Every step keeps the order of every list.
LEMMA OrderIsKept == Inv /\ Next => \A o \in Objects : KeepsOrder(o)
<1> SUFFICES ASSUME Inv, Next, NEW o \in Objects PROVE KeepsOrder(o)
  OBVIOUS
<1>1. PICK nx, tl, th, nx2, tl2, th2 :
        /\ nx = next /\ tl = m_thread_list_tail /\ th = thread
        /\ nx2 = next' /\ tl2 = m_thread_list_tail' /\ th2 = thread'
  OBVIOUS
<1>2. PICK pos, M : Arranged(next, m_thread_list_tail, thread, pos, M)
  BY DEF Inv
<1>3. Rearranged(thread, pos, next', m_thread_list_tail', fault', thread')
  BY <1>2, StepIs DEF Inv
<1>4. PICK pos2, M2 : Arranged(nx2, tl2, th2, pos2, M2) /\ OrderKept(th, th2, pos, pos2)
  BY <1>1, <1>3 DEF Rearranged
<1>5. nx \in [Cells -> NodeOrNull] /\ nx2 \in [Cells -> NodeOrNull]
  BY <1>1, <1>3 DEF Rearranged, Inv, Sound
<1>6. PICK s, s2 : s = Lists /\ s2 = [Lists EXCEPT !.next = next']
  OBVIOUS
<1>7. s.next = nx /\ s2.next = nx2
  BY <1>1, <1>6 DEF Lists
<1>8. PICK b, a : b = Walk(s, o) /\ a = Walk(s2, o)
  OBVIOUS
<1>9. Arranged(nx, tl, th, pos, M)
  BY <1>1, <1>2
<1>10. PICK L, L2 : L = OnLists(th) /\ L2 = OnLists(th2)
  OBVIOUS
<1>11. /\ Visits(b, L, {}, pos, o) /\ NodesOn(b) = OnList(th, o)
       /\ \A n \in OnList(th, o) : pos[n] \in Nat
  BY <1>5, <1>7, <1>8, <1>9, <1>10, WalkOfArranged
<1>12. /\ Visits(a, L2, {}, pos2, o) /\ NodesOn(a) = OnList(th2, o)
       /\ \A n \in OnList(th2, o) : pos2[n] \in Nat
  BY <1>4, <1>5, <1>7, <1>8, <1>10, WalkOfArranged
<1>13. ASSUME NEW at, NEW n \in NodesOn(at)
       PROVE  Place(at, n) \in 1..N /\ at[Place(at, n)] = n /\ n # NULL
  <2>1. \E k \in 1..N : at[k] = n
    BY DEF NodesOn, N
  <2> QED BY <2>1 DEF Place, NodesOn, N
<1>14. ASSUME NEW m \in NodesOn(b) \cap NodesOn(a), NEW n \in NodesOn(a),
              n \notin NodesOn(b) \/ Place(b, m) < Place(b, n)
       PROVE  Place(a, m) < Place(a, n)
  <2>1. n \notin OnList(th, o) \/ pos[m] < pos[n]
    <3>1. CASE n \in NodesOn(b)
      <4>1. PICK i \in 1..N, j \in 1..N : i = Place(b, m) /\ j = Place(b, n)
                                          /\ b[i] = m /\ b[j] = n /\ m # NULL /\ n # NULL
        BY <1>13, <3>1
      <4>2. i < j
        BY <1>14, <3>1, <4>1
      <4>3. pos[b[i]] \in Nat /\ pos[b[j]] \in Nat
        BY <1>11, <3>1, <4>1
      <4>4. i < j <=> pos[b[i]] < pos[b[j]]
        BY <1>11, <4>1, <4>3, WalkOrder
      <4> QED BY <4>1, <4>2, <4>4
    <3> QED BY <1>11, <3>1
  <2>2. pos2[m] < pos2[n]
    BY <1>4, <1>11, <1>12, <2>1 DEF OrderKept
  <2>3. PICK i \in 1..N, j \in 1..N : i = Place(a, m) /\ j = Place(a, n)
                                      /\ a[i] = m /\ a[j] = n /\ m # NULL /\ n # NULL
    BY <1>13
  <2>4. pos2[a[i]] \in Nat /\ pos2[a[j]] \in Nat
    BY <1>12, <2>3
  <2>5. i < j <=> pos2[a[i]] < pos2[a[j]]
    BY <1>12, <2>3, <2>4, WalkOrder
  <2> QED BY <2>2, <2>3, <2>5
<1> QED BY <1>6, <1>8, <1>14 DEF KeepsOrder

\* No step reorders a list: it takes nodes out or puts new ones behind all others,
\* so that NotifyAvailable() serves waiters in the order in which they blocked.
THEOREM WaitersKeepTheirOrder == Spec => FirstComeFirstServed
<1>1. Inv /\ [Next]_vars => [\A o \in Objects : KeepsOrder(o)]_vars
  BY OrderIsKept
<1> QED BY <1>1, InvInit, InvStep, PTL DEF Spec, FirstComeFirstServed

\* The initial states are initial states of the abstract specification.
LEMMA AbsInit == Init => Abs!Init
BY DEF Init, Abs!Init

\* Every step is a step of the abstract specification, or leaves it alone.
LEMMA AbsStep == Inv /\ [Next]_vars => [Abs!Next]_(Abs!vars)
<1> SUFFICES ASSUME Inv, [Next]_vars PROVE [Abs!Next]_(Abs!vars)
  OBVIOUS
<1>1. CASE Next
  <2>1. PICK pos, M : Arranged(next, m_thread_list_tail, thread, pos, M)
    BY DEF Inv
  <2> QED BY <1>1, <2>1, StepIs DEF Inv
<1>2. CASE UNCHANGED vars
  BY <1>2 DEF vars, Abs!vars
<1> QED BY <1>1, <1>2

\* Waiting with lists implements waiting without: NotifyAvailable(), which walks a
\* list that its own body takes apart, releases exactly the threads that wait for
\* the object, each once and with the first position of the object in its call.
THEOREM ListsImplementWaiting == Spec => ImplementsWaitSynchronization
<1> QED BY InvInit, InvStep, AbsInit, AbsStep, PTL
       DEF Spec, ImplementsWaitSynchronization, Abs!Spec


-----------------------------------------------------------------------------
(* The promises of the abstract specification.                             *)

\* Nobody waits for an object that is signalled.
Quiet(states, calls, signaled) ==
  \A t \in Threads : states[t] = "sync" =>
    \A i \in DOMAIN calls[t] : ~signaled[calls[t][i]]

\* A wait that begins, finds none of its objects signalled; one that ends, waits
\* for nothing; a signal ends the waits for its object.
LEMMA QuietStep ==
  ASSUME Inv, Quiet(States(thread), Calls(thread), m_is_signaled), Abs!Next
  PROVE  Quiet(States(thread'), Calls(thread'), m_is_signaled')
<1>1. PICK st, ca, st2, ca2, sig, sig2 :
        /\ st = States(thread) /\ ca = Calls(thread) /\ sig = m_is_signaled
        /\ st2 = States(thread') /\ ca2 = Calls(thread') /\ sig2 = m_is_signaled'
  OBVIOUS
<1>2. DOMAIN st = Threads /\ DOMAIN ca = Threads
  BY <1>1 DEF States, Calls
<1>3. sig \in [Objects -> BOOLEAN] /\ Quiet(st, ca, sig)
  BY <1>1 DEF Inv
<1>4. ASSUME NEW t \in Threads, NEW r, Abs!Cancel(t, r) PROVE Quiet(st2, ca2, sig2)
  <2>1. /\ st2 = [st EXCEPT ![t] = "run"] /\ ca2 = [ca EXCEPT ![t] = << >>]
        /\ sig2 = sig
    BY <1>1, <1>4, Zenon DEF Abs!Cancel, States, Calls
  <2> QED BY <1>2, <1>3, <2>1 DEF Quiet
<1>5. ASSUME st2 = st, ca2 = ca, sig2 = sig PROVE Quiet(st2, ca2, sig2)
  BY <1>3, <1>5
<1>6. ASSUME NEW t \in Threads, NEW objs, NEW timeout, Abs!WaitReturns(t, objs, timeout)
      PROVE  Quiet(st2, ca2, sig2)
  <2>1. \E r, i : Abs!Return(t, r, i)
    BY <1>6, Zenon DEF Abs!WaitReturns
  <2>2. st2 = st /\ ca2 = ca /\ sig2 = sig
    BY <1>1, <2>1, Zenon DEF Abs!Return, States, Calls
  <2> QED BY <1>5, <2>2
<1>7. ASSUME NEW t \in Threads, NEW objs, NEW timeout, Abs!WaitBlocks(t, objs, timeout)
      PROVE  Quiet(st2, ca2, sig2)
  <2>1. /\ st2 = [st EXCEPT ![t] = "sync"] /\ ca2 = [ca EXCEPT ![t] = objs]
        /\ sig2 = sig /\ \A i \in DOMAIN objs : ~sig[objs[i]]
    BY <1>1, <1>7, Zenon DEF Abs!WaitBlocks, States, Calls
  <2> QED BY <1>2, <1>3, <2>1 DEF Quiet
<1>8. ASSUME NEW o \in Objects, Abs!Signal(o) PROVE Quiet(st2, ca2, sig2)
  <2> DEFINE R == {t \in Threads : ~m_is_signaled[o] /\ Abs!WaitsFor(t, o)}
  <2>1. /\ sig2 = [sig EXCEPT ![o] = TRUE]
        /\ st2 = [t \in Threads |-> IF t \in R THEN "run" ELSE st[t]]
        /\ ca2 = [t \in Threads |-> IF t \in R THEN << >> ELSE ca[t]]
    BY <1>1, <1>8, Zenon DEF Abs!Signal, States, Calls
  <2>2. \A t \in Threads : t \in R <=> /\ ~sig[o] /\ st[t] = "sync"
                                       /\ \E i \in DOMAIN ca[t] : ca[t][i] = o
    BY <1>1, Zenon DEF Abs!WaitsFor, States, Calls
  <2> HIDE DEF R
  <2>3. ASSUME NEW t \in Threads, st2[t] = "sync", NEW i \in DOMAIN ca2[t]
        PROVE  ~sig2[ca2[t][i]]
    <3>1. t \notin R /\ st[t] = "sync" /\ ca2[t] = ca[t]
      BY <2>1, <2>3
    <3>2. ~sig[ca[t][i]]
      BY <1>3, <2>3, <3>1 DEF Quiet
    <3>3. ca[t][i] # o
      BY <2>2, <2>3, <3>1, <3>2
    <3> QED BY <1>3, <2>1, <3>1, <3>2, <3>3
  <2> QED BY <2>3 DEF Quiet
<1>9. ASSUME NEW o \in Objects, Abs!Reset(o) PROVE Quiet(st2, ca2, sig2)
  <2>1. st2 = st /\ ca2 = ca /\ sig2 = [sig EXCEPT ![o] = FALSE]
    BY <1>1, <1>9, Zenon DEF Abs!Reset, States, Calls
  <2> QED BY <1>3, <2>1 DEF Quiet
<1>10. ASSUME NEW t \in Threads, Abs!Sleep(t) PROVE Quiet(st2, ca2, sig2)
  <2>1. st2 = [st EXCEPT ![t] = "sleep"] /\ ca2 = ca /\ sig2 = sig
    BY <1>1, <1>10, Zenon DEF Abs!Sleep, States, Calls
  <2> QED BY <1>2, <1>3, <2>1 DEF Quiet
<1>11. ASSUME NEW t \in Threads, Abs!OnTimer(t) PROVE Quiet(st2, ca2, sig2)
  <2>1. Abs!Cancel(t, "TimedOut")
    BY <1>11, Zenon DEF Abs!OnTimer
  <2> QED BY <1>4, <2>1
<1>12. ASSUME NEW t \in Threads, Abs!WaitCancel(t) PROVE Quiet(st2, ca2, sig2)
  <2>1. Abs!Cancel(t, "Cancelled") \/ (st2 = st /\ ca2 = ca /\ sig2 = sig)
    BY <1>1, <1>12, Zenon DEF Abs!WaitCancel, States, Calls
  <2> QED BY <1>4, <1>5, <2>1
<1>13. ASSUME NEW t \in Threads, Abs!RequestTerminate(t) PROVE Quiet(st2, ca2, sig2)
  <2>1. Abs!Cancel(t, "TerminationRequested") \/ (st2 = st /\ ca2 = ca /\ sig2 = sig)
    BY <1>1, <1>13, Zenon DEF Abs!RequestTerminate, States, Calls
  <2> QED BY <1>4, <1>5, <2>1
<1>14. ASSUME NEW t \in Threads, Abs!Exit(t) PROVE Quiet(st2, ca2, sig2)
  <2>1. st2 = [st EXCEPT ![t] = "exited"] /\ ca2 = ca /\ sig2 = sig
    BY <1>1, <1>14, Zenon DEF Abs!Exit, States, Calls
  <2> QED BY <1>2, <1>3, <2>1 DEF Quiet
<1>15. Quiet(st2, ca2, sig2)
  BY <1>6, <1>7, <1>8, <1>9, <1>10, <1>11, <1>12, <1>13, <1>14, Zenon DEF Abs!Next
<1> QED BY <1>1, <1>15

\* The promises hold where the invariant does and nobody misses a signal.
LEMMA PromisesHold ==
  ASSUME Inv, Quiet(States(thread), Calls(thread), m_is_signaled)
  PROVE  WaitsKeepPromises
<1>1. \A t \in Threads : thread[t] \in ThreadFields /\ FieldsOK(thread[t])
  BY DEF Inv, Sound, GoodFields
<1>2. Abs!NoMissedSignal
  <2>1. ASSUME NEW t \in Threads, NEW o \in Objects, Abs!WaitsFor(t, o)
        PROVE  ~m_is_signaled[o]
    <3>1. States(thread)[t] = "sync" /\ \E i \in DOMAIN Calls(thread)[t] : Calls(thread)[t][i] = o
      BY <2>1, Zenon DEF Abs!WaitsFor, States, Calls
    <3> QED BY <3>1 DEF Quiet
  <2> QED BY <2>1, Zenon DEF Abs!NoMissedSignal
<1>3. Abs!CancelNotLost
  BY <1>1 DEF Abs!CancelNotLost, FieldsOK, ThreadFields
<1>4. Abs!TimerMatchesWait
  BY <1>1 DEF Abs!TimerMatchesWait, FieldsOK, ThreadFields
<1>5. Abs!TerminatingNeverWaits
  BY <1>1 DEF Abs!TerminatingNeverWaits, FieldsOK, ThreadFields
<1> QED BY <1>2, <1>3, <1>4, <1>5 DEF WaitsKeepPromises


\* Nobody waits while what it waits for is there: no signal, cancel or termination
\* request gets lost between the checks of KSynchronizationObject::Wait() and the
\* end of the wait, and no timer task outlives its wait.
THEOREM PromisesAreKept == Spec => []WaitsKeepPromises
<1> DEFINE Q == Quiet(States(thread), Calls(thread), m_is_signaled)
<1>1. Init => Q
  <2>1. Init => \A t \in Threads : States(thread)[t] = "run"
    BY DEF Init, States
  <2> QED BY <2>1 DEF Quiet
<1>2. Inv /\ Q /\ [Next]_vars => Q'
  <2>1. ASSUME Inv, Q, [Abs!Next]_(Abs!vars) PROVE Q'
    <3>1. CASE Abs!Next
      BY <2>1, <3>1, QuietStep
    <3>2. CASE UNCHANGED Abs!vars
      <4>1. States(thread') = States(thread) /\ Calls(thread') = Calls(thread)
            /\ m_is_signaled' = m_is_signaled
        BY <3>2, Zenon DEF Abs!vars, States, Calls
      <4> QED BY <2>1, <4>1
    <3> QED BY <2>1, <3>1, <3>2
  <2> QED BY <2>1, AbsStep
<1>3. Inv /\ Q => WaitsKeepPromises
  BY PromisesHold
<1> HIDE DEF Q
<1> QED BY <1>1, <1>2, <1>3, InvInit, InvStep, PTL DEF Spec

=============================================================================
