-------------------------- MODULE AddressWaitProofs --------------------------
(***************************************************************************)
(* Waiting for an address: proofs about KAddressArbiter, for every number  *)
(* of threads, addresses, priorities and calls, and every width of the     *)
(* word, and about KConditionVariable, for every number of threads,        *)
(* mutexes, condition variables, priorities and calls.                     *)
(*                                                                         *)
(* The address arbiter wakes whom it must, in the right order, and tells   *)
(* the guest how many.  The invariant says that the tree holds exactly the *)
(* threads that are parked, each once and in order; that the lock is held  *)
(* by the thread in the middle of a call; and what such a call still knows *)
(* to be true, for the tree cannot change under it although the word can.  *)
(*                                                                         *)
(* The words of the user mutexes are true of the threads that hold one,    *)
(* wait for one or have been handed one, and every wait has the links and  *)
(* the timer of its present place.  The kernel functions work on a record  *)
(* of the state, so the invariant is one of such a record: each function   *)
(* keeps it, or takes it from a state in which it fails for one thread to  *)
(* one in which it holds for all.                                          *)
(*                                                                         *)
(* Priorities are inherited exactly.  In the middle of a change one thread *)
(* at most may have the wrong priority, and the rounds of RestorePriority  *)
(* come to an end because no thread changes twice: all that rise get one   *)
(* priority, and all that fall lose one.                                   *)
(*                                                                         *)
(* A broadcast leaves nobody behind its iterator but owners of mutexes,    *)
(* because AddWaiter only raises, and only owners.                         *)
(***************************************************************************)
EXTENDS KAddressArbiter, KConditionVariable, FiniteSetTheorems, SequenceTheorems, TLAPS

Before(c, p, t, u) ==
  \/ c[t].addr < c[u].addr
  \/ c[t].addr = c[u].addr /\ p[t] <= p[u]

Ordered(q, c, p) ==
  \A i, j \in DOMAIN q : i < j => Before(c, p, q[i], q[j])

\* A sequence that holds exactly the parked threads of some calls.
Tidy(q, c, p) ==
  /\ \A i \in DOMAIN q : c[q[i]].at = "parked"
  /\ \A t \in Threads : c[t].at = "parked" => \E i \in DOMAIN q : q[i] = t
  /\ \A i, j \in DOMAIN q : q[i] = q[j] => i = j
  /\ Ordered(q, c, p)

TreeOK == Tidy(tree, call, priority)

\* The lock, and the arguments of a call that has it or waits.
LockOK ==
  \A t \in Threads :
    /\ call[t].at \in {"checked", "signalling"} <=> lock = t
    /\ call[t].at # "running" => call[t].addr \in Addresses
    /\ call[t].at = "signalling" => call[t].type \in SignalTypes

StaleOK == \A w \in stale : call[w].at \in {"checked", "parked"}

\* A thread that owes a signal gives it: to that address, and to all.
OwesOK ==
  \A t \in Threads : owes[t] # NONE =>
    /\ call[t].at \in {"running", "signalling"}
    /\ call[t].at = "signalling" => call[t].addr = owes[t] /\ call[t].count <= 0

\* What SignalAndModifyByWaitingCountIfEqual wrote is still what it would write.
ToldOK ==
  \A t \in Threads :
    /\ call[t].at = "signalling"
    /\ call[t].type = "SignalAndModifyByWaitingCountIfEqual"
    => call[t].new = ModifiedValue(call[t].addr, call[t].value, call[t].count)

BaseInv == TypeOK /\ TreeOK /\ LockOK

Inv == BaseInv /\ StaleOK /\ OwesOK /\ NoSleepPastSignal /\ ToldOK

-----------------------------------------------------------------------------
(***************************************************************************)
(* Sequences.                                                              *)
(***************************************************************************)

\* As many numbers as the last one says.
LEMMA FirstNumbers ==
  ASSUME NEW n \in Nat
  PROVE  IsFiniteSet(1..n) /\ Cardinality(1..n) = n
<1>1. IsFiniteSet(1..n) /\ Cardinality(1..n) = IF 1 > n THEN 0 ELSE n - 1 + 1
  BY FS_Interval
<1> QED
  BY <1>1

\* A set of such numbers.
LEMMA SomeNumbers ==
  ASSUME NEW n \in Nat, NEW P \in SUBSET (1..n)
  PROVE  /\ IsFiniteSet(P) /\ Cardinality(P) \in Nat /\ Cardinality(P) <= n
         /\ P # 1..n => Cardinality(P) < n
<1>1. IsFiniteSet(1..n) /\ Cardinality(1..n) = n
  BY FirstNumbers
<1>2. /\ IsFiniteSet(P) /\ Cardinality(P) <= n
      /\ n = Cardinality(P) => 1..n = P
  BY <1>1, FS_Subset
<1>3. Cardinality(P) \in Nat
  BY <1>2, FS_CardinalityType
<1> QED
  BY <1>2, <1>3

\* Insert counts the threads that stay in front: in an ordered tree they are the
\* first ones.
LEMMA PrefixIsCounted ==
  ASSUME NEW n \in Nat, NEW P \in SUBSET (1..n),
         \A i, j \in 1..n : i < j /\ j \in P => i \in P
  PROVE  Cardinality(P) \in 0..n /\ P = 1..Cardinality(P)
<1>2. IsFiniteSet(P) /\ Cardinality(P) \in Nat /\ Cardinality(P) <= n
  BY SomeNumbers
<1>3. ASSUME NEW j \in P
      PROVE  j <= Cardinality(P)
  <2>1. j \in Nat /\ j >= 1 /\ 1..j \in SUBSET P
    OBVIOUS
  <2>2. Cardinality(1..j) = j
    BY <2>1, FirstNumbers
  <2> QED
    BY <2>1, <2>2, <1>2, FS_Subset
<1>4. ASSUME NEW i \in 1..Cardinality(P), i \notin P
      PROVE  FALSE
  <2>1. P \in SUBSET (1..(i - 1))
    <3>1. ASSUME NEW j \in P PROVE j \in 1..(i - 1)
      BY <1>2, <1>4
    <3> QED
      BY <3>1
  <2>2. IsFiniteSet(1..(i - 1)) /\ Cardinality(1..(i - 1)) = i - 1
    <3>1. i - 1 \in Nat
      BY <1>2
    <3> QED
      BY <3>1, FirstNumbers
  <2>3. Cardinality(P) <= i - 1
    BY <2>1, <2>2, FS_Subset
  <2> QED
    BY <1>2, <2>3
<1>5. P \subseteq 1..Cardinality(P)
  BY <1>2, <1>3
<1>6. 1..Cardinality(P) \subseteq P
  BY <1>4
<1>7. P = 1..Cardinality(P)
  BY <1>5, <1>6
<1>8. Cardinality(P) \in 0..n
  BY <1>2
<1> QED
  BY <1>7, <1>8

\* The places that are kept are numbered in their order, and no number is left
\* out.
LEMMA RanksAreTheNumbers ==
  ASSUME NEW m \in Nat, NEW P \in SUBSET (1..m)
  PROVE  /\ IsFiniteSet(P) /\ Cardinality(P) \in Nat /\ Cardinality(P) <= m
         /\ \A i, j \in P : i < j => Rank(P, i) < Rank(P, j)
         /\ \A i \in P : Rank(P, i) \in 1..Cardinality(P)
         /\ \A n \in 1..Cardinality(P) : \E i \in P : Rank(P, i) = n
<1>2. IsFiniteSet(P) /\ Cardinality(P) \in Nat /\ Cardinality(P) <= m
  BY SomeNumbers
<1> DEFINE Upto(i) == {j \in P : j <= i}
           rank == [i \in P |-> Rank(P, i)]
<1>1. \A i \in P : Rank(P, i) = Cardinality(Upto(i))
  BY DEF Rank
<1> HIDE DEF rank
<1>3. ASSUME NEW i \in P
      PROVE  /\ IsFiniteSet(Upto(i)) /\ Cardinality(Upto(i)) \in Nat
             /\ Cardinality(Upto(i)) <= Cardinality(P)
  BY <1>2, FS_Subset, FS_CardinalityType
<1>4. ASSUME NEW i \in P, NEW j \in P, i < j
      PROVE  Rank(P, i) < Rank(P, j)
  <2>1. Upto(i) \in SUBSET Upto(j) /\ j \in Upto(j) /\ j \notin Upto(i)
    <3>1. P \subseteq Int
      OBVIOUS
    <3>2. \A n \in P : n <= i => n <= j
      BY <1>4, <3>1
    <3>3. j <= j /\ ~(j <= i)
      BY <1>4, <3>1
    <3> QED
      BY <3>2, <3>3
  <2>2. /\ Cardinality(Upto(i)) <= Cardinality(Upto(j))
        /\ Cardinality(Upto(j)) = Cardinality(Upto(i)) => Upto(j) = Upto(i)
    <3> HIDE DEF Upto
    <3> QED
      BY <1>3, <2>1, FS_Subset
  <2>3. Cardinality(Upto(i)) # Cardinality(Upto(j))
    BY <2>1, <2>2
  <2> QED
    BY <1>1, <1>3, <2>2, <2>3
<1>5. ASSUME NEW i \in P
      PROVE  Rank(P, i) \in 1..Cardinality(P)
  <2>1. i \in Upto(i)
    OBVIOUS
  <2>2. Cardinality(Upto(i)) # 0
    <3> HIDE DEF Upto
    <3> QED
      BY <1>3, <2>1, FS_EmptySet
  <2> QED
    BY <1>1, <1>2, <1>3, <2>2
<1>6. \A n \in 1..Cardinality(P) : \E i \in P : Rank(P, i) = n
  <2> DEFINE T == 1..Cardinality(P)
  <2>1. IsFiniteSet(T) /\ Cardinality(T) = Cardinality(P)
    BY <1>2, FirstNumbers
  <2>2. rank \in Injection(P, T)
    <3>1. rank \in [P -> T]
      BY <1>5 DEF rank
    <3>2. ASSUME NEW i \in P, NEW j \in P, rank[i] = rank[j]
          PROVE  i = j
      <4>1. Rank(P, i) = Rank(P, j)
        BY <3>2 DEF rank
      <4>2. i \in Int /\ j \in Int /\ Rank(P, i) \in Int
        BY <1>2, <1>5
      <4>3. ~(i < j) /\ ~(j < i)
        BY <1>4, <4>1, <4>2
      <4> QED
        BY <4>2, <4>3
    <3> HIDE DEF T
    <3> QED
      BY <3>1, <3>2 DEF Injection, IsInjective
  <2> HIDE DEF T
  <2>3. rank \in Surjection(P, T)
    BY <2>1, <2>2, FS_Injection
  <2> QED
    BY <2>3 DEF Surjection, T, rank
<1> QED
  BY <1>2, <1>4, <1>5, <1>6

\* What is kept of a sequence: the elements at the given places, each once and in
\* their order.
KeptFrom(S, q, P) ==
  \E at \in [1..Cardinality(P) -> P] :
    /\ Cardinality(P) \in Nat
    /\ Keep(q, P) \in Seq(S)
    /\ Len(Keep(q, P)) = Cardinality(P)
    /\ \A n \in 1..Cardinality(P) : Keep(q, P)[n] = q[at[n]]
    /\ \A n, m \in 1..Cardinality(P) : n < m => at[n] < at[m]
    /\ \A i \in P : \E n \in 1..Cardinality(P) : at[n] = i

LEMMA KeepFacts ==
  ASSUME NEW S, NEW q \in Seq(S), NEW P \in SUBSET (DOMAIN q)
  PROVE  KeptFrom(S, q, P)
<1> SUFFICES \E at \in [1..Cardinality(P) -> P] :
               /\ Cardinality(P) \in Nat
               /\ Keep(q, P) \in Seq(S)
               /\ Len(Keep(q, P)) = Cardinality(P)
               /\ \A n \in 1..Cardinality(P) : Keep(q, P)[n] = q[at[n]]
               /\ \A n, m \in 1..Cardinality(P) : n < m => at[n] < at[m]
               /\ \A i \in P : \E n \in 1..Cardinality(P) : at[n] = i
  BY DEF KeptFrom
<1> DEFINE c == Cardinality(P)
           k == Keep(q, P)
           At(n) == CHOOSE i \in P : Rank(P, i) = n
           at == [n \in 1..c |-> At(n)]
<1>1. DOMAIN q = 1..Len(q) /\ Len(q) \in Nat
  OBVIOUS
<1>2. P \in SUBSET (1..Len(q))
  BY <1>1
<1>3. k = [n \in 1..c |-> q[At(n)]]
  BY DEF Keep
<1>4. /\ IsFiniteSet(P) /\ c \in Nat /\ c <= Len(q)
      /\ \A i, j \in P : i < j => Rank(P, i) < Rank(P, j)
      /\ \A i \in P : Rank(P, i) \in 1..c
      /\ \A n \in 1..c : \E i \in P : Rank(P, i) = n
  BY <1>1, <1>2, RanksAreTheNumbers
<1>5. \A n \in 1..c : At(n) \in P /\ Rank(P, At(n)) = n
  BY <1>4
<1> HIDE DEF At, c, k
<1>6. /\ at \in [1..c -> P]
      /\ \A n \in 1..c : at[n] \in P /\ Rank(P, at[n]) = n
  BY <1>5
<1>7. \A n \in 1..c : k[n] = q[at[n]]
  BY <1>3
<1>8. k \in Seq(S) /\ Len(k) = c
  <2>1. \A n \in 1..c : q[At(n)] \in S
    BY <1>1, <1>2, <1>5
  <2>2. k \in [1..c -> S]
    BY <1>3, <2>1
  <2> QED
    BY <1>4, <2>2
<1> HIDE DEF at
<1>9. \A i, j \in P : Rank(P, i) = Rank(P, j) => i = j
  <2> SUFFICES ASSUME NEW i \in P, NEW j \in P, Rank(P, i) = Rank(P, j)
               PROVE  i = j
    OBVIOUS
  <2>1. i \in Int /\ j \in Int /\ Rank(P, i) \in Int
    BY <1>2, <1>4
  <2>2. ~(i < j) /\ ~(j < i)
    BY <1>4, <2>1
  <2> QED
    BY <2>1, <2>2
<1>10. ASSUME NEW n \in 1..c, NEW m \in 1..c, n < m
       PROVE  at[n] < at[m]
  <2>1. at[n] \in P /\ Rank(P, at[n]) = n /\ at[m] \in P /\ Rank(P, at[m]) = m
    BY <1>6
  <2>2. at[n] \in Int /\ at[m] \in Int
    BY <1>2, <2>1
  <2>3. ~(at[m] < at[n])
    <3>1. at[m] < at[n] => m < n
      BY <1>4, <2>1
    <3> QED
      BY <1>4, <1>10, <3>1
  <2>4. at[n] # at[m]
    BY <1>4, <1>10, <2>1
  <2> QED
    BY <2>2, <2>3, <2>4
<1>11. ASSUME NEW i \in P
       PROVE  \E n \in 1..c : at[n] = i
  <2>1. Rank(P, i) \in 1..c
    BY <1>4
  <2>2. at[Rank(P, i)] \in P /\ Rank(P, at[Rank(P, i)]) = Rank(P, i)
    BY <1>6, <2>1
  <2>3. at[Rank(P, i)] = i
    BY <1>9, <2>2
  <2> QED
    BY <2>1, <2>3
<1>12. /\ c \in Nat /\ k \in Seq(S) /\ Len(k) = c
       /\ \A n \in 1..c : k[n] = q[at[n]]
       /\ \A n, m \in 1..c : n < m => at[n] < at[m]
       /\ \A i \in P : \E n \in 1..c : at[n] = i
  BY <1>4, <1>7, <1>8, <1>10, <1>11
<1> QED
  BY <1>6, <1>12 DEF c, k

LEMMA KeepThreads ==
  ASSUME NEW q \in Seq(Threads), NEW P \in SUBSET (DOMAIN q)
  PROVE  \E at \in [1..Cardinality(P) -> P] :
           /\ Cardinality(P) \in Nat
           /\ Keep(q, P) \in Seq(Threads)
           /\ Len(Keep(q, P)) = Cardinality(P)
           /\ \A n \in 1..Cardinality(P) : Keep(q, P)[n] = q[at[n]]
           /\ \A n, m \in 1..Cardinality(P) : n < m => at[n] < at[m]
           /\ \A i \in P : \E n \in 1..Cardinality(P) : at[n] = i
<1>1. KeptFrom(Threads, q, P)
  BY KeepFacts
<1> QED BY <1>1 DEF KeptFrom


-----------------------------------------------------------------------------
(***************************************************************************)
(* The tree with one waiter more, and with some waiters less.              *)
(***************************************************************************)

\* The waiters of a sequence have addresses and priorities.
Comparable(q) ==
  \A i \in 1..Len(q) : call[q[i]].addr \in Int /\ priority[q[i]] \in Int

\* A sequence r that is q with t behind the first k.
PutBehind(r, q, t, k) ==
  /\ r \in Seq(Threads)
  /\ Len(r) = Len(q) + 1
  /\ \A i \in 1..(Len(q) + 1) :
       r[i] = IF i <= k THEN q[i] ELSE IF i = k + 1 THEN t ELSE q[i - 1]

\* Where a waiter goes: behind the first k, which are not after it, and in front
\* of all others.
LEMMA InsertDef ==
  ASSUME NEW q \in Seq(Threads), NEW t \in Threads, NEW a \in Int, NEW pr \in Int,
         Comparable(q),
         Ordered(q, call, priority)
  PROVE  \E k \in 0..Len(q) :
           /\ PutBehind(Insert(q, t, a, pr), q, t, k)
           /\ \A i \in 1..k : NotAfter(a, pr, q[i])
           /\ \A i \in (k + 1)..Len(q) : ~NotAfter(a, pr, q[i])
<1> DEFINE P == {i \in DOMAIN q : NotAfter(a, pr, q[i])}
           k == Cardinality(P)
           front == SubSeq(q, 1, k)
           back == SubSeq(q, k + 1, Len(q))
<1>1. DOMAIN q = 1..Len(q) /\ Len(q) \in Nat
  OBVIOUS
<1>3. k \in 0..Len(q) /\ P = 1..k
  <2>1. P \in SUBSET (1..Len(q))
    BY <1>1
  <2>2. ASSUME NEW i \in 1..Len(q), NEW j \in 1..Len(q), i < j, j \in P
        PROVE  i \in P
    <3>1. Before(call, priority, q[i], q[j])
      BY <1>1, <2>2 DEF Ordered
    <3>2. NotAfter(a, pr, q[j])
      BY <2>2
    <3>3. NotAfter(a, pr, q[i])
      BY <3>1, <3>2 DEF Before, NotAfter, Comparable
    <3> QED
      BY <1>1, <3>3
  <2> HIDE DEF P
  <2>3. \A i, j \in 1..Len(q) : i < j /\ j \in P => i \in P
    BY <2>2
  <2> QED
    BY <1>1, <2>1, <2>3, PrefixIsCounted
<1>4. /\ \A i \in 1..k : NotAfter(a, pr, q[i])
      /\ \A i \in (k + 1)..Len(q) : ~NotAfter(a, pr, q[i])
  <2>1. ASSUME NEW i \in 1..k PROVE NotAfter(a, pr, q[i])
    BY <1>3
  <2>2. ASSUME NEW i \in (k + 1)..Len(q) PROVE ~NotAfter(a, pr, q[i])
    <3>1. i \in 1..Len(q) /\ i \notin 1..k
      BY <1>1, <1>3
    <3>2. i \notin P
      BY <1>3, <3>1
    <3> QED
      BY <1>1, <3>1, <3>2
  <2> QED
    BY <2>1, <2>2
<1> HIDE DEF k
<1>5. /\ front \in Seq(Threads) /\ Len(front) = k
      /\ \A i \in 1..k : front[i] = q[i]
  <2>1. \A i \in 1..k : q[i] \in Threads
    BY <1>1, <1>3
  <2>2. k \in Int /\ k >= 0
    BY <1>3
  <2> QED
    BY <2>1, <2>2, SubSeqProperties
<1>6. /\ back \in Seq(Threads) /\ Len(back) = Len(q) - k
      /\ \A i \in 1..(Len(q) - k) : back[i] = q[k + i]
  <2>1. \A i \in (k + 1)..Len(q) : q[i] \in Threads
    BY <1>1, <1>3
  <2>2. k \in Int /\ k >= 0 /\ k <= Len(q)
    BY <1>3
  <2>3. /\ back \in Seq(Threads)
        /\ Len(back) = IF k + 1 <= Len(q) THEN Len(q) - (k + 1) + 1 ELSE 0
        /\ \A i \in 1..(Len(q) - (k + 1) + 1) : back[i] = q[(k + 1) + i - 1]
    BY <1>1, <2>1, <2>2, SubSeqProperties
  <2> HIDE DEF back
  <2>4. Len(back) = Len(q) - k
    <3>1. CASE k + 1 <= Len(q)
      <4>1. Len(back) = Len(q) - (k + 1) + 1
        BY <2>3, <3>1
      <4>2. \A x, y \in Int : x - (y + 1) + 1 = x - y
        OBVIOUS
      <4> QED
        BY <1>1, <2>2, <4>1, <4>2
    <3>2. CASE ~(k + 1 <= Len(q))
      <4>1. Len(back) = 0
        BY <2>3, <3>2
      <4>2. \A x, y \in Int : y <= x /\ ~(y + 1 <= x) => x - y = 0
        OBVIOUS
      <4>3. Len(q) \in Int /\ k \in Int /\ k <= Len(q) /\ ~(k + 1 <= Len(q))
        BY <1>1, <2>2, <3>2
      <4>4. Len(q) - k = 0
        BY <4>2, <4>3, Zenon
      <4> QED
        BY <4>1, <4>4
    <3> QED
      BY <3>1, <3>2
  <2>5. ASSUME NEW i \in 1..(Len(q) - k)
        PROVE  back[i] = q[k + i]
    <3>1. i \in 1..(Len(q) - (k + 1) + 1) /\ (k + 1) + i - 1 = k + i
      BY <1>1, <2>2
    <3> QED
      BY <2>3, <3>1
  <2> QED
    BY <2>3, <2>4, <2>5
<1> HIDE DEF front, back
<1>7. /\ front \o <<t>> \in Seq(Threads) /\ Len(front \o <<t>>) = k + 1
      /\ \A i \in 1..(k + 1) : (front \o <<t>>)[i] = IF i <= k THEN q[i] ELSE t
  <2>1. <<t>> \in Seq(Threads) /\ Len(<<t>>) = 1 /\ <<t>>[1] = t
    OBVIOUS
  <2>2. /\ front \o <<t>> \in Seq(Threads) /\ Len(front \o <<t>>) = k + 1
        /\ \A i \in 1..(k + 1) : (front \o <<t>>)[i] =
             IF i <= k THEN front[i] ELSE <<t>>[i - k]
    BY <1>5, <2>1, ConcatProperties
  <2>3. \A i \in 1..(k + 1) : ~(i <= k) => i - k = 1
    BY <1>3
  <2>4. \A i \in 1..(k + 1) : i <= k => i \in 1..k
    BY <1>3
  <2> QED
    BY <1>5, <2>1, <2>2, <2>3, <2>4
<1>8. /\ (front \o <<t>>) \o back \in Seq(Threads)
      /\ Len((front \o <<t>>) \o back) = (k + 1) + (Len(q) - k)
      /\ \A i \in 1..((k + 1) + (Len(q) - k)) : ((front \o <<t>>) \o back)[i] =
           IF i <= k + 1 THEN (front \o <<t>>)[i] ELSE back[i - (k + 1)]
  <2> DEFINE ft == front \o <<t>>
  <2>1. ft \in Seq(Threads) /\ Len(ft) = k + 1
    BY <1>7
  <2> HIDE DEF ft
  <2>2. /\ ft \o back \in Seq(Threads)
        /\ Len(ft \o back) = Len(ft) + Len(back)
        /\ \A i \in 1..(Len(ft) + Len(back)) : (ft \o back)[i] =
             IF i <= Len(ft) THEN ft[i] ELSE back[i - Len(ft)]
    BY <1>6, <2>1, ConcatProperties
  <2> QED
    BY <1>6, <2>1, <2>2 DEF ft
<1>9. (k + 1) + (Len(q) - k) = Len(q) + 1
  BY <1>1, <1>3
<1>10. Insert(q, t, a, pr) = (front \o <<t>>) \o back
  BY DEF Insert, front, back, k
<1>11. ASSUME NEW i \in 1..(Len(q) + 1)
       PROVE  Insert(q, t, a, pr)[i] =
                IF i <= k THEN q[i] ELSE IF i = k + 1 THEN t ELSE q[i - 1]
  <2>1. CASE i <= k + 1
    <3>1. i \in 1..(k + 1)
      BY <1>3, <2>1
    <3>2. i <= k \/ i = k + 1
      BY <1>3, <3>1
    <3> QED
      BY <1>3, <1>7, <1>8, <1>9, <1>10, <2>1, <3>1, <3>2
  <2>2. CASE ~(i <= k + 1)
    <3>1. /\ i - (k + 1) \in 1..(Len(q) - k) /\ k + (i - (k + 1)) = i - 1
          /\ ~(i <= k) /\ i # k + 1
      <4> DEFINE n == Len(q)
      <4>1. n \in Nat /\ k \in 0..n /\ i \in 1..(n + 1) /\ ~(i <= k + 1)
        BY <1>1, <1>3, <2>2
      <4> HIDE DEF n
      <4>2. /\ i - (k + 1) \in 1..(n - k) /\ k + (i - (k + 1)) = i - 1
            /\ ~(i <= k) /\ i # k + 1
        BY <4>1
      <4> QED
        BY <4>2 DEF n
    <3> QED
      BY <1>6, <1>8, <1>9, <1>10, <2>2, <3>1
  <2> QED
    BY <2>1, <2>2
<1>12. PutBehind(Insert(q, t, a, pr), q, t, k)
  BY <1>8, <1>9, <1>10, <1>11 DEF PutBehind
<1> QED
  BY <1>3, <1>4, <1>12

\* The sequence with one waiter more holds the parked threads of other calls c and
\* priorities p, which know the waiter and agree with the present on the others.
LEMMA InsertTidy ==
  ASSUME NEW q \in Seq(Threads), NEW t \in Threads, NEW a \in Int, NEW pr \in Int,
         NEW c, NEW p,
         Comparable(q),
         Ordered(q, call, priority),
         \A i, j \in 1..Len(q) : q[i] = q[j] => i = j,
         \A i \in 1..Len(q) : /\ q[i] # t
                              /\ c[q[i]].at = "parked"
                              /\ c[q[i]].addr = call[q[i]].addr
                              /\ p[q[i]] = priority[q[i]],
         c[t].at = "parked" /\ c[t].addr = a /\ p[t] = pr,
         \A u \in Threads : c[u].at = "parked" => u = t \/ \E i \in 1..Len(q) : q[i] = u
  PROVE  /\ Insert(q, t, a, pr) \in Seq(Threads)
         /\ Tidy(Insert(q, t, a, pr), c, p)
<1> DEFINE r == Insert(q, t, a, pr)
<1>1. PICK k \in 0..Len(q) :
           /\ PutBehind(r, q, t, k)
           /\ \A i \in 1..k : NotAfter(a, pr, q[i])
           /\ \A i \in (k + 1)..Len(q) : ~NotAfter(a, pr, q[i])
  BY InsertDef
<1> HIDE DEF r
<1>0. /\ r \in Seq(Threads)
      /\ Len(r) = Len(q) + 1
      /\ \A i \in 1..(Len(q) + 1) :
           r[i] = IF i <= k THEN q[i] ELSE IF i = k + 1 THEN t ELSE q[i - 1]
  BY <1>1 DEF PutBehind
<1>2. /\ DOMAIN q = 1..Len(q) /\ Len(q) \in Nat
      /\ DOMAIN r = 1..(Len(q) + 1)
  BY <1>0, <1>1
<1>3. /\ \A i \in 1..k : i \in 1..Len(q) /\ i \in 1..(Len(q) + 1) /\ r[i] = q[i]
      /\ k + 1 \in 1..(Len(q) + 1) /\ r[k + 1] = t
      /\ \A i \in (k + 1)..Len(q) :
           i \in 1..Len(q) /\ i + 1 \in 1..(Len(q) + 1) /\ r[i + 1] = q[i]
  <2>1. ASSUME NEW i \in 1..k
        PROVE  i \in 1..Len(q) /\ i \in 1..(Len(q) + 1) /\ r[i] = q[i]
    <3>1. i \in 1..Len(q) /\ i \in 1..(Len(q) + 1) /\ i <= k
      BY <1>2
    <3> QED
      BY <1>0, <1>1, <3>1
  <2>2. k + 1 \in 1..(Len(q) + 1) /\ r[k + 1] = t
    <3>1. k + 1 \in 1..(Len(q) + 1) /\ ~(k + 1 <= k)
      BY <1>2
    <3> QED
      BY <1>0, <1>1, <3>1
  <2>3. ASSUME NEW i \in (k + 1)..Len(q)
        PROVE  i \in 1..Len(q) /\ i + 1 \in 1..(Len(q) + 1) /\ r[i + 1] = q[i]
    <3>1. /\ i \in 1..Len(q) /\ i + 1 \in 1..(Len(q) + 1) /\ ~(i + 1 <= k)
          /\ i + 1 # k + 1 /\ (i + 1) - 1 = i
      BY <1>2
    <3> QED
      BY <1>0, <1>1, <3>1
  <2> QED
    BY <2>1, <2>2, <2>3
<1>4. ASSUME NEW j \in 1..(Len(q) + 1)
      PROVE  \/ j \in 1..k
             \/ j = k + 1
             \/ j - 1 \in (k + 1)..Len(q) /\ j = (j - 1) + 1
  BY <1>2
<1>5. /\ \A i \in 1..k : Before(c, p, q[i], t)
      /\ \A i \in (k + 1)..Len(q) : Before(c, p, t, q[i])
      /\ \A i, j \in 1..Len(q) : i < j => Before(c, p, q[i], q[j])
  <2>1. ASSUME NEW i \in 1..k PROVE Before(c, p, q[i], t)
    <3>1. i \in 1..Len(q) /\ NotAfter(a, pr, q[i])
      BY <1>0, <1>1, <1>3
    <3> QED
      BY <3>1 DEF Before, NotAfter, Comparable
  <2>2. ASSUME NEW i \in (k + 1)..Len(q) PROVE Before(c, p, t, q[i])
    <3>1. i \in 1..Len(q) /\ ~NotAfter(a, pr, q[i])
      BY <1>0, <1>1, <1>3
    <3> QED
      BY <3>1 DEF Before, NotAfter, Comparable
  <2>3. ASSUME NEW i \in 1..Len(q), NEW j \in 1..Len(q), i < j
        PROVE  Before(c, p, q[i], q[j])
    <3>1. Before(call, priority, q[i], q[j])
      BY <1>2, <2>3 DEF Ordered
    <3> QED
      BY <3>1 DEF Before
  <2> QED
    BY <2>1, <2>2, <2>3
<1>6. ASSUME NEW i \in 1..(Len(q) + 1) PROVE c[r[i]].at = "parked"
  <2>1. CASE i \in 1..k
    BY <1>3, <2>1
  <2>2. CASE i = k + 1
    BY <1>3, <2>2
  <2>3. CASE i - 1 \in (k + 1)..Len(q) /\ i = (i - 1) + 1
    <3>1. r[i] = q[i - 1] /\ i - 1 \in 1..Len(q)
      BY <1>3, <2>3
    <3> QED
      BY <3>1
  <2> QED
    BY <1>4, <2>1, <2>2, <2>3
<1>7. ASSUME NEW u \in Threads, c[u].at = "parked"
      PROVE  \E i \in 1..(Len(q) + 1) : r[i] = u
  <2>1. CASE u = t
    BY <1>3, <2>1
  <2>2. CASE u # t
    <3>1. PICK i \in 1..Len(q) : q[i] = u
      BY <1>7, <2>2
    <3>2. i \in 1..k \/ i \in (k + 1)..Len(q)
      BY <1>2
    <3> QED
      BY <1>3, <3>1, <3>2
  <2> QED
    BY <2>1, <2>2
<1>8. ASSUME NEW i \in 1..(Len(q) + 1), NEW j \in 1..(Len(q) + 1), i < j
      PROVE  r[i] # r[j] /\ Before(c, p, r[i], r[j])
  <2>1. CASE j \in 1..k
    <3>1. i \in 1..k
      BY <1>2, <1>8, <2>1
    <3>2. r[i] = q[i] /\ r[j] = q[j] /\ i \in 1..Len(q) /\ j \in 1..Len(q) /\ i # j
      BY <1>3, <1>8, <2>1, <3>1
    <3> QED
      BY <1>5, <1>8, <3>2
  <2>2. CASE j = k + 1
    <3>1. i \in 1..k
      BY <1>2, <1>8, <2>2
    <3>2. r[i] = q[i] /\ r[j] = t /\ i \in 1..Len(q)
      BY <1>3, <2>2, <3>1
    <3> QED
      BY <1>5, <3>1, <3>2
  <2>3. CASE j - 1 \in (k + 1)..Len(q) /\ j = (j - 1) + 1
    <3>1. r[j] = q[j - 1] /\ j - 1 \in 1..Len(q)
      BY <1>3, <2>3
    <3>2. CASE i \in 1..k
      <4>1. r[i] = q[i] /\ i \in 1..Len(q) /\ i < j - 1
        BY <1>2, <1>3, <2>3, <3>2
      <4> QED
        BY <1>5, <3>1, <4>1
    <3>3. CASE i = k + 1
      <4>1. r[i] = t
        BY <1>3, <3>3
      <4>2. Before(c, p, t, q[j - 1])
        BY <1>5, <2>3
      <4> QED
        BY <3>1, <4>1, <4>2
    <3>4. CASE i - 1 \in (k + 1)..Len(q) /\ i = (i - 1) + 1
      <4>1. r[i] = q[i - 1] /\ i - 1 \in 1..Len(q)
        BY <1>3, <3>4
      <4>2. i - 1 < j - 1
        BY <1>2, <1>8
      <4>3. i - 1 # j - 1
        BY <1>2, <4>2
      <4> QED
        BY <1>5, <3>1, <4>1, <4>2, <4>3
    <3> QED
      BY <1>4, <3>2, <3>3, <3>4
  <2> QED
    BY <1>4, <2>1, <2>2, <2>3
<1>9. \A i, j \in 1..(Len(q) + 1) : r[i] = r[j] => i = j
  <2> SUFFICES ASSUME NEW i \in 1..(Len(q) + 1), NEW j \in 1..(Len(q) + 1), i # j
               PROVE  r[i] # r[j]
    OBVIOUS
  <2>1. i < j \/ j < i
    BY <1>2
  <2> QED
    BY <1>8, <2>1
<1>10. Tidy(r, c, p)
  BY <1>2, <1>6, <1>7, <1>8, <1>9 DEF Tidy, Ordered
<1> QED
  BY <1>0, <1>1, <1>10 DEF r

\* What is kept of a tidy sequence is tidy for other calls c, if these let the
\* kept threads, and no others, wait on.
LEMMA KeepTidy ==
  ASSUME NEW q \in Seq(Threads), NEW c0, NEW p, NEW c, NEW P \in SUBSET (DOMAIN q),
         Tidy(q, c0, p),
         \A i \in P : c[q[i]].at = "parked" /\ c[q[i]].addr = c0[q[i]].addr,
         \A u \in Threads : c[u].at = "parked" => \E i \in P : q[i] = u
  PROVE  Keep(q, P) \in Seq(Threads) /\ Tidy(Keep(q, P), c, p)
<1> DEFINE k == Keep(q, P)
           n == Cardinality(P)
<1>1. PICK at \in [1..n -> P] :
           /\ n \in Nat
           /\ k \in Seq(Threads)
           /\ Len(k) = n
           /\ \A i \in 1..n : k[i] = q[at[i]]
           /\ \A i, j \in 1..n : i < j => at[i] < at[j]
           /\ \A i \in P : \E j \in 1..n : at[j] = i
  BY KeepThreads
<1> HIDE DEF k, n
<1>2. DOMAIN k = 1..n /\ \A i \in 1..n : at[i] \in P /\ at[i] \in DOMAIN q
  BY <1>1
<1>3. \A i \in 1..n : c[k[i]].at = "parked"
  BY <1>1, <1>2
<1>4. ASSUME NEW u \in Threads, c[u].at = "parked"
      PROVE  \E i \in 1..n : k[i] = u
  <2>1. PICK i \in P : q[i] = u
    BY <1>4
  <2>2. PICK j \in 1..n : at[j] = i
    BY <1>1
  <2> QED
    BY <1>1, <2>1, <2>2
<1>5. ASSUME NEW i \in 1..n, NEW j \in 1..n, i < j
      PROVE  k[i] # k[j] /\ Before(c, p, k[i], k[j])
  <2>1. at[i] < at[j] /\ at[i] \in DOMAIN q /\ at[j] \in DOMAIN q
    BY <1>1, <1>2, <1>5
  <2>2. at[i] # at[j]
    BY <2>1
  <2>3. q[at[i]] # q[at[j]] /\ Before(c0, p, q[at[i]], q[at[j]])
    BY <2>1, <2>2 DEF Tidy, Ordered
  <2>4. Before(c, p, q[at[i]], q[at[j]])
    BY <1>2, <2>3 DEF Before
  <2> QED
    BY <1>1, <2>3, <2>4
<1>6. \A i, j \in 1..n : k[i] = k[j] => i = j
  <2> SUFFICES ASSUME NEW i \in 1..n, NEW j \in 1..n, i # j
               PROVE  k[i] # k[j]
    OBVIOUS
  <2>1. i < j \/ j < i
    BY <1>1
  <2> QED
    BY <1>5, <2>1
<1>7. Tidy(k, c, p)
  BY <1>2, <1>3, <1>4, <1>5, <1>6 DEF Tidy, Ordered
<1> QED
  BY <1>1, <1>7 DEF k

-----------------------------------------------------------------------------
(***************************************************************************)
(* The arithmetic of the word.                                             *)
(***************************************************************************)

\* What is left of a division.
LEMMA Remainder ==
  ASSUME NEW M \in Nat, M >= 2, NEW v \in Int
  PROVE  v % M \in 0..(M - 1) /\ \E k \in Int : v % M = v - M * k
OBVIOUS

\* A word is in its range, and a whole number of turns away from the number.
LEMMA WrapDef ==
  ASSUME NEW v \in Int
  PROVE  /\ Wrap(v) \in Int /\ -SignBit <= Wrap(v) /\ Wrap(v) < SignBit
         /\ \E k \in Int : Wrap(v) = v - (2 * SignBit) * k
<1> DEFINE M == 2 * SignBit
<1>1. SignBit \in Nat /\ SignBit >= 2 /\ M \in Nat /\ M >= 2
  BY ArbiterAssumption
<1>2. Wrap(v) = IF v % M >= SignBit THEN (v % M) - M ELSE v % M
  BY DEF Wrap
<1>3. M = SignBit + SignBit
  BY <1>1
<1> HIDE DEF M
<1>4. PICK k \in Int : v % M \in 0..(M - 1) /\ v % M = v - M * k
  BY <1>1, Remainder
<1>5. CASE v % M >= SignBit
  <2>1. Wrap(v) = v - M * k - M
    BY <1>2, <1>4, <1>5
  <2>2. v - M * k - M = v - M * (k + 1) /\ k + 1 \in Int
    BY <1>1
  <2>3. Wrap(v) \in Int /\ -SignBit <= Wrap(v) /\ Wrap(v) < SignBit
    BY <1>1, <1>2, <1>3, <1>4, <1>5
  <2> QED
    BY <2>1, <2>2, <2>3 DEF M
<1>6. CASE ~(v % M >= SignBit)
  <2>1. Wrap(v) = v - M * k
    BY <1>2, <1>4, <1>6
  <2>2. Wrap(v) \in Int /\ -SignBit <= Wrap(v) /\ Wrap(v) < SignBit
    BY <1>1, <1>2, <1>3, <1>4, <1>6
  <2> QED
    BY <2>1, <2>2 DEF M
<1> QED
  BY <1>5, <1>6

\* What was added to a value shows in the difference, whatever overflowed.
LEMMA WrapDifference ==
  ASSUME NEW v \in Int, NEW d \in Int, -SignBit <= d, d < SignBit
  PROVE  /\ Wrap(d) = d
         /\ Wrap(Wrap(v + d) - v) = d
<1> DEFINE M == 2 * SignBit
<1>1. SignBit \in Nat /\ SignBit >= 2 /\ M \in Nat /\ M >= 2 /\ M = SignBit + SignBit
  BY ArbiterAssumption
<1>2. ASSUME NEW x \in Int, NEW k \in Int, x = d - M * k
      PROVE  Wrap(x) = d
  <2>1. PICK j \in Int : Wrap(x) = x - M * j
    BY WrapDef
  <2>2. Wrap(x) \in Int /\ -SignBit <= Wrap(x) /\ Wrap(x) < SignBit
    BY WrapDef
  <2> HIDE DEF M
  <2>3. d - Wrap(x) = M * (k + j)
    BY <1>1, <1>2, <2>1
  <2>4. d - Wrap(x) < M /\ d - Wrap(x) > -M
    BY <1>1, <2>2
  <2>5. \A e \in Int, i \in Int : e < M /\ e > -M /\ e = M * i => e = 0
    BY <1>1
  <2>6. d - Wrap(x) \in Int /\ k + j \in Int
    BY <2>2
  <2>7. d - Wrap(x) = 0
    BY <2>3, <2>4, <2>5, <2>6
  <2> QED
    BY <2>2, <2>7
<1>3. Wrap(d) = d
  <2> HIDE DEF M
  <2>1. d = d - M * 0
    BY <1>1
  <2> QED
    BY <1>2, <2>1
<1>4. Wrap(Wrap(v + d) - v) = d
  <2>1. v + d \in Int
    OBVIOUS
  <2>2. PICK k \in Int : Wrap(v + d) = (v + d) - M * k
    BY <2>1, WrapDef
  <2> HIDE DEF M
  <2>3. Wrap(v + d) - v = d - M * k /\ Wrap(v + d) - v \in Int
    BY <1>1, <2>2
  <2> QED
    BY <1>2, <2>3
<1> QED
  BY <1>3, <1>4

-----------------------------------------------------------------------------
(***************************************************************************)
(* The waiters of an address.                                              *)
(***************************************************************************)

\* What a type and a lock invariant say of the waiters.
LEMMA WaitersAreComparable ==
  ASSUME BaseInv
  PROVE  /\ DOMAIN tree = 1..Len(tree) /\ Len(tree) \in Nat /\ Comparable(tree)
         /\ \A t \in Threads : priority[t] \in Int
         /\ \A t \in Threads : call[t].at # "running" => call[t].addr \in Int
         /\ \A i \in 1..Len(tree) : tree[i] \in Threads /\ call[tree[i]].at = "parked"
<1> USE DEF BaseInv
<1>1. DOMAIN tree = 1..Len(tree) /\ Len(tree) \in Nat
  BY DEF TypeOK
<1>2. \A i \in 1..Len(tree) : tree[i] \in Threads /\ call[tree[i]].at = "parked"
  BY <1>1 DEF TypeOK, TreeOK, Tidy
<1>0. Priorities \subseteq Int /\ Addresses \subseteq Int
  BY ArbiterAssumption
<1>3. \A t \in Threads : priority[t] \in Int
  BY <1>0 DEF TypeOK
<1>4. \A t \in Threads : call[t].at # "running" => call[t].addr \in Int
  BY <1>0 DEF LockOK
<1>5. Comparable(tree)
  BY <1>2, <1>3, <1>4 DEF Comparable
<1> QED
  BY <1>1, <1>2, <1>3, <1>4, <1>5

\* The waiters of an address are the threads parked there, each once, the best
\* first.
LEMMA WaitersFacts ==
  ASSUME BaseInv, NEW a \in Addresses
  PROVE  /\ WaitersOf(a) \in Seq(Threads)
         /\ Len(WaitersOf(a)) \in Nat /\ DOMAIN WaitersOf(a) = 1..Len(WaitersOf(a))
         /\ \A i \in 1..Len(WaitersOf(a)) :
              /\ WaitersOf(a)[i] \in Threads
              /\ call[WaitersOf(a)[i]].at = "parked"
              /\ call[WaitersOf(a)[i]].addr = a
         /\ \A t \in Threads : call[t].at = "parked" /\ call[t].addr = a =>
              \E i \in 1..Len(WaitersOf(a)) : WaitersOf(a)[i] = t
         /\ \A i, j \in 1..Len(WaitersOf(a)) : i < j =>
              /\ WaitersOf(a)[i] # WaitersOf(a)[j]
              /\ priority[WaitersOf(a)[i]] <= priority[WaitersOf(a)[j]]
<1> DEFINE P == {i \in DOMAIN tree : call[tree[i]].addr = a}
           w == WaitersOf(a)
           n == Cardinality(P)
<1>1. tree \in Seq(Threads) /\ Tidy(tree, call, priority) /\ P \in SUBSET (DOMAIN tree)
  BY DEF BaseInv, TypeOK, TreeOK
<1>2. w = Keep(tree, P)
  BY DEF WaitersOf
<1>3. \A i \in P : call[tree[i]].addr = a
  OBVIOUS
<1>4. \A i \in DOMAIN tree : call[tree[i]].addr = a => i \in P
  OBVIOUS
<1> HIDE DEF P, w
<1>5. PICK at \in [1..n -> P] :
           /\ n \in Nat
           /\ w \in Seq(Threads)
           /\ Len(w) = n
           /\ \A i \in 1..n : w[i] = tree[at[i]]
           /\ \A i, j \in 1..n : i < j => at[i] < at[j]
           /\ \A i \in P : \E j \in 1..n : at[j] = i
  BY <1>1, <1>2, KeepThreads
<1> HIDE DEF n
<1>6. DOMAIN w = 1..n /\ \A i \in 1..n : at[i] \in P /\ at[i] \in DOMAIN tree
  BY <1>1, <1>5
<1>7. ASSUME NEW i \in 1..n
      PROVE  w[i] \in Threads /\ call[w[i]].at = "parked" /\ call[w[i]].addr = a
  <2>1. w[i] = tree[at[i]] /\ at[i] \in P /\ at[i] \in DOMAIN tree
    BY <1>5, <1>6
  <2> QED
    BY <1>1, <1>3, <2>1 DEF Tidy
<1>8. ASSUME NEW t \in Threads, call[t].at = "parked", call[t].addr = a
      PROVE  \E i \in 1..n : w[i] = t
  <2>1. PICK i \in DOMAIN tree : tree[i] = t
    BY <1>1, <1>8 DEF Tidy
  <2>2. i \in P
    BY <1>4, <1>8, <2>1
  <2>3. PICK j \in 1..n : at[j] = i
    BY <1>5, <2>2
  <2> QED
    BY <1>5, <2>1, <2>3
<1>9. ASSUME NEW i \in 1..n, NEW j \in 1..n, i < j
      PROVE  w[i] # w[j] /\ priority[w[i]] <= priority[w[j]]
  <2>1. at[i] < at[j] /\ at[i] \in DOMAIN tree /\ at[j] \in DOMAIN tree
    BY <1>5, <1>6, <1>9
  <2>2. at[i] # at[j]
    <3>1. at[i] \in Int
      BY <1>1, <2>1
    <3> QED
      BY <2>1, <3>1
  <2>3. tree[at[i]] # tree[at[j]] /\ Before(call, priority, tree[at[i]], tree[at[j]])
    BY <1>1, <2>1, <2>2 DEF Tidy, Ordered
  <2>4. w[i] # w[j] /\ Before(call, priority, w[i], w[j])
    BY <1>5, <2>3
  <2>5. call[w[i]].addr = a /\ call[w[j]].addr = a /\ a \in Int
    BY <1>7, ArbiterAssumption
  <2> QED
    BY <2>4, <2>5 DEF Before
<1> QED
  BY <1>5, <1>6, <1>7, <1>8, <1>9 DEF w

\* A signal wakes the first ones: all of them, or as many as it says.
LEMMA WokenDef ==
  ASSUME BaseInv, NEW a \in Addresses, NEW n \in Int
  PROVE  \E k \in 0..Len(WaitersOf(a)) :
           /\ \A t : t \in Woken(a, n) <=> \E i \in 1..k : WaitersOf(a)[i] = t
           /\ n <= 0 => k = Len(WaitersOf(a))
           /\ n > 0 => k <= n /\ (k = n \/ k = Len(WaitersOf(a)))
<1> DEFINE w == WaitersOf(a)
<1>1. w \in Seq(Threads) /\ Len(w) \in Nat /\ DOMAIN w = 1..Len(w)
  BY WaitersFacts
<1>2. Woken(a, n) = Range(IF n <= 0 THEN w ELSE SubSeq(w, 1, Min({n, Len(w)})))
  BY DEF Woken
<1> HIDE DEF w
<1>3. CASE n <= 0
  <2>1. Woken(a, n) = {w[i] : i \in 1..Len(w)}
    BY <1>1, <1>2, <1>3 DEF Range
  <2>2. \A t : t \in Woken(a, n) <=> \E i \in 1..Len(w) : w[i] = t
    BY <2>1
  <2>3. Len(w) \in 0..Len(w) /\ ~(n > 0)
    BY <1>1, <1>3
  <2> QED
    BY <2>2, <2>3 DEF w
<1>4. CASE n > 0
  <2> DEFINE k == Min({n, Len(w)})
             s == SubSeq(w, 1, k)
  <2>1. k \in {n, Len(w)} /\ k <= n /\ k <= Len(w)
    <3>1. \E x \in {n, Len(w)} : \A y \in {n, Len(w)} : x <= y
      BY <1>1
    <3> QED
      BY <3>1 DEF Min
  <2> HIDE DEF k
  <2>2. k \in 0..Len(w)
    <3>1. Len(w) \in Nat /\ n \in Nat
      BY <1>1, <1>4
    <3>2. k = n \/ k = Len(w)
      BY <2>1
    <3>3. \A x, y, l \in Nat : (x = y \/ x = l) /\ x <= l => x \in 0..l
      OBVIOUS
    <3>4. k \in Nat
      BY <3>1, <3>2
    <3> QED
      BY <2>1, <3>1, <3>2, <3>3, <3>4
  <2>3. s \in Seq(Threads) /\ Len(s) = k /\ \A i \in 1..k : s[i] = w[i]
    <3>1. \A i \in 1..k : w[i] \in Threads
      BY <1>1, <2>2
    <3>2. k \in Int /\ k >= 0
      BY <1>1, <2>2
    <3> QED
      BY <3>1, <3>2, SubSeqProperties
  <2>4. Woken(a, n) = Range(s)
    BY <1>2, <1>4 DEF k
  <2> HIDE DEF s
  <2>5. Woken(a, n) = {s[i] : i \in 1..k}
    BY <2>3, <2>4 DEF Range
  <2>6. \A t : t \in Woken(a, n) <=> \E i \in 1..k : w[i] = t
    BY <2>3, <2>5
  <2>7. ~(n <= 0) /\ k <= n /\ (k = n \/ k = Len(w))
    BY <1>4, <2>1
  <2> QED
    BY <2>2, <2>6, <2>7 DEF w
<1> QED
  BY <1>3, <1>4

-----------------------------------------------------------------------------
(***************************************************************************)
(* The tree after a step.                                                  *)
(***************************************************************************)

\* A thread that neither waited nor waits now leaves the tree as it is.
LEMMA TreeKept ==
  ASSUME BaseInv, NEW t \in Threads, NEW c,
         call[t].at # "parked", c[t].at # "parked",
         \A u \in Threads : u # t => c[u] = call[u]
  PROVE  Tidy(tree, c, priority)
<1>1. /\ DOMAIN tree = 1..Len(tree)
      /\ \A i \in 1..Len(tree) : tree[i] \in Threads /\ call[tree[i]].at = "parked"
  BY WaitersAreComparable
<1>2. \A i \in DOMAIN tree : tree[i] \in Threads /\ c[tree[i]] = call[tree[i]]
  BY <1>1
<1>3. Tidy(tree, call, priority)
  BY DEF BaseInv, TreeOK
<1>4. \A i \in DOMAIN tree : c[tree[i]].at = "parked"
  BY <1>1, <1>2
<1>5. \A u \in Threads : c[u].at = "parked" => \E i \in DOMAIN tree : tree[i] = u
  BY <1>3 DEF Tidy
<1>6. Ordered(tree, c, priority)
  BY <1>2, <1>3 DEF Tidy, Ordered, Before
<1> QED
  BY <1>3, <1>4, <1>5, <1>6 DEF Tidy

\* Leave takes some threads out of the tree, and those only.
LEMMA TreeLeft ==
  ASSUME BaseInv, NEW woken, NEW c,
         \A u \in Threads : c[u].at = "parked" <=> call[u].at = "parked" /\ u \notin woken,
         \A u \in Threads : c[u].at = "parked" => c[u].addr = call[u].addr
  PROVE  /\ Keep(tree, {i \in DOMAIN tree : tree[i] \notin woken}) \in Seq(Threads)
         /\ Tidy(Keep(tree, {i \in DOMAIN tree : tree[i] \notin woken}), c, priority)
<1> DEFINE P == {i \in DOMAIN tree : tree[i] \notin woken}
<1>1. /\ DOMAIN tree = 1..Len(tree)
      /\ \A i \in 1..Len(tree) : tree[i] \in Threads /\ call[tree[i]].at = "parked"
  BY WaitersAreComparable
<1>2. Tidy(tree, call, priority) /\ tree \in Seq(Threads)
  BY DEF BaseInv, TreeOK, TypeOK
<1>3. P \in SUBSET (DOMAIN tree)
  OBVIOUS
<1>4. \A i \in P : c[tree[i]].at = "parked" /\ c[tree[i]].addr = call[tree[i]].addr
  BY <1>1
<1>5. ASSUME NEW u \in Threads, c[u].at = "parked"
      PROVE  \E i \in P : tree[i] = u
  <2>1. call[u].at = "parked" /\ u \notin woken
    BY <1>5
  <2>2. PICK i \in DOMAIN tree : tree[i] = u
    BY <1>2, <2>1 DEF Tidy
  <2> QED
    BY <2>1, <2>2
<1> HIDE DEF P
<1>6. Keep(tree, P) \in Seq(Threads) /\ Tidy(Keep(tree, P), c, priority)
  BY <1>2, <1>3, <1>4, <1>5, KeepTidy
<1> QED
  BY <1>6 DEF P

\* A waiter that is taken out and put back with another priority.
LEMMA TreeRelinked ==
  ASSUME BaseInv, NEW t \in Threads, NEW pr \in Priorities, NEW p,
         p[t] = pr, \A u \in Threads : u # t => p[u] = priority[u]
  PROVE  Relink(t, pr) \in Seq(Threads) /\ Tidy(Relink(t, pr), call, p)
<1>1. /\ DOMAIN tree = 1..Len(tree) /\ Len(tree) \in Nat
      /\ \A u \in Threads : priority[u] \in Int
      /\ \A u \in Threads : call[u].at # "running" => call[u].addr \in Int
      /\ \A i \in 1..Len(tree) : tree[i] \in Threads /\ call[tree[i]].at = "parked"
  BY WaitersAreComparable
<1>2. Tidy(tree, call, priority) /\ tree \in Seq(Threads) /\ pr \in Int
  BY ArbiterAssumption DEF BaseInv, TreeOK, TypeOK
<1>3. CASE t \in Range(tree)
  <2> DEFINE P == {i \in DOMAIN tree : tree[i] # t}
             q == Keep(tree, P)
             a == call[t].addr
  <2>1. Relink(t, pr) = Insert(q, t, a, pr)
    BY <1>3 DEF Relink
  <2>2. call[t].at = "parked" /\ a \in Int
    BY <1>1, <1>3 DEF Range
  <2>3. P \in SUBSET (DOMAIN tree) /\ \A i \in P : tree[i] # t
    OBVIOUS
  <2>4. \A i \in DOMAIN tree : tree[i] # t => i \in P
    OBVIOUS
  <2> HIDE DEF P
  <2>5. PICK at \in [1..Cardinality(P) -> P] :
           /\ Cardinality(P) \in Nat
           /\ q \in Seq(Threads)
           /\ Len(q) = Cardinality(P)
           /\ \A n \in 1..Cardinality(P) : q[n] = tree[at[n]]
           /\ \A n, m \in 1..Cardinality(P) : n < m => at[n] < at[m]
           /\ \A i \in P : \E n \in 1..Cardinality(P) : at[n] = i
    BY <1>2, <2>3, KeepThreads
  <2> HIDE DEF q, a
  <2>6. /\ q \in Seq(Threads) /\ Len(q) \in Nat /\ DOMAIN q = 1..Len(q)
        /\ \A i \in 1..Len(q) : at[i] \in P /\ at[i] \in 1..Len(tree) /\ q[i] = tree[at[i]]
        /\ \A i, j \in 1..Len(q) : i < j => at[i] < at[j]
    <3>1. q \in Seq(Threads) /\ Len(q) \in Nat /\ DOMAIN q = 1..Len(q)
      BY <2>5
    <3>2. /\ at \in [1..Len(q) -> P]
          /\ \A i \in 1..Len(q) : q[i] = tree[at[i]]
          /\ \A i, j \in 1..Len(q) : i < j => at[i] < at[j]
      BY <2>5
    <3>3. \A i \in P : i \in 1..Len(tree)
      BY <1>1, <2>3
    <3> QED
      BY <3>1, <3>2, <3>3
  <2>7. \A i \in 1..Len(q) : q[i] \in Threads /\ q[i] # t /\ call[q[i]].at = "parked"
    BY <1>1, <2>3, <2>6
  <2>8. Comparable(q)
    BY <1>1, <2>7 DEF Comparable
  <2>9. Ordered(q, call, priority)
    <3> SUFFICES ASSUME NEW i \in 1..Len(q), NEW j \in 1..Len(q), i < j
                 PROVE  Before(call, priority, q[i], q[j])
      BY <2>6 DEF Ordered
    <3>1. at[i] < at[j] /\ at[i] \in DOMAIN tree /\ at[j] \in DOMAIN tree
      BY <1>1, <2>6
    <3>2. Before(call, priority, tree[at[i]], tree[at[j]])
      BY <1>2, <3>1 DEF Tidy, Ordered
    <3> QED
      BY <2>6, <3>2
  <2>10. ASSUME NEW i \in 1..Len(q), NEW j \in 1..Len(q), q[i] = q[j]
         PROVE  i = j
    <3>1. at[i] \in DOMAIN tree /\ at[j] \in DOMAIN tree /\ tree[at[i]] = tree[at[j]]
      BY <1>1, <2>6, <2>10
    <3>2. at[i] = at[j] /\ at[i] \in Int
      BY <1>1, <1>2, <3>1 DEF Tidy
    <3>3. ~(i < j) /\ ~(j < i)
      BY <2>6, <3>2
    <3> QED
      BY <2>6, <3>3
  <2>11. \A i \in 1..Len(q) : /\ q[i] # t
                              /\ call[q[i]].at = "parked"
                              /\ call[q[i]].addr = call[q[i]].addr
                              /\ p[q[i]] = priority[q[i]]
    BY <2>7
  <2>12. ASSUME NEW u \in Threads, call[u].at = "parked"
         PROVE  u = t \/ \E i \in 1..Len(q) : q[i] = u
    <3>1. PICK i \in DOMAIN tree : tree[i] = u
      BY <1>2, <2>12 DEF Tidy
    <3>2. CASE u # t
      <4>1. i \in P
        BY <2>4, <3>1, <3>2
      <4>2. PICK n \in 1..Cardinality(P) : at[n] = i
        BY <2>5, <4>1
      <4> QED
        BY <2>5, <3>1, <4>2
    <3> QED
      BY <3>2
  <2>13. /\ Insert(q, t, a, pr) \in Seq(Threads)
         /\ Tidy(Insert(q, t, a, pr), call, p)
    <3>1. \A i, j \in 1..Len(q) : q[i] = q[j] => i = j
      BY <2>10
    <3>2. call[t].at = "parked" /\ call[t].addr = a /\ p[t] = pr
      BY <2>2 DEF a
    <3>3. \A u \in Threads : call[u].at = "parked" =>
            u = t \/ \E i \in 1..Len(q) : q[i] = u
      BY <2>12
    <3> QED
      BY <1>2, <2>2, <2>6, <2>8, <2>9, <2>11, <3>1, <3>2, <3>3, InsertTidy
  <2> QED
    BY <2>1, <2>13
<1>4. CASE t \notin Range(tree)
  <2>1. Relink(t, pr) = tree
    BY <1>4 DEF Relink
  <2>2. \A i \in DOMAIN tree : tree[i] \in Threads /\ tree[i] # t
    BY <1>1, <1>4 DEF Range
  <2>3. Tidy(tree, call, p)
    BY <1>2, <2>2 DEF Tidy, Ordered, Before
  <2> QED
    BY <1>2, <2>1, <2>3
<1> QED
  BY <1>3, <1>4

-----------------------------------------------------------------------------
(***************************************************************************)
(* The types.                                                              *)
(***************************************************************************)

\* The value SignalAndModifyByWaitingCountIfEqual writes is a number.
LEMMA ModifiedType ==
  ASSUME NEW a, NEW v \in Int, NEW n
  PROVE  ModifiedValue(a, v, n) \in Int
<1>1. Wrap(v + 1) \in Int /\ Wrap(v - 2) \in Int /\ Wrap(v - 1) \in Int
  <2>1. v + 1 \in Int /\ v - 2 \in Int /\ v - 1 \in Int
    OBVIOUS
  <2> QED
    BY <2>1, WrapDef
<1> QED
  BY <1>1 DEF ModifiedValue

\* So is what any signal writes.
LEMMA NewType ==
  ASSUME TypeOK, NEW type \in SignalTypes, NEW a \in Addresses, NEW v \in Int, NEW n
  PROVE  NewValue(type, a, v, n) \in Int
<1>1. CASE type = "Signal"
  BY <1>1 DEF NewValue, TypeOK
<1>2. CASE type = "SignalAndIncrementIfEqual"
  <2>1. v + 1 \in Int
    OBVIOUS
  <2>2. Wrap(v + 1) \in Int
    BY <2>1, WrapDef
  <2> QED
    BY <1>2, <2>2 DEF NewValue
<1>3. CASE type = "SignalAndModifyByWaitingCountIfEqual"
  BY <1>3, ModifiedType DEF NewValue
<1> QED
  BY <1>1, <1>2, <1>3 DEF SignalTypes

\* The calls a step leaves behind.
LEMMA CallTypes ==
  /\ Idle \in Calls
  /\ \A a \in Addresses, b \in BOOLEAN : Checked(a, b) \in Calls
  /\ \A c \in Calls : [c EXCEPT !.at = "parked"] \in Calls
  /\ \A type \in SignalTypes, a \in Addresses, v, n, x \in Int :
       Signalling(type, a, v, n, x) \in Calls
<1>1. Idle \in Calls
  BY DEF Calls, Idle
<1>2. ASSUME NEW a \in Addresses, NEW b \in BOOLEAN
      PROVE  Checked(a, b) \in Calls
  BY DEF Calls, Checked
<1>3. ASSUME NEW c \in Calls
      PROVE  [c EXCEPT !.at = "parked"] \in Calls
  BY DEF Calls
<1>4. ASSUME NEW type \in SignalTypes, NEW a \in Addresses, NEW v \in Int, NEW n \in Int,
             NEW x \in Int
      PROVE  Signalling(type, a, v, n, x) \in Calls
  BY DEF Calls, Signalling
<1> QED
  BY <1>1, <1>2, <1>3, <1>4

\* Every action keeps the types.
LEMMA TypeStep == BaseInv /\ [Next]_vars => TypeOK'
<1> SUFFICES ASSUME BaseInv, [Next]_vars PROVE TypeOK'
  OBVIOUS
<1>0. TypeOK
  BY DEF BaseInv
<1>1. ASSUME NEW t \in Threads, NEW type \in WaitTypes, NEW a \in Addresses,
             NEW v \in Values, NEW timeout \in Timeouts,
             WaitRead(t, type, a, v, timeout)
      PROVE  TypeOK'
  <2>1. word' \in [Addresses -> Int]
    <3>1. word[a] \in Int /\ word[a] - 1 \in Int
      BY <1>0 DEF TypeOK
    <3>2. Wrap(word[a] - 1) \in Int
      BY <3>1, WrapDef
    <3>3. word' = IF type = "DecrementAndWaitIfLessThan"
                  THEN [word EXCEPT ![a] = Wrap(word[a] - 1)] ELSE word
      BY <1>1 DEF WaitRead
    <3> QED
      BY <1>0, <3>2, <3>3 DEF TypeOK
  <2>2. lock' \in Threads \cup {NONE} /\ call' \in [Threads -> Calls]
    <3>1. CASE timeout # "zero"
      <4>1. /\ lock' = t
            /\ call' = [call EXCEPT ![t] = Checked(a, timeout = "some")]
        BY <1>1, <3>1 DEF WaitRead
      <4>2. (timeout = "some") \in BOOLEAN
        OBVIOUS
      <4>3. Checked(a, timeout = "some") \in Calls
        BY <4>2, CallTypes
      <4>4. call \in [Threads -> Calls]
        BY <1>0 DEF TypeOK
      <4> HIDE DEF Calls
      <4> QED
        BY <4>1, <4>3, <4>4
    <3>2. CASE ~(timeout # "zero")
      BY <1>0, <1>1, <3>2 DEF WaitRead, TypeOK
    <3> QED
      BY <3>1, <3>2
  <2> QED
    BY <1>0, <1>1, <2>1, <2>2 DEF WaitRead, TypeOK
<1>2. ASSUME NEW t \in Threads, WaitPark(t) PROVE TypeOK'
  <2>1. call' \in [Threads -> Calls]
    <3>1. call \in [Threads -> Calls] /\ call' = [call EXCEPT ![t].at = "parked"]
      BY <1>0, <1>2 DEF TypeOK, WaitPark
    <3>2. [call[t] EXCEPT !.at = "parked"] \in Calls
      BY <3>1, CallTypes
    <3> QED
      BY <3>1, <3>2
  <2>2. tree' \in Seq(Threads)
    <3>1. call[t].addr \in Int /\ priority[t] \in Int /\ Comparable(tree)
      BY <1>2, WaitersAreComparable DEF WaitPark
    <3>2. tree \in Seq(Threads) /\ Ordered(tree, call, priority)
      BY DEF BaseInv, TypeOK, TreeOK, Tidy
    <3>3. PICK k \in 0..Len(tree) :
            PutBehind(Insert(tree, t, call[t].addr, priority[t]), tree, t, k)
      BY <3>1, <3>2, InsertDef
    <3> QED
      BY <1>2, <3>3 DEF WaitPark, PutBehind
  <2> QED
    BY <1>0, <1>2, <2>1, <2>2 DEF WaitPark, TypeOK
<1>3. ASSUME NEW woken, Leave(woken), call' \in [Threads -> Calls],
             \A u \in Threads :
               call'[u].at = "parked" <=> call[u].at = "parked" /\ u \notin woken,
             \A u \in Threads : call'[u].at = "parked" => call'[u].addr = call[u].addr,
             UNCHANGED priority
      PROVE  tree' \in Seq(Threads) /\ stale' \subseteq Threads
  <2>1. Keep(tree, {i \in DOMAIN tree : tree[i] \notin woken}) \in Seq(Threads)
    BY <1>3, TreeLeft
  <2> QED
    BY <1>0, <1>3, <2>1 DEF Leave, TypeOK
<1>4. ASSUME NEW t \in Threads, call[t].at = "parked", Leave({t}),
             call' = [call EXCEPT ![t] = Idle], UNCHANGED priority
      PROVE  /\ tree' \in Seq(Threads) /\ stale' \subseteq Threads
             /\ call' \in [Threads -> Calls]
  <2>1. call \in [Threads -> Calls]
    BY <1>0 DEF TypeOK
  <2>2. call' \in [Threads -> Calls]
    BY <1>4, <2>1, CallTypes
  <2>3. Idle.at = "running"
    BY DEF Idle
  <2>4. /\ \A u \in Threads : u # t => call'[u] = call[u]
        /\ call'[t] = Idle
    BY <1>4, <2>1
  <2>5. \A u \in Threads :
          call'[u].at = "parked" <=> call[u].at = "parked" /\ u \notin {t}
    BY <2>3, <2>4
  <2>6. \A u \in Threads : call'[u].at = "parked" => call'[u].addr = call[u].addr
    BY <2>3, <2>4
  <2> QED
    BY <1>3, <1>4, <2>2, <2>5, <2>6
<1>5. ASSUME NEW t \in Threads, TimedOut(t) PROVE TypeOK'
  BY <1>0, <1>4, <1>5 DEF TimedOut, TypeOK
<1>6. ASSUME NEW t \in Threads, Terminate(t) PROVE TypeOK'
  <2>1. CASE call[t].at = "parked"
    <3>1. Leave({t}) /\ call' = [call EXCEPT ![t] = Idle] /\ UNCHANGED priority
      BY <1>6, <2>1 DEF Terminate
    <3>2. /\ tree' \in Seq(Threads) /\ stale' \subseteq Threads
          /\ call' \in [Threads -> Calls]
      BY <1>4, <2>1, <3>1
    <3> QED
      BY <1>0, <1>6, <3>2 DEF Terminate, TypeOK
  <2>2. CASE call[t].at # "parked"
    BY <1>0, <1>6, <2>2 DEF Terminate, TypeOK
  <2> QED
    BY <2>1, <2>2
<1>7. ASSUME NEW t \in Threads, NEW p \in Priorities, SetPriority(t, p) PROVE TypeOK'
  <2>1. priority' = [priority EXCEPT ![t] = p] /\ priority \in [Threads -> Priorities]
    BY <1>0, <1>7 DEF SetPriority, TypeOK
  <2>2. /\ priority' \in [Threads -> Priorities] /\ priority'[t] = p
        /\ \A u \in Threads : u # t => priority'[u] = priority[u]
    BY <2>1
  <2>3. tree' \in Seq(Threads)
    BY <1>7, <2>2, TreeRelinked DEF SetPriority
  <2> QED
    BY <1>0, <1>7, <2>2, <2>3 DEF SetPriority, TypeOK
<1>8. ASSUME NEW t \in Threads, NEW type \in SignalTypes, NEW a \in Addresses,
             NEW v \in Values, NEW n \in Counts, SignalUpdate(t, type, a, v, n)
      PROVE  TypeOK'
  <2>1. v \in Int /\ n \in Int
    BY ArbiterAssumption
  <2>2. NewValue(type, a, v, n) \in Int
    BY <1>0, <2>1, NewType
  <2>3. word' \in [Addresses -> Int]
    BY <1>0, <1>8, <2>2 DEF SignalUpdate, TypeOK
  <2>4. PICK x \in Int : x = word'[a]
    BY <2>3
  <2>5. Signalling(type, a, v, n, x) \in Calls
    BY <2>1, CallTypes
  <2>6. call' = [call EXCEPT ![t] = Signalling(type, a, v, n, x)]
    BY <1>8, <2>4 DEF SignalUpdate
  <2>7. call' \in [Threads -> Calls]
    <3>1. call \in [Threads -> Calls]
      BY <1>0 DEF TypeOK
    <3> QED
      BY <2>5, <2>6, <3>1
  <2> QED
    BY <1>0, <1>8, <2>3, <2>7 DEF SignalUpdate, TypeOK
<1>9. ASSUME NEW t \in Threads, SignalWake(t) PROVE TypeOK'
  <2> DEFINE woken == Woken(call[t].addr, call[t].count)
  <2>1. /\ Leave(woken)
        /\ call' = [u \in Threads |-> IF u \in woken \cup {t} THEN Idle ELSE call[u]]
        /\ call[t].at = "signalling"
    BY <1>9 DEF SignalWake
  <2> HIDE DEF woken
  <2>2. call \in [Threads -> Calls]
    BY <1>0 DEF TypeOK
  <2>3. call' \in [Threads -> Calls]
    BY <2>1, <2>2, CallTypes
  <2>4. Idle.at = "running"
    BY DEF Idle
  <2>5. \A u \in Threads :
          call'[u].at = "parked" <=> call[u].at = "parked" /\ u \notin woken
    BY <2>1, <2>4
  <2>6. \A u \in Threads : call'[u].at = "parked" => call'[u].addr = call[u].addr
    BY <2>1, <2>4
  <2>7. tree' \in Seq(Threads) /\ stale' \subseteq Threads
    BY <1>3, <1>9, <2>1, <2>3, <2>5, <2>6 DEF SignalWake
  <2> QED
    BY <1>0, <1>9, <2>3, <2>7 DEF SignalWake, TypeOK
<1>10. ASSUME NEW t \in Threads, NEW a \in Addresses, NEW v \in Values, Store(t, a, v)
       PROVE  TypeOK'
  <2>1. v \in Int
    BY ArbiterAssumption
  <2> QED
    BY <1>0, <1>10, <2>1 DEF Store, TypeOK
<1>11. CASE UNCHANGED vars
  BY <1>0, <1>11 DEF vars, TypeOK
<1> QED
  BY <1>1, <1>2, <1>5, <1>6, <1>7, <1>8, <1>9, <1>10, <1>11 DEF Next, Finish

-----------------------------------------------------------------------------
(***************************************************************************)
(* What the actions do to the calls.                                       *)
(***************************************************************************)
\* Nothing happened to the calls of the other threads.
Others(t) == \A u \in Threads : u # t => call'[u] = call[u]

\* A wait takes the lock and notes its address, or has returned already.
LEMMA WaitReadCall ==
  ASSUME TypeOK, NEW t \in Threads, NEW type, NEW a \in Addresses, NEW v, NEW timeout,
         WaitRead(t, type, a, v, timeout)
  PROVE  /\ call[t].at = "running" /\ owes[t] = NONE /\ lock = NONE
         /\ UNCHANGED <<tree, priority, owes, stale>>
         /\ \/ UNCHANGED <<lock, call>>
            \/ /\ lock' = t /\ Others(t)
               /\ call'[t].at = "checked" /\ call'[t].addr = a
<1>1. /\ call[t].at = "running" /\ owes[t] = NONE /\ lock = NONE
      /\ UNCHANGED <<tree, priority, owes, stale>>
  BY DEF WaitRead, Running
<1>2. CASE timeout # "zero"
  <2>1. lock' = t /\ call' = [call EXCEPT ![t] = Checked(a, timeout = "some")]
    BY <1>2 DEF WaitRead
  <2>2. call'[t] = Checked(a, timeout = "some") /\ Others(t)
    BY <2>1 DEF Others, TypeOK
  <2>3. Checked(a, timeout = "some").at = "checked" /\ Checked(a, timeout = "some").addr = a
    BY DEF Checked
  <2> QED
    BY <1>1, <2>1, <2>2, <2>3
<1>3. CASE ~(timeout # "zero")
  BY <1>1, <1>3 DEF WaitRead
<1> QED
  BY <1>2, <1>3

\* The rest of a wait parks the thread and lets the lock go.
LEMMA WaitParkCall ==
  ASSUME TypeOK, NEW t \in Threads, WaitPark(t)
  PROVE  /\ call[t].at = "checked" /\ lock = t /\ lock' = NONE /\ Others(t)
         /\ call'[t].at = "parked" /\ call'[t].addr = call[t].addr
         /\ tree' = Insert(tree, t, call[t].addr, priority[t])
         /\ UNCHANGED <<priority, owes, stale>>
<1>1. call' = [call EXCEPT ![t].at = "parked"] /\ call \in [Threads -> Calls]
  BY DEF WaitPark, TypeOK
<1>2. Others(t) /\ call'[t] = [call[t] EXCEPT !.at = "parked"]
  BY <1>1 DEF Others
<1>3. call'[t].at = "parked" /\ call'[t].addr = call[t].addr
  BY <1>1, <1>2 DEF Calls
<1> QED
  BY <1>2, <1>3 DEF WaitPark

\* A signal takes the lock and notes its arguments and what it wrote.
LEMMA SignalUpdateCall ==
  ASSUME TypeOK, NEW t \in Threads, NEW type, NEW a \in Addresses, NEW v, NEW n,
         SignalUpdate(t, type, a, v, n)
  PROVE  /\ call[t].at = "running" /\ lock = NONE /\ lock' = t /\ Others(t)
         /\ owes[t] # NONE => type = "Signal" /\ a = owes[t] /\ n <= 0
         /\ call'[t].at = "signalling" /\ call'[t].type = type /\ call'[t].addr = a
         /\ call'[t].value = v /\ call'[t].count = n
         /\ call'[t].new = NewValue(type, a, v, n)
         /\ UNCHANGED <<tree, priority, owes, stale>>
<1>1. /\ call[t].at = "running" /\ lock = NONE /\ lock' = t
      /\ owes[t] # NONE => type = "Signal" /\ a = owes[t] /\ n <= 0
      /\ UNCHANGED <<tree, priority, owes, stale>>
  BY DEF SignalUpdate, Running
<1>2. word' = [word EXCEPT ![a] = NewValue(type, a, v, n)]
  BY DEF SignalUpdate
<1>3. word'[a] = NewValue(type, a, v, n)
  BY <1>2 DEF TypeOK
<1>4. call' = [call EXCEPT ![t] = Signalling(type, a, v, n, word'[a])]
  BY DEF SignalUpdate
<1>5. call'[t] = Signalling(type, a, v, n, word'[a]) /\ Others(t)
  BY <1>4 DEF TypeOK, Others
<1>6. /\ call'[t].at = "signalling" /\ call'[t].type = type /\ call'[t].addr = a
      /\ call'[t].value = v /\ call'[t].count = n /\ call'[t].new = word'[a]
  BY <1>5 DEF Signalling
<1> QED
  BY <1>1, <1>3, <1>5, <1>6

\* A wait that is cancelled.
LEMMA CancelCall ==
  ASSUME TypeOK, NEW t \in Threads, call' = [call EXCEPT ![t] = Idle]
  PROVE  Others(t) /\ call'[t].at = "running"
<1>1. Others(t) /\ call'[t] = Idle
  BY DEF Others, TypeOK
<1> QED
  BY <1>1 DEF Idle

\* The rest of a signal sends the woken threads and its own on their way.
LEMMA SignalWakeCall ==
  ASSUME TypeOK, NEW t \in Threads, SignalWake(t)
  PROVE  /\ call[t].at = "signalling" /\ lock = t /\ lock' = NONE
         /\ Leave(Woken(call[t].addr, call[t].count))
         /\ \A u \in Threads : u \in Woken(call[t].addr, call[t].count) \cup {t} =>
              call'[u].at = "running"
         /\ \A u \in Threads : u \notin Woken(call[t].addr, call[t].count) \cup {t} =>
              call'[u] = call[u]
         /\ owes'[t] = NONE /\ \A u \in Threads : u # t => owes'[u] = owes[u]
         /\ UNCHANGED priority
<1> DEFINE woken == Woken(call[t].addr, call[t].count)
<1>1. /\ call[t].at = "signalling" /\ lock = t /\ lock' = NONE /\ Leave(woken)
      /\ call' = [u \in Threads |-> IF u \in woken \cup {t} THEN Idle ELSE call[u]]
      /\ owes' = [owes EXCEPT ![t] = NONE] /\ UNCHANGED priority
  BY DEF SignalWake
<1> HIDE DEF woken
<1>2. /\ \A u \in Threads : u \in woken \cup {t} => call'[u] = Idle
      /\ \A u \in Threads : u \notin woken \cup {t} => call'[u] = call[u]
  BY <1>1
<1>3. Idle.at = "running"
  BY DEF Idle
<1>4. owes'[t] = NONE /\ \A u \in Threads : u # t => owes'[u] = owes[u]
  BY <1>1 DEF TypeOK
<1> QED
  BY <1>1, <1>2, <1>3, <1>4 DEF woken

-----------------------------------------------------------------------------
(***************************************************************************)
(* The tree holds the parked threads, in order.                            *)
(***************************************************************************)
\* Every action keeps it so.
LEMMA TreeStep == BaseInv /\ [Next]_vars => TreeOK'
<1> SUFFICES ASSUME BaseInv, [Next]_vars PROVE TreeOK'
  OBVIOUS
<1>0. TypeOK /\ TreeOK /\ LockOK
  BY DEF BaseInv
<1>1. ASSUME NEW t \in Threads, NEW type \in WaitTypes, NEW a \in Addresses,
             NEW v \in Values, NEW timeout \in Timeouts,
             WaitRead(t, type, a, v, timeout)
      PROVE  TreeOK'
  <2>1. /\ call[t].at = "running" /\ UNCHANGED <<tree, priority>>
        /\ \/ UNCHANGED call
           \/ Others(t) /\ call'[t].at = "checked"
    BY <1>0, <1>1, WaitReadCall
  <2>2. CASE UNCHANGED call
    BY <1>0, <2>1, <2>2 DEF TreeOK
  <2>3. CASE Others(t) /\ call'[t].at = "checked"
    <3>1. Tidy(tree, call', priority)
      BY <2>1, <2>3, TreeKept DEF Others
    <3> QED
      BY <2>1, <3>1 DEF TreeOK
  <2> QED
    BY <2>1, <2>2, <2>3
<1>2. ASSUME NEW t \in Threads, WaitPark(t) PROVE TreeOK'
  <2>1. /\ call[t].at = "checked" /\ Others(t)
        /\ call'[t].at = "parked" /\ call'[t].addr = call[t].addr
        /\ tree' = Insert(tree, t, call[t].addr, priority[t])
        /\ UNCHANGED priority
    BY <1>0, <1>2, WaitParkCall
  <2>2. /\ DOMAIN tree = 1..Len(tree) /\ Len(tree) \in Nat /\ Comparable(tree)
        /\ priority[t] \in Int /\ call[t].addr \in Int
        /\ \A i \in 1..Len(tree) : tree[i] \in Threads /\ call[tree[i]].at = "parked"
    BY <2>1, WaitersAreComparable
  <2>3. \A i \in 1..Len(tree) : /\ tree[i] # t
                                /\ call'[tree[i]].at = "parked"
                                /\ call'[tree[i]].addr = call[tree[i]].addr
                                /\ priority[tree[i]] = priority[tree[i]]
    BY <2>1, <2>2 DEF Others
  <2>4. ASSUME NEW u \in Threads, call'[u].at = "parked"
        PROVE  u = t \/ \E i \in 1..Len(tree) : tree[i] = u
    BY <1>0, <2>1, <2>2, <2>4 DEF Others, TreeOK, Tidy
  <2>5. /\ tree \in Seq(Threads) /\ Ordered(tree, call, priority)
        /\ \A i, j \in 1..Len(tree) : tree[i] = tree[j] => i = j
    BY <1>0, <2>2 DEF TypeOK, TreeOK, Tidy
  <2>6. Tidy(Insert(tree, t, call[t].addr, priority[t]), call', priority)
    BY <2>1, <2>2, <2>3, <2>4, <2>5, InsertTidy
  <2> QED
    BY <2>1, <2>6 DEF TreeOK
<1>3. ASSUME NEW t \in Threads, call[t].at = "parked", Leave({t}),
             call' = [call EXCEPT ![t] = Idle], UNCHANGED priority
      PROVE  TreeOK'
  <2>1. Others(t) /\ call'[t].at = "running"
    BY <1>0, <1>3, CancelCall
  <2>2. /\ \A u \in Threads :
             call'[u].at = "parked" <=> call[u].at = "parked" /\ u \notin {t}
        /\ \A u \in Threads : call'[u].at = "parked" => call'[u].addr = call[u].addr
    BY <2>1 DEF Others
  <2>3. Tidy(Keep(tree, {i \in DOMAIN tree : tree[i] \notin {t}}), call', priority)
    BY <2>2, TreeLeft
  <2> QED
    BY <1>3, <2>3 DEF TreeOK, Leave
<1>4. ASSUME NEW t \in Threads, TimedOut(t) PROVE TreeOK'
  BY <1>3, <1>4 DEF TimedOut
<1>5. ASSUME NEW t \in Threads, Terminate(t) PROVE TreeOK'
  <2>1. CASE call[t].at = "parked"
    BY <1>3, <1>5, <2>1 DEF Terminate
  <2>2. CASE call[t].at # "parked"
    BY <1>0, <1>5, <2>2 DEF Terminate, TreeOK
  <2> QED
    BY <2>1, <2>2
<1>6. ASSUME NEW t \in Threads, NEW p \in Priorities, SetPriority(t, p) PROVE TreeOK'
  <2>1. priority' = [priority EXCEPT ![t] = p] /\ tree' = Relink(t, p) /\ UNCHANGED call
    BY <1>6 DEF SetPriority
  <2>2. priority'[t] = p /\ \A u \in Threads : u # t => priority'[u] = priority[u]
    BY <1>0, <2>1 DEF TypeOK
  <2>3. Tidy(Relink(t, p), call, priority')
    BY <2>2, TreeRelinked
  <2> QED
    BY <2>1, <2>3 DEF TreeOK
<1>7. ASSUME NEW t \in Threads, NEW type \in SignalTypes, NEW a \in Addresses,
             NEW v \in Values, NEW n \in Counts, SignalUpdate(t, type, a, v, n)
      PROVE  TreeOK'
  <2>1. /\ call[t].at = "running" /\ Others(t) /\ call'[t].at = "signalling"
        /\ UNCHANGED <<tree, priority>>
    BY <1>0, <1>7, SignalUpdateCall
  <2>2. Tidy(tree, call', priority)
    BY <2>1, TreeKept DEF Others
  <2> QED
    BY <2>1, <2>2 DEF TreeOK
<1>8. ASSUME NEW t \in Threads, SignalWake(t) PROVE TreeOK'
  <2> DEFINE woken == Woken(call[t].addr, call[t].count)
  <2>1. /\ call[t].at = "signalling" /\ Leave(woken) /\ UNCHANGED priority
        /\ \A u \in Threads : u \in woken \cup {t} => call'[u].at = "running"
        /\ \A u \in Threads : u \notin woken \cup {t} => call'[u] = call[u]
    BY <1>0, <1>8, SignalWakeCall
  <2> HIDE DEF woken
  <2>2. /\ \A u \in Threads :
             call'[u].at = "parked" <=> call[u].at = "parked" /\ u \notin woken
        /\ \A u \in Threads : call'[u].at = "parked" => call'[u].addr = call[u].addr
    BY <2>1
  <2>3. Tidy(Keep(tree, {i \in DOMAIN tree : tree[i] \notin woken}), call', priority)
    BY <2>2, TreeLeft
  <2> QED
    BY <2>1, <2>3 DEF TreeOK, Leave
<1>9. ASSUME NEW t \in Threads, NEW a \in Addresses, NEW v \in Values, Store(t, a, v)
      PROVE  TreeOK'
  BY <1>0, <1>9 DEF Store, TreeOK
<1>10. CASE UNCHANGED vars
  BY <1>0, <1>10 DEF vars, TreeOK
<1> QED
  BY <1>1, <1>2, <1>4, <1>5, <1>6, <1>7, <1>8, <1>9, <1>10 DEF Next, Finish

-----------------------------------------------------------------------------
(***************************************************************************)
(* The lock.                                                               *)
(***************************************************************************)

\* While the lock is free, or held by another, a thread is not within a call.
LEMMA NotWithin ==
  ASSUME LockOK, NEW t \in Threads, lock # t
  PROVE  call[t].at \notin {"checked", "signalling"}
BY DEF LockOK

\* No thread is the absence of a thread.
LEMMA NoneIsNoThread == \A t \in Threads : t # NONE
BY ArbiterAssumption

\* Every action hands the lock over with the call that has it.
LEMMA LockStep == BaseInv /\ [Next]_vars => LockOK'
<1> SUFFICES ASSUME BaseInv, [Next]_vars PROVE LockOK'
  OBVIOUS
<1>0. TypeOK /\ LockOK
  BY DEF BaseInv
<1>1. ASSUME NEW t \in Threads, lock = NONE, Others(t), lock' = t,
             call'[t].at \in {"checked", "signalling"}, call'[t].addr \in Addresses,
             call'[t].at = "signalling" => call'[t].type \in SignalTypes
      PROVE  LockOK'
  BY <1>0, <1>1, NoneIsNoThread DEF LockOK, Others
<1>2. ASSUME NEW t \in Threads, lock = NONE, Others(t), UNCHANGED lock,
             call'[t].at = "running"
      PROVE  LockOK'
  BY <1>0, <1>2, NoneIsNoThread DEF LockOK, Others
<1>3. ASSUME NEW t \in Threads, NEW type \in WaitTypes, NEW a \in Addresses,
             NEW v \in Values, NEW timeout \in Timeouts,
             WaitRead(t, type, a, v, timeout)
      PROVE  LockOK'
  <2>1. /\ lock = NONE
        /\ \/ UNCHANGED <<lock, call>>
           \/ lock' = t /\ Others(t) /\ call'[t].at = "checked" /\ call'[t].addr = a
    BY <1>0, <1>3, WaitReadCall
  <2>2. CASE UNCHANGED <<lock, call>>
    BY <1>0, <2>2 DEF LockOK
  <2>3. CASE lock' = t /\ Others(t) /\ call'[t].at = "checked" /\ call'[t].addr = a
    BY <1>1, <2>1, <2>3
  <2> QED
    BY <2>1, <2>2, <2>3
<1>4. ASSUME NEW t \in Threads, WaitPark(t) PROVE LockOK'
  <2>1. /\ call[t].at = "checked" /\ lock = t /\ lock' = NONE /\ Others(t)
        /\ call'[t].at = "parked" /\ call'[t].addr = call[t].addr
    BY <1>0, <1>4, WaitParkCall
  <2> QED
    BY <1>0, <2>1, NoneIsNoThread DEF LockOK, Others
<1>5. ASSUME NEW t \in Threads, TimedOut(t) PROVE LockOK'
  <2>1. lock = NONE /\ UNCHANGED lock /\ call' = [call EXCEPT ![t] = Idle]
    BY <1>5 DEF TimedOut
  <2> QED
    BY <1>0, <1>2, <2>1, CancelCall
<1>6. ASSUME NEW t \in Threads, Terminate(t) PROVE LockOK'
  <2>1. CASE call[t].at = "parked"
    <3>1. lock = NONE /\ UNCHANGED lock /\ call' = [call EXCEPT ![t] = Idle]
      BY <1>6, <2>1 DEF Terminate
    <3> QED
      BY <1>0, <1>2, <3>1, CancelCall
  <2>2. CASE call[t].at # "parked"
    BY <1>0, <1>6, <2>2 DEF Terminate, LockOK
  <2> QED
    BY <2>1, <2>2
<1>7. ASSUME NEW t \in Threads, NEW p \in Priorities, SetPriority(t, p) PROVE LockOK'
  BY <1>0, <1>7 DEF SetPriority, LockOK
<1>8. ASSUME NEW t \in Threads, NEW type \in SignalTypes, NEW a \in Addresses,
             NEW v \in Values, NEW n \in Counts, SignalUpdate(t, type, a, v, n)
      PROVE  LockOK'
  <2>1. /\ lock = NONE /\ lock' = t /\ Others(t) /\ call'[t].at = "signalling"
        /\ call'[t].type = type /\ call'[t].addr = a
    BY <1>0, <1>8, SignalUpdateCall
  <2> QED
    BY <1>1, <2>1
<1>9. ASSUME NEW t \in Threads, SignalWake(t) PROVE LockOK'
  <2> DEFINE woken == Woken(call[t].addr, call[t].count)
  <2>1. /\ lock = t /\ lock' = NONE
        /\ \A u \in Threads : u \in woken \cup {t} => call'[u].at = "running"
        /\ \A u \in Threads : u \notin woken \cup {t} => call'[u] = call[u]
    BY <1>0, <1>9, SignalWakeCall
  <2> HIDE DEF woken
  <2> SUFFICES ASSUME NEW u \in Threads
               PROVE  /\ call'[u].at \in {"checked", "signalling"} <=> lock' = u
                      /\ call'[u].at # "running" => call'[u].addr \in Addresses
                      /\ call'[u].at = "signalling" => call'[u].type \in SignalTypes
    BY DEF LockOK
  <2>2. CASE u \in woken \cup {t}
    BY <2>1, <2>2, NoneIsNoThread
  <2>3. CASE u \notin woken \cup {t}
    <3>1. call'[u] = call[u] /\ lock # u /\ lock' # u
      BY <2>1, <2>3, NoneIsNoThread
    <3> QED
      BY <1>0, <3>1 DEF LockOK
  <2> QED
    BY <2>2, <2>3
<1>10. ASSUME NEW t \in Threads, NEW a \in Addresses, NEW v \in Values, Store(t, a, v)
       PROVE  LockOK'
  BY <1>0, <1>10 DEF Store, LockOK
<1>11. CASE UNCHANGED vars
  BY <1>0, <1>11 DEF vars, LockOK
<1> QED
  BY <1>3, <1>4, <1>5, <1>6, <1>7, <1>8, <1>9, <1>10, <1>11 DEF Next, Finish

-----------------------------------------------------------------------------
(***************************************************************************)
(* No thread sleeps through the signal of a store.                         *)
(***************************************************************************)
SleepInv == StaleOK /\ OwesOK /\ NoSleepPastSignal

\* Nothing of it changes while the calls of the concerned threads do not.
LEMMA SleepRests ==
  ASSUME TypeOK, LockOK, SleepInv, NEW t \in Threads, Others(t), UNCHANGED owes,
         \/ stale' = stale \ {t}
         \/ /\ stale' = stale
            /\ call'[t].at \in {"checked", "parked"} /\ call'[t].addr = call[t].addr
         \/ stale' = stale /\ t \notin stale,
         owes[t] # NONE =>
           /\ call'[t].at \in {"running", "signalling"}
           /\ call'[t].at = "signalling" =>
                call'[t].addr = owes[t] /\ call'[t].count <= 0
  PROVE  SleepInv'
<1> USE DEF SleepInv
<1>1. ASSUME NEW w \in stale'
      PROVE  /\ w \in Threads /\ w \in stale
             /\ call'[w].at \in {"checked", "parked"} /\ call'[w].addr = call[w].addr
  <2>1. w \in stale /\ w \in Threads
    BY <1>1 DEF TypeOK
  <2>2. CASE w = t
    <3>1. call'[t].at \in {"checked", "parked"} /\ call'[t].addr = call[t].addr
      BY <1>1, <2>1, <2>2
    <3> QED
      BY <2>1, <2>2, <3>1
  <2>3. CASE w # t
    <3>1. call'[w] = call[w]
      BY <2>1, <2>3 DEF Others
    <3> QED
      BY <2>1, <3>1 DEF StaleOK
  <2> QED
    BY <2>2, <2>3
<1>2. StaleOK'
  BY <1>1 DEF StaleOK
<1>3. OwesOK'
  BY DEF OwesOK, Others
<1>4. NoSleepPastSignal'
  BY <1>1 DEF NoSleepPastSignal
<1> QED
  BY <1>2, <1>3, <1>4

\* Every action keeps the promise of the signal.
LEMMA SleepStep == BaseInv /\ SleepInv /\ [Next]_vars => SleepInv'
<1> SUFFICES ASSUME BaseInv, SleepInv, [Next]_vars PROVE SleepInv'
  OBVIOUS
<1>0. TypeOK /\ LockOK /\ StaleOK /\ OwesOK /\ NoSleepPastSignal
  BY DEF BaseInv, SleepInv
<1>1. ASSUME NEW t \in Threads, NEW type \in WaitTypes, NEW a \in Addresses,
             NEW v \in Values, NEW timeout \in Timeouts,
             WaitRead(t, type, a, v, timeout)
      PROVE  SleepInv'
  <2>1. /\ call[t].at = "running" /\ owes[t] = NONE /\ UNCHANGED <<owes, stale>>
        /\ \/ UNCHANGED call
           \/ Others(t)
    BY <1>0, <1>1, WaitReadCall
  <2>2. t \notin stale
    BY <1>0, <2>1 DEF StaleOK
  <2>3. Others(t)
    BY <2>1 DEF Others
  <2> QED
    BY <1>0, <2>1, <2>2, <2>3, SleepRests
<1>2. ASSUME NEW t \in Threads, WaitPark(t) PROVE SleepInv'
  <2>1. /\ call[t].at = "checked" /\ Others(t) /\ UNCHANGED <<owes, stale>>
        /\ call'[t].at = "parked" /\ call'[t].addr = call[t].addr
    BY <1>0, <1>2, WaitParkCall
  <2>2. owes[t] = NONE
    BY <1>0, <2>1 DEF OwesOK
  <2> QED
    BY <1>0, <2>1, <2>2, SleepRests
<1>3. ASSUME NEW t \in Threads, call[t].at = "parked", Leave({t}),
             call' = [call EXCEPT ![t] = Idle], UNCHANGED owes
      PROVE  SleepInv'
  <2>1. Others(t) /\ call'[t].at = "running" /\ stale' = stale \ {t}
    BY <1>0, <1>3, CancelCall DEF Leave
  <2> QED
    BY <1>0, <1>3, <2>1, SleepRests
<1>4. ASSUME NEW t \in Threads, TimedOut(t) PROVE SleepInv'
  BY <1>3, <1>4 DEF TimedOut
<1>5. ASSUME UNCHANGED <<call, owes, stale>> PROVE SleepInv'
  BY <1>0, <1>5 DEF SleepInv, StaleOK, OwesOK, NoSleepPastSignal
<1>6. ASSUME NEW t \in Threads, Terminate(t) PROVE SleepInv'
  <2>1. CASE call[t].at = "parked"
    BY <1>3, <1>6, <2>1 DEF Terminate
  <2>2. CASE call[t].at # "parked"
    BY <1>5, <1>6, <2>2 DEF Terminate
  <2> QED
    BY <2>1, <2>2
<1>7. ASSUME NEW t \in Threads, NEW p \in Priorities, SetPriority(t, p) PROVE SleepInv'
  BY <1>5, <1>7 DEF SetPriority
<1>8. ASSUME NEW t \in Threads, NEW type \in SignalTypes, NEW a \in Addresses,
             NEW v \in Values, NEW n \in Counts, SignalUpdate(t, type, a, v, n)
      PROVE  SleepInv'
  <2>1. /\ call[t].at = "running" /\ Others(t) /\ UNCHANGED <<owes, stale>>
        /\ call'[t].at = "signalling" /\ call'[t].addr = a /\ call'[t].count = n
        /\ owes[t] # NONE => type = "Signal" /\ a = owes[t] /\ n <= 0
    BY <1>0, <1>8, SignalUpdateCall
  <2>2. t \notin stale
    BY <1>0, <2>1 DEF StaleOK
  <2> QED
    BY <1>0, <2>1, <2>2, SleepRests
<1>9. ASSUME NEW t \in Threads, SignalWake(t) PROVE SleepInv'
  <2> DEFINE woken == Woken(call[t].addr, call[t].count)
  <2>1. /\ call[t].at = "signalling" /\ lock = t /\ stale' = stale \ woken
        /\ \A u \in Threads : u \in woken \cup {t} => call'[u].at = "running"
        /\ \A u \in Threads : u \notin woken \cup {t} => call'[u] = call[u]
        /\ owes'[t] = NONE /\ \A u \in Threads : u # t => owes'[u] = owes[u]
    BY <1>0, <1>9, SignalWakeCall DEF Leave
  <2>2. call[t].addr \in Addresses /\ call[t].count \in Int
    BY <1>0, <2>1 DEF LockOK, TypeOK, Calls
  <2>3. ASSUME NEW w \in Threads, call[w].at = "parked", call[w].addr = call[t].addr,
               call[t].count <= 0
        PROVE  w \in woken
    <3>1. PICK k \in 0..Len(WaitersOf(call[t].addr)) :
            /\ \A u : u \in woken <=> \E i \in 1..k : WaitersOf(call[t].addr)[i] = u
            /\ call[t].count <= 0 => k = Len(WaitersOf(call[t].addr))
      BY <2>2, WokenDef
    <3>2. \E i \in 1..Len(WaitersOf(call[t].addr)) : WaitersOf(call[t].addr)[i] = w
      BY <2>2, <2>3, WaitersFacts
    <3> QED
      BY <2>3, <3>1, <3>2
  <2> HIDE DEF woken
  <2>4. ASSUME NEW w \in stale'
        PROVE  /\ w \in Threads /\ w \in stale /\ call'[w] = call[w]
               /\ call[w].at \in {"checked", "parked"}
               /\ \E u \in Threads : owes'[u] = call[w].addr
    <3>1. w \in Threads /\ w \in stale /\ w \notin woken
      BY <1>0, <2>1, <2>4 DEF TypeOK
    <3>2. call[w].at \in {"checked", "parked"}
      BY <1>0, <3>1 DEF StaleOK
    <3>3. call'[w] = call[w]
      BY <2>1, <3>1, <3>2
    <3>4. call[w].at = "parked"
      BY <1>0, <2>1, <3>1, <3>2 DEF LockOK
    <3>5. PICK u \in Threads : owes[u] = call[w].addr
      BY <1>0, <3>1 DEF NoSleepPastSignal
    <3>6. call[w].addr \in Addresses /\ call[w].addr # NONE
      BY <1>0, <3>1, <3>4, ArbiterAssumption DEF LockOK
    <3>7. u # t
      <4>1. ASSUME u = t PROVE FALSE
        <5>1. call[t].addr = call[w].addr /\ call[t].count <= 0
          BY <1>0, <2>1, <3>5, <3>6, <4>1 DEF OwesOK
        <5> QED
          BY <2>3, <3>1, <3>4, <5>1
      <4> QED
        BY <4>1
    <3> QED
      BY <2>1, <3>1, <3>2, <3>3, <3>5, <3>7
  <2>5. StaleOK'
    BY <2>4 DEF StaleOK
  <2>6. NoSleepPastSignal'
    BY <2>4 DEF NoSleepPastSignal
  <2>7. OwesOK'
    <3> SUFFICES ASSUME NEW u \in Threads, owes'[u] # NONE
                 PROVE  /\ call'[u].at \in {"running", "signalling"}
                        /\ call'[u].at = "signalling" =>
                             call'[u].addr = owes'[u] /\ call'[u].count <= 0
      BY DEF OwesOK
    <3>1. u # t /\ owes'[u] = owes[u]
      BY <2>1
    <3>2. CASE u \in woken
      BY <2>1, <3>2
    <3>3. CASE u \notin woken
      BY <1>0, <2>1, <3>1, <3>3 DEF OwesOK
    <3> QED
      BY <3>2, <3>3
  <2> QED
    BY <2>5, <2>6, <2>7 DEF SleepInv
<1>10. ASSUME NEW t \in Threads, NEW a \in Addresses, NEW v \in Values, Store(t, a, v)
       PROVE  SleepInv'
  <2>1. /\ call[t].at = "running" /\ owes[t] = NONE /\ UNCHANGED call
        /\ owes' = [owes EXCEPT ![t] = a]
        /\ stale' = stale \cup {u \in Threads :
                      call[u].at \in {"checked", "parked"} /\ call[u].addr = a}
    BY <1>10 DEF Store, Running
  <2>2. /\ owes'[t] = a /\ \A u \in Threads : u # t => owes'[u] = owes[u]
    BY <1>0, <2>1 DEF TypeOK
  <2>3. \A w \in stale' : \/ w \in stale
                          \/ call[w].at \in {"checked", "parked"} /\ call[w].addr = a
    BY <2>1
  <2>4. StaleOK'
    BY <1>0, <2>1, <2>3 DEF StaleOK
  <2>5. OwesOK'
    BY <1>0, <2>1, <2>2 DEF OwesOK
  <2>6. ASSUME NEW w \in stale'
        PROVE  \E u \in Threads : owes'[u] = call'[w].addr
    <3>1. CASE w \in stale
      <4>1. PICK u \in Threads : owes[u] = call[w].addr
        BY <1>0, <3>1 DEF NoSleepPastSignal
      <4>2. w \in Threads /\ call[w].at \in {"checked", "parked"}
        BY <1>0, <3>1 DEF StaleOK, TypeOK
      <4>3. call[w].addr # NONE
        BY <1>0, <4>2, ArbiterAssumption DEF LockOK
      <4>4. u # t
        BY <2>1, <4>1, <4>3
      <4> QED
        BY <2>1, <2>2, <4>1, <4>4
    <3>2. CASE w \notin stale
      <4>1. call[w].addr = a
        BY <2>3, <3>2
      <4> QED
        BY <2>1, <2>2, <4>1
    <3> QED
      BY <3>1, <3>2
  <2>7. NoSleepPastSignal'
    BY <2>6 DEF NoSleepPastSignal
  <2> QED
    BY <2>4, <2>5, <2>7 DEF SleepInv
<1>11. CASE UNCHANGED vars
  BY <1>5, <1>11 DEF vars
<1> QED
  BY <1>1, <1>2, <1>4, <1>6, <1>7, <1>8, <1>9, <1>10, <1>11 DEF Next, Finish

-----------------------------------------------------------------------------
(***************************************************************************)
(* What a signal wrote stays true until it wakes.                          *)
(***************************************************************************)

\* The waiters of an address are the same as long as the tree is.
LEMMA WaitersRest ==
  ASSUME BaseInv, UNCHANGED tree, NEW a,
         \A i \in 1..Len(tree) : call'[tree[i]] = call[tree[i]]
  PROVE  WaitersOf(a)' = WaitersOf(a)
<1>1. DOMAIN tree = 1..Len(tree)
  BY WaitersAreComparable
<1>2. {i \in DOMAIN tree : call'[tree[i]].addr = a}
        = {i \in DOMAIN tree : call[tree[i]].addr = a}
  BY <1>1
<1>3. WaitersOf(a)' = Keep(tree, {i \in DOMAIN tree : call'[tree[i]].addr = a})
  BY DEF WaitersOf
<1> QED
  BY <1>2, <1>3 DEF WaitersOf

\* So is the value to write.
LEMMA ModifiedRests ==
  ASSUME NEW a, NEW v, NEW n, WaitersOf(a)' = WaitersOf(a)
  PROVE  ModifiedValue(a, v, n)' = ModifiedValue(a, v, n)
BY DEF ModifiedValue, FewWaiters, CountedAfterFirst

\* Every action keeps what a signal knows; only a store can come in between.
LEMMA ToldStep == BaseInv /\ LockOK' /\ ToldOK /\ [Next]_vars => ToldOK'
<1> SUFFICES ASSUME BaseInv, LockOK', ToldOK, [Next]_vars PROVE ToldOK'
  OBVIOUS
<1>0. TypeOK /\ LockOK
  BY DEF BaseInv
<1>1. ASSUME \A u \in Threads : call'[u].at # "signalling" PROVE ToldOK'
  BY <1>1 DEF ToldOK
<1>2. ASSUME lock' = NONE PROVE ToldOK'
  <2>1. \A u \in Threads : lock' # u
    BY <1>2, NoneIsNoThread
  <2> QED
    BY <1>1, <2>1 DEF LockOK
<1>3. ASSUME UNCHANGED <<tree, call>> PROVE ToldOK'
  <2> SUFFICES ASSUME NEW t \in Threads, call'[t].at = "signalling",
                      call'[t].type = "SignalAndModifyByWaitingCountIfEqual"
               PROVE  call'[t].new =
                        ModifiedValue(call[t].addr, call[t].value, call[t].count)'
    BY <1>3 DEF ToldOK
  <2>1. call[t].new = ModifiedValue(call[t].addr, call[t].value, call[t].count)
    BY <1>3 DEF ToldOK
  <2>2. ModifiedValue(call[t].addr, call[t].value, call[t].count)'
          = ModifiedValue(call[t].addr, call[t].value, call[t].count)
    BY <1>3 DEF ModifiedValue, FewWaiters, CountedAfterFirst, WaitersOf
  <2> QED
    BY <1>3, <2>1, <2>2
<1>4. ASSUME NEW t \in Threads, NEW type \in WaitTypes, NEW a \in Addresses,
             NEW v \in Values, NEW timeout \in Timeouts,
             WaitRead(t, type, a, v, timeout)
      PROVE  ToldOK'
  <2>1. /\ lock = NONE
        /\ UNCHANGED lock \/ (lock' = t /\ call'[t].at = "checked")
    BY <1>0, <1>4, WaitReadCall
  <2>2. CASE UNCHANGED lock
    BY <1>2, <2>1, <2>2
  <2>3. CASE lock' = t /\ call'[t].at = "checked"
    BY <1>1, <2>3 DEF LockOK
  <2> QED
    BY <2>1, <2>2, <2>3
<1>5. ASSUME NEW t \in Threads, WaitPark(t) \/ SignalWake(t) PROVE ToldOK'
  BY <1>2, <1>5 DEF WaitPark, SignalWake
<1>6. ASSUME NEW t \in Threads, TimedOut(t) \/ Terminate(t) PROVE ToldOK'
  BY <1>2, <1>6 DEF TimedOut, Terminate
<1>7. ASSUME NEW t \in Threads, NEW p \in Priorities, SetPriority(t, p) PROVE ToldOK'
  BY <1>2, <1>7 DEF SetPriority
<1>8. ASSUME NEW t \in Threads, NEW type \in SignalTypes, NEW a \in Addresses,
             NEW v \in Values, NEW n \in Counts, SignalUpdate(t, type, a, v, n)
      PROVE  ToldOK'
  <2>1. /\ call[t].at = "running" /\ lock' = t /\ Others(t) /\ UNCHANGED tree
        /\ call'[t].type = type /\ call'[t].addr = a
        /\ call'[t].value = v /\ call'[t].count = n
        /\ call'[t].new = NewValue(type, a, v, n)
    BY <1>0, <1>8, SignalUpdateCall
  <2> SUFFICES ASSUME NEW u \in Threads, call'[u].at = "signalling",
                      call'[u].type = "SignalAndModifyByWaitingCountIfEqual"
               PROVE  call'[u].new =
                        ModifiedValue(call[u].addr, call[u].value, call[u].count)'
    BY DEF ToldOK
  <2>2. u = t
    BY <2>1 DEF LockOK
  <2>3. \A i \in 1..Len(tree) : call'[tree[i]] = call[tree[i]]
    BY <2>1, WaitersAreComparable DEF Others
  <2>4. WaitersOf(a)' = WaitersOf(a)
    BY <2>1, <2>3, WaitersRest
  <2>5. ModifiedValue(a, v, n)' = ModifiedValue(a, v, n)
    BY <2>4, ModifiedRests
  <2>6. call'[t].new = ModifiedValue(a, v, n)
    BY <2>1, <2>2 DEF NewValue
  <2>7. ModifiedValue(call[t].addr, call[t].value, call[t].count)' = ModifiedValue(a, v, n)'
    BY <2>1 DEF ModifiedValue, FewWaiters, CountedAfterFirst, WaitersOf
  <2> QED
    BY <2>2, <2>5, <2>6, <2>7
<1>9. ASSUME NEW t \in Threads, NEW a \in Addresses, NEW v \in Values, Store(t, a, v)
      PROVE  ToldOK'
  BY <1>3, <1>9 DEF Store
<1>10. CASE UNCHANGED vars
  BY <1>3, <1>10 DEF vars
<1> QED
  BY <1>4, <1>5, <1>6, <1>7, <1>8, <1>9, <1>10 DEF Next, Finish

-----------------------------------------------------------------------------
(***************************************************************************)
(* The theorems.                                                           *)
(***************************************************************************)

\* The arbiter starts with nobody waiting.
LEMMA InvInit == Init => Inv
<1> SUFFICES ASSUME Init PROVE Inv
  OBVIOUS
<1>0. /\ tree = <<>> /\ lock = NONE /\ call = [t \in Threads |-> Idle] /\ stale = {}
      /\ owes = [t \in Threads |-> NONE]
  BY DEF Init
<1>1. Idle.at = "running"
  BY DEF Idle
<1>2. \A t \in Threads : call[t].at = "running"
  BY <1>0, <1>1
<1>3. TypeOK
  <2>1. call \in [Threads -> Calls]
    BY <1>0, CallTypes
  <2> QED
    BY <1>0, <2>1 DEF Init, TypeOK
<1>4. TreeOK
  BY <1>0, <1>2 DEF TreeOK, Tidy, Ordered
<1>5. LockOK
  BY <1>0, <1>2, NoneIsNoThread DEF LockOK
<1>6. StaleOK /\ NoSleepPastSignal
  BY <1>0 DEF StaleOK, NoSleepPastSignal
<1>7. OwesOK
  BY <1>0 DEF OwesOK
<1>8. ToldOK
  BY <1>2 DEF ToldOK
<1> QED
  BY <1>3, <1>4, <1>5, <1>6, <1>7, <1>8 DEF Inv, BaseInv

\* Every action keeps the invariant.
LEMMA InvStep == Inv /\ [Next]_vars => Inv'
<1> SUFFICES ASSUME Inv, [Next]_vars PROVE Inv'
  OBVIOUS
<1>1. BaseInv /\ SleepInv /\ ToldOK
  BY DEF Inv, SleepInv
<1>2. TypeOK' /\ TreeOK' /\ LockOK'
  BY <1>1, TypeStep, TreeStep, LockStep
<1>3. SleepInv'
  BY <1>1, SleepStep
<1>4. ToldOK'
  BY <1>1, <1>2, ToldStep
<1> QED
  BY <1>2, <1>3, <1>4 DEF Inv, BaseInv, SleepInv

\* A signal divides the waiters of its address, in their order: it wakes the first
\* k, and leaves the rest.
LEMMA WakeDivides ==
  ASSUME BaseInv, NEW t \in Threads, SignalWake(t)
  PROVE  \E k \in 0..Len(WaitersOf(call[t].addr)) :
           /\ \A u : u \in WaitingFor(call[t].addr) <=>
                \E i \in 1..Len(WaitersOf(call[t].addr)) : WaitersOf(call[t].addr)[i] = u
           /\ \A u : u \in LeftBy(t) <=>
                \E i \in (k + 1)..Len(WaitersOf(call[t].addr)) :
                  WaitersOf(call[t].addr)[i] = u
           /\ call[t].count <= 0 => k = Len(WaitersOf(call[t].addr))
           /\ call[t].count > 0 =>
                k <= call[t].count /\ (k = call[t].count \/ k = Len(WaitersOf(call[t].addr)))
<1>0. TypeOK /\ LockOK
  BY DEF BaseInv
<1>1. PICK a \in Addresses : a = call[t].addr
  BY <1>0 DEF SignalWake, LockOK
<1>2. PICK n \in Int : n = call[t].count
  BY <1>0 DEF TypeOK, Calls
<1> DEFINE w == WaitersOf(a)
           woken == Woken(a, n)
<1>3. PICK k \in 0..Len(w) :
        /\ \A u : u \in woken <=> \E i \in 1..k : w[i] = u
        /\ n <= 0 => k = Len(w)
        /\ n > 0 => k <= n /\ (k = n \/ k = Len(w))
  BY WokenDef
<1>4. /\ Len(w) \in Nat
      /\ \A i \in 1..Len(w) :
           w[i] \in Threads /\ call[w[i]].at = "parked" /\ call[w[i]].addr = a
      /\ \A u \in Threads : call[u].at = "parked" /\ call[u].addr = a =>
           \E i \in 1..Len(w) : w[i] = u
      /\ \A i, j \in 1..Len(w) : i < j => w[i] # w[j]
  BY WaitersFacts
<1>5. /\ call[t].at = "signalling"
      /\ \A u \in Threads : u \in woken \cup {t} => call'[u].at = "running"
      /\ \A u \in Threads : u \notin woken \cup {t} => call'[u] = call[u]
  BY <1>0, <1>1, <1>2, SignalWakeCall
<1> HIDE DEF w, woken
<1>6. \A u : u \in WaitingFor(a) <=> \E i \in 1..Len(w) : w[i] = u
  BY <1>4 DEF WaitingFor
<1>7. ASSUME NEW u \in LeftBy(t)
      PROVE  \E i \in (k + 1)..Len(w) : w[i] = u
  <2>1. u \in Threads /\ u \in WaitingFor(a) /\ call'[u].at = "parked"
    BY <1>1, <1>7 DEF LeftBy, WaitingFor
  <2>2. PICK i \in 1..Len(w) : w[i] = u
    BY <1>6, <2>1
  <2>3. u \notin woken
    BY <1>5, <2>1
  <2>4. i \notin 1..k
    BY <1>3, <2>2, <2>3
  <2>5. i \in (k + 1)..Len(w)
    BY <1>4, <2>4
  <2> QED
    BY <2>2, <2>5
<1>8. ASSUME NEW i \in (k + 1)..Len(w)
      PROVE  w[i] \in LeftBy(t)
  <2>1. i \in 1..Len(w) /\ i \notin 1..k /\ \A j \in 1..k : j \in 1..Len(w) /\ j < i
    BY <1>4
  <2>2. w[i] \notin woken
    BY <1>3, <1>4, <2>1
  <2>3. w[i] \in Threads /\ call[w[i]].at = "parked" /\ call[w[i]].addr = a
    BY <1>4, <2>1
  <2>4. call'[w[i]].at = "parked"
    BY <1>5, <2>2, <2>3
  <2> QED
    BY <1>1, <2>3, <2>4 DEF LeftBy, WaitingFor
<1>9. /\ \A u : u \in WaitingFor(a) <=> \E i \in 1..Len(w) : w[i] = u
      /\ \A u : u \in LeftBy(t) <=> \E i \in (k + 1)..Len(w) : w[i] = u
      /\ n <= 0 => k = Len(w)
      /\ n > 0 => k <= n /\ (k = n \/ k = Len(w))
  BY <1>3, <1>6, <1>7, <1>8
<1> QED
  BY <1>1, <1>2, <1>3, <1>9 DEF w

\* The waiters it wakes are the best.
LEMMA WakeIsBest ==
  ASSUME BaseInv, NEW t \in Threads, SignalWake(t)
  PROVE  WakesTheBest(t)
<1> SUFFICES ASSUME NEW u \in LeftBy(t), NEW x \in WokenBy(t)
             PROVE  priority[x] <= priority[u]
  BY DEF WakesTheBest
<1>0. TypeOK /\ LockOK
  BY DEF BaseInv
<1>1. PICK a \in Addresses : a = call[t].addr
  BY <1>0 DEF SignalWake, LockOK
<1> DEFINE w == WaitersOf(a)
<1>2. PICK k \in 0..Len(w) :
        /\ \A y : y \in WaitingFor(a) <=> \E i \in 1..Len(w) : w[i] = y
        /\ \A y : y \in LeftBy(t) <=> \E i \in (k + 1)..Len(w) : w[i] = y
        /\ call[t].count <= 0 => k = Len(w)
        /\ call[t].count > 0 => k <= call[t].count /\ (k = call[t].count \/ k = Len(w))
  BY <1>1, WakeDivides
<1>3. /\ Len(w) \in Nat
      /\ \A i, j \in 1..Len(w) : i < j => priority[w[i]] <= priority[w[j]]
  BY WaitersFacts
<1> HIDE DEF w
<1>4. PICK j \in (k + 1)..Len(w) : w[j] = u
  BY <1>2
<1>5. x \in WaitingFor(a) /\ x \notin LeftBy(t)
  BY <1>1 DEF WokenBy
<1>6. PICK i \in 1..Len(w) : w[i] = x
  BY <1>2, <1>5
<1>7. i \notin (k + 1)..Len(w)
  BY <1>2, <1>5, <1>6
<1>8. i < j /\ j \in 1..Len(w)
  BY <1>3, <1>7
<1> QED
  BY <1>3, <1>4, <1>6, <1>8

\* The count of the waiters beyond the first tells whether count is enough for all.
LEMMA FewWaitersDef ==
  ASSUME NEW a, NEW n \in Int, Len(WaitersOf(a)) \in Nat
  PROVE  FewWaiters(a, n) <=> Len(WaitersOf(a)) <= n
<1> DEFINE l == Len(WaitersOf(a))
           m == Min({l - 1, n + 1})
<1>1. l \in Nat
  OBVIOUS
<1>2. FewWaiters(a, n) <=> m < n
  BY DEF FewWaiters, CountedAfterFirst
<1> HIDE DEF l
<1>3. m \in {l - 1, n + 1} /\ m <= l - 1 /\ m <= n + 1
  <2>1. \E x \in {l - 1, n + 1} : \A y \in {l - 1, n + 1} : x <= y
    BY <1>1
  <2> QED
    BY <2>1 DEF Min
<1> HIDE DEF m
<1>4. m < n <=> l <= n
  BY <1>1, <1>3
<1> QED
  BY <1>2, <1>4 DEF l

\* What a signal wrote tells the guest what it did.
LEMMA WakeTells ==
  ASSUME BaseInv, ToldOK, NEW t \in Threads, SignalWake(t),
         call[t].type = "SignalAndModifyByWaitingCountIfEqual"
  PROVE  TellsTheGuest(t)
<1>0. TypeOK /\ LockOK
  BY DEF BaseInv
<1>1. PICK a \in Addresses : a = call[t].addr
  BY <1>0 DEF SignalWake, LockOK
<1>2. PICK n \in Int : n = call[t].count
  BY <1>0 DEF TypeOK, Calls
<1>3. PICK v \in Int : v = call[t].value
  BY <1>0 DEF TypeOK, Calls
<1> DEFINE w == WaitersOf(a)
           told == Wrap(call[t].new - v)
<1>4. call[t].new = ModifiedValue(a, v, n)
  BY <1>1, <1>2, <1>3 DEF ToldOK, SignalWake
<1>5. PICK k \in 0..Len(w) :
        /\ \A y : y \in WaitingFor(a) <=> \E i \in 1..Len(w) : w[i] = y
        /\ \A y : y \in LeftBy(t) <=> \E i \in (k + 1)..Len(w) : w[i] = y
        /\ n <= 0 => k = Len(w)
        /\ n > 0 => k <= n /\ (k = n \/ k = Len(w))
  BY <1>1, <1>2, WakeDivides
<1>6. Len(w) \in Nat /\ w \in Seq(Threads)
  BY WaitersFacts
<1>7. FewWaiters(a, n) <=> Len(w) <= n
  BY <1>6, FewWaitersDef
<1>8. /\ Wrap(Wrap(v + 1) - v) = 1 /\ Wrap(Wrap(v - 1) - v) = -1
      /\ Wrap(Wrap(v - 2) - v) = -2 /\ Wrap(v - v) = 0
  <2>1. SignBit \in Nat /\ SignBit >= 2
    BY ArbiterAssumption
  <2>2. Wrap(Wrap(v + 1) - v) = 1
    BY <2>1, WrapDifference
  <2>3. Wrap(Wrap(v - 1) - v) = -1
    <3>1. v - 1 = v + (-1) /\ -1 \in Int /\ -SignBit <= -1 /\ -1 < SignBit
      BY <2>1
    <3>2. Wrap(Wrap(v + (-1)) - v) = -1
      BY <3>1, WrapDifference
    <3> QED
      BY <3>1, <3>2
  <2>4. Wrap(Wrap(v - 2) - v) = -2
    <3>1. v - 2 = v + (-2) /\ -2 \in Int /\ -SignBit <= -2 /\ -2 < SignBit
      BY <2>1
    <3>2. Wrap(Wrap(v + (-2)) - v) = -2
      BY <3>1, WrapDifference
    <3> QED
      BY <3>1, <3>2
  <2>5. Wrap(v - v) = 0
    <3>1. v - v = 0 /\ 0 \in Int /\ -SignBit <= 0 /\ 0 < SignBit
      BY <2>1
    <3>2. Wrap(0) = 0
      BY <3>1, WrapDifference
    <3> QED
      BY <3>1, <3>2
  <2> QED
    BY <2>2, <2>3, <2>4, <2>5
<1>9. ModifiedValue(a, v, n) =
        IF w = <<>> THEN Wrap(v + 1)
        ELSE IF n <= 0 THEN Wrap(v - 2)
        ELSE IF FewWaiters(a, n) THEN Wrap(v - 1)
        ELSE v
  BY DEF ModifiedValue
<1>10. told = IF w = <<>> THEN 1 ELSE IF n <= 0 THEN -2 ELSE IF Len(w) <= n THEN -1 ELSE 0
  BY <1>4, <1>7, <1>8, <1>9
<1> HIDE DEF w, told
<1>11. w = <<>> <=> Len(w) = 0
  BY <1>6
<1>12. WaitingFor(a) = {} <=> Len(w) = 0
  <2>1. CASE Len(w) = 0
    <3>1. 1..Len(w) = {}
      BY <2>1
    <3> QED
      BY <1>5, <2>1, <3>1
  <2>2. CASE Len(w) # 0
    <3>1. 1 \in 1..Len(w)
      BY <1>6, <2>2
    <3>2. w[1] \in WaitingFor(a)
      BY <1>5, <3>1
    <3> QED
      BY <2>2, <3>2
  <2> QED
    BY <2>1, <2>2
<1>13. LeftBy(t) = {} <=> k = Len(w)
  <2>1. CASE k = Len(w)
    <3>1. (k + 1)..Len(w) = {}
      BY <1>6, <2>1
    <3> QED
      BY <1>5, <2>1, <3>1
  <2>2. CASE k # Len(w)
    <3>1. k + 1 \in (k + 1)..Len(w)
      BY <1>6, <2>2
    <3>2. w[k + 1] \in LeftBy(t)
      BY <1>5, <3>1
    <3> QED
      BY <2>2, <3>2
  <2> QED
    BY <2>1, <2>2
<1>14. k = Len(w) <=> n <= 0 \/ Len(w) <= n
  BY <1>5, <1>6
<1>15. /\ told = 1 <=> WaitingFor(a) = {}
       /\ told = 0 <=> LeftBy(t) # {}
       /\ told \in {-1, -2} <=> WaitingFor(a) # {} /\ LeftBy(t) = {}
  <2>1. CASE Len(w) = 0
    BY <1>5, <1>6, <1>10, <1>11, <1>12, <1>13, <2>1
  <2>2. CASE Len(w) # 0 /\ n <= 0
    BY <1>5, <1>10, <1>11, <1>12, <1>13, <2>2
  <2>3. CASE Len(w) # 0 /\ ~(n <= 0) /\ Len(w) <= n
    BY <1>10, <1>11, <1>12, <1>13, <1>14, <2>3
  <2>4. CASE Len(w) # 0 /\ ~(n <= 0) /\ ~(Len(w) <= n)
    BY <1>10, <1>11, <1>12, <1>13, <1>14, <2>4
  <2> QED
    BY <2>1, <2>2, <2>3, <2>4
<1>16. told = Wrap(call[t].new - call[t].value)
  BY <1>3 DEF told
<1> QED
  BY <1>1, <1>15, <1>16 DEF TellsTheGuest

\* No thread sleeps through the signal that follows a store (NoSleepPastSignal),
\* whatever timeouts, terminations, changes of priority and other calls intervene:
\* WaitForAddress reads the word and parks under the lock a signal needs.
THEOREM NobodySleepsPastSignal == Spec => []NoSleepPastSignal
<1>1. Inv => NoSleepPastSignal
  BY DEF Inv
<1> QED
  BY <1>1, InvInit, InvStep, PTL DEF Spec

\* A signal wakes the best waiters of its address (BestWaitersFirst): the tree of
\* KAddressArbiter stays in order through every change of priority.
THEOREM BestAreWokenFirst == Spec => BestWaitersFirst
<1>1. Inv /\ [Next]_vars => [\A t \in Threads : SignalWake(t) => WakesTheBest(t)]_vars
  BY WakeIsBest DEF Inv
<1> QED
  BY <1>1, InvInit, InvStep, PTL DEF Spec, BestWaitersFirst

\* SignalAndModifyByWaitingCountIfEqual tells the guest what it did
\* (ModifyTellsWaiters): what it wrote before it wakes is right when it wakes, and
\* an overflow of the word does not blur it.
THEOREM TheGuestIsTold == Spec => ModifyTellsWaiters
<1>1. Inv /\ [Next]_vars =>
        [\A t \in Threads :
           /\ SignalWake(t)
           /\ call[t].type = "SignalAndModifyByWaitingCountIfEqual"
           => TellsTheGuest(t)]_vars
  BY WakeTells DEF Inv
<1> QED
  BY <1>1, InvInit, InvStep, PTL DEF Spec, ModifyTellsWaiters

-----------------------------------------------------------------------------
\* A set of natural numbers has a least one.
LEMMA LeastNatural ==
  ASSUME NEW S, S \subseteq Nat, S # {}
  PROVE  \E x \in S : \A y \in S : x <= y
<1>1. PICK x \in S : \A y \in S : <<y, x>> \notin OpToRel(<, Nat)
  BY WFMin, NatLessThanWellFounded
<1>2. \A y \in S : ~(y < x)
  BY <1>1 DEF OpToRel
<1> QED BY <1>2

-----------------------------------------------------------------------------
(***************************************************************************)
(* User mutexes and condition variables: the state a call works on.        *)
(***************************************************************************)

CvPlaces == {"run", "lock", "wait", "woken", "check", "relock", "cvwait", "cvret", "exited", "gone"}

CvResults == {"Success", "TimedOut", "InvalidState", "InvalidHandle", "TerminationRequested"}

Infos == [owner: GuestThreads, lock: Mutexes]

\* The fields of a record of the state.
Fields(s) ==
  [tag |-> s.tag, info |-> s.info, key |-> s.key, queue |-> s.queue, prio |-> s.prio,
   base |-> s.base, result |-> s.result, timer |-> s.timer, pc |-> s.pc]

IsCvState(s) ==
  /\ s = Fields(s)
  /\ s.tag \in [Mutexes -> [owner: GuestThreads \cup {NoThread}, wait: BOOLEAN]]
  /\ s.info \in [GuestThreads -> Infos \cup {NoInfo}]
  /\ s.key \in [GuestThreads -> Keys \cup {NoKey}]
  /\ s.queue \in Seq(GuestThreads)
  /\ s.prio \in [GuestThreads -> Nat]
  /\ s.base \in [GuestThreads -> Nat]
  /\ s.result \in [GuestThreads -> CvResults]
  /\ s.timer \in SUBSET GuestThreads
  /\ s.pc \in [GuestThreads -> CvPlaces]

\* A thread is in the sequence that stands for the trees.
Has(q, t) == \E i \in DOMAIN q : q[i] = t

\* The links of a thread are those of its place, and it is in the trees with them.
LinksHold(s) ==
  \A t \in GuestThreads :
    /\ s.info[t] # NoInfo => s.pc[t] \in {"wait", "cvwait"} /\ Has(s.queue, t)
    /\ s.key[t] # NoKey => s.pc[t] = "cvwait" /\ s.info[t] = NoInfo /\ Has(s.queue, t)
    /\ s.pc[t] = "wait" => s.info[t] # NoInfo
    /\ s.pc[t] = "cvwait" => s.info[t] # NoInfo \/ s.key[t] # NoKey

TimersHold(s) == \A t \in s.timer : s.pc[t] = "cvwait"

\* The mutexes the threads want are in w, those they hold in h: what the words say
\* of the threads that wait, have been handed a mutex and hold one.
WordsHold(s, w, h) ==
  /\ w \in [GuestThreads -> Mutexes \cup {0}]
  /\ h \in [GuestThreads -> SUBSET Mutexes]
  /\ \A a \in Mutexes : s.tag[a].owner = NoThread => s.tag[a] = Free
  /\ \A t \in GuestThreads :
       /\ s.pc[t] \notin {"run", "exited", "gone"} => w[t] \in Mutexes
       /\ s.info[t] # NoInfo =>
            /\ s.tag[s.info[t].lock] = [owner |-> s.info[t].owner, wait |-> TRUE]
            /\ s.info[t].lock = w[t]
       /\ s.pc[t] = "cvret" /\ s.result[t] = "Success" => s.tag[w[t]].owner = t
       /\ \A a \in h[t] : s.tag[a].owner = t

CvSound(s, w, h) == IsCvState(s) /\ LinksHold(s) /\ TimersHold(s) /\ WordsHold(s, w, h)

CvInv ==
  /\ CvSound(State, want, held)
  /\ seen \in [GuestThreads -> GuestThreads \cup {NoThread}]

-----------------------------------------------------------------------------
(* The trees.                                                              *)

LEMMA KeepHas ==
  ASSUME NEW q \in Seq(GuestThreads), NEW P \in SUBSET (DOMAIN q)
  PROVE  Keep(q, P) \in Seq(GuestThreads) /\ \A i \in P : Has(Keep(q, P), q[i])
<1>1. PICK at \in [1..Cardinality(P) -> P] :
           /\ Cardinality(P) \in Nat
           /\ Keep(q, P) \in Seq(GuestThreads)
           /\ Len(Keep(q, P)) = Cardinality(P)
           /\ \A n \in 1..Cardinality(P) : Keep(q, P)[n] = q[at[n]]
           /\ \A i \in P : \E n \in 1..Cardinality(P) : at[n] = i
  <2>1. KeptFrom(GuestThreads, q, P)
    BY KeepFacts
  <2> QED BY <2>1 DEF KeptFrom
<1>2. DOMAIN Keep(q, P) = 1..Cardinality(P)
  BY <1>1
<1>3. ASSUME NEW i \in P PROVE Has(Keep(q, P), q[i])
  <2>1. PICK n \in 1..Cardinality(P) : at[n] = i
    BY <1>1
  <2> QED BY <1>1, <1>2, <2>1 DEF Has
<1> QED BY <1>1, <1>3

LEMMA WithoutHas ==
  ASSUME NEW q \in Seq(GuestThreads), NEW t, NEW r, r = Without(q, t)
  PROVE  r \in Seq(GuestThreads) /\ \A u : u # t /\ Has(q, u) => Has(r, u)
<1> DEFINE P == {i \in DOMAIN q : q[i] # t}
<1>1. r = Keep(q, P) /\ P \in SUBSET (DOMAIN q)
  BY DEF Without
<1>2. r \in Seq(GuestThreads) /\ \A i \in P : Has(r, q[i])
  <2> HIDE DEF P
  <2> QED BY <1>1, KeepHas
<1> QED BY <1>2 DEF Has

LEMMA AppendHas ==
  ASSUME NEW q \in Seq(GuestThreads), NEW t \in GuestThreads, NEW r, r = Append(q, t)
  PROVE  r \in Seq(GuestThreads) /\ Has(r, t) /\ \A u : Has(q, u) => Has(r, u)
<1>1. r \in Seq(GuestThreads) /\ DOMAIN r = 1..(Len(q) + 1) /\ r[Len(q) + 1] = t
  OBVIOUS
<1>2. DOMAIN q = 1..Len(q) /\ \A i \in 1..Len(q) : r[i] = q[i]
  OBVIOUS
<1>3. Len(q) \in Nat
  OBVIOUS
<1> QED BY <1>1, <1>2, <1>3 DEF Has

\* The first of some threads of the trees is one of them, and precedes the others.
LEMMA FrontPrecedes ==
  ASSUME NEW s, IsCvState(s), NEW S \in SUBSET GuestThreads, \A x \in S : Has(s.queue, x),
         NEW n, n = Front(s, S)
  PROVE  /\ S = {} => n = NoThread
         /\ S # {} => n \in S /\ \A y \in S \ {n} : Precedes(s, n, y)
<1>1. CASE S = {}
  BY <1>1 DEF Front
<1>2. CASE S # {}
  <2>1. s.prio \in [GuestThreads -> Nat] /\ s.queue \in Seq(GuestThreads)
    BY DEF IsCvState
  <2>2. DOMAIN s.queue = 1..Len(s.queue) /\ Len(s.queue) \in Nat
    BY <2>1
  <2> DEFINE Prios == {s.prio[x] : x \in S}
  <2>3. PICK p \in Prios : \A y \in Prios : p <= y
    <3>1. Prios \subseteq Nat /\ Prios # {}
      BY <1>2, <2>1
    <3> HIDE DEF Prios
    <3> QED BY <3>1, LeastNatural
  <2> DEFINE Places == {i \in DOMAIN s.queue : s.queue[i] \in S /\ s.prio[s.queue[i]] = p}
  <2>4. PICK i \in Places : \A j \in Places : i <= j
    <3>1. Places \subseteq Nat
      BY <2>2
    <3>2. Places # {}
      <4>1. PICK x \in S : s.prio[x] = p
        BY <2>3
      <4>2. Has(s.queue, x)
        OBVIOUS
      <4> QED BY <4>1, <4>2 DEF Has
    <3> HIDE DEF Places
    <3> QED BY <3>1, <3>2, LeastNatural
  <2>5. PICK x : x = s.queue[i]
    OBVIOUS
  <2>6. x \in S /\ s.prio[x] = p /\ i \in DOMAIN s.queue
    BY <2>4, <2>5
  <2>7. ASSUME NEW y \in S \ {x} PROVE Precedes(s, x, y)
    <3>1. s.prio[y] \in Nat /\ p \in Nat /\ p <= s.prio[y]
      BY <2>1, <2>3
    <3>2. CASE s.prio[y] # p
      <4>1. s.prio[x] < s.prio[y]
        BY <2>6, <3>1, <3>2
      <4> QED BY <4>1 DEF Precedes
    <3>3. CASE s.prio[y] = p
      <4>1. PICK j \in DOMAIN s.queue : s.queue[j] = y
        BY DEF Has
      <4>2. j \in Places
        BY <3>3, <4>1
      <4>3. i <= j /\ i # j
        BY <2>4, <2>5, <4>1, <4>2
      <4>4. i < j /\ i \in 1..Len(s.queue) /\ j \in 1..Len(s.queue)
        BY <2>2, <2>6, <4>1, <4>3
      <4> QED BY <2>5, <2>6, <3>3, <4>1, <4>4 DEF Precedes
    <3> QED BY <3>2, <3>3
  <2>8. n = CHOOSE z \in S : \A y \in S \ {z} : Precedes(s, z, y)
    BY <1>2 DEF Front
  <2> QED BY <2>6, <2>7, <2>8
<1> QED BY <1>1, <1>2

LEMMA FrontIsIn ==
  ASSUME NEW s, IsCvState(s), NEW S \in SUBSET GuestThreads, \A x \in S : Has(s.queue, x),
         NEW n, n = Front(s, S)
  PROVE  (S = {} => n = NoThread) /\ (S # {} => n \in S)
BY FrontPrecedes

-----------------------------------------------------------------------------
(* RestorePriority() changes priorities, and the order of the trees.       *)

Reordered(s, r) ==
  /\ IsCvState(r)
  /\ r.tag = s.tag /\ r.info = s.info /\ r.key = s.key /\ r.base = s.base
  /\ r.result = s.result /\ r.timer = s.timer /\ r.pc = s.pc
  /\ \A u : Has(s.queue, u) => Has(r.queue, u)

LEMMA InheritedIsNatural ==
  ASSUME NEW s, IsCvState(s), NEW t \in GuestThreads
  PROVE  InheritedPriority(s, t) \in Nat
<1> DEFINE S == {s.base[t]} \cup {s.prio[w] : w \in AllWaiters(s, t)}
<1>1. S \subseteq Nat /\ S # {}
  <2>1. s.prio \in [GuestThreads -> Nat] /\ s.base \in [GuestThreads -> Nat]
    BY DEF IsCvState
  <2>2. AllWaiters(s, t) \subseteq GuestThreads
    BY DEF AllWaiters
  <2> QED BY <2>1, <2>2
<1>2. InheritedPriority(s, t) = Min(S)
  BY DEF InheritedPriority
<1> HIDE DEF S
<1>3. \E x \in S : \A y \in S : x <= y
  BY <1>1, LeastNatural
<1>4. Min(S) \in S
  BY <1>3 DEF Min
<1> QED BY <1>1, <1>2, <1>4

LEMMA RestoreRoundReorders ==
  ASSUME NEW s, NEW x, NEW u \in GuestThreads \cup {NoThread}, NEW z, Reordered(s, z),
         x.thread = u, x.s = z, NEW y, y = RestoreRound(x)
  PROVE  y.thread \in GuestThreads \cup {NoThread} /\ Reordered(s, y.s)
<1> DEFINE new == InheritedPriority(z, u)
           q == IF u \in Range(z.queue) THEN Append(Without(z.queue, u), u) ELSE z.queue
           r == [z EXCEPT !.prio = [z.prio EXCEPT ![u] = new], !.queue = q]
<1>0. x.thread = u /\ x.s = z
  OBVIOUS
<1>1. y = IF u = NoThread THEN x
          ELSE IF new = z.prio[u] THEN [thread |-> NoThread, s |-> z]
          ELSE [thread |-> z.info[u].owner, s |-> r]
  BY DEF RestoreRound
<1>2. CASE u = NoThread
  BY <1>1, <1>2
<1>3. CASE u # NoThread /\ new = z.prio[u]
  BY <1>1, <1>3
<1>4. CASE u # NoThread /\ new # z.prio[u]
  <2>1. y.thread = z.info[u].owner /\ y.s = r /\ u \in GuestThreads
    BY <1>1, <1>4
  <2>2. IsCvState(z)
    BY DEF Reordered
  <2>3. y.thread \in GuestThreads \cup {NoThread}
    <3>1. z.info[u] \in Infos \cup {NoInfo}
      BY <2>1, <2>2 DEF IsCvState
    <3> QED BY <2>1, <3>1 DEF Infos, NoInfo
  <2>4. new \in Nat
    BY <2>1, <2>2, InheritedIsNatural
  <2>5. q \in Seq(GuestThreads) /\ \A v : Has(z.queue, v) => Has(q, v)
    <3>1. z.queue \in Seq(GuestThreads)
      BY <2>2 DEF IsCvState
    <3>2. PICK e : e = Without(z.queue, u)
      OBVIOUS
    <3>3. PICK f : f = Append(e, u)
      OBVIOUS
    <3>4. e \in Seq(GuestThreads) /\ \A v : v # u /\ Has(z.queue, v) => Has(e, v)
      BY <3>1, <3>2, WithoutHas
    <3>5. f \in Seq(GuestThreads) /\ Has(f, u) /\ \A v : Has(e, v) => Has(f, v)
      BY <2>1, <3>3, <3>4, AppendHas
    <3>6. q = f \/ q = z.queue
      BY <3>2, <3>3
    <3> QED BY <3>1, <3>4, <3>5, <3>6
  <2> HIDE DEF new, q
  <2>6. /\ r = Fields(r)
        /\ r.queue = q /\ r.prio = [z.prio EXCEPT ![u] = new]
        /\ r.tag = z.tag /\ r.info = z.info /\ r.key = z.key /\ r.base = z.base
        /\ r.result = z.result /\ r.timer = z.timer /\ r.pc = z.pc
    <3> HIDE DEF r
    <3>1. r = [z EXCEPT !.prio = [z.prio EXCEPT ![u] = new], !.queue = q]
      BY DEF r
    <3>2. PICK p : p = [z.prio EXCEPT ![u] = new]
      OBVIOUS
    <3>3. z = [tag |-> z.tag, info |-> z.info, key |-> z.key, queue |-> z.queue, prio |-> z.prio,
               base |-> z.base, result |-> z.result, timer |-> z.timer, pc |-> z.pc]
      BY <2>2 DEF IsCvState, Fields
    <3>4. r = [tag |-> z.tag, info |-> z.info, key |-> z.key, queue |-> q, prio |-> p,
               base |-> z.base, result |-> z.result, timer |-> z.timer, pc |-> z.pc]
      BY <3>1, <3>2, <3>3
    <3> QED BY <3>2, <3>4 DEF Fields
  <2> HIDE DEF r
  <2>7. r.prio \in [GuestThreads -> Nat]
    BY <2>1, <2>2, <2>4, <2>6 DEF IsCvState
  <2>8. IsCvState(r)
    BY <2>2, <2>5, <2>6, <2>7 DEF IsCvState
  <2> QED BY <2>1, <2>3, <2>5, <2>6, <2>8 DEF Reordered
<1> QED BY <1>2, <1>3, <1>4

\* The rounds of RestorePriority().
Restoring(F, s, t, n) ==
  F = [k \in 0..n |-> IF k = 0 THEN [thread |-> t, s |-> s] ELSE RestoreRound(F[k - 1])]

LEMMA RestoringExists ==
  ASSUME NEW s, NEW t, NEW m \in Nat
  PROVE  \E F : Restoring(F, s, t, m)
<1> DEFINE B == {n \in Nat : ~ \E F : Restoring(F, s, t, n)}
           first == [thread |-> t, s |-> s]
<1>1. 0 \notin B
  <2> DEFINE F == [k \in 0..0 |-> first]
  <2>1. Restoring(F, s, t, 0)
    BY DEF Restoring
  <2> QED BY <2>1
<1>2. ASSUME NEW n \in Nat, n \notin B PROVE n + 1 \notin B
  <2>1. PICK F : Restoring(F, s, t, n)
    BY <1>2
  <2> DEFINE G == [k \in 0..(n + 1) |-> IF k = 0 THEN first ELSE RestoreRound(F[k - 1])]
  <2>2. \A k \in 0..n : G[k] = F[k]
    BY <2>1 DEF Restoring
  <2>3. \A k \in 0..(n + 1) : k # 0 => k - 1 \in 0..n
    OBVIOUS
  <2>4. \A k \in 0..(n + 1) : G[k] = IF k = 0 THEN first ELSE RestoreRound(G[k - 1])
    BY <2>2, <2>3
  <2>5. Restoring(G, s, t, n + 1)
    BY <2>4 DEF Restoring
  <2> QED BY <2>5
<1>3. B = {}
  <2> SUFFICES ASSUME B # {} PROVE FALSE
    OBVIOUS
  <2>1. B \subseteq Nat
    OBVIOUS
  <2> HIDE DEF B
  <2>2. PICK n \in B : \A k \in B : n <= k
    BY <2>1, LeastNatural
  <2>3. n \in Nat /\ n # 0 /\ n - 1 \in Nat /\ n - 1 \notin B
    BY <1>1, <2>1, <2>2
  <2> QED BY <1>2, <2>2, <2>3
<1> QED BY <1>3

LEMMA ThreadsAreCounted == Cardinality(GuestThreads) \in Nat
  BY CvAssumption, FS_CardinalityType

LEMMA RestoreReorders ==
  ASSUME NEW s, IsCvState(s), NEW t \in GuestThreads \cup {NoThread},
         NEW r, r = RestorePriority(s, t)
  PROVE  Reordered(s, r)
<1> DEFINE N == 2 * Cardinality(GuestThreads)
           F == CHOOSE G : Restoring(G, s, t, N)
           Fine(x) == x.thread \in GuestThreads \cup {NoThread} /\ Reordered(s, x.s)
<1>1. N \in Nat
  BY ThreadsAreCounted
<1>2. Restoring(F, s, t, N)
  BY <1>1, RestoringExists
<1>3. r = F[N].s
  BY DEF RestorePriority, Restoring
<1> HIDE DEF F, N
<1>4. /\ F[0] = [thread |-> t, s |-> s]
      /\ \A n \in 0..N : n # 0 => F[n] = RestoreRound(F[n - 1])
  BY <1>1, <1>2 DEF Restoring
<1>5. Fine(F[0])
  BY <1>4 DEF Reordered
<1>6. ASSUME NEW n \in 0..N, n # 0, Fine(F[n - 1]) PROVE Fine(F[n])
  <2>1. PICK x : x = F[n - 1]
    OBVIOUS
  <2>2. PICK z : z = x.s
    OBVIOUS
  <2>3. PICK u \in GuestThreads \cup {NoThread} : u = x.thread
    BY <1>6, <2>1
  <2>4. PICK y : y = F[n]
    OBVIOUS
  <2>5. y = RestoreRound(x) /\ Reordered(s, z)
    BY <1>4, <1>6, <2>1, <2>2, <2>4
  <2>6. y.thread \in GuestThreads \cup {NoThread} /\ Reordered(s, y.s)
    BY <2>2, <2>3, <2>5, RestoreRoundReorders
  <2> QED BY <2>4, <2>6
<1> HIDE DEF Fine
<1>7. \A n \in 0..N : Fine(F[n])
  <2> DEFINE B == {n \in 0..N : ~Fine(F[n])}
  <2> SUFFICES ASSUME B # {} PROVE FALSE
    OBVIOUS
  <2>1. B \subseteq Nat
    BY <1>1
  <2>2. PICK n \in B : \A k \in B : n <= k
    <3> HIDE DEF B
    <3> QED BY <2>1, LeastNatural
  <2>3. n # 0
    BY <1>5, <2>2
  <2>4. n \in 0..N /\ n - 1 \in 0..N /\ n - 1 \notin B
    BY <1>1, <2>2, <2>3
  <2>5. Fine(F[n - 1])
    BY <2>4
  <2> QED BY <1>6, <2>2, <2>3, <2>4, <2>5
<1> QED BY <1>1, <1>3, <1>7 DEF Fine

-----------------------------------------------------------------------------
(* The waiters of a lock.                                                  *)

\* Only lock infos have changed, and the trees: "gone" may have left them.
Relinked(s, r, info, gone) ==
  /\ IsCvState(r) /\ r.info = info
  /\ r.tag = s.tag /\ r.key = s.key /\ r.base = s.base
  /\ r.result = s.result /\ r.timer = s.timer /\ r.pc = s.pc
  /\ \A u : u \notin gone /\ Has(s.queue, u) => Has(r.queue, u)

\* New links and a new sequence, then perhaps new priorities.
LEMMA RelinkedThenReordered ==
  ASSUME NEW s, IsCvState(s), NEW info \in [GuestThreads -> Infos \cup {NoInfo}],
         NEW q \in Seq(GuestThreads), NEW gone, \A u : u \notin gone /\ Has(s.queue, u) => Has(q, u),
         NEW x, x = [s EXCEPT !.info = info, !.queue = q],
         NEW r, r = x \/ Reordered(x, r)
  PROVE  IsCvState(x) /\ Relinked(s, r, info, gone)
<1>1. s = [tag |-> s.tag, info |-> s.info, key |-> s.key, queue |-> s.queue, prio |-> s.prio,
           base |-> s.base, result |-> s.result, timer |-> s.timer, pc |-> s.pc]
  BY DEF IsCvState, Fields
<1>2. x = [tag |-> s.tag, info |-> info, key |-> s.key, queue |-> q, prio |-> s.prio,
           base |-> s.base, result |-> s.result, timer |-> s.timer, pc |-> s.pc]
  BY <1>1
<1>3. /\ x = Fields(x) /\ x.info = info /\ x.queue = q /\ x.prio = s.prio
      /\ x.tag = s.tag /\ x.key = s.key /\ x.base = s.base
      /\ x.result = s.result /\ x.timer = s.timer /\ x.pc = s.pc
  BY <1>2 DEF Fields
<1>4. IsCvState(x)
  BY <1>3 DEF IsCvState
<1>5. CASE r = x
  BY <1>3, <1>4, <1>5 DEF Relinked
<1>6. CASE Reordered(x, r)
  BY <1>3, <1>4, <1>6 DEF Relinked, Reordered
<1> QED BY <1>4, <1>5, <1>6

LEMMA InfoTypes ==
  ASSUME NEW s, IsCvState(s)
  PROVE  /\ \A o \in GuestThreads, a \in Mutexes : [owner |-> o, lock |-> a] \in Infos
         /\ \A i \in Infos : i.owner \in GuestThreads /\ i.lock \in Mutexes
                             /\ i = [owner |-> i.owner, lock |-> i.lock]
         /\ NoInfo.owner = NoThread /\ NoInfo \notin Infos
         /\ NoThread \notin GuestThreads
         /\ \A t \in GuestThreads : s.info[t] # NoInfo => s.info[t] \in Infos
<1>1. NoThread \notin GuestThreads
  BY CvAssumption
<1>2. \A t \in GuestThreads : s.info[t] # NoInfo => s.info[t] \in Infos
  BY DEF IsCvState
<1>3. /\ \A o \in GuestThreads, a \in Mutexes : [owner |-> o, lock |-> a] \in Infos
      /\ \A i \in Infos : i.owner \in GuestThreads /\ i.lock \in Mutexes
                          /\ i = [owner |-> i.owner, lock |-> i.lock]
  BY DEF Infos
<1>4. NoInfo.owner = NoThread
  BY DEF NoInfo
<1> QED BY <1>1, <1>2, <1>3, <1>4

LEMMA AddWaiterIs ==
  ASSUME NEW s, IsCvState(s), NEW o \in GuestThreads, NEW w \in GuestThreads, NEW a \in Mutexes,
         NEW r, r = AddWaiter(s, o, w, a)
  PROVE  /\ Relinked(s, r, [s.info EXCEPT ![w] = [owner |-> o, lock |-> a]], {})
         /\ Has(r.queue, w)
<1>1. PICK info : info = [s.info EXCEPT ![w] = [owner |-> o, lock |-> a]]
  OBVIOUS
<1>2. PICK q : q = Append(s.queue, w)
  OBVIOUS
<1>3. PICK x : x = [s EXCEPT !.info = info, !.queue = q]
  OBVIOUS
<1>4. info \in [GuestThreads -> Infos \cup {NoInfo}]
  <2>1. [owner |-> o, lock |-> a] \in Infos /\ s.info \in [GuestThreads -> Infos \cup {NoInfo}]
    BY InfoTypes DEF IsCvState
  <2> QED BY <1>1, <2>1
<1>5. q \in Seq(GuestThreads) /\ Has(q, w) /\ \A u : Has(s.queue, u) => Has(q, u)
  <2>1. s.queue \in Seq(GuestThreads)
    BY DEF IsCvState
  <2> QED BY <1>2, <2>1, AppendHas
<1>6. r = x \/ r = RestorePriority(x, o)
  BY <1>1, <1>2, <1>3 DEF AddWaiter
<1>7. IsCvState(x)
  BY <1>3, <1>4, <1>5, RelinkedThenReordered
<1>8. r = x \/ Reordered(x, r)
  BY <1>6, <1>7, RestoreReorders
<1>9. Relinked(s, r, info, {}) /\ \A u : Has(q, u) => Has(r.queue, u)
  <2>1. PICK gone : gone = {}
    OBVIOUS
  <2>2. q \in Seq(GuestThreads) /\ \A u : u \notin gone /\ Has(s.queue, u) => Has(q, u)
    BY <1>5
  <2>3. Relinked(s, r, info, gone)
    BY <1>3, <1>4, <1>8, <2>2, RelinkedThenReordered
  <2>4. IsCvState(x) /\ x.queue = q
    <3>1. x.queue = q
      BY <1>3 DEF IsCvState, Fields
    <3> QED BY <1>7, <3>1
  <2>5. \A u : Has(q, u) => Has(r.queue, u)
    BY <1>8, <2>4 DEF Reordered
  <2> QED BY <2>1, <2>3, <2>5
<1> QED BY <1>1, <1>5, <1>9

LEMMA RemoveWaiterIs ==
  ASSUME NEW s, IsCvState(s), NEW w \in GuestThreads, s.info[w] # NoInfo,
         NEW r, r = RemoveWaiter(s, w)
  PROVE  Relinked(s, r, [s.info EXCEPT ![w] = NoInfo], {w})
<1>1. PICK info : info = [s.info EXCEPT ![w] = NoInfo]
  OBVIOUS
<1>2. PICK q : q = Without(s.queue, w)
  OBVIOUS
<1>3. PICK x : x = [s EXCEPT !.info = info, !.queue = q]
  OBVIOUS
<1>4. PICK o \in GuestThreads : o = s.info[w].owner
  BY InfoTypes
<1>5. info \in [GuestThreads -> Infos \cup {NoInfo}]
  BY <1>1 DEF IsCvState
<1>6. q \in Seq(GuestThreads) /\ \A u : u \notin {w} /\ Has(s.queue, u) => Has(q, u)
  <2>1. s.queue \in Seq(GuestThreads)
    BY DEF IsCvState
  <2> QED BY <1>2, <2>1, WithoutHas
<1>7. r = x \/ r = RestorePriority(x, o)
  BY <1>1, <1>2, <1>3, <1>4 DEF RemoveWaiter
<1>8. IsCvState(x)
  BY <1>3, <1>5, <1>6, RelinkedThenReordered
<1>9. r = x \/ Reordered(x, r)
  BY <1>7, <1>8, RestoreReorders
<1>10. Relinked(s, r, info, {w})
  BY <1>3, <1>5, <1>6, <1>9, RelinkedThenReordered
<1> QED BY <1>1, <1>10

\* The links after the lock of t was passed on to n.
PassedOn(s, t, a, n) ==
  [w \in GuestThreads |-> IF w = n THEN NoInfo
                          ELSE IF w \in Waiters(s, t, a) THEN [owner |-> n, lock |-> a]
                          ELSE s.info[w]]

LEMMA RemoveByKeyIs ==
  ASSUME NEW s, IsCvState(s), LinksHold(s), NEW t \in GuestThreads, NEW a \in Mutexes,
         NEW n, n = Front(s, Waiters(s, t, a)),
         NEW r, r = RemoveWaiterByKey(s, t, a)
  PROVE  /\ Waiters(s, t, a) = {} => n = NoThread
         /\ n = NoThread => r = s /\ Waiters(s, t, a) = {}
         /\ n # NoThread => n \in Waiters(s, t, a) /\ Relinked(s, r, PassedOn(s, t, a, n), {n})
<1> DEFINE S == Waiters(s, t, a)
<1>1. S \in SUBSET GuestThreads /\ NoThread \notin S
  BY CvAssumption DEF Waiters
<1>2. \A x \in S : Has(s.queue, x)
  <2> SUFFICES ASSUME NEW x \in GuestThreads, s.info[x] = [owner |-> t, lock |-> a]
               PROVE  Has(s.queue, x)
    BY DEF Waiters
  <2>1. s.info[x] # NoInfo
    BY InfoTypes
  <2> QED BY <2>1 DEF LinksHold
<1> HIDE DEF S
<1>3. (S = {} => n = NoThread) /\ (S # {} => n \in S)
  BY <1>1, <1>2, FrontIsIn DEF S
<1>4. CASE n = NoThread
  BY <1>1, <1>3, <1>4 DEF RemoveWaiterByKey, S
<1>5. CASE n # NoThread
  <2>1. n \in S /\ n \in GuestThreads
    BY <1>1, <1>3, <1>5
  <2>2. PICK info : info = PassedOn(s, t, a, n)
    OBVIOUS
  <2>3. PICK q : q = Without(s.queue, n)
    OBVIOUS
  <2>4. PICK x : x = [s EXCEPT !.info = info, !.queue = q]
    OBVIOUS
  <2>5. info \in [GuestThreads -> Infos \cup {NoInfo}]
    <3>1. [owner |-> n, lock |-> a] \in Infos /\ s.info \in [GuestThreads -> Infos \cup {NoInfo}]
      BY <2>1, InfoTypes DEF IsCvState
    <3> QED BY <2>2, <3>1 DEF PassedOn
  <2>6. q \in Seq(GuestThreads) /\ \A u : u \notin {n} /\ Has(s.queue, u) => Has(q, u)
    <3>1. s.queue \in Seq(GuestThreads)
      BY DEF IsCvState
    <3> QED BY <2>3, <3>1, WithoutHas
  <2>7. r = x \/ r = RestorePriority(x, t)
    BY <1>5, <2>2, <2>3, <2>4 DEF RemoveWaiterByKey, PassedOn
  <2>8. IsCvState(x)
    BY <2>4, <2>5, <2>6, RelinkedThenReordered
  <2>9. r = x \/ Reordered(x, r)
    BY <2>7, <2>8, RestoreReorders
  <2>10. Relinked(s, r, info, {n})
    BY <2>4, <2>5, <2>6, <2>9, RelinkedThenReordered
  <2> QED BY <1>5, <2>1, <2>2, <2>10, <1>3 DEF S
<1> QED BY <1>4, <1>5

-----------------------------------------------------------------------------
(* A wait ends, and a lock is passed on.                                   *)

LEMMA EndWaitIs ==
  ASSUME NEW s, IsCvState(s), NEW w \in GuestThreads, NEW res \in CvResults,
         NEW r, r = EndWait(s, w, res)
  PROVE  /\ IsCvState(r)
         /\ r.tag = s.tag /\ r.info = s.info /\ r.key = s.key /\ r.queue = s.queue
         /\ r.prio = s.prio /\ r.base = s.base
         /\ r.result = [s.result EXCEPT ![w] = res] /\ r.timer = s.timer \ {w}
         /\ r.pc = [s.pc EXCEPT ![w] = IF s.pc[w] = "wait" THEN "woken" ELSE "cvret"]
<1>1. PICK e : e = [s.result EXCEPT ![w] = res]
  OBVIOUS
<1>2. PICK f : f = [s.pc EXCEPT ![w] = IF s.pc[w] = "wait" THEN "woken" ELSE "cvret"]
  OBVIOUS
<1>3. PICK g : g = s.timer \ {w}
  OBVIOUS
<1>4. r = [s EXCEPT !.result = e, !.timer = g, !.pc = f]
  <2>1. r = [s EXCEPT !.result = [s.result EXCEPT ![w] = res], !.timer = s.timer \ {w},
                      !.pc = [s.pc EXCEPT ![w] = IF s.pc[w] = "wait" THEN "woken" ELSE "cvret"]]
    BY DEF EndWait
  <2> QED BY <1>1, <1>2, <1>3, <2>1
<1>5. s = [tag |-> s.tag, info |-> s.info, key |-> s.key, queue |-> s.queue, prio |-> s.prio,
           base |-> s.base, result |-> s.result, timer |-> s.timer, pc |-> s.pc]
  BY DEF IsCvState, Fields
<1>6. r = [tag |-> s.tag, info |-> s.info, key |-> s.key, queue |-> s.queue, prio |-> s.prio,
           base |-> s.base, result |-> e, timer |-> g, pc |-> f]
  BY <1>4, <1>5
<1>7. /\ r = Fields(r)
      /\ r.tag = s.tag /\ r.info = s.info /\ r.key = s.key /\ r.queue = s.queue
      /\ r.prio = s.prio /\ r.base = s.base /\ r.result = e /\ r.timer = g /\ r.pc = f
  BY <1>6 DEF Fields
<1>8. e \in [GuestThreads -> CvResults] /\ f \in [GuestThreads -> CvPlaces] /\ g \in SUBSET GuestThreads
  BY <1>1, <1>2, <1>3 DEF IsCvState, CvPlaces
<1>9. IsCvState(r)
  BY <1>7, <1>8 DEF IsCvState
<1> QED BY <1>1, <1>2, <1>3, <1>7, <1>9

\* Another word for a mutex.
LEMMA SetTagIs ==
  ASSUME NEW s, IsCvState(s), NEW a \in Mutexes,
         NEW v \in [owner: GuestThreads \cup {NoThread}, wait: BOOLEAN],
         NEW e, e = [s.tag EXCEPT ![a] = v], NEW r, r = [s EXCEPT !.tag = e]
  PROVE  /\ IsCvState(r)
         /\ r.tag = e /\ r.info = s.info /\ r.key = s.key
         /\ r.queue = s.queue /\ r.prio = s.prio /\ r.base = s.base
         /\ r.result = s.result /\ r.timer = s.timer /\ r.pc = s.pc
<1>2. s = [tag |-> s.tag, info |-> s.info, key |-> s.key, queue |-> s.queue, prio |-> s.prio,
           base |-> s.base, result |-> s.result, timer |-> s.timer, pc |-> s.pc]
  BY DEF IsCvState, Fields
<1>3. r = [tag |-> e, info |-> s.info, key |-> s.key, queue |-> s.queue, prio |-> s.prio,
           base |-> s.base, result |-> s.result, timer |-> s.timer, pc |-> s.pc]
  BY <1>2
<1>4. /\ r = Fields(r) /\ r.tag = e /\ r.info = s.info /\ r.key = s.key /\ r.queue = s.queue
      /\ r.prio = s.prio /\ r.base = s.base
      /\ r.result = s.result /\ r.timer = s.timer /\ r.pc = s.pc
  BY <1>3 DEF Fields
<1>5. e \in [Mutexes -> [owner: GuestThreads \cup {NoThread}, wait: BOOLEAN]]
  BY DEF IsCvState
<1>6. IsCvState(r)
  BY <1>4, <1>5 DEF IsCvState
<1> QED BY <1>4, <1>6

\* What the waiters of a lock that t owns are.
WaitersAre(s, w, t, a) ==
  \A u \in GuestThreads :
    /\ u \in Waiters(s, t, a) <=> s.info[u] # NoInfo /\ s.info[u].lock = a
    /\ u \in Waiters(s, t, a) =>
         /\ w[u] = a /\ s.info[u] = [owner |-> t, lock |-> a] /\ s.key[u] = NoKey
         /\ s.pc[u] \in {"wait", "cvwait"}

IsOwner(s, t, a) == t \in GuestThreads /\ a \in Mutexes /\ s.tag[a].owner = t

LEMMA WaitersOfOwner ==
  ASSUME NEW s, NEW w, NEW h, CvSound(s, w, h), NEW t, NEW a, IsOwner(s, t, a)
  PROVE  WaitersAre(s, w, t, a)
<1> USE DEF IsOwner
<1> SUFFICES ASSUME NEW u \in GuestThreads
             PROVE  /\ u \in Waiters(s, t, a) <=> s.info[u] # NoInfo /\ s.info[u].lock = a
                    /\ u \in Waiters(s, t, a) =>
                         /\ w[u] = a /\ s.info[u] = [owner |-> t, lock |-> a] /\ s.key[u] = NoKey
                         /\ s.pc[u] \in {"wait", "cvwait"}
  BY DEF WaitersAre
<1> USE DEF CvSound
<1>1. u \in Waiters(s, t, a) <=> s.info[u] = [owner |-> t, lock |-> a]
  BY DEF Waiters
<1>2. ASSUME s.info[u] # NoInfo
      PROVE  /\ s.tag[s.info[u].lock] = [owner |-> s.info[u].owner, wait |-> TRUE]
             /\ s.info[u].lock = w[u]
             /\ s.pc[u] \in {"wait", "cvwait"} /\ s.key[u] = NoKey
             /\ s.info[u] = [owner |-> s.info[u].owner, lock |-> s.info[u].lock]
  BY <1>2, InfoTypes DEF WordsHold, LinksHold
<1>3. ASSUME s.info[u] = [owner |-> t, lock |-> a]
      PROVE  s.info[u] # NoInfo /\ s.info[u].lock = a
  BY <1>3, InfoTypes
<1>4. ASSUME s.info[u] # NoInfo, s.info[u].lock = a
      PROVE  s.info[u] = [owner |-> t, lock |-> a]
  <2>1. s.tag[a] = [owner |-> s.info[u].owner, wait |-> TRUE]
    BY <1>2, <1>4
  <2>2. s.info[u].owner = t
    BY <2>1
  <2> QED BY <1>2, <1>4, <2>2
<1> QED BY <1>1, <1>2, <1>3, <1>4

\* The lock of a running thread passes to its first waiter, or becomes free.
PassedTo(s, r, t, a, n) ==
  /\ IsCvState(r)
  /\ n \in Waiters(s, t, a)
  /\ r.tag = [s.tag EXCEPT ![a] = [owner |-> n, wait |-> Waiters(r, n, a) # {}]]
  /\ r.info = PassedOn(s, t, a, n)
  /\ r.key = s.key /\ r.base = s.base
  /\ r.result = [s.result EXCEPT ![n] = "Success"] /\ r.timer = s.timer \ {n}
  /\ r.pc = [s.pc EXCEPT ![n] = IF s.pc[n] = "wait" THEN "woken" ELSE "cvret"]
  /\ \A u : u # n /\ Has(s.queue, u) => Has(r.queue, u)

LEMMA PassLockIs ==
  ASSUME NEW s, IsCvState(s), LinksHold(s), NEW t \in GuestThreads, NEW a \in Mutexes,
         NEW r, r = PassLock(s, t, a)
  PROVE  \/ Waiters(s, t, a) = {} /\ r = [s EXCEPT !.tag = [s.tag EXCEPT ![a] = Free]]
         \/ \E n \in GuestThreads : PassedTo(s, r, t, a, n)
<1>1. PICK n : n = Front(s, Waiters(s, t, a))
  OBVIOUS
<1>2. PICK s1 : s1 = RemoveWaiterByKey(s, t, a)
  OBVIOUS
<1>3. /\ n = NoThread => s1 = s /\ Waiters(s, t, a) = {}
      /\ n # NoThread => n \in Waiters(s, t, a) /\ Relinked(s, s1, PassedOn(s, t, a, n), {n})
  BY <1>1, <1>2, RemoveByKeyIs
<1>4. CASE n = NoThread
  BY <1>1, <1>2, <1>3, <1>4 DEF PassLock
<1>5. CASE n # NoThread
  <2>1. PICK v : v = [owner |-> n, wait |-> Waiters(s1, n, a) # {}]
    OBVIOUS
  <2>0. PICK e : e = [s1.tag EXCEPT ![a] = v]
    OBVIOUS
  <2>2. PICK s2 : s2 = [s1 EXCEPT !.tag = e]
    OBVIOUS
  <2>3. r = EndWait(s2, n, "Success")
    BY <1>1, <1>2, <1>5, <2>0, <2>1, <2>2 DEF PassLock
  <2>4. n \in GuestThreads /\ IsCvState(s1)
    BY <1>3, <1>5 DEF Waiters, Relinked
  <2>5. v \in [owner: GuestThreads \cup {NoThread}, wait: BOOLEAN]
    BY <2>1, <2>4
  <2>6. /\ IsCvState(s2)
        /\ s2.tag = e /\ s2.info = s1.info /\ s2.key = s1.key
        /\ s2.queue = s1.queue /\ s2.base = s1.base
        /\ s2.result = s1.result /\ s2.timer = s1.timer /\ s2.pc = s1.pc
    BY <2>0, <2>2, <2>4, <2>5, SetTagIs
  <2>7. "Success" \in CvResults
    BY DEF CvResults
  <2>8. /\ IsCvState(r)
        /\ r.tag = s2.tag /\ r.info = s2.info /\ r.key = s2.key /\ r.queue = s2.queue
        /\ r.base = s2.base
        /\ r.result = [s2.result EXCEPT ![n] = "Success"] /\ r.timer = s2.timer \ {n}
        /\ r.pc = [s2.pc EXCEPT ![n] = IF s2.pc[n] = "wait" THEN "woken" ELSE "cvret"]
    BY <2>3, <2>4, <2>6, <2>7, EndWaitIs
  <2>9. Relinked(s, s1, PassedOn(s, t, a, n), {n}) /\ n \in Waiters(s, t, a)
    BY <1>3, <1>5
  <2>10. /\ s1.tag = s.tag /\ s1.key = s.key /\ s1.base = s.base /\ s1.result = s.result
         /\ s1.timer = s.timer /\ s1.pc = s.pc /\ s1.info = PassedOn(s, t, a, n)
         /\ \A u : u # n /\ Has(s.queue, u) => Has(s1.queue, u)
    BY <2>9 DEF Relinked
  <2>11. Waiters(r, n, a) = Waiters(s1, n, a)
    BY <2>6, <2>8 DEF Waiters
  <2>12. PassedTo(s, r, t, a, n)
    BY <2>0, <2>1, <2>6, <2>8, <2>9, <2>10, <2>11 DEF PassedTo
  <2> QED BY <2>4, <2>12
<1> QED BY <1>4, <1>5

\* A running thread t is about to give up its mutex a, and to hold the others.
Releases(s, w, h, t, a, g) ==
  /\ CvSound(s, w, h)
  /\ t \in GuestThreads /\ s.pc[t] = "run" /\ a \in h[t]
  /\ g = [h EXCEPT ![t] = h[t] \ {a}]

LEMMA PassedToIsSound ==
  ASSUME NEW s, NEW w, NEW h, NEW t, NEW a, NEW g, Releases(s, w, h, t, a, g),
         NEW n \in GuestThreads, NEW r, PassedTo(s, r, t, a, n)
  PROVE  CvSound(r, w, g) /\ r.pc[t] = "run"
<1> USE DEF Releases
<1>1. IsCvState(s) /\ IsCvState(r) /\ LinksHold(s) /\ TimersHold(s) /\ WordsHold(s, w, h)
  BY DEF CvSound, PassedTo
<1>2. /\ w \in [GuestThreads -> Mutexes \cup {0}] /\ h \in [GuestThreads -> SUBSET Mutexes]
      /\ a \in Mutexes /\ s.tag[a].owner = t
  BY <1>1 DEF WordsHold
<1>3. \A u \in GuestThreads :
        /\ u \in Waiters(s, t, a) <=> s.info[u] # NoInfo /\ s.info[u].lock = a
        /\ u \in Waiters(s, t, a) =>
              /\ w[u] = a /\ s.info[u] = [owner |-> t, lock |-> a] /\ s.key[u] = NoKey
              /\ s.pc[u] \in {"wait", "cvwait"}
  <2>1. IsOwner(s, t, a)
    BY <1>2 DEF IsOwner
  <2>2. WaitersAre(s, w, t, a)
    BY <2>1, WaitersOfOwner
  <2> QED BY <2>2 DEF WaitersAre
<1>4. n \in Waiters(s, t, a) /\ w[n] = a /\ s.pc[n] \in {"wait", "cvwait"} /\ s.key[n] = NoKey
  BY <1>3 DEF PassedTo
<1>5. n # t /\ n # NoThread
  BY <1>4, InfoTypes, <1>1
<1>6. /\ r.info = PassedOn(s, t, a, n) /\ r.key = s.key
      /\ r.result = [s.result EXCEPT ![n] = "Success"] /\ r.timer = s.timer \ {n}
      /\ \A u : u # n /\ Has(s.queue, u) => Has(r.queue, u)
  BY DEF PassedTo
<1>7. /\ r.pc[n] \in {"woken", "cvret"}
      /\ \A u \in GuestThreads : u # n => r.pc[u] = s.pc[u]
  <2>1. s.pc \in [GuestThreads -> CvPlaces]
    BY <1>1 DEF IsCvState
  <2>2. r.pc = [s.pc EXCEPT ![n] = IF s.pc[n] = "wait" THEN "woken" ELSE "cvret"]
    BY DEF PassedTo
  <2> QED BY <2>1, <2>2
<1>8. /\ r.info[n] = NoInfo
      /\ \A u \in GuestThreads : u # n /\ u \in Waiters(s, t, a) =>
           r.info[u] = [owner |-> n, lock |-> a] /\ s.info[u] # NoInfo
      /\ \A u \in GuestThreads : u # n /\ u \notin Waiters(s, t, a) => r.info[u] = s.info[u]
  BY <1>3, <1>6 DEF PassedOn
<1>9. LinksHold(r)
  <2> SUFFICES ASSUME NEW u \in GuestThreads
               PROVE  /\ r.info[u] # NoInfo => r.pc[u] \in {"wait", "cvwait"} /\ Has(r.queue, u)
                      /\ r.key[u] # NoKey => r.pc[u] = "cvwait" /\ r.info[u] = NoInfo /\ Has(r.queue, u)
                      /\ r.pc[u] = "wait" => r.info[u] # NoInfo
                      /\ r.pc[u] = "cvwait" => r.info[u] # NoInfo \/ r.key[u] # NoKey
    BY DEF LinksHold
  <2>1. CASE u = n
    BY <1>4, <1>6, <1>7, <1>8, <2>1
  <2>2. CASE u # n
    <3>1. r.pc[u] = s.pc[u] /\ r.key[u] = s.key[u] /\ (Has(s.queue, u) => Has(r.queue, u))
      BY <1>6, <1>7, <2>2
    <3>2. r.info[u] # NoInfo <=> s.info[u] # NoInfo
      <4>1. [owner |-> n, lock |-> a] # NoInfo
        BY <1>1, <1>2, InfoTypes
      <4> QED BY <1>8, <2>2, <4>1
    <3> QED BY <1>1, <3>1, <3>2 DEF LinksHold
  <2> QED BY <2>1, <2>2
<1>10. TimersHold(r)
  <2>1. s.timer \in SUBSET GuestThreads
    BY <1>1 DEF IsCvState
  <2> QED BY <1>1, <1>6, <1>7, <2>1 DEF TimersHold
<1>11. /\ r.tag[a].owner = n /\ \A b \in Mutexes : b # a => r.tag[b] = s.tag[b]
       /\ \A u \in GuestThreads : r.info[u] = [owner |-> n, lock |-> a] =>
            r.tag[a] = [owner |-> n, wait |-> TRUE]
  <2>1. r.tag = [s.tag EXCEPT ![a] = [owner |-> n, wait |-> Waiters(r, n, a) # {}]]
    BY DEF PassedTo
  <2>2. r.tag[a] = [owner |-> n, wait |-> Waiters(r, n, a) # {}]
        /\ \A b \in Mutexes : b # a => r.tag[b] = s.tag[b]
    BY <1>1, <1>2, <2>1 DEF IsCvState
  <2>3. ASSUME NEW u \in GuestThreads, r.info[u] = [owner |-> n, lock |-> a]
        PROVE  r.tag[a] = [owner |-> n, wait |-> TRUE]
    <3>1. (Waiters(r, n, a) # {}) = TRUE
      BY <2>3 DEF Waiters
    <3> QED BY <2>2, <3>1
  <2>4. r.tag[a].owner = n
    BY <2>2
  <2> QED BY <2>2, <2>3, <2>4
<1>12. g \in [GuestThreads -> SUBSET Mutexes] /\ g[t] = h[t] \ {a}
       /\ \A u \in GuestThreads : u # t => g[u] = h[u]
  BY <1>2
<1>13. \A b \in Mutexes : r.tag[b].owner = NoThread => r.tag[b] = Free
  BY <1>1, <1>5, <1>11 DEF WordsHold
<1>14. ASSUME NEW u \in GuestThreads
       PROVE  /\ r.pc[u] \notin {"run", "exited", "gone"} => w[u] \in Mutexes
              /\ r.info[u] # NoInfo =>
                   /\ r.tag[r.info[u].lock] = [owner |-> r.info[u].owner, wait |-> TRUE]
                   /\ r.info[u].lock = w[u]
              /\ r.pc[u] = "cvret" /\ r.result[u] = "Success" => r.tag[w[u]].owner = u
              /\ \A b \in g[u] : r.tag[b].owner = u
  <2>1. r.pc[u] \notin {"run", "exited", "gone"} => w[u] \in Mutexes
    BY <1>1, <1>2, <1>4, <1>7 DEF WordsHold
  <2>2. ASSUME r.info[u] # NoInfo
        PROVE  /\ r.tag[r.info[u].lock] = [owner |-> r.info[u].owner, wait |-> TRUE]
               /\ r.info[u].lock = w[u]
    <3>1. u # n
      BY <1>8, <2>2
    <3>2. CASE u \in Waiters(s, t, a)
      <4>1. r.info[u] = [owner |-> n, lock |-> a] /\ w[u] = a
        BY <1>3, <1>8, <3>1, <3>2
      <4>2. r.tag[a] = [owner |-> n, wait |-> TRUE]
        BY <1>11, <4>1
      <4> QED BY <4>1, <4>2
    <3>3. CASE u \notin Waiters(s, t, a)
      <4>1. r.info[u] = s.info[u] /\ s.info[u] # NoInfo /\ s.info[u].lock # a
        BY <1>3, <1>8, <2>2, <3>1, <3>3
      <4>2. /\ s.tag[s.info[u].lock] = [owner |-> s.info[u].owner, wait |-> TRUE]
            /\ s.info[u].lock = w[u]
        BY <1>1, <4>1 DEF WordsHold
      <4>3. s.info[u].lock \in Mutexes
        BY <1>1, <4>1, InfoTypes
      <4> QED BY <1>11, <4>1, <4>2, <4>3
    <3> QED BY <3>2, <3>3
  <2>3. ASSUME r.pc[u] = "cvret", r.result[u] = "Success" PROVE r.tag[w[u]].owner = u
    <3>1. CASE u = n
      BY <1>4, <1>11, <3>1
    <3>2. CASE u # n
      <4>1. s.pc[u] = "cvret" /\ s.result[u] = "Success"
        BY <1>1, <1>6, <1>7, <2>3, <3>2 DEF IsCvState
      <4>2. w[u] \in Mutexes /\ s.tag[w[u]].owner = u
        BY <1>1, <4>1 DEF WordsHold
      <4>3. w[u] # a
        BY <1>2, <4>1, <4>2
      <4> QED BY <1>11, <4>2, <4>3
    <3> QED BY <3>1, <3>2
  <2>4. ASSUME NEW b \in g[u] PROVE r.tag[b].owner = u
    <3>1. b \in h[u] /\ b \in Mutexes /\ (u = t => b # a)
      BY <1>2, <1>12
    <3>2. s.tag[b].owner = u
      BY <1>1, <3>1 DEF WordsHold
    <3>3. b # a
      BY <1>2, <3>1, <3>2
    <3> QED BY <1>11, <3>1, <3>2, <3>3
  <2> QED BY <2>1, <2>2, <2>3, <2>4
<1>15. WordsHold(r, w, g)
  BY <1>2, <1>12, <1>13, <1>14 DEF WordsHold
<1> QED BY <1>1, <1>5, <1>7, <1>9, <1>10, <1>15 DEF CvSound

Unwanted(s, a) == \A u \in GuestThreads : s.info[u] # NoInfo => s.info[u].lock # a

Freed(s, r, a) == r = [s EXCEPT !.tag = [s.tag EXCEPT ![a] = Free]]

LEMMA NobodyWants ==
  ASSUME NEW s, NEW w, NEW h, NEW t, NEW a, NEW g, Releases(s, w, h, t, a, g),
         Waiters(s, t, a) = {}
  PROVE  Unwanted(s, a)
<1> USE DEF Releases
<1>1. WordsHold(s, w, h)
  BY DEF CvSound
<1>2. /\ w \in [GuestThreads -> Mutexes \cup {0}] /\ h \in [GuestThreads -> SUBSET Mutexes]
      /\ a \in Mutexes /\ s.tag[a].owner = t
  BY <1>1 DEF WordsHold
<1>3. \A u \in GuestThreads :
        /\ u \in Waiters(s, t, a) <=> s.info[u] # NoInfo /\ s.info[u].lock = a
        /\ u \in Waiters(s, t, a) =>
              /\ w[u] = a /\ s.info[u] = [owner |-> t, lock |-> a] /\ s.key[u] = NoKey
              /\ s.pc[u] \in {"wait", "cvwait"}
  <2>1. IsOwner(s, t, a)
    BY <1>2 DEF IsOwner
  <2>2. WaitersAre(s, w, t, a)
    BY <2>1, WaitersOfOwner
  <2> QED BY <2>2 DEF WaitersAre
<1> QED BY <1>3 DEF Unwanted

LEMMA FreedIsSound ==
  ASSUME NEW s, NEW w, NEW h, NEW t, NEW a, NEW g, Releases(s, w, h, t, a, g),
         Unwanted(s, a), NEW r, Freed(s, r, a)
  PROVE  CvSound(r, w, g) /\ r.pc[t] = "run"
<1> USE DEF Releases, Unwanted
<1>1. IsCvState(s) /\ LinksHold(s) /\ TimersHold(s) /\ WordsHold(s, w, h)
  BY DEF CvSound
<1>2. /\ w \in [GuestThreads -> Mutexes \cup {0}] /\ h \in [GuestThreads -> SUBSET Mutexes]
      /\ a \in Mutexes /\ s.tag[a].owner = t
  BY <1>1 DEF WordsHold
<1>3. /\ IsCvState(r)
      /\ r.tag = [s.tag EXCEPT ![a] = Free] /\ r.info = s.info /\ r.key = s.key /\ r.queue = s.queue
      /\ r.result = s.result /\ r.timer = s.timer /\ r.pc = s.pc
  <2>1. PICK v \in [owner: GuestThreads \cup {NoThread}, wait: BOOLEAN] : v = Free
    BY DEF Free
  <2>2. PICK e : e = [s.tag EXCEPT ![a] = v]
    OBVIOUS
  <2>3. r = [s EXCEPT !.tag = e]
    BY <2>1, <2>2 DEF Freed
  <2>4. /\ IsCvState(r)
        /\ r.tag = e /\ r.info = s.info /\ r.key = s.key /\ r.queue = s.queue
        /\ r.result = s.result /\ r.timer = s.timer /\ r.pc = s.pc
    BY <1>1, <1>2, <2>2, <2>3, SetTagIs
  <2> QED BY <2>1, <2>2, <2>4
<1>4. r.tag[a] = Free /\ \A b \in Mutexes : b # a => r.tag[b] = s.tag[b]
  BY <1>1, <1>2, <1>3 DEF IsCvState
<1>5. LinksHold(r) /\ TimersHold(r)
  BY <1>1, <1>3 DEF LinksHold, TimersHold
<1>6. g \in [GuestThreads -> SUBSET Mutexes] /\ g[t] = h[t] \ {a}
      /\ \A u \in GuestThreads : u # t => g[u] = h[u]
  BY <1>2
<1>7. \A b \in Mutexes : r.tag[b].owner = NoThread => r.tag[b] = Free
  BY <1>1, <1>4 DEF WordsHold
<1>8. ASSUME NEW u \in GuestThreads
      PROVE  /\ r.pc[u] \notin {"run", "exited", "gone"} => w[u] \in Mutexes
             /\ r.info[u] # NoInfo =>
                  /\ r.tag[r.info[u].lock] = [owner |-> r.info[u].owner, wait |-> TRUE]
                  /\ r.info[u].lock = w[u]
             /\ r.pc[u] = "cvret" /\ r.result[u] = "Success" => r.tag[w[u]].owner = u
             /\ \A b \in g[u] : r.tag[b].owner = u
  <2>1. r.pc[u] \notin {"run", "exited", "gone"} => w[u] \in Mutexes
    BY <1>1, <1>3 DEF WordsHold
  <2>2. ASSUME r.info[u] # NoInfo
        PROVE  /\ r.tag[r.info[u].lock] = [owner |-> r.info[u].owner, wait |-> TRUE]
               /\ r.info[u].lock = w[u]
    <3>1. /\ s.tag[s.info[u].lock] = [owner |-> s.info[u].owner, wait |-> TRUE]
          /\ s.info[u].lock = w[u]
      BY <1>1, <1>3, <2>2 DEF WordsHold
    <3>2. s.info[u].lock \in Mutexes /\ s.info[u].lock # a
      BY <1>1, <1>3, <2>2, InfoTypes
    <3> QED BY <1>3, <1>4, <3>1, <3>2
  <2>3. ASSUME r.pc[u] = "cvret", r.result[u] = "Success" PROVE r.tag[w[u]].owner = u
    <3>1. w[u] \in Mutexes /\ s.tag[w[u]].owner = u /\ s.pc[u] = "cvret"
      BY <1>1, <1>3, <2>3 DEF WordsHold
    <3>2. w[u] # a
      BY <1>2, <3>1
    <3> QED BY <1>4, <3>1, <3>2
  <2>4. ASSUME NEW b \in g[u] PROVE r.tag[b].owner = u
    <3>1. b \in h[u] /\ b \in Mutexes /\ (u = t => b # a)
      BY <1>2, <1>6
    <3>2. s.tag[b].owner = u
      BY <1>1, <3>1 DEF WordsHold
    <3>3. b # a
      BY <1>2, <3>1, <3>2
    <3> QED BY <1>4, <3>1, <3>2, <3>3
  <2> QED BY <2>1, <2>2, <2>3, <2>4
<1>9. WordsHold(r, w, g)
  BY <1>2, <1>6, <1>7, <1>8 DEF WordsHold
<1> QED BY <1>3, <1>5, <1>9 DEF CvSound

LEMMA PassLockIsSound ==
  ASSUME NEW s, NEW w, NEW h, NEW t, NEW a, NEW g, Releases(s, w, h, t, a, g),
         NEW r, r = PassLock(s, t, a)
  PROVE  CvSound(r, w, g) /\ r.pc[t] = "run"
<1>1. IsCvState(s) /\ LinksHold(s) /\ WordsHold(s, w, h) /\ CvSound(s, w, h)
  BY DEF CvSound, Releases
<1>2. t \in GuestThreads /\ a \in Mutexes /\ s.tag[a].owner = t
  BY <1>1 DEF WordsHold, Releases
<1>3. CASE \E n \in GuestThreads : PassedTo(s, r, t, a, n)
  <2>1. PICK n \in GuestThreads : PassedTo(s, r, t, a, n)
    BY <1>3
  <2> QED BY <2>1, PassedToIsSound
<1>4. CASE Waiters(s, t, a) = {} /\ Freed(s, r, a)
  <2>1. Unwanted(s, a)
    BY <1>4, NobodyWants
  <2> QED BY <1>4, <2>1, FreedIsSound
<1>5. \/ Waiters(s, t, a) = {} /\ Freed(s, r, a)
      \/ \E n \in GuestThreads : PassedTo(s, r, t, a, n)
  BY <1>1, <1>2, PassLockIs DEF Freed
<1> QED BY <1>3, <1>4, <1>5

-----------------------------------------------------------------------------
(* A thread taken out of the trees is woken, or linked anew.               *)

\* All is well, but for thread x: it waits, and is linked to nothing.
Unlinked(s, w, h, x) ==
  /\ IsCvState(s) /\ TimersHold(s) /\ WordsHold(s, w, h)
  /\ s.info[x] = NoInfo /\ s.key[x] = NoKey /\ s.pc[x] \in {"wait", "cvwait"}
  /\ \A t \in GuestThreads \ {x} :
       /\ s.info[t] # NoInfo => s.pc[t] \in {"wait", "cvwait"} /\ Has(s.queue, t)
       /\ s.key[t] # NoKey => s.pc[t] = "cvwait" /\ s.info[t] = NoInfo /\ Has(s.queue, t)
       /\ s.pc[t] = "wait" => s.info[t] # NoInfo
       /\ s.pc[t] = "cvwait" => s.info[t] # NoInfo \/ s.key[t] # NoKey

LEMMA EndWaitIsSound ==
  ASSUME NEW s, NEW w, NEW h, NEW x \in GuestThreads, Unlinked(s, w, h, x),
         NEW res \in CvResults, res = "Success" => s.tag[w[x]].owner = x,
         NEW r, r = EndWait(s, x, res)
  PROVE  CvSound(r, w, h) /\ r.key = s.key
<1>1. IsCvState(s) /\ TimersHold(s) /\ WordsHold(s, w, h)
  BY DEF Unlinked
<1>2. /\ IsCvState(r)
      /\ r.tag = s.tag /\ r.info = s.info /\ r.key = s.key /\ r.queue = s.queue
      /\ r.result = [s.result EXCEPT ![x] = res] /\ r.timer = s.timer \ {x}
      /\ r.pc = [s.pc EXCEPT ![x] = IF s.pc[x] = "wait" THEN "woken" ELSE "cvret"]
  BY <1>1, EndWaitIs
<1>3. /\ r.pc[x] \in {"woken", "cvret"} /\ r.result[x] = res
      /\ \A u \in GuestThreads : u # x => r.pc[u] = s.pc[u] /\ r.result[u] = s.result[u]
  <2>1. s.pc \in [GuestThreads -> CvPlaces] /\ s.result \in [GuestThreads -> CvResults]
    BY <1>1 DEF IsCvState
  <2> QED BY <1>2, <2>1
<1>4. LinksHold(r)
  BY <1>2, <1>3 DEF LinksHold, Unlinked
<1>5. TimersHold(r)
  <2>1. s.timer \in SUBSET GuestThreads
    BY <1>1 DEF IsCvState
  <2> QED BY <1>1, <1>2, <1>3, <2>1 DEF TimersHold
<1>6. WordsHold(r, w, h)
  <2>1. ASSUME NEW u \in GuestThreads
        PROVE  /\ r.pc[u] \notin {"run", "exited", "gone"} => w[u] \in Mutexes
               /\ r.info[u] # NoInfo =>
                    /\ r.tag[r.info[u].lock] = [owner |-> r.info[u].owner, wait |-> TRUE]
                    /\ r.info[u].lock = w[u]
               /\ r.pc[u] = "cvret" /\ r.result[u] = "Success" => r.tag[w[u]].owner = u
               /\ \A b \in h[u] : r.tag[b].owner = u
    <3>1. /\ s.pc[u] \notin {"run", "exited", "gone"} => w[u] \in Mutexes
          /\ s.info[u] # NoInfo =>
               /\ s.tag[s.info[u].lock] = [owner |-> s.info[u].owner, wait |-> TRUE]
               /\ s.info[u].lock = w[u]
          /\ s.pc[u] = "cvret" /\ s.result[u] = "Success" => s.tag[w[u]].owner = u
          /\ \A b \in h[u] : s.tag[b].owner = u
      BY <1>1 DEF WordsHold
    <3>2. CASE u = x
      <4>1. s.pc[x] \in {"wait", "cvwait"} /\ s.info[x] = NoInfo
        BY DEF Unlinked
      <4> QED BY <1>2, <1>3, <3>1, <3>2, <4>1
    <3>3. CASE u # x
      BY <1>2, <1>3, <3>1, <3>3
    <3> QED BY <3>2, <3>3
  <2> QED BY <1>1, <1>2, <2>1 DEF WordsHold
<1> QED BY <1>2, <1>4, <1>5, <1>6 DEF CvSound

\* A thread leaves the condition variable it waits for.
LeavesKey(s, r, x) ==
  r = [s EXCEPT !.key = [s.key EXCEPT ![x] = NoKey], !.queue = Without(s.queue, x)]

LeftKey(s, r, w, h, x) ==
  /\ Unlinked(r, w, h, x) /\ r.pc[x] = "cvwait"
  /\ \A u \in GuestThreads : u # x => r.key[u] = s.key[u]

LEMMA UnkeyedIsUnlinked ==
  ASSUME NEW s, NEW w, NEW h, NEW x \in GuestThreads, CvSound(s, w, h), s.key[x] # NoKey,
         NEW r, LeavesKey(s, r, x)
  PROVE  LeftKey(s, r, w, h, x)
<1>e. PICK e : e = [s.key EXCEPT ![x] = NoKey]
  OBVIOUS
<1>q. PICK q : q = Without(s.queue, x)
  OBVIOUS
<1>r. r = [s EXCEPT !.key = e, !.queue = q]
  BY <1>e, <1>q DEF LeavesKey
<1>1. IsCvState(s) /\ LinksHold(s) /\ TimersHold(s) /\ WordsHold(s, w, h)
  BY DEF CvSound
<1>2. q \in Seq(GuestThreads) /\ \A u : u # x /\ Has(s.queue, u) => Has(q, u)
  <2>1. s.queue \in Seq(GuestThreads)
    BY <1>1 DEF IsCvState
  <2> QED BY <1>q, <2>1, WithoutHas
<1>3. e \in [GuestThreads -> Keys \cup {NoKey}] /\ e[x] = NoKey
      /\ \A u \in GuestThreads : u # x => e[u] = s.key[u]
  BY <1>1, <1>e DEF IsCvState
<1>4. s = [tag |-> s.tag, info |-> s.info, key |-> s.key, queue |-> s.queue, prio |-> s.prio,
           base |-> s.base, result |-> s.result, timer |-> s.timer, pc |-> s.pc]
  BY <1>1 DEF IsCvState, Fields
<1>5. r = [tag |-> s.tag, info |-> s.info, key |-> e, queue |-> q, prio |-> s.prio,
           base |-> s.base, result |-> s.result, timer |-> s.timer, pc |-> s.pc]
  BY <1>4, <1>r
<1>6. /\ r = Fields(r) /\ r.tag = s.tag /\ r.info = s.info /\ r.key = e /\ r.queue = q
      /\ r.prio = s.prio /\ r.base = s.base /\ r.result = s.result /\ r.timer = s.timer
      /\ r.pc = s.pc
  BY <1>5 DEF Fields
<1>7. IsCvState(r)
  BY <1>1, <1>2, <1>3, <1>6 DEF IsCvState
<1>8. TimersHold(r)
  BY <1>1, <1>6 DEF TimersHold
<1>9. WordsHold(r, w, h)
  BY <1>1, <1>6 DEF WordsHold
<1>10. r.info[x] = NoInfo /\ r.key[x] = NoKey /\ r.pc[x] = "cvwait"
  BY <1>1, <1>3, <1>6 DEF LinksHold
<1>11. \A t \in GuestThreads \ {x} :
        /\ r.info[t] # NoInfo => r.pc[t] \in {"wait", "cvwait"} /\ Has(r.queue, t)
        /\ r.key[t] # NoKey => r.pc[t] = "cvwait" /\ r.info[t] = NoInfo /\ Has(r.queue, t)
        /\ r.pc[t] = "wait" => r.info[t] # NoInfo
        /\ r.pc[t] = "cvwait" => r.info[t] # NoInfo \/ r.key[t] # NoKey
  <2> SUFFICES ASSUME NEW t \in GuestThreads, t # x
               PROVE  /\ r.info[t] # NoInfo => r.pc[t] \in {"wait", "cvwait"} /\ Has(r.queue, t)
                      /\ r.key[t] # NoKey => r.pc[t] = "cvwait" /\ r.info[t] = NoInfo /\ Has(r.queue, t)
                      /\ r.pc[t] = "wait" => r.info[t] # NoInfo
                      /\ r.pc[t] = "cvwait" => r.info[t] # NoInfo \/ r.key[t] # NoKey
    OBVIOUS
  <2>1. /\ r.key[t] = s.key[t] /\ r.info[t] = s.info[t] /\ r.pc[t] = s.pc[t]
        /\ Has(s.queue, t) => Has(r.queue, t)
    BY <1>2, <1>3, <1>6
  <2> QED BY <1>1, <2>1 DEF LinksHold
<1> QED BY <1>3, <1>6, <1>7, <1>8, <1>9, <1>10, <1>11 DEF Unlinked, LeftKey

\* A thread leaves the lock it waits for.
LEMMA RemovedIsUnlinked ==
  ASSUME NEW s, NEW w, NEW h, NEW x \in GuestThreads, CvSound(s, w, h), s.info[x] # NoInfo,
         NEW r, r = RemoveWaiter(s, x)
  PROVE  Unlinked(r, w, h, x) /\ r.key = s.key /\ r.pc = s.pc
<1>1. IsCvState(s) /\ LinksHold(s) /\ TimersHold(s) /\ WordsHold(s, w, h)
  BY DEF CvSound
<1>2. Relinked(s, r, [s.info EXCEPT ![x] = NoInfo], {x})
  BY <1>1, RemoveWaiterIs
<1>3. /\ IsCvState(r) /\ r.info = [s.info EXCEPT ![x] = NoInfo]
      /\ r.tag = s.tag /\ r.key = s.key
      /\ r.result = s.result /\ r.timer = s.timer /\ r.pc = s.pc
      /\ \A u : u # x /\ Has(s.queue, u) => Has(r.queue, u)
  BY <1>2 DEF Relinked
<1>4. r.info[x] = NoInfo /\ \A u \in GuestThreads : u # x => r.info[u] = s.info[u]
  BY <1>1, <1>3 DEF IsCvState
<1>5. TimersHold(r)
  BY <1>1, <1>3 DEF TimersHold
<1>6. WordsHold(r, w, h)
  <2>1. ASSUME NEW u \in GuestThreads
        PROVE  /\ r.pc[u] \notin {"run", "exited", "gone"} => w[u] \in Mutexes
               /\ r.info[u] # NoInfo =>
                    /\ r.tag[r.info[u].lock] = [owner |-> r.info[u].owner, wait |-> TRUE]
                    /\ r.info[u].lock = w[u]
               /\ r.pc[u] = "cvret" /\ r.result[u] = "Success" => r.tag[w[u]].owner = u
               /\ \A b \in h[u] : r.tag[b].owner = u
    <3>1. /\ s.pc[u] \notin {"run", "exited", "gone"} => w[u] \in Mutexes
          /\ s.info[u] # NoInfo =>
               /\ s.tag[s.info[u].lock] = [owner |-> s.info[u].owner, wait |-> TRUE]
               /\ s.info[u].lock = w[u]
          /\ s.pc[u] = "cvret" /\ s.result[u] = "Success" => s.tag[w[u]].owner = u
          /\ \A b \in h[u] : s.tag[b].owner = u
      BY <1>1 DEF WordsHold
    <3>2. CASE u = x
      BY <1>3, <1>4, <3>1, <3>2
    <3>3. CASE u # x
      BY <1>3, <1>4, <3>1, <3>3
    <3> QED BY <3>2, <3>3
  <2> QED BY <1>1, <1>3, <2>1 DEF WordsHold
<1>7. r.key[x] = NoKey /\ r.pc[x] \in {"wait", "cvwait"}
  BY <1>1, <1>3 DEF LinksHold
<1>8. \A t \in GuestThreads \ {x} :
        /\ r.info[t] # NoInfo => r.pc[t] \in {"wait", "cvwait"} /\ Has(r.queue, t)
        /\ r.key[t] # NoKey => r.pc[t] = "cvwait" /\ r.info[t] = NoInfo /\ Has(r.queue, t)
        /\ r.pc[t] = "wait" => r.info[t] # NoInfo
        /\ r.pc[t] = "cvwait" => r.info[t] # NoInfo \/ r.key[t] # NoKey
  BY <1>1, <1>3, <1>4 DEF LinksHold
<1> QED BY <1>3, <1>4, <1>5, <1>6, <1>7, <1>8 DEF Unlinked

LEMMA CancelWaitIsSound ==
  ASSUME NEW s, NEW w, NEW h, NEW x \in GuestThreads, CvSound(s, w, h),
         s.pc[x] \in {"wait", "cvwait"},
         NEW res \in CvResults, res # "Success", NEW r, r = CancelWait(s, x, res)
  PROVE  CvSound(r, w, h)
<1>1. LinksHold(s)
  BY DEF CvSound
<1>2. CASE s.info[x] # NoInfo
  <2>1. PICK y : y = RemoveWaiter(s, x)
    OBVIOUS
  <2>2. Unlinked(y, w, h, x)
    BY <1>2, <2>1, RemovedIsUnlinked
  <2>3. y.key[x] = NoKey
    BY <2>2 DEF Unlinked
  <2>4. r = EndWait(y, x, res)
    BY <1>2, <2>1, <2>3 DEF CancelWait
  <2> QED BY <2>2, <2>4, EndWaitIsSound
<1>3. CASE s.info[x] = NoInfo
  <2>1. s.key[x] # NoKey
    BY <1>1, <1>3 DEF LinksHold
  <2>2. PICK y : LeavesKey(s, y, x)
    BY DEF LeavesKey
  <2>3. Unlinked(y, w, h, x)
    BY <2>1, <2>2, UnkeyedIsUnlinked DEF LeftKey
  <2>4. r = EndWait(y, x, res)
    BY <1>3, <2>1, <2>2 DEF CancelWait, LeavesKey
  <2> QED BY <2>3, <2>4, EndWaitIsSound
<1> QED BY <1>2, <1>3

-----------------------------------------------------------------------------
(* Signal().                                                               *)

\* A word that a free mutex or a held one may get: an owner, or the waiter bit.
Marks(s, a, v) ==
  /\ a \in Mutexes
  /\ \/ s.tag[a] = Free /\ v \in [owner: GuestThreads, wait: BOOLEAN]
     \/ s.tag[a] # Free /\ v = [owner |-> s.tag[a].owner, wait |-> TRUE]

Retagged(s, r, a, v) == r = [s EXCEPT !.tag = [s.tag EXCEPT ![a] = v]]

Marked(s, r, a, v) ==
  /\ IsCvState(r)
  /\ r.tag = [s.tag EXCEPT ![a] = v] /\ r.info = s.info /\ r.key = s.key
  /\ r.queue = s.queue /\ r.prio = s.prio /\ r.base = s.base
  /\ r.result = s.result /\ r.timer = s.timer /\ r.pc = s.pc

LEMMA MarkedIs ==
  ASSUME NEW s, NEW w, NEW h, IsCvState(s), WordsHold(s, w, h), NEW a, NEW v, Marks(s, a, v),
         NEW r, Retagged(s, r, a, v)
  PROVE  WordsHold(r, w, h) /\ Marked(s, r, a, v)
<1>1. a \in Mutexes /\ s.tag \in [Mutexes -> [owner: GuestThreads \cup {NoThread}, wait: BOOLEAN]]
  BY DEF IsCvState, Marks
<1>2. NoThread \notin GuestThreads
  BY CvAssumption
<1>3. /\ v \in [owner: GuestThreads \cup {NoThread}, wait: BOOLEAN]
      /\ v.owner \in GuestThreads
      /\ s.tag[a] # Free => v = [owner |-> s.tag[a].owner, wait |-> TRUE]
  <2>1. CASE s.tag[a] = Free /\ v \in [owner: GuestThreads, wait: BOOLEAN]
    BY <2>1
  <2>2. CASE s.tag[a] # Free /\ v = [owner |-> s.tag[a].owner, wait |-> TRUE]
    <3>1. s.tag[a].owner # NoThread
      BY <1>1, <2>2 DEF WordsHold
    <3>2. s.tag[a].owner \in GuestThreads
      BY <1>1, <3>1
    <3> QED BY <2>2, <3>2
  <2> QED BY <2>1, <2>2 DEF Marks
<1>4. PICK e : e = [s.tag EXCEPT ![a] = v]
  OBVIOUS
<1>5. r = [s EXCEPT !.tag = e]
  BY <1>4 DEF Retagged
<1>6. /\ IsCvState(r)
      /\ r.tag = e /\ r.info = s.info /\ r.key = s.key
      /\ r.queue = s.queue /\ r.prio = s.prio /\ r.base = s.base
      /\ r.result = s.result /\ r.timer = s.timer /\ r.pc = s.pc
  BY <1>1, <1>3, <1>4, <1>5, SetTagIs
<1>7. r.tag[a] = v /\ \A b \in Mutexes : b # a => r.tag[b] = s.tag[b]
  BY <1>1, <1>4, <1>6
<1>8. Free.owner = NoThread
  BY DEF Free
<1>9. ASSUME NEW b \in Mutexes, NEW u \in GuestThreads, s.tag[b].owner = u
      PROVE  r.tag[b].owner = u
  <2>1. CASE b = a
    <3>1. s.tag[a] # Free
      BY <1>2, <1>8, <1>9, <2>1
    <3> QED BY <1>3, <1>7, <1>9, <2>1, <3>1
  <2> QED BY <1>7, <1>9, <2>1
<1>10. ASSUME NEW b \in Mutexes, NEW u \in GuestThreads, s.tag[b] = [owner |-> u, wait |-> TRUE]
       PROVE  r.tag[b] = [owner |-> u, wait |-> TRUE]
  <2>1. CASE b = a
    <3>1. s.tag[a].owner = u
      BY <1>10, <2>1
    <3>2. s.tag[a] # Free
      BY <1>2, <1>8, <3>1
    <3> QED BY <1>3, <1>7, <2>1, <3>1, <3>2
  <2> QED BY <1>7, <1>10, <2>1
<1>11. ASSUME NEW u \in GuestThreads
       PROVE  /\ r.pc[u] \notin {"run", "exited", "gone"} => w[u] \in Mutexes
              /\ r.info[u] # NoInfo =>
                   /\ r.tag[r.info[u].lock] = [owner |-> r.info[u].owner, wait |-> TRUE]
                   /\ r.info[u].lock = w[u]
              /\ r.pc[u] = "cvret" /\ r.result[u] = "Success" => r.tag[w[u]].owner = u
              /\ \A b \in h[u] : r.tag[b].owner = u
  <2>1. /\ s.pc[u] \notin {"run", "exited", "gone"} => w[u] \in Mutexes
        /\ s.info[u] # NoInfo =>
             /\ s.tag[s.info[u].lock] = [owner |-> s.info[u].owner, wait |-> TRUE]
             /\ s.info[u].lock = w[u]
        /\ s.pc[u] = "cvret" /\ s.result[u] = "Success" => s.tag[w[u]].owner = u
        /\ \A b \in h[u] : s.tag[b].owner = u /\ b \in Mutexes
    BY DEF WordsHold
  <2>2. s.info[u] # NoInfo => s.info[u].owner \in GuestThreads /\ s.info[u].lock \in Mutexes
    BY InfoTypes
  <2>3. ASSUME r.info[u] # NoInfo
        PROVE  /\ r.tag[r.info[u].lock] = [owner |-> r.info[u].owner, wait |-> TRUE]
               /\ r.info[u].lock = w[u]
    BY <1>6, <1>10, <2>1, <2>2, <2>3
  <2>4. ASSUME r.pc[u] = "cvret", r.result[u] = "Success" PROVE r.tag[w[u]].owner = u
    BY <1>6, <1>9, <2>1, <2>4
  <2>5. \A b \in h[u] : r.tag[b].owner = u
    BY <1>9, <2>1
  <2> QED BY <1>6, <2>1, <2>3, <2>4, <2>5
<1>12. \A b \in Mutexes : r.tag[b].owner = NoThread => r.tag[b] = Free
  BY <1>2, <1>3, <1>7 DEF WordsHold
<1>13. WordsHold(r, w, h)
  BY <1>11, <1>12 DEF WordsHold
<1> QED BY <1>4, <1>6, <1>13 DEF Marked

LEMMA MarkedIsUnlinked ==
  ASSUME NEW s, NEW w, NEW h, NEW x \in GuestThreads, Unlinked(s, w, h, x),
         NEW a, NEW v, Marks(s, a, v), NEW r, Retagged(s, r, a, v)
  PROVE  Unlinked(r, w, h, x)
<1>1. IsCvState(s) /\ TimersHold(s) /\ WordsHold(s, w, h)
  BY DEF Unlinked
<1>2. /\ IsCvState(r) /\ WordsHold(r, w, h)
      /\ r.info = s.info /\ r.key = s.key
      /\ r.queue = s.queue /\ r.timer = s.timer /\ r.pc = s.pc
  <2>1. WordsHold(r, w, h) /\ Marked(s, r, a, v)
    BY <1>1, MarkedIs
  <2> QED BY <2>1 DEF Marked
<1>3. TimersHold(r)
  BY <1>1, <1>2 DEF TimersHold
<1> QED BY <1>2, <1>3 DEF Unlinked

\* Thread x is linked to the lock a of o, and only it changes.
Links(s, r, x, o, a) ==
  /\ o \in GuestThreads /\ a \in Mutexes /\ s.tag[a] = [owner |-> o, wait |-> TRUE]
  /\ IsCvState(r)
  /\ r.tag = s.tag /\ r.info = [s.info EXCEPT ![x] = [owner |-> o, lock |-> a]]
  /\ r.key = s.key /\ r.result = s.result /\ r.timer = s.timer
  /\ r.pc[x] \in {"wait", "cvwait"} /\ \A u \in GuestThreads \ {x} : r.pc[u] = s.pc[u]
  /\ Has(r.queue, x) /\ \A u : Has(s.queue, u) => Has(r.queue, u)

\* All is well but for the links of thread x, which has none.
Detached(s, w, h, x) ==
  /\ IsCvState(s) /\ TimersHold(s) /\ WordsHold(s, w, h)
  /\ s.info[x] = NoInfo /\ s.key[x] = NoKey
  /\ \A t \in GuestThreads \ {x} :
       /\ s.info[t] # NoInfo => s.pc[t] \in {"wait", "cvwait"} /\ Has(s.queue, t)
       /\ s.key[t] # NoKey => s.pc[t] = "cvwait" /\ s.info[t] = NoInfo /\ Has(s.queue, t)
       /\ s.pc[t] = "wait" => s.info[t] # NoInfo
       /\ s.pc[t] = "cvwait" => s.info[t] # NoInfo \/ s.key[t] # NoKey

LEMMA LinkedIsSound ==
  ASSUME NEW s, NEW w, NEW h, NEW x \in GuestThreads, Detached(s, w, h, x),
         NEW r, NEW o, NEW a, Links(s, r, x, o, a), a = w[x],
         x \in s.timer => r.pc[x] = "cvwait"
  PROVE  CvSound(r, w, h)
<1>1. IsCvState(s) /\ IsCvState(r) /\ TimersHold(s) /\ WordsHold(s, w, h)
  BY DEF Detached, Links
<1>2. /\ r.tag = s.tag /\ r.key = s.key /\ r.result = s.result /\ r.timer = s.timer
      /\ r.pc[x] \in {"wait", "cvwait"} /\ \A u \in GuestThreads : u # x => r.pc[u] = s.pc[u]
      /\ Has(r.queue, x) /\ \A u : Has(s.queue, u) => Has(r.queue, u)
      /\ o \in GuestThreads /\ a \in Mutexes /\ s.tag[a] = [owner |-> o, wait |-> TRUE]
  BY DEF Links
<1>3. /\ r.info[x] = [owner |-> o, lock |-> a] /\ r.info[x] # NoInfo
      /\ \A u \in GuestThreads : u # x => r.info[u] = s.info[u]
  <2>1. r.info = [s.info EXCEPT ![x] = [owner |-> o, lock |-> a]]
        /\ s.info \in [GuestThreads -> Infos \cup {NoInfo}]
    BY <1>1 DEF Links, IsCvState
  <2>2. r.info[x] = [owner |-> o, lock |-> a]
        /\ \A u \in GuestThreads : u # x => r.info[u] = s.info[u]
    BY <2>1
  <2>3. [owner |-> o, lock |-> a] # NoInfo
    BY <1>1, <1>2, InfoTypes
  <2> QED BY <2>2, <2>3
<1>4. LinksHold(r)
  <2>1. s.key[x] = NoKey
    BY DEF Detached
  <2> QED BY <1>2, <1>3, <2>1 DEF LinksHold, Detached
<1>5. TimersHold(r)
  <2>1. s.timer \in SUBSET GuestThreads
    BY <1>1 DEF IsCvState
  <2> QED BY <1>1, <1>2, <2>1 DEF TimersHold
<1>6. WordsHold(r, w, h)
  <2>1. ASSUME NEW u \in GuestThreads
        PROVE  /\ r.pc[u] \notin {"run", "exited", "gone"} => w[u] \in Mutexes
               /\ r.info[u] # NoInfo =>
                    /\ r.tag[r.info[u].lock] = [owner |-> r.info[u].owner, wait |-> TRUE]
                    /\ r.info[u].lock = w[u]
               /\ r.pc[u] = "cvret" /\ r.result[u] = "Success" => r.tag[w[u]].owner = u
               /\ \A b \in h[u] : r.tag[b].owner = u
    <3>1. /\ s.pc[u] \notin {"run", "exited", "gone"} => w[u] \in Mutexes
          /\ s.info[u] # NoInfo =>
               /\ s.tag[s.info[u].lock] = [owner |-> s.info[u].owner, wait |-> TRUE]
               /\ s.info[u].lock = w[u]
          /\ s.pc[u] = "cvret" /\ s.result[u] = "Success" => s.tag[w[u]].owner = u
          /\ \A b \in h[u] : s.tag[b].owner = u
      BY <1>1 DEF WordsHold
    <3>2. CASE u = x
      <4>1. w[x] \in Mutexes /\ r.pc[x] # "cvret"
        BY <1>2
      <4>2. r.info[x].owner = o /\ r.info[x].lock = a
        BY <1>3
      <4>3. r.tag[r.info[x].lock] = [owner |-> r.info[x].owner, wait |-> TRUE]
            /\ r.info[x].lock = w[x]
        BY <1>2, <4>2
      <4> QED BY <1>2, <3>1, <3>2, <4>1, <4>3
    <3>3. CASE u # x
      BY <1>2, <1>3, <3>1, <3>3
    <3> QED BY <3>2, <3>3
  <2> QED BY <1>1, <1>2, <2>1 DEF WordsHold
<1> QED BY <1>1, <1>4, <1>5, <1>6 DEF CvSound

LEMMA SignalImplIsSound ==
  ASSUME NEW s, NEW x \in GuestThreads, Unlinked(s, want, held, x), s.pc[x] = "cvwait",
         NEW r, r = SignalImpl(s, x)
  PROVE  CvSound(r, want, held) /\ r.key = s.key
<1>1. IsCvState(s) /\ TimersHold(s) /\ WordsHold(s, want, held)
  BY DEF Unlinked
<1>2. PICK a \in Mutexes : a = want[x]
  BY <1>1 DEF WordsHold
<1>3. s.tag[a] \in [owner: GuestThreads \cup {NoThread}, wait: BOOLEAN]
  BY <1>1 DEF IsCvState
<1>4. PICK prev : prev = s.tag[a]
  OBVIOUS
<1>5. PICK v : v = IF prev = Free THEN [owner |-> x, wait |-> FALSE]
                   ELSE [owner |-> prev.owner, wait |-> TRUE]
  OBVIOUS
<1>6. PICK y : Retagged(s, y, a, v)
  BY DEF Retagged
<1>7. Marks(s, a, v)
  BY <1>4, <1>5 DEF Marks
<1>8. Unlinked(y, want, held, x)
  BY <1>6, <1>7, MarkedIsUnlinked
<1>9. /\ IsCvState(y) /\ y.tag = [s.tag EXCEPT ![a] = v] /\ y.key = s.key /\ y.pc = s.pc
  <2>1. Marked(s, y, a, v)
    BY <1>1, <1>6, <1>7, MarkedIs
  <2> QED BY <2>1 DEF Marked
<1>10. y.tag[a] = v
  BY <1>1, <1>9 DEF IsCvState
<1>11. r = IF prev = Free THEN EndWait(y, x, "Success")
           ELSE IF IsValidHandle(prev.owner) THEN AddWaiter(y, prev.owner, x, a)
           ELSE EndWait(y, x, "InvalidState")
  BY <1>2, <1>4, <1>5, <1>6 DEF SignalImpl, Retagged
<1>12. CASE prev = Free
  <2>1. r = EndWait(y, x, "Success") /\ "Success" \in CvResults
    BY <1>11, <1>12 DEF CvResults
  <2>2. y.tag[want[x]].owner = x
    BY <1>2, <1>5, <1>10, <1>12
  <2>3. CvSound(r, want, held) /\ r.key = y.key
    BY <1>8, <2>1, <2>2, EndWaitIsSound
  <2> QED BY <1>9, <2>3
<1>13. CASE prev # Free /\ ~IsValidHandle(prev.owner)
  <2>1. r = EndWait(y, x, "InvalidState") /\ "InvalidState" \in CvResults
    BY <1>11, <1>13 DEF CvResults
  <2>2. CvSound(r, want, held) /\ r.key = y.key
    BY <1>8, <2>1, EndWaitIsSound
  <2> QED BY <1>9, <2>2
<1>14. CASE prev # Free /\ IsValidHandle(prev.owner)
  <2>1. PICK o \in GuestThreads : o = prev.owner
    BY <1>3, <1>4, <1>14 DEF IsValidHandle
  <2>2. r = AddWaiter(y, o, x, a)
    BY <1>11, <1>14, <2>1
  <2>3. PICK f : f = [y.info EXCEPT ![x] = [owner |-> o, lock |-> a]]
    OBVIOUS
  <2>4. Relinked(y, r, f, {}) /\ Has(r.queue, x)
    BY <1>9, <2>2, <2>3, AddWaiterIs
  <2>5. y.tag[a] = [owner |-> o, wait |-> TRUE]
    BY <1>5, <1>10, <1>14, <2>1
  <2>6. Links(y, r, x, o, a)
    BY <1>9, <2>3, <2>4, <2>5 DEF Links, Relinked
  <2>7. Detached(y, want, held, x)
    BY <1>8 DEF Unlinked, Detached
  <2>8. x \in y.timer => r.pc[x] = "cvwait"
    BY <1>9, <2>4 DEF Relinked
  <2>9. CvSound(r, want, held)
    BY <1>2, <2>6, <2>7, <2>8, LinkedIsSound
  <2>10. r.key = y.key
    BY <2>4 DEF Relinked
  <2> QED BY <1>9, <2>9, <2>10
<1> QED BY <1>12, <1>13, <1>14

\* The iterator of Signal() is at the end, or at a thread that waits for a key.
Iterates(z, it) == it = NoThread \/ (it \in GuestThreads /\ z.key[it] # NoKey)

LEMMA FrontIterates ==
  ASSUME NEW s, IsCvState(s), LinksHold(s), NEW S \in SUBSET GuestThreads,
         \A x \in S : s.key[x] # NoKey, NEW n, n = Front(s, S)
  PROVE  n = NoThread \/ n \in S
<1>1. \A x \in S : Has(s.queue, x)
  BY DEF LinksHold
<1> QED BY <1>1, FrontIsIn

Signalled(s, x, r) ==
  CvSound(r, want, held) /\ \A u \in GuestThreads : u # x => r.key[u] = s.key[u]

LEMMA SignalledIsSound ==
  ASSUME NEW s, CvSound(s, want, held), NEW x \in GuestThreads, s.key[x] # NoKey,
         NEW u, LeavesKey(s, u, x), NEW r, r = SignalImpl(u, x)
  PROVE  Signalled(s, x, r)
<1>1. /\ Unlinked(u, want, held, x) /\ u.pc[x] = "cvwait"
      /\ \A v \in GuestThreads : v # x => u.key[v] = s.key[v]
  <2>1. LeftKey(s, u, want, held, x)
    BY UnkeyedIsUnlinked
  <2> QED BY <2>1 DEF LeftKey
<1>2. CvSound(r, want, held) /\ r.key = u.key
  BY <1>1, SignalImplIsSound
<1> QED BY <1>1, <1>2 DEF Signalled

LEMMA SignalRoundIsSound ==
  ASSUME NEW x, NEW count, NEW z, NEW i, x.s = z, x.it = i,
         CvSound(z, want, held), Iterates(z, i), NEW y, y = SignalRound(x, count)
  PROVE  CvSound(y.s, want, held) /\ Iterates(y.s, y.it)
<1>1. CASE y = x
  BY <1>1
<1>2. CASE y # x
  <2>3. PICK u : LeavesKey(z, u, i)
    BY DEF LeavesKey
  <2>4. PICK r : r = SignalImpl(u, i)
    OBVIOUS
  <2>5. i # NoThread /\ y = [it |-> CvSuccessor(z, i), num |-> x.num + 1, s |-> r]
    <3>1. x.s = z /\ x.it = i
      OBVIOUS
    <3> QED BY <1>2, <2>3, <2>4, <3>1 DEF SignalRound, LeavesKey
  <2>6. i \in GuestThreads /\ z.key[i] # NoKey
    BY <2>5 DEF Iterates
  <2>7. Signalled(z, i, r)
    BY <2>3, <2>4, <2>6, SignalledIsSound
  <2>8. CvSound(r, want, held) /\ \A v \in GuestThreads : v # i => r.key[v] = z.key[v]
    BY <2>7 DEF Signalled
  <2>9. IsCvState(z) /\ LinksHold(z)
    BY DEF CvSound
  <2> DEFINE S == {v \in CvWaiters(z, z.key[i]) \ {i} : Precedes(z, i, v)}
  <2>10. S \in SUBSET GuestThreads /\ \A v \in S : z.key[v] # NoKey /\ v # i
    BY <2>6 DEF CvWaiters
  <2>11. CvSuccessor(z, i) = Front(z, S)
    BY DEF CvSuccessor
  <2> HIDE DEF S
  <2>12. PICK n : n = Front(z, S)
    OBVIOUS
  <2>13. n = NoThread \/ n \in S
    BY <2>9, <2>10, <2>12, FrontIterates
  <2>14. y.s = r /\ y.it = n
    BY <2>5, <2>11, <2>12
  <2>15. n # NoThread => n \in GuestThreads /\ r.key[n] # NoKey
    <3>2. ASSUME n \in S PROVE n \in GuestThreads /\ n # i /\ z.key[n] # NoKey
      BY <2>10, <3>2
    <3>3. ASSUME n \in S PROVE r.key[n] # NoKey
      BY <2>8, <3>2, <3>3
    <3> QED BY <2>13, <3>2, <3>3
  <2> QED BY <2>8, <2>14, <2>15 DEF Iterates
<1> QED BY <1>1, <1>2

\* The rounds of Signal().
SignalRounds(F, f, count, n) ==
  F = [k \in 0..n |-> IF k = 0 THEN f ELSE SignalRound(F[k - 1], count)]

LEMMA SignallingExists ==
  ASSUME NEW f, NEW count, NEW m \in Nat
  PROVE  \E F : SignalRounds(F, f, count, m)
<1> DEFINE B == {n \in Nat : ~ \E F : SignalRounds(F, f, count, n)}
<1>1. 0 \notin B
  <2> DEFINE F == [k \in 0..0 |-> f]
  <2>1. SignalRounds(F, f, count, 0)
    BY DEF SignalRounds
  <2> QED BY <2>1
<1>2. ASSUME NEW n \in Nat, n \notin B PROVE n + 1 \notin B
  <2>1. PICK F : SignalRounds(F, f, count, n)
    BY <1>2
  <2> DEFINE G == [k \in 0..(n + 1) |-> IF k = 0 THEN f ELSE SignalRound(F[k - 1], count)]
  <2>2. \A k \in 0..n : G[k] = F[k]
    BY <2>1 DEF SignalRounds
  <2>3. \A k \in 0..(n + 1) : k # 0 => k - 1 \in 0..n
    OBVIOUS
  <2>4. \A k \in 0..(n + 1) : G[k] = IF k = 0 THEN f ELSE SignalRound(G[k - 1], count)
    BY <2>2, <2>3
  <2>5. SignalRounds(G, f, count, n + 1)
    BY <2>4 DEF SignalRounds
  <2> QED BY <2>5
<1>3. B = {}
  <2> SUFFICES ASSUME B # {} PROVE FALSE
    OBVIOUS
  <2>1. B \subseteq Nat
    OBVIOUS
  <2> HIDE DEF B
  <2>2. PICK n \in B : \A k \in B : n <= k
    BY <2>1, LeastNatural
  <2>3. n \in Nat /\ n # 0 /\ n - 1 \in Nat /\ n - 1 \notin B
    BY <1>1, <2>1, <2>2
  <2> QED BY <1>2, <2>2, <2>3
<1> QED BY <1>3

LEMMA SignalLoopIsSound ==
  ASSUME NEW s, CvSound(s, want, held), NEW k \in Keys, NEW count,
         NEW r, r = SignalLoop(s, k, count)
  PROVE  CvSound(r.s, want, held)
<1> DEFINE N == Cardinality(GuestThreads)
           f == [it |-> Front(s, CvWaiters(s, k)), num |-> 0, s |-> s]
           F == CHOOSE G : SignalRounds(G, f, count, N)
           Fine(x) == CvSound(x.s, want, held) /\ Iterates(x.s, x.it)
<1>1. N \in Nat
  BY ThreadsAreCounted
<1>2. SignalRounds(F, f, count, N)
  <2> HIDE DEF f
  <2> QED BY <1>1, SignallingExists
<1>3. r = F[N]
  BY DEF SignalLoop, SignalRounds
<1>4. Fine(f)
  <2>1. PICK n : n = Front(s, CvWaiters(s, k))
    OBVIOUS
  <2>2. CvWaiters(s, k) \in SUBSET GuestThreads /\ \A x \in CvWaiters(s, k) : s.key[x] # NoKey
    BY CvAssumption DEF CvWaiters
  <2>3. n = NoThread \/ n \in CvWaiters(s, k)
    <3>1. IsCvState(s) /\ LinksHold(s)
      BY DEF CvSound
    <3> QED BY <2>1, <2>2, <3>1, FrontIterates
  <2>4. f.s = s /\ f.it = n
    BY <2>1
  <2> QED BY <2>2, <2>3, <2>4 DEF Iterates
<1> HIDE DEF F, N, f
<1>5. /\ F[0] = f
      /\ \A n \in 0..N : n # 0 => F[n] = SignalRound(F[n - 1], count)
  BY <1>1, <1>2 DEF SignalRounds
<1>6. ASSUME NEW n \in 0..N, n # 0, Fine(F[n - 1]) PROVE Fine(F[n])
  <2>1. PICK x : x = F[n - 1]
    OBVIOUS
  <2>2. PICK z : z = x.s
    OBVIOUS
  <2>3. PICK i : i = x.it
    OBVIOUS
  <2>4. PICK y : y = F[n]
    OBVIOUS
  <2>5. y = SignalRound(x, count) /\ CvSound(z, want, held) /\ Iterates(z, i)
    BY <1>5, <1>6, <2>1, <2>2, <2>3, <2>4
  <2>6. CvSound(y.s, want, held) /\ Iterates(y.s, y.it)
    BY <2>2, <2>3, <2>5, SignalRoundIsSound
  <2> QED BY <2>4, <2>6
<1> HIDE DEF Fine
<1>7. \A n \in 0..N : Fine(F[n])
  <2> DEFINE B == {n \in 0..N : ~Fine(F[n])}
  <2> SUFFICES ASSUME B # {} PROVE FALSE
    OBVIOUS
  <2>1. B \subseteq Nat
    BY <1>1
  <2>2. PICK n \in B : \A j \in B : n <= j
    <3> HIDE DEF B
    <3> QED BY <2>1, LeastNatural
  <2>3. n # 0
    BY <1>4, <1>5, <2>2
  <2>4. n \in 0..N /\ n - 1 \in 0..N /\ n - 1 \notin B
    BY <1>1, <2>2, <2>3
  <2>5. Fine(F[n - 1])
    BY <2>4
  <2> QED BY <1>6, <2>2, <2>3, <2>4, <2>5
<1> QED BY <1>1, <1>3, <1>7 DEF Fine

-----------------------------------------------------------------------------
(* Each action.                                                            *)

\* Only the places and the results differ, and those of thread t do, which is in
\* no wait before and after; so do the mutexes it wants and holds.
Moves(s, r, w, x, h, g, t) ==
  /\ CvSound(s, w, h) /\ t \in GuestThreads /\ IsCvState(r)
  /\ s.pc[t] \notin {"wait", "cvwait"} /\ r.pc[t] \notin {"wait", "cvwait"}
  /\ r.tag = s.tag /\ r.info = s.info /\ r.key = s.key /\ r.queue = s.queue /\ r.timer = s.timer
  /\ x \in [GuestThreads -> Mutexes \cup {0}] /\ g \in [GuestThreads -> SUBSET Mutexes]
  /\ \A u \in GuestThreads \ {t} :
       r.pc[u] = s.pc[u] /\ r.result[u] = s.result[u] /\ x[u] = w[u] /\ g[u] = h[u]
  /\ r.pc[t] \notin {"run", "exited", "gone"} => x[t] \in Mutexes
  /\ r.pc[t] = "cvret" /\ r.result[t] = "Success" => r.tag[x[t]].owner = t
  /\ \A a \in g[t] : r.tag[a].owner = t

LEMMA MovesIsSound ==
  ASSUME NEW s, NEW r, NEW w, NEW x, NEW h, NEW g, NEW t, Moves(s, r, w, x, h, g, t)
  PROVE  CvSound(r, x, g)
<1>1. /\ IsCvState(s) /\ LinksHold(s) /\ TimersHold(s) /\ WordsHold(s, w, h)
      /\ IsCvState(r) /\ t \in GuestThreads
  BY DEF Moves, CvSound
<1>2. /\ r.tag = s.tag /\ r.info = s.info /\ r.key = s.key /\ r.queue = s.queue /\ r.timer = s.timer
      /\ s.pc[t] \notin {"wait", "cvwait"} /\ r.pc[t] \notin {"wait", "cvwait"}
      /\ \A u \in GuestThreads : u # t =>
           r.pc[u] = s.pc[u] /\ r.result[u] = s.result[u] /\ x[u] = w[u] /\ g[u] = h[u]
  BY DEF Moves
<1>3. s.info[t] = NoInfo /\ s.key[t] = NoKey /\ t \notin s.timer
  BY <1>1, <1>2 DEF LinksHold, TimersHold
<1>4. LinksHold(r)
  <2> SUFFICES ASSUME NEW u \in GuestThreads
               PROVE  /\ r.info[u] # NoInfo => r.pc[u] \in {"wait", "cvwait"} /\ Has(r.queue, u)
                      /\ r.key[u] # NoKey => r.pc[u] = "cvwait" /\ r.info[u] = NoInfo /\ Has(r.queue, u)
                      /\ r.pc[u] = "wait" => r.info[u] # NoInfo
                      /\ r.pc[u] = "cvwait" => r.info[u] # NoInfo \/ r.key[u] # NoKey
    BY DEF LinksHold
  <2>1. CASE u = t
    BY <1>2, <1>3, <2>1
  <2>2. CASE u # t
    BY <1>1, <1>2, <2>2 DEF LinksHold
  <2> QED BY <2>1, <2>2
<1>5. TimersHold(r)
  <2>1. s.timer \in SUBSET GuestThreads
    BY <1>1 DEF IsCvState
  <2> QED BY <1>1, <1>2, <1>3, <2>1 DEF TimersHold
<1>6. ASSUME NEW u \in GuestThreads
      PROVE  /\ r.pc[u] \notin {"run", "exited", "gone"} => x[u] \in Mutexes
             /\ r.info[u] # NoInfo =>
                  /\ r.tag[r.info[u].lock] = [owner |-> r.info[u].owner, wait |-> TRUE]
                  /\ r.info[u].lock = x[u]
             /\ r.pc[u] = "cvret" /\ r.result[u] = "Success" => r.tag[x[u]].owner = u
             /\ \A b \in g[u] : r.tag[b].owner = u
  <2>1. CASE u = t
    BY <1>2, <1>3, <2>1 DEF Moves
  <2>2. CASE u # t
    <3>1. /\ s.pc[u] \notin {"run", "exited", "gone"} => w[u] \in Mutexes
          /\ s.info[u] # NoInfo =>
               /\ s.tag[s.info[u].lock] = [owner |-> s.info[u].owner, wait |-> TRUE]
               /\ s.info[u].lock = w[u]
          /\ s.pc[u] = "cvret" /\ s.result[u] = "Success" => s.tag[w[u]].owner = u
          /\ \A b \in h[u] : s.tag[b].owner = u
      BY <1>1 DEF WordsHold
    <3> QED BY <1>2, <2>2, <3>1
  <2> QED BY <2>1, <2>2
<1>7. x \in [GuestThreads -> Mutexes \cup {0}] /\ g \in [GuestThreads -> SUBSET Mutexes]
  BY DEF Moves
<1>8. \A b \in Mutexes : r.tag[b].owner = NoThread => r.tag[b] = Free
  BY <1>1, <1>2 DEF WordsHold
<1>9. WordsHold(r, x, g)
  BY <1>6, <1>7, <1>8 DEF WordsHold
<1> QED BY <1>1, <1>4, <1>5, <1>9 DEF CvSound

LEMMA ReorderedIsSound ==
  ASSUME NEW s, NEW w, NEW h, CvSound(s, w, h), NEW r, Reordered(s, r)
  PROVE  CvSound(r, w, h)
<1>1. IsCvState(s) /\ LinksHold(s) /\ TimersHold(s) /\ WordsHold(s, w, h) /\ IsCvState(r)
  BY DEF CvSound, Reordered
<1>2. /\ r.tag = s.tag /\ r.info = s.info /\ r.key = s.key
      /\ r.result = s.result /\ r.timer = s.timer /\ r.pc = s.pc
      /\ \A u : Has(s.queue, u) => Has(r.queue, u)
  BY DEF Reordered
<1>3. LinksHold(r)
  BY <1>1, <1>2 DEF LinksHold
<1>4. TimersHold(r)
  BY <1>1, <1>2 DEF TimersHold
<1>5. WordsHold(r, w, h)
  BY <1>1, <1>2 DEF WordsHold
<1> QED BY <1>1, <1>3, <1>4, <1>5 DEF CvSound

\* The call is the next state.
LEMMA ApplyIs ==
  ASSUME NEW r, IsCvState(r), Apply(r)
  PROVE  State' = r
<1>1. /\ m_tag' = r.tag /\ m_waiting_lock_info' = r.info
      /\ m_condvar_key' = r.key /\ m_queue' = r.queue
      /\ m_priority' = r.prio /\ m_base_priority' = r.base
      /\ m_wait_result' = r.result /\ m_timer' = r.timer /\ pc' = r.pc
  BY DEF Apply
<1>2. r = Fields(r)
  BY DEF IsCvState
<1> QED BY <1>1, <1>2 DEF State, Fields

LEMMA StateFields ==
  /\ State.tag = m_tag /\ State.info = m_waiting_lock_info /\ State.key = m_condvar_key
  /\ State.queue = m_queue /\ State.prio = m_priority /\ State.base = m_base_priority
  /\ State.result = m_wait_result /\ State.timer = m_timer /\ State.pc = pc
  BY DEF State

LEMMA NextIsSound ==
  ASSUME NEW r, CvSound(r, want', held'), State' = r,
         seen' \in [GuestThreads -> GuestThreads \cup {NoThread}]
  PROVE  CvInv'
<1>1. CvSound(State', want', held')
  OBVIOUS
<1> QED BY <1>1 DEF CvInv

LEMMA AppliedIsSound ==
  ASSUME NEW r, CvSound(r, want', held'), Apply(r),
         seen' \in [GuestThreads -> GuestThreads \cup {NoThread}]
  PROVE  CvInv'
<1>1. State' = r
  BY ApplyIs DEF CvSound
<1> QED BY <1>1, NextIsSound

LEMMA GuestLockIsSound ==
  ASSUME CvInv, NEW t \in GuestThreads, NEW a \in Mutexes, GuestLock(t, a)
  PROVE  CvInv'
<1>1. PICK s : s = State
  OBVIOUS
<1>2. /\ IsCvState(s) /\ LinksHold(s) /\ TimersHold(s) /\ WordsHold(s, want, held)
      /\ CvSound(s, want, held)
  BY <1>1 DEF CvInv, CvSound
<1>3. /\ s.tag = m_tag /\ s.info = m_waiting_lock_info /\ s.key = m_condvar_key
      /\ s.queue = m_queue /\ s.prio = m_priority /\ s.base = m_base_priority
      /\ s.result = m_wait_result /\ s.timer = m_timer /\ s.pc = pc
  BY <1>1, StateFields
<1>4. s.pc[t] \in {"run", "relock"}
  BY <1>3 DEF GuestLock, Starts
<1>5. /\ want \in [GuestThreads -> Mutexes \cup {0}] /\ held \in [GuestThreads -> SUBSET Mutexes]
      /\ pc \in [GuestThreads -> CvPlaces]
  BY <1>2, <1>3 DEF WordsHold, IsCvState
<1>6. PICK v : v = IF m_tag[a] = Free THEN [owner |-> t, wait |-> FALSE]
                   ELSE [owner |-> m_tag[a].owner, wait |-> TRUE]
  OBVIOUS
<1>7. Marks(s, a, v)
  BY <1>3, <1>6 DEF Marks
<1>8. PICK y : Retagged(s, y, a, v)
  BY DEF Retagged
<1>9. WordsHold(y, want, held) /\ Marked(s, y, a, v)
  BY <1>2, <1>7, <1>8, MarkedIs
<1>10. /\ IsCvState(y)
       /\ y.tag = [s.tag EXCEPT ![a] = v] /\ y.info = s.info /\ y.key = s.key
       /\ y.queue = s.queue /\ y.prio = s.prio /\ y.base = s.base
       /\ y.result = s.result /\ y.timer = s.timer /\ y.pc = s.pc
  BY <1>9 DEF Marked
<1>11. CvSound(y, want, held)
  BY <1>2, <1>9, <1>10 DEF CvSound, LinksHold, TimersHold
<1>12. PICK r : r = State'
  OBVIOUS
<1>13. /\ r = Fields(r) /\ r.tag = y.tag /\ r.info = y.info /\ r.key = y.key /\ r.queue = y.queue
       /\ r.prio = y.prio /\ r.base = y.base /\ r.result = y.result /\ r.timer = y.timer
       /\ r.pc = pc'
  <2>1. m_tag' = [m_tag EXCEPT ![a] = v]
    BY <1>6 DEF GuestLock
  <2>2. /\ r = Fields(r) /\ r.tag = m_tag' /\ r.info = m_waiting_lock_info' /\ r.key = m_condvar_key'
        /\ r.queue = m_queue' /\ r.prio = m_priority' /\ r.base = m_base_priority'
        /\ r.result = m_wait_result' /\ r.timer = m_timer' /\ r.pc = pc'
    BY <1>12 DEF State, Fields
  <2> QED BY <1>3, <1>10, <2>1, <2>2 DEF GuestLock
<1>14. /\ pc' \in [GuestThreads -> CvPlaces] /\ pc'[t] \in {"run", "lock"}
       /\ want' \in [GuestThreads -> Mutexes \cup {0}] /\ held' \in [GuestThreads -> SUBSET Mutexes]
       /\ \A u \in GuestThreads \ {t} : pc'[u] = pc[u] /\ want'[u] = want[u] /\ held'[u] = held[u]
       /\ pc'[t] = "lock" => want'[t] = a
  BY <1>5 DEF GuestLock, CvPlaces
<1>15. IsCvState(r)
  BY <1>10, <1>13, <1>14 DEF IsCvState
<1>16. \A b \in held'[t] : r.tag[b].owner = t
  <2>1. \A b \in held[t] : y.tag[b].owner = t
    BY <1>9 DEF WordsHold
  <2>2. CASE m_tag[a] = Free
    <3>1. held'[t] = held[t] \cup {a} /\ v = [owner |-> t, wait |-> FALSE]
      BY <1>5, <1>6, <2>2 DEF GuestLock
    <3>2. y.tag[a] = v
      BY <1>2, <1>10 DEF IsCvState
    <3> QED BY <1>13, <2>1, <3>1, <3>2
  <2>3. CASE m_tag[a] # Free
    BY <1>13, <2>1, <2>3 DEF GuestLock
  <2> QED BY <2>2, <2>3
<1>17. Moves(y, r, want, want', held, held', t)
  BY <1>3, <1>4, <1>10, <1>11, <1>13, <1>14, <1>15, <1>16 DEF Moves
<1>18. CvSound(r, want', held')
  BY <1>17, MovesIsSound
<1>19. seen' \in [GuestThreads -> GuestThreads \cup {NoThread}]
  <2>1. seen \in [GuestThreads -> GuestThreads \cup {NoThread}]
    BY DEF CvInv
  <2>2. m_tag[a].owner \in GuestThreads \cup {NoThread}
    BY <1>2, <1>3 DEF IsCvState
  <2> QED BY <2>1, <2>2 DEF GuestLock
<1> QED BY <1>12, <1>18, <1>19, NextIsSound

\* The kernel's state stays, but for the place of t.
LEMMA PlaceChanges ==
  ASSUME CvInv, NEW t \in GuestThreads, UNCHANGED kernelVars,
         NEW p \in CvPlaces, pc' = [pc EXCEPT ![t] = p],
         pc[t] \notin {"wait", "cvwait"}, p \notin {"wait", "cvwait", "cvret"},
         want' \in [GuestThreads -> Mutexes \cup {0}], held' \in [GuestThreads -> SUBSET Mutexes],
         \A u \in GuestThreads \ {t} : want'[u] = want[u] /\ held'[u] = held[u],
         p \notin {"run", "exited", "gone"} => want'[t] \in Mutexes,
         \A a \in held'[t] : m_tag[a].owner = t,
         seen' \in [GuestThreads -> GuestThreads \cup {NoThread}]
  PROVE  CvInv'
<1>1. PICK s : s = State
  OBVIOUS
<1>2. PICK r : r = State'
  OBVIOUS
<1>3. IsCvState(s) /\ CvSound(s, want, held)
  BY <1>1 DEF CvInv, CvSound
<1>4. /\ s.tag = m_tag /\ s.info = m_waiting_lock_info /\ s.key = m_condvar_key
      /\ s.queue = m_queue /\ s.prio = m_priority /\ s.base = m_base_priority
      /\ s.result = m_wait_result /\ s.timer = m_timer /\ s.pc = pc
  BY <1>1, StateFields
<1>5. /\ r = Fields(r) /\ r.tag = s.tag /\ r.info = s.info /\ r.key = s.key /\ r.queue = s.queue
      /\ r.prio = s.prio /\ r.base = s.base /\ r.result = s.result /\ r.timer = s.timer
      /\ r.pc = pc'
  <2>1. /\ r = Fields(r) /\ r.tag = m_tag' /\ r.info = m_waiting_lock_info' /\ r.key = m_condvar_key'
        /\ r.queue = m_queue' /\ r.prio = m_priority' /\ r.base = m_base_priority'
        /\ r.result = m_wait_result' /\ r.timer = m_timer' /\ r.pc = pc'
    BY <1>2 DEF State, Fields
  <2> QED BY <1>4, <2>1 DEF kernelVars
<1>6. /\ pc' \in [GuestThreads -> CvPlaces] /\ pc'[t] = p
      /\ \A u \in GuestThreads \ {t} : pc'[u] = pc[u]
  BY <1>3, <1>4 DEF IsCvState
<1>7. IsCvState(r)
  BY <1>3, <1>5, <1>6 DEF IsCvState
<1>8. Moves(s, r, want, want', held, held', t)
  BY <1>3, <1>4, <1>5, <1>6, <1>7 DEF Moves
<1>9. CvSound(r, want', held')
  BY <1>8, MovesIsSound
<1> QED BY <1>2, <1>9, NextIsSound

\* What the invariant says of the variables.
LEMMA InvSays ==
  ASSUME CvInv
  PROVE  /\ want \in [GuestThreads -> Mutexes \cup {0}] /\ held \in [GuestThreads -> SUBSET Mutexes]
         /\ seen \in [GuestThreads -> GuestThreads \cup {NoThread}]
         /\ pc \in [GuestThreads -> CvPlaces]
         /\ m_tag \in [Mutexes -> [owner: GuestThreads \cup {NoThread}, wait: BOOLEAN]]
         /\ \A t \in GuestThreads :
              /\ pc[t] \notin {"run", "exited", "gone"} => want[t] \in Mutexes
              /\ pc[t] = "cvret" /\ m_wait_result[t] = "Success" => m_tag[want[t]].owner = t
              /\ \A a \in held[t] : m_tag[a].owner = t
<1>1. PICK s : s = State
  OBVIOUS
<1>2. IsCvState(s) /\ WordsHold(s, want, held)
  BY <1>1 DEF CvInv, CvSound
<1>3. s.tag = m_tag /\ s.result = m_wait_result /\ s.pc = pc
  BY <1>1, StateFields
<1>4. seen \in [GuestThreads -> GuestThreads \cup {NoThread}]
  BY DEF CvInv
<1> QED BY <1>2, <1>3, <1>4 DEF IsCvState, WordsHold

LEMMA GuestCheckIsSound ==
  ASSUME CvInv, NEW t \in GuestThreads, GuestCheck(t)
  PROVE  CvInv'
<1>1. PICK p : p \in {"run", "relock"} /\ pc' = [pc EXCEPT ![t] = p]
               /\ (p = "run" => m_tag[want[t]].owner = t
                                /\ held' = [held EXCEPT ![t] = held[t] \cup {want[t]}]
                                /\ want' = [want EXCEPT ![t] = 0])
               /\ (p = "relock" => held' = held /\ want' = want)
  BY DEF GuestCheck
<1>2. pc[t] = "check" /\ UNCHANGED kernelVars /\ seen' = seen
  BY DEF GuestCheck
<1>3. want[t] \in Mutexes
  BY <1>2, InvSays
<1>4. /\ want' \in [GuestThreads -> Mutexes \cup {0}] /\ held' \in [GuestThreads -> SUBSET Mutexes]
      /\ \A u \in GuestThreads \ {t} : want'[u] = want[u] /\ held'[u] = held[u]
      /\ p \notin {"run", "exited", "gone"} => want'[t] \in Mutexes
      /\ \A a \in held'[t] : m_tag[a].owner = t
      /\ seen' \in [GuestThreads -> GuestThreads \cup {NoThread}]
  <2>1. CASE p = "run"
    <3>1. /\ want \in [GuestThreads -> Mutexes \cup {0}] /\ held \in [GuestThreads -> SUBSET Mutexes]
          /\ seen \in [GuestThreads -> GuestThreads \cup {NoThread}]
          /\ \A a \in held[t] : m_tag[a].owner = t
      BY InvSays
    <3>2. /\ held' = [held EXCEPT ![t] = held[t] \cup {want[t]}] /\ want' = [want EXCEPT ![t] = 0]
          /\ m_tag[want[t]].owner = t
      BY <1>1, <1>3, <2>1
    <3> QED BY <1>2, <1>3, <2>1, <3>1, <3>2
  <2>2. CASE p = "relock"
    BY <1>1, <1>2, <1>3, <2>2, InvSays
  <2> QED BY <1>1, <2>1, <2>2
<1>5. p \in CvPlaces
  BY <1>1 DEF CvPlaces
<1> QED BY <1>1, <1>2, <1>4, <1>5, PlaceChanges

LEMMA GuestCvReturnIsSound ==
  ASSUME CvInv, NEW t \in GuestThreads, GuestCvReturn(t)
  PROVE  CvInv'
<1>1. PICK p : p \in {"run", "relock"} /\ pc' = [pc EXCEPT ![t] = p]
               /\ (p = "run" => m_wait_result[t] = "Success"
                                /\ held' = [held EXCEPT ![t] = held[t] \cup {want[t]}]
                                /\ want' = [want EXCEPT ![t] = 0])
               /\ (p = "relock" => held' = held /\ want' = want)
  BY DEF GuestCvReturn
<1>2. pc[t] = "cvret" /\ UNCHANGED kernelVars /\ seen' = seen
  BY DEF GuestCvReturn
<1>3. want[t] \in Mutexes /\ (m_wait_result[t] = "Success" => m_tag[want[t]].owner = t)
  BY <1>2, InvSays
<1>4. /\ want' \in [GuestThreads -> Mutexes \cup {0}] /\ held' \in [GuestThreads -> SUBSET Mutexes]
      /\ \A u \in GuestThreads \ {t} : want'[u] = want[u] /\ held'[u] = held[u]
      /\ p \notin {"run", "exited", "gone"} => want'[t] \in Mutexes
      /\ \A a \in held'[t] : m_tag[a].owner = t
      /\ seen' \in [GuestThreads -> GuestThreads \cup {NoThread}]
  <2>1. CASE p = "run"
    BY <1>1, <1>2, <1>3, <2>1, InvSays
  <2>2. CASE p = "relock"
    BY <1>1, <1>2, <1>3, <2>2, InvSays
  <2> QED BY <1>1, <2>1, <2>2
<1>5. p \in CvPlaces
  BY <1>1 DEF CvPlaces
<1> QED BY <1>1, <1>2, <1>4, <1>5, PlaceChanges

LEMMA WaitReturnIsSound ==
  ASSUME CvInv, NEW t \in GuestThreads, WaitForAddressReturn(t)
  PROVE  CvInv'
<1>1. /\ pc[t] = "woken" /\ pc' = [pc EXCEPT ![t] = "check"] /\ UNCHANGED kernelVars
      /\ want' = want /\ held' = held /\ seen' = [seen EXCEPT ![t] = NoThread]
  BY DEF WaitForAddressReturn
<1>2. PICK p : p = "check"
  OBVIOUS
<1>3. p \in CvPlaces
  BY <1>2 DEF CvPlaces
<1>4. /\ want' \in [GuestThreads -> Mutexes \cup {0}] /\ held' \in [GuestThreads -> SUBSET Mutexes]
      /\ \A u \in GuestThreads \ {t} : want'[u] = want[u] /\ held'[u] = held[u]
      /\ p \notin {"run", "exited", "gone"} => want'[t] \in Mutexes
      /\ \A a \in held'[t] : m_tag[a].owner = t
      /\ seen' \in [GuestThreads -> GuestThreads \cup {NoThread}]
  BY <1>1, InvSays
<1> QED BY <1>1, <1>2, <1>3, <1>4, PlaceChanges

LEMMA ExitIsSound ==
  ASSUME CvInv, NEW t \in GuestThreads, Exit(t)
  PROVE  CvInv'
<1>1. /\ pc[t] \in {"run", "check", "relock", "cvret"} /\ pc' = [pc EXCEPT ![t] = "exited"]
      /\ UNCHANGED kernelVars /\ want' = want /\ held' = held /\ seen' = seen
  BY DEF Exit
<1>2. PICK p : p = "exited"
  OBVIOUS
<1>3. p \in CvPlaces
  BY <1>2 DEF CvPlaces
<1>4. /\ want' \in [GuestThreads -> Mutexes \cup {0}] /\ held' \in [GuestThreads -> SUBSET Mutexes]
      /\ \A u \in GuestThreads \ {t} : want'[u] = want[u] /\ held'[u] = held[u]
      /\ p \notin {"run", "exited", "gone"} => want'[t] \in Mutexes
      /\ \A a \in held'[t] : m_tag[a].owner = t
      /\ seen' \in [GuestThreads -> GuestThreads \cup {NoThread}]
  BY <1>1, <1>2, InvSays
<1> QED BY <1>1, <1>2, <1>3, <1>4, PlaceChanges

LEMMA GuestUnlockIsSound ==
  ASSUME CvInv, NEW t \in GuestThreads, NEW a \in Mutexes, GuestUnlock(t, a)
  PROVE  CvInv'
<1>1. PICK s : s = State
  OBVIOUS
<1>2. PICK r : r = State'
  OBVIOUS
<1>3. /\ s.tag = m_tag /\ s.info = m_waiting_lock_info /\ s.key = m_condvar_key
      /\ s.queue = m_queue /\ s.prio = m_priority /\ s.base = m_base_priority
      /\ s.result = m_wait_result /\ s.timer = m_timer /\ s.pc = pc
  BY <1>1, StateFields
<1>4. IsCvState(s) /\ CvSound(s, want, held) /\ WordsHold(s, want, held)
  BY <1>1 DEF CvInv, CvSound
<1>5. Freed(s, r, a)
  <2>1. s = [tag |-> m_tag, info |-> m_waiting_lock_info, key |-> m_condvar_key,
             queue |-> m_queue, prio |-> m_priority, base |-> m_base_priority,
             result |-> m_wait_result, timer |-> m_timer, pc |-> pc]
    BY <1>1 DEF State
  <2>2. r = [tag |-> m_tag', info |-> m_waiting_lock_info', key |-> m_condvar_key',
             queue |-> m_queue', prio |-> m_priority', base |-> m_base_priority',
             result |-> m_wait_result', timer |-> m_timer', pc |-> pc']
    BY <1>2 DEF State
  <2>3. PICK e : e = [m_tag EXCEPT ![a] = Free]
    OBVIOUS
  <2>4. r = [tag |-> e, info |-> m_waiting_lock_info, key |-> m_condvar_key,
             queue |-> m_queue, prio |-> m_priority, base |-> m_base_priority,
             result |-> m_wait_result, timer |-> m_timer, pc |-> pc]
    BY <2>2, <2>3 DEF GuestUnlock
  <2>5. r = [s EXCEPT !.tag = e]
    BY <2>1, <2>4
  <2>6. s.tag = m_tag
    BY <1>3
  <2> QED BY <2>3, <2>5, <2>6 DEF Freed
<1>6. Releases(s, want, held, t, a, held')
  BY <1>3, <1>4 DEF Releases, GuestUnlock
<1>7. Unwanted(s, a)
  <2> SUFFICES ASSUME NEW u \in GuestThreads, s.info[u] # NoInfo, s.info[u].lock = a
               PROVE  FALSE
    BY DEF Unwanted
  <2>1. s.tag[a] = [owner |-> s.info[u].owner, wait |-> TRUE]
    BY <1>4 DEF WordsHold
  <2>2. s.tag[a] = [owner |-> t, wait |-> FALSE]
    BY <1>3 DEF GuestUnlock
  <2>3. s.tag[a].wait = TRUE /\ s.tag[a].wait = FALSE
    BY <2>1, <2>2
  <2> QED BY <2>3
<1>8. CvSound(r, want, held')
  BY <1>5, <1>6, <1>7, FreedIsSound
<1>9. want' = want /\ seen' = seen
  BY DEF GuestUnlock
<1>10. seen' \in [GuestThreads -> GuestThreads \cup {NoThread}]
  BY <1>9, InvSays
<1> QED BY <1>2, <1>8, <1>9, <1>10, NextIsSound

LEMMA SignalToAddressIsSound ==
  ASSUME CvInv, NEW t \in GuestThreads, NEW a \in Mutexes, SignalToAddress(t, a)
  PROVE  CvInv'
<1>1. PICK s : s = State
  OBVIOUS
<1>2. PICK r : r = PassLock(s, t, a)
  OBVIOUS
<1>3. Releases(s, want, held, t, a, held')
  <2>1. CvSound(s, want, held) /\ s.pc = pc
    BY <1>1, StateFields DEF CvInv
  <2> QED BY <2>1 DEF Releases, SignalToAddress
<1>4. CvSound(r, want, held')
  BY <1>2, <1>3, PassLockIsSound
<1>5. Apply(r) /\ want' = want /\ seen' = seen
  BY <1>1, <1>2 DEF SignalToAddress
<1>6. seen' \in [GuestThreads -> GuestThreads \cup {NoThread}] /\ CvSound(r, want', held')
  BY <1>4, <1>5, InvSays
<1> QED BY <1>5, <1>6, AppliedIsSound

LEMMA SignalIsSound ==
  ASSUME CvInv, NEW t \in GuestThreads, NEW k \in Keys, NEW count, Signal(t, k, count)
  PROVE  CvInv'
<1>1. PICK s : s = State
  OBVIOUS
<1>2. PICK x : x = SignalLoop(s, k, count)
  OBVIOUS
<1>3. CvSound(s, want, held)
  BY <1>1 DEF CvInv
<1>4. PICK r : r = x.s
  OBVIOUS
<1>5. CvSound(r, want, held)
  BY <1>2, <1>3, <1>4, SignalLoopIsSound
<1>6. Apply(r) /\ want' = want /\ seen' = seen /\ held' = held
  BY <1>1, <1>2, <1>4 DEF Signal
<1>7. seen' \in [GuestThreads -> GuestThreads \cup {NoThread}] /\ CvSound(r, want', held')
  BY <1>5, <1>6, InvSays
<1> QED BY <1>6, <1>7, AppliedIsSound

\* Another base priority.
LEMMA SetBaseIsSound ==
  ASSUME NEW s, NEW w, NEW h, CvSound(s, w, h), NEW t \in GuestThreads, NEW p \in Nat,
         NEW e, e = [s.base EXCEPT ![t] = p], NEW y, y = [s EXCEPT !.base = e],
         NEW r, r = RestorePriority(y, t)
  PROVE  CvSound(r, w, h) /\ r.pc = s.pc
<1>1. IsCvState(s) /\ LinksHold(s) /\ TimersHold(s) /\ WordsHold(s, w, h)
  BY DEF CvSound
<1>2. s = [tag |-> s.tag, info |-> s.info, key |-> s.key, queue |-> s.queue, prio |-> s.prio,
           base |-> s.base, result |-> s.result, timer |-> s.timer, pc |-> s.pc]
  BY <1>1 DEF IsCvState, Fields
<1>3. y = [tag |-> s.tag, info |-> s.info, key |-> s.key, queue |-> s.queue, prio |-> s.prio,
           base |-> e, result |-> s.result, timer |-> s.timer, pc |-> s.pc]
  BY <1>2
<1>4. /\ y = Fields(y) /\ y.tag = s.tag /\ y.info = s.info /\ y.key = s.key /\ y.queue = s.queue
      /\ y.prio = s.prio /\ y.base = e
      /\ y.result = s.result /\ y.timer = s.timer /\ y.pc = s.pc
  BY <1>3 DEF Fields
<1>5. e \in [GuestThreads -> Nat]
  BY <1>1 DEF IsCvState
<1>6. IsCvState(y)
  BY <1>1, <1>4, <1>5 DEF IsCvState
<1>7. LinksHold(y) /\ TimersHold(y)
  BY <1>1, <1>4 DEF LinksHold, TimersHold
<1>8. WordsHold(y, w, h)
  BY <1>1, <1>4 DEF WordsHold
<1>9. CvSound(y, w, h)
  BY <1>6, <1>7, <1>8 DEF CvSound
<1>10. Reordered(y, r)
  BY <1>6, RestoreReorders
<1>11. CvSound(r, w, h)
  BY <1>9, <1>10, ReorderedIsSound
<1> QED BY <1>4, <1>10, <1>11 DEF Reordered

\* The change of a base priority, as an action applies it.
Rebased(s, r, t, p) == r = RestorePriority([s EXCEPT !.base = [s.base EXCEPT ![t] = p]], t)

LEMMA RebasedIsSound ==
  ASSUME NEW s, NEW w, NEW h, CvSound(s, w, h), NEW t \in GuestThreads, NEW p \in Nat,
         NEW r, Rebased(s, r, t, p)
  PROVE  CvSound(r, w, h) /\ r.pc = s.pc
<1>1. PICK e : e = [s.base EXCEPT ![t] = p]
  OBVIOUS
<1>2. PICK y : y = [s EXCEPT !.base = e]
  OBVIOUS
<1>3. r = RestorePriority(y, t)
  BY <1>1, <1>2 DEF Rebased
<1> QED BY <1>1, <1>2, <1>3, SetBaseIsSound

LEMMA SetBasePriorityIsSound ==
  ASSUME CvInv, NEW t \in GuestThreads, NEW p \in NewPriorities, SetBasePriority(t, p)
  PROVE  CvInv'
<1>1. PICK s : s = State
  OBVIOUS
<1>2. PICK r : Rebased(s, r, t, p)
  BY DEF Rebased
<1>3. CvSound(s, want, held) /\ p \in Nat
  BY <1>1, CvAssumption DEF CvInv
<1>4. CvSound(r, want, held)
  BY <1>2, <1>3, RebasedIsSound
<1>5. Apply(r) /\ want' = want /\ seen' = seen /\ held' = held
  BY <1>1, <1>2 DEF SetBasePriority, Rebased
<1>6. seen' \in [GuestThreads -> GuestThreads \cup {NoThread}] /\ CvSound(r, want', held')
  BY <1>4, <1>5, InvSays
<1> QED BY <1>5, <1>6, AppliedIsSound

LEMMA RequestTerminateIsSound ==
  ASSUME CvInv, NEW t \in GuestThreads, RequestTerminate(t)
  PROVE  CvInv'
<1>1. PICK s : s = State
  OBVIOUS
<1>2. PICK y : Rebased(s, y, t, TerminatingThreadPriority)
  BY DEF Rebased
<1>3. CvSound(s, want, held) /\ s.pc = pc
  BY <1>1, StateFields DEF CvInv
<1>4. CvSound(y, want, held) /\ y.pc = s.pc
  <2>1. PICK p \in Nat : p = TerminatingThreadPriority
    BY DEF TerminatingThreadPriority
  <2> QED BY <1>2, <1>3, <2>1, RebasedIsSound
<1>5. PICK r : r = IF pc[t] \in {"wait", "cvwait"} THEN CancelWait(y, t, "TerminationRequested")
                   ELSE y
  OBVIOUS
<1>6. CvSound(r, want, held)
  <2>1. CASE pc[t] \in {"wait", "cvwait"}
    <3>1. PICK res \in CvResults : res = "TerminationRequested"
      BY DEF CvResults
    <3>2. r = CancelWait(y, t, res) /\ res # "Success"
      BY <1>5, <2>1, <3>1
    <3>3. y.pc[t] \in {"wait", "cvwait"}
      BY <1>3, <1>4, <2>1
    <3> QED BY <1>4, <3>2, <3>3, CancelWaitIsSound
  <2>2. CASE pc[t] \notin {"wait", "cvwait"}
    BY <1>4, <1>5, <2>2
  <2> QED BY <2>1, <2>2
<1>7. Apply(r) /\ want' = want /\ seen' = seen /\ held' = held
  BY <1>1, <1>2, <1>5 DEF RequestTerminate, Rebased
<1>8. seen' \in [GuestThreads -> GuestThreads \cup {NoThread}] /\ CvSound(r, want', held')
  BY <1>6, <1>7, InvSays
<1> QED BY <1>7, <1>8, AppliedIsSound

\* The timer task of t is gone.
Untimed(s, y, t) == y = [s EXCEPT !.timer = s.timer \ {t}]

LEMMA UntimedIsSound ==
  ASSUME NEW s, NEW w, NEW h, CvSound(s, w, h), NEW t \in GuestThreads,
         NEW y, Untimed(s, y, t)
  PROVE  CvSound(y, w, h) /\ y.pc = s.pc
<1>1. IsCvState(s) /\ LinksHold(s) /\ TimersHold(s) /\ WordsHold(s, w, h)
  BY DEF CvSound
<1>2. s = [tag |-> s.tag, info |-> s.info, key |-> s.key, queue |-> s.queue, prio |-> s.prio,
           base |-> s.base, result |-> s.result, timer |-> s.timer, pc |-> s.pc]
  BY <1>1 DEF IsCvState, Fields
<1>3. PICK e : e = s.timer \ {t}
  OBVIOUS
<1>4. y = [tag |-> s.tag, info |-> s.info, key |-> s.key, queue |-> s.queue, prio |-> s.prio,
           base |-> s.base, result |-> s.result, timer |-> e, pc |-> s.pc]
  BY <1>2, <1>3 DEF Untimed
<1>5. /\ y = Fields(y) /\ y.tag = s.tag /\ y.info = s.info /\ y.key = s.key /\ y.queue = s.queue
      /\ y.prio = s.prio /\ y.base = s.base
      /\ y.result = s.result /\ y.timer = e /\ y.pc = s.pc
  BY <1>4 DEF Fields
<1>6. IsCvState(y)
  BY <1>1, <1>3, <1>5 DEF IsCvState
<1>7. LinksHold(y) /\ TimersHold(y)
  BY <1>1, <1>3, <1>5 DEF LinksHold, TimersHold
<1>8. WordsHold(y, w, h)
  BY <1>1, <1>5 DEF WordsHold
<1> QED BY <1>5, <1>6, <1>7, <1>8 DEF CvSound

LEMMA OnTimerIsSound ==
  ASSUME CvInv, NEW t \in GuestThreads, OnTimer(t)
  PROVE  CvInv'
<1>1. PICK s : s = State
  OBVIOUS
<1>2. PICK y : Untimed(s, y, t)
  BY DEF Untimed
<1>3. CvSound(s, want, held) /\ s.pc = pc
  BY <1>1, StateFields DEF CvInv
<1>4. CvSound(y, want, held) /\ y.pc = s.pc
  BY <1>2, <1>3, UntimedIsSound
<1>5. PICK r : r = IF pc[t] \in {"wait", "cvwait"} THEN CancelWait(y, t, "TimedOut") ELSE y
  OBVIOUS
<1>6. CvSound(r, want, held)
  <2>1. CASE pc[t] \in {"wait", "cvwait"}
    <3>1. PICK res \in CvResults : res = "TimedOut"
      BY DEF CvResults
    <3>2. r = CancelWait(y, t, res) /\ res # "Success"
      BY <1>5, <2>1, <3>1
    <3>3. y.pc[t] \in {"wait", "cvwait"}
      BY <1>3, <1>4, <2>1
    <3> QED BY <1>4, <3>2, <3>3, CancelWaitIsSound
  <2>2. CASE pc[t] \notin {"wait", "cvwait"}
    BY <1>4, <1>5, <2>2
  <2> QED BY <2>1, <2>2
<1>7. Apply(r) /\ want' = want /\ seen' = seen /\ held' = held
  BY <1>1, <1>2, <1>5 DEF OnTimer, Untimed
<1>8. seen' \in [GuestThreads -> GuestThreads \cup {NoThread}] /\ CvSound(r, want', held')
  BY <1>6, <1>7, InvSays
<1> QED BY <1>7, <1>8, AppliedIsSound

\* Another place for t.
Placed(s, r, t, p) == r = [s EXCEPT !.pc = [s.pc EXCEPT ![t] = p]]

PlacedAt(s, r, t, p) ==
  /\ IsCvState(r) /\ r.pc[t] = p /\ \A u \in GuestThreads \ {t} : r.pc[u] = s.pc[u]
  /\ r.tag = s.tag /\ r.info = s.info /\ r.key = s.key /\ r.queue = s.queue
  /\ r.prio = s.prio /\ r.base = s.base /\ r.result = s.result /\ r.timer = s.timer

LEMMA PlacedIs ==
  ASSUME NEW s, IsCvState(s), NEW t \in GuestThreads, NEW p \in CvPlaces, NEW r, Placed(s, r, t, p)
  PROVE  PlacedAt(s, r, t, p)
<1>1. PICK e : e = [s.pc EXCEPT ![t] = p]
  OBVIOUS
<1>2. s = [tag |-> s.tag, info |-> s.info, key |-> s.key, queue |-> s.queue, prio |-> s.prio,
           base |-> s.base, result |-> s.result, timer |-> s.timer, pc |-> s.pc]
  BY DEF IsCvState, Fields
<1>3. r = [tag |-> s.tag, info |-> s.info, key |-> s.key, queue |-> s.queue, prio |-> s.prio,
           base |-> s.base, result |-> s.result, timer |-> s.timer, pc |-> e]
  BY <1>1, <1>2 DEF Placed
<1>4. /\ r = Fields(r) /\ r.tag = s.tag /\ r.info = s.info /\ r.key = s.key /\ r.queue = s.queue
      /\ r.prio = s.prio /\ r.base = s.base
      /\ r.result = s.result /\ r.timer = s.timer /\ r.pc = e
  BY <1>3 DEF Fields
<1>5. e \in [GuestThreads -> CvPlaces] /\ e[t] = p /\ \A u \in GuestThreads \ {t} : e[u] = s.pc[u]
  BY <1>1 DEF IsCvState
<1>6. IsCvState(r)
  BY <1>4, <1>5 DEF IsCvState
<1> QED BY <1>4, <1>5, <1>6 DEF PlacedAt

LEMMA WaitForAddressIsSound ==
  ASSUME CvInv, NEW t \in GuestThreads, WaitForAddress(t)
  PROVE  CvInv'
<1>1. PICK s : s = State
  OBVIOUS
<1>2. /\ IsCvState(s) /\ LinksHold(s) /\ TimersHold(s) /\ WordsHold(s, want, held)
      /\ CvSound(s, want, held)
  BY <1>1 DEF CvInv, CvSound
<1>3. /\ pc[t] = "lock" /\ s.pc = pc /\ s.tag = m_tag
      /\ want' = want /\ held' = held
  BY <1>1, StateFields DEF WaitForAddress
<1>4. PICK a \in Mutexes : a = want[t]
  BY <1>3, InvSays
<1>5. CASE /\ Apply([s EXCEPT !.pc = [s.pc EXCEPT ![t] = "check"]])
           /\ seen' = [seen EXCEPT ![t] = NoThread]
  <2>1. PICK r : Placed(s, r, t, "check")
    BY DEF Placed
  <2>2. PICK p \in CvPlaces : p = "check"
    BY DEF CvPlaces
  <2>3. PlacedAt(s, r, t, p)
    BY <1>2, <2>1, <2>2, PlacedIs
  <2>4. Moves(s, r, want, want, held, held, t)
    <3>1. /\ IsCvState(r) /\ r.pc[t] = "check" /\ \A u \in GuestThreads \ {t} : r.pc[u] = s.pc[u]
          /\ r.tag = s.tag /\ r.info = s.info /\ r.key = s.key /\ r.queue = s.queue
          /\ r.result = s.result /\ r.timer = s.timer
      BY <2>2, <2>3 DEF PlacedAt
    <3>2. /\ want \in [GuestThreads -> Mutexes \cup {0}] /\ held \in [GuestThreads -> SUBSET Mutexes]
          /\ want[t] \in Mutexes /\ \A b \in held[t] : r.tag[b].owner = t
      BY <1>3, <1>4, <3>1, InvSays
    <3>3. s.pc[t] \notin {"wait", "cvwait"}
      BY <1>3
    <3> QED BY <1>2, <3>1, <3>2, <3>3 DEF Moves
  <2>5. CvSound(r, want', held')
    BY <1>3, <2>4, MovesIsSound
  <2>6. Apply(r)
    BY <1>5, <2>1 DEF Placed
  <2>7. seen' \in [GuestThreads -> GuestThreads \cup {NoThread}]
    BY <1>5, InvSays
  <2> QED BY <2>5, <2>6, <2>7, AppliedIsSound
<1>6. CASE /\ m_tag[a] = [owner |-> seen[t], wait |-> TRUE] /\ IsValidHandle(seen[t])
           /\ Apply([AddWaiter(s, seen[t], t, a) EXCEPT !.pc = [@ EXCEPT ![t] = "wait"]])
           /\ seen' = seen
  <2>1. PICK o \in GuestThreads : o = seen[t]
    BY <1>6, InvSays DEF IsValidHandle
  <2>2. PICK y : y = AddWaiter(s, o, t, a)
    OBVIOUS
  <2>3. PICK f : f = [s.info EXCEPT ![t] = [owner |-> o, lock |-> a]]
    OBVIOUS
  <2>4. Relinked(s, y, f, {}) /\ Has(y.queue, t)
    BY <1>2, <2>2, <2>3, AddWaiterIs
  <2>5. PICK r : Placed(y, r, t, "wait")
    BY DEF Placed
  <2>6. PICK p \in CvPlaces : p = "wait"
    BY DEF CvPlaces
  <2>7. PlacedAt(y, r, t, p)
    <3>1. IsCvState(y)
      BY <2>4 DEF Relinked
    <3> QED BY <2>5, <2>6, <3>1, PlacedIs
  <2>8. Links(s, r, t, o, a)
    <3>1. s.tag[a] = [owner |-> o, wait |-> TRUE]
      BY <1>3, <1>6, <2>1
    <3>2. /\ y.tag = s.tag /\ y.info = f /\ y.key = s.key /\ y.result = s.result
          /\ y.timer = s.timer /\ y.pc = s.pc /\ \A u : Has(s.queue, u) => Has(y.queue, u)
      BY <2>4 DEF Relinked
    <3>3. /\ IsCvState(r) /\ r.pc[t] = "wait" /\ \A u \in GuestThreads \ {t} : r.pc[u] = y.pc[u]
          /\ r.tag = y.tag /\ r.info = y.info /\ r.key = y.key /\ r.queue = y.queue
          /\ r.result = y.result /\ r.timer = y.timer
      BY <2>6, <2>7 DEF PlacedAt
    <3> QED BY <2>3, <2>4, <3>1, <3>2, <3>3 DEF Links
  <2>9. Detached(s, want, held, t)
    BY <1>2, <1>3 DEF LinksHold, Detached
  <2>10. t \notin s.timer
    BY <1>2, <1>3 DEF TimersHold
  <2>11. CvSound(r, want', held')
    BY <1>3, <1>4, <2>8, <2>9, <2>10, LinkedIsSound
  <2>12. Apply(r)
    BY <1>6, <2>1, <2>2, <2>5 DEF Placed
  <2>13. seen' \in [GuestThreads -> GuestThreads \cup {NoThread}]
    BY <1>6, InvSays
  <2> QED BY <2>11, <2>12, <2>13, AppliedIsSound
<1> QED BY <1>1, <1>3, <1>4, <1>5, <1>6 DEF WaitForAddress

\* Thread t starts to wait for the condition variable k.
Parks(s, r, t, k, timed) ==
  r = [s EXCEPT !.key = [s.key EXCEPT ![t] = k], !.queue = Append(s.queue, t),
                !.timer = IF timed THEN s.timer \cup {t} ELSE s.timer,
                !.pc = [s.pc EXCEPT ![t] = "cvwait"]]

LEMMA ParksIsSound ==
  ASSUME NEW s, NEW w, NEW h, CvSound(s, w, h), NEW t \in GuestThreads, s.pc[t] = "run",
         NEW k \in Keys, NEW timed, NEW r, Parks(s, r, t, k, timed),
         NEW a \in Mutexes, NEW x, x = [w EXCEPT ![t] = a]
  PROVE  CvSound(r, x, h)
<1>1. IsCvState(s) /\ LinksHold(s) /\ TimersHold(s) /\ WordsHold(s, w, h)
  BY DEF CvSound
<1>2. PICK e : e = [s.key EXCEPT ![t] = k]
  OBVIOUS
<1>3. PICK q : q = Append(s.queue, t)
  OBVIOUS
<1>4. PICK m : m = IF timed THEN s.timer \cup {t} ELSE s.timer
  OBVIOUS
<1>5. PICK f : f = [s.pc EXCEPT ![t] = "cvwait"]
  OBVIOUS
<1>6. r = [s EXCEPT !.key = e, !.queue = q, !.timer = m, !.pc = f]
  BY <1>2, <1>3, <1>4, <1>5 DEF Parks
<1>7. s = [tag |-> s.tag, info |-> s.info, key |-> s.key, queue |-> s.queue, prio |-> s.prio,
           base |-> s.base, result |-> s.result, timer |-> s.timer, pc |-> s.pc]
  BY <1>1 DEF IsCvState, Fields
<1>8. r = [tag |-> s.tag, info |-> s.info, key |-> e, queue |-> q, prio |-> s.prio,
           base |-> s.base, result |-> s.result, timer |-> m, pc |-> f]
  BY <1>6, <1>7
<1>9. /\ r = Fields(r) /\ r.tag = s.tag /\ r.info = s.info /\ r.key = e /\ r.queue = q
      /\ r.prio = s.prio /\ r.base = s.base
      /\ r.result = s.result /\ r.timer = m /\ r.pc = f
  BY <1>8 DEF Fields
<1>10. e \in [GuestThreads -> Keys \cup {NoKey}] /\ e[t] = k /\ k # NoKey
       /\ \A u \in GuestThreads : u # t => e[u] = s.key[u]
  BY <1>1, <1>2, CvAssumption DEF IsCvState
<1>11. f \in [GuestThreads -> CvPlaces] /\ f[t] = "cvwait"
       /\ \A u \in GuestThreads : u # t => f[u] = s.pc[u]
  BY <1>1, <1>5 DEF IsCvState, CvPlaces
<1>12. q \in Seq(GuestThreads) /\ Has(q, t) /\ \A u : Has(s.queue, u) => Has(q, u)
  <2>1. s.queue \in Seq(GuestThreads)
    BY <1>1 DEF IsCvState
  <2> QED BY <1>3, <2>1, AppendHas
<1>13. m \in SUBSET GuestThreads /\ \A u \in m : u = t \/ u \in s.timer
  BY <1>1, <1>4 DEF IsCvState
<1>14. IsCvState(r)
  BY <1>1, <1>9, <1>10, <1>11, <1>12, <1>13 DEF IsCvState
<1>15. s.info[t] = NoInfo
  BY <1>1 DEF LinksHold
<1>16. LinksHold(r)
  <2> SUFFICES ASSUME NEW u \in GuestThreads
               PROVE  /\ r.info[u] # NoInfo => r.pc[u] \in {"wait", "cvwait"} /\ Has(r.queue, u)
                      /\ r.key[u] # NoKey => r.pc[u] = "cvwait" /\ r.info[u] = NoInfo /\ Has(r.queue, u)
                      /\ r.pc[u] = "wait" => r.info[u] # NoInfo
                      /\ r.pc[u] = "cvwait" => r.info[u] # NoInfo \/ r.key[u] # NoKey
    BY DEF LinksHold
  <2>1. CASE u = t
    BY <1>9, <1>10, <1>11, <1>12, <1>15, <2>1
  <2>2. CASE u # t
    <3>1. r.pc[u] = s.pc[u] /\ r.key[u] = s.key[u] /\ r.info[u] = s.info[u]
          /\ (Has(s.queue, u) => Has(r.queue, u))
      BY <1>9, <1>10, <1>11, <1>12, <2>2
    <3> QED BY <1>1, <3>1 DEF LinksHold
  <2> QED BY <2>1, <2>2
<1>17. TimersHold(r)
  <2> SUFFICES ASSUME NEW u \in m PROVE f[u] = "cvwait"
    BY <1>9 DEF TimersHold
  <2>1. CASE u = t
    BY <1>11, <2>1
  <2>2. CASE u # t
    BY <1>1, <1>11, <1>13, <2>2 DEF TimersHold
  <2> QED BY <2>1, <2>2
<1>18. x \in [GuestThreads -> Mutexes \cup {0}] /\ x[t] = a
       /\ \A u \in GuestThreads : u # t => x[u] = w[u]
  BY <1>1 DEF WordsHold
<1>19. ASSUME NEW u \in GuestThreads
       PROVE  /\ r.pc[u] \notin {"run", "exited", "gone"} => x[u] \in Mutexes
              /\ r.info[u] # NoInfo =>
                   /\ r.tag[r.info[u].lock] = [owner |-> r.info[u].owner, wait |-> TRUE]
                   /\ r.info[u].lock = x[u]
              /\ r.pc[u] = "cvret" /\ r.result[u] = "Success" => r.tag[x[u]].owner = u
              /\ \A b \in h[u] : r.tag[b].owner = u
  <2>1. /\ s.pc[u] \notin {"run", "exited", "gone"} => w[u] \in Mutexes
        /\ s.info[u] # NoInfo =>
             /\ s.tag[s.info[u].lock] = [owner |-> s.info[u].owner, wait |-> TRUE]
             /\ s.info[u].lock = w[u]
        /\ s.pc[u] = "cvret" /\ s.result[u] = "Success" => s.tag[w[u]].owner = u
        /\ \A b \in h[u] : s.tag[b].owner = u
    BY <1>1 DEF WordsHold
  <2>2. CASE u = t
    BY <1>9, <1>11, <1>15, <1>18, <2>1, <2>2
  <2>3. CASE u # t
    BY <1>9, <1>11, <1>18, <2>1, <2>3
  <2> QED BY <2>2, <2>3
<1>20. WordsHold(r, x, h)
  <2>1. \A b \in Mutexes : r.tag[b].owner = NoThread => r.tag[b] = Free
    BY <1>1, <1>9 DEF WordsHold
  <2>2. h \in [GuestThreads -> SUBSET Mutexes]
    BY <1>1 DEF WordsHold
  <2> QED BY <1>18, <1>19, <2>1, <2>2 DEF WordsHold
<1> QED BY <1>14, <1>16, <1>17, <1>20 DEF CvSound

\* A wait with no timeout at all ends at once.
GivesUp(s, r, t) ==
  r = [s EXCEPT !.result = [s.result EXCEPT ![t] = "TimedOut"],
                !.pc = [s.pc EXCEPT ![t] = "cvret"]]

LEMMA GivesUpIsSound ==
  ASSUME NEW s, NEW w, NEW h, CvSound(s, w, h), NEW t \in GuestThreads, s.pc[t] = "run",
         NEW r, GivesUp(s, r, t), NEW a \in Mutexes, NEW x, x = [w EXCEPT ![t] = a]
  PROVE  CvSound(r, x, h)
<1>1. IsCvState(s) /\ WordsHold(s, w, h)
  BY DEF CvSound
<1>2. PICK e : e = [s.result EXCEPT ![t] = "TimedOut"]
  OBVIOUS
<1>3. PICK f : f = [s.pc EXCEPT ![t] = "cvret"]
  OBVIOUS
<1>4. r = [s EXCEPT !.result = e, !.pc = f]
  BY <1>2, <1>3 DEF GivesUp
<1>5. s = [tag |-> s.tag, info |-> s.info, key |-> s.key, queue |-> s.queue, prio |-> s.prio,
           base |-> s.base, result |-> s.result, timer |-> s.timer, pc |-> s.pc]
  BY <1>1 DEF IsCvState, Fields
<1>6. r = [tag |-> s.tag, info |-> s.info, key |-> s.key, queue |-> s.queue, prio |-> s.prio,
           base |-> s.base, result |-> e, timer |-> s.timer, pc |-> f]
  BY <1>4, <1>5
<1>7. /\ r = Fields(r) /\ r.tag = s.tag /\ r.info = s.info /\ r.key = s.key /\ r.queue = s.queue
      /\ r.prio = s.prio /\ r.base = s.base
      /\ r.result = e /\ r.timer = s.timer /\ r.pc = f
  BY <1>6 DEF Fields
<1>8. /\ e \in [GuestThreads -> CvResults] /\ f \in [GuestThreads -> CvPlaces]
      /\ e[t] = "TimedOut" /\ f[t] = "cvret"
      /\ \A u \in GuestThreads \ {t} : e[u] = s.result[u] /\ f[u] = s.pc[u]
  BY <1>1, <1>2, <1>3 DEF IsCvState, CvPlaces, CvResults
<1>9. IsCvState(r)
  BY <1>1, <1>7, <1>8 DEF IsCvState
<1>10. /\ x \in [GuestThreads -> Mutexes \cup {0}] /\ x[t] = a
       /\ \A u \in GuestThreads \ {t} : x[u] = w[u]
  BY <1>1 DEF WordsHold
<1>11. h \in [GuestThreads -> SUBSET Mutexes] /\ \A b \in h[t] : s.tag[b].owner = t
  BY <1>1 DEF WordsHold
<1>12. Moves(s, r, w, x, h, h, t)
  BY <1>7, <1>8, <1>9, <1>10, <1>11 DEF Moves
<1> QED BY <1>12, MovesIsSound

LEMMA WaitIsSound ==
  ASSUME CvInv, NEW t \in GuestThreads, NEW a \in Mutexes, NEW k \in Keys, NEW timeout,
         Wait(t, a, k, timeout)
  PROVE  CvInv'
<1>1. PICK s : s = State
  OBVIOUS
<1>2. PICK y : y = PassLock(s, t, a)
  OBVIOUS
<1>3. Releases(s, want, held, t, a, held')
  <2>1. CvSound(s, want, held) /\ s.pc = pc
    BY <1>1, StateFields DEF CvInv
  <2> QED BY <2>1 DEF Releases, Wait, Starts
<1>4. CvSound(y, want, held') /\ y.pc[t] = "run"
  BY <1>2, <1>3, PassLockIsSound
<1>5. want' = [want EXCEPT ![t] = a] /\ seen' = seen
  BY DEF Wait
<1>6. seen' \in [GuestThreads -> GuestThreads \cup {NoThread}]
  BY <1>5, InvSays
<1>7. CASE Apply([y EXCEPT !.result = [@ EXCEPT ![t] = "TimedOut"],
                           !.pc = [@ EXCEPT ![t] = "cvret"]])
  <2>1. PICK r : GivesUp(y, r, t)
    BY DEF GivesUp
  <2>2. CvSound(r, want', held')
    BY <1>4, <1>5, <2>1, GivesUpIsSound
  <2>3. Apply(r)
    BY <1>7, <2>1 DEF GivesUp
  <2> QED BY <1>6, <2>2, <2>3, AppliedIsSound
<1>8. CASE Apply([y EXCEPT !.key = [@ EXCEPT ![t] = k], !.queue = Append(@, t),
                           !.timer = IF timeout = "timed" THEN @ \cup {t} ELSE @,
                           !.pc = [@ EXCEPT ![t] = "cvwait"]])
  <2>0. PICK timed : timed = (timeout = "timed")
    OBVIOUS
  <2>1. PICK r : Parks(y, r, t, k, timed)
    BY DEF Parks
  <2>2. CvSound(r, want', held')
    BY <1>4, <1>5, <2>1, ParksIsSound
  <2>3. Apply(r)
    BY <1>8, <2>0, <2>1 DEF Parks
  <2> QED BY <1>6, <2>2, <2>3, AppliedIsSound
<1> QED BY <1>1, <1>2, <1>7, <1>8 DEF Wait

\* Finalize() of t ends the waits of the threads W that are linked to it.
Finalized(s, r, t, W) ==
  r = [s EXCEPT
         !.info = [w \in GuestThreads |-> IF w \in W THEN NoInfo ELSE s.info[w]],
         !.queue = Keep(s.queue, {i \in DOMAIN s.queue : s.queue[i] \notin W}),
         !.result = [w \in GuestThreads |-> IF w \in W THEN "InvalidState" ELSE s.result[w]],
         !.timer = s.timer \ W,
         !.pc = [w \in GuestThreads |-> IF w = t THEN "gone"
                 ELSE IF w \notin W THEN s.pc[w]
                 ELSE IF s.pc[w] = "wait" THEN "woken" ELSE "cvret"]]

LEMMA FinalizedIsSound ==
  ASSUME NEW s, NEW w, NEW h, CvSound(s, w, h), NEW t \in GuestThreads, s.pc[t] = "exited",
         NEW W, W = AllWaiters(s, t), NEW r, Finalized(s, r, t, W)
  PROVE  CvSound(r, w, h)
<1>1. IsCvState(s) /\ LinksHold(s) /\ TimersHold(s) /\ WordsHold(s, w, h)
  BY DEF CvSound
<1>2. \A u \in GuestThreads : u \in W =>
        s.info[u] # NoInfo /\ s.key[u] = NoKey /\ s.pc[u] \in {"wait", "cvwait"} /\ u # t
  <2> SUFFICES ASSUME NEW u \in GuestThreads, s.info[u].owner = t
               PROVE  s.info[u] # NoInfo /\ s.key[u] = NoKey /\ s.pc[u] \in {"wait", "cvwait"} /\ u # t
    BY DEF AllWaiters
  <2>1. s.info[u] # NoInfo
    BY <1>1, InfoTypes
  <2> QED BY <1>1, <2>1 DEF LinksHold
<1> DEFINE P == {i \in DOMAIN s.queue : s.queue[i] \notin W}
<1>3. PICK i : i = [u \in GuestThreads |-> IF u \in W THEN NoInfo ELSE s.info[u]]
  OBVIOUS
<1>4. PICK q : q = Keep(s.queue, P)
  OBVIOUS
<1>5. PICK e : e = [u \in GuestThreads |-> IF u \in W THEN "InvalidState" ELSE s.result[u]]
  OBVIOUS
<1>6. PICK m : m = s.timer \ W
  OBVIOUS
<1>7. PICK f : f = [u \in GuestThreads |-> IF u = t THEN "gone"
                    ELSE IF u \notin W THEN s.pc[u]
                    ELSE IF s.pc[u] = "wait" THEN "woken" ELSE "cvret"]
  OBVIOUS
<1>8. r = [s EXCEPT !.info = i, !.queue = q, !.result = e, !.timer = m, !.pc = f]
  BY <1>3, <1>4, <1>5, <1>6, <1>7 DEF Finalized
<1>9. s = [tag |-> s.tag, info |-> s.info, key |-> s.key, queue |-> s.queue, prio |-> s.prio,
           base |-> s.base, result |-> s.result, timer |-> s.timer, pc |-> s.pc]
  BY <1>1 DEF IsCvState, Fields
<1>10. r = [tag |-> s.tag, info |-> i, key |-> s.key, queue |-> q, prio |-> s.prio,
            base |-> s.base, result |-> e, timer |-> m, pc |-> f]
  BY <1>8, <1>9
<1>11. /\ r = Fields(r) /\ r.tag = s.tag /\ r.info = i /\ r.key = s.key /\ r.queue = q
       /\ r.prio = s.prio /\ r.base = s.base
       /\ r.result = e /\ r.timer = m /\ r.pc = f
  BY <1>10 DEF Fields
<1>12. i \in [GuestThreads -> Infos \cup {NoInfo}] /\ e \in [GuestThreads -> CvResults]
       /\ f \in [GuestThreads -> CvPlaces] /\ m \in SUBSET GuestThreads
  BY <1>1, <1>3, <1>5, <1>6, <1>7 DEF IsCvState, CvResults, CvPlaces
<1>13. q \in Seq(GuestThreads) /\ \A u \in GuestThreads : u \notin W /\ Has(s.queue, u) => Has(q, u)
  <2>1. s.queue \in Seq(GuestThreads) /\ P \in SUBSET (DOMAIN s.queue)
    BY <1>1 DEF IsCvState
  <2>2. q \in Seq(GuestThreads) /\ \A j \in P : Has(q, s.queue[j])
    <3> HIDE DEF P
    <3> QED BY <1>4, <2>1, KeepHas
  <2>3. ASSUME NEW u \in GuestThreads, u \notin W, Has(s.queue, u) PROVE Has(q, u)
    <3>1. PICK j \in DOMAIN s.queue : s.queue[j] = u
      BY <2>3 DEF Has
    <3>2. j \in P
      BY <2>3, <3>1
    <3> QED BY <2>2, <3>1, <3>2
  <2> QED BY <2>2, <2>3
<1> HIDE DEF P
<1>14. IsCvState(r)
  BY <1>1, <1>11, <1>12, <1>13 DEF IsCvState
<1>15. \A u \in GuestThreads : u \in W =>
         i[u] = NoInfo /\ e[u] = "InvalidState" /\ u \notin m /\ f[u] \in {"woken", "cvret"}
  BY <1>2, <1>3, <1>5, <1>6, <1>7
<1>16. \A u \in GuestThreads : u \notin W /\ u # t =>
         i[u] = s.info[u] /\ e[u] = s.result[u] /\ (u \in m => u \in s.timer) /\ f[u] = s.pc[u]
  BY <1>3, <1>5, <1>6, <1>7
<1>17. f[t] = "gone" /\ i[t] = NoInfo /\ s.info[t] = NoInfo /\ s.key[t] = NoKey /\ t \notin m
  <2>1. s.info[t] = NoInfo /\ s.key[t] = NoKey /\ t \notin s.timer
    BY <1>1 DEF LinksHold, TimersHold
  <2> QED BY <1>3, <1>6, <1>7, <2>1
<1>18. LinksHold(r)
  <2> SUFFICES ASSUME NEW u \in GuestThreads
               PROVE  /\ r.info[u] # NoInfo => r.pc[u] \in {"wait", "cvwait"} /\ Has(r.queue, u)
                      /\ r.key[u] # NoKey => r.pc[u] = "cvwait" /\ r.info[u] = NoInfo /\ Has(r.queue, u)
                      /\ r.pc[u] = "wait" => r.info[u] # NoInfo
                      /\ r.pc[u] = "cvwait" => r.info[u] # NoInfo \/ r.key[u] # NoKey
    BY DEF LinksHold
  <2>1. CASE u \in W
    BY <1>2, <1>11, <1>15, <2>1
  <2>2. CASE u = t
    BY <1>11, <1>17, <2>2
  <2>3. CASE u \notin W /\ u # t
    <3>1. r.pc[u] = s.pc[u] /\ r.key[u] = s.key[u] /\ r.info[u] = s.info[u]
          /\ (Has(s.queue, u) => Has(r.queue, u))
      BY <1>11, <1>13, <1>16, <2>3
    <3> QED BY <1>1, <3>1 DEF LinksHold
  <2> QED BY <2>1, <2>2, <2>3
<1>19. TimersHold(r)
  <2> SUFFICES ASSUME NEW u \in m PROVE f[u] = "cvwait"
    BY <1>11 DEF TimersHold
  <2>1. u \in GuestThreads /\ u \in s.timer /\ u \notin W /\ u # t
    BY <1>6, <1>12, <1>17
  <2> QED BY <1>1, <1>16, <2>1 DEF TimersHold
<1>20. ASSUME NEW u \in GuestThreads
       PROVE  /\ r.pc[u] \notin {"run", "exited", "gone"} => w[u] \in Mutexes
              /\ r.info[u] # NoInfo =>
                   /\ r.tag[r.info[u].lock] = [owner |-> r.info[u].owner, wait |-> TRUE]
                   /\ r.info[u].lock = w[u]
              /\ r.pc[u] = "cvret" /\ r.result[u] = "Success" => r.tag[w[u]].owner = u
              /\ \A b \in h[u] : r.tag[b].owner = u
  <2>0. /\ s.pc[u] \notin {"run", "exited", "gone"} => w[u] \in Mutexes
        /\ s.info[u] # NoInfo =>
             /\ s.tag[s.info[u].lock] = [owner |-> s.info[u].owner, wait |-> TRUE]
             /\ s.info[u].lock = w[u]
        /\ s.pc[u] = "cvret" /\ s.result[u] = "Success" => s.tag[w[u]].owner = u
        /\ \A b \in h[u] : s.tag[b].owner = u
    BY <1>1 DEF WordsHold
  <2>1. CASE u \in W
    BY <1>2, <1>11, <1>15, <2>0, <2>1
  <2>2. CASE u = t
    BY <1>11, <1>17, <2>0, <2>2
  <2>3. CASE u \notin W /\ u # t
    BY <1>11, <1>16, <2>0, <2>3
  <2> QED BY <2>1, <2>2, <2>3
<1>21. WordsHold(r, w, h)
  <2>1. /\ \A b \in Mutexes : r.tag[b].owner = NoThread => r.tag[b] = Free
        /\ w \in [GuestThreads -> Mutexes \cup {0}] /\ h \in [GuestThreads -> SUBSET Mutexes]
    BY <1>1, <1>11 DEF WordsHold
  <2> QED BY <1>20, <2>1 DEF WordsHold
<1> QED BY <1>14, <1>18, <1>19, <1>21 DEF CvSound

LEMMA FinalizeIsSound ==
  ASSUME CvInv, NEW t \in GuestThreads, Finalize(t)
  PROVE  CvInv'
<1>1. PICK s : s = State
  OBVIOUS
<1>2. PICK W : W = AllWaiters(s, t)
  OBVIOUS
<1>3. PICK r : Finalized(s, r, t, W)
  BY DEF Finalized
<1>4. CvSound(s, want, held) /\ s.pc[t] = "exited"
  <2>1. s.pc = pc
    BY <1>1, StateFields
  <2> QED BY <1>1, <2>1 DEF CvInv, Finalize
<1>5. CvSound(r, want, held)
  BY <1>2, <1>3, <1>4, FinalizedIsSound
<1>6. Apply(r) /\ want' = want /\ seen' = seen /\ held' = held
  BY <1>1, <1>2, <1>3 DEF Finalize, Finalized
<1>7. seen' \in [GuestThreads -> GuestThreads \cup {NoThread}] /\ CvSound(r, want', held')
  BY <1>5, <1>6, InvSays
<1> QED BY <1>6, <1>7, AppliedIsSound

-----------------------------------------------------------------------------
(* The theorems.                                                           *)

LEMMA CvInitHolds == CvInit => CvInv
<1> SUFFICES ASSUME CvInit PROVE CvInv
  OBVIOUS
<1>1. PICK s : s = State
  OBVIOUS
<1>2. /\ s = Fields(s)
      /\ s.tag = m_tag /\ s.info = m_waiting_lock_info /\ s.key = m_condvar_key
      /\ s.queue = m_queue /\ s.prio = m_priority /\ s.base = m_base_priority
      /\ s.result = m_wait_result /\ s.timer = m_timer /\ s.pc = pc
  BY <1>1 DEF State, Fields
<1>3. Free \in [owner: GuestThreads \cup {NoThread}, wait: BOOLEAN]
  BY DEF Free
<1>4. /\ m_tag \in [Mutexes -> [owner: GuestThreads \cup {NoThread}, wait: BOOLEAN]]
      /\ \A a \in Mutexes : m_tag[a] = Free
  BY <1>3 DEF CvInit
<1>5. /\ m_waiting_lock_info \in [GuestThreads -> Infos \cup {NoInfo}]
      /\ m_condvar_key \in [GuestThreads -> Keys \cup {NoKey}]
      /\ m_queue \in Seq(GuestThreads)
      /\ m_priority \in [GuestThreads -> Nat] /\ m_base_priority \in [GuestThreads -> Nat]
      /\ m_wait_result \in [GuestThreads -> CvResults]
      /\ m_timer = {} /\ pc \in [GuestThreads -> CvPlaces]
      /\ \A t \in GuestThreads :
           m_waiting_lock_info[t] = NoInfo /\ m_condvar_key[t] = NoKey /\ pc[t] = "run"
  BY CvAssumption DEF CvInit, CvResults, CvPlaces
<1>6. /\ want \in [GuestThreads -> Mutexes \cup {0}] /\ held \in [GuestThreads -> SUBSET Mutexes]
      /\ seen \in [GuestThreads -> GuestThreads \cup {NoThread}]
      /\ \A t \in GuestThreads : held[t] = {}
  BY DEF CvInit
<1>7. IsCvState(s)
  BY <1>2, <1>4, <1>5 DEF IsCvState
<1>8. LinksHold(s) /\ TimersHold(s)
  BY <1>2, <1>5 DEF LinksHold, TimersHold
<1>9. WordsHold(s, want, held)
  BY <1>2, <1>4, <1>5, <1>6 DEF WordsHold
<1> QED BY <1>1, <1>6, <1>7, <1>8, <1>9 DEF CvInv, CvSound

LEMMA CvStep ==
  ASSUME CvInv, [CvNext]_cvVars
  PROVE  CvInv'
<1>1. CASE UNCHANGED cvVars
  <2>1. State' = State /\ want' = want /\ held' = held /\ seen' = seen
    BY <1>1 DEF cvVars, kernelVars, State
  <2>2. PICK r : r = State
    OBVIOUS
  <2>3. CvSound(r, want', held') /\ State' = r
    BY <2>1, <2>2 DEF CvInv
  <2>4. seen' \in [GuestThreads -> GuestThreads \cup {NoThread}]
    BY <2>1, InvSays
  <2> QED BY <2>3, <2>4, NextIsSound
<1>2. CASE CvNext
  <2>1. PICK t \in GuestThreads : \/ Guest(t) \/ Call(t) \/ OnTimer(t)
                                  \/ \E p \in NewPriorities : SetBasePriority(t, p)
                                  \/ RequestTerminate(t) \/ Finalize(t)
    BY <1>2 DEF CvNext
  <2>2. CASE Guest(t)
    BY <2>2, GuestLockIsSound, GuestUnlockIsSound, GuestCheckIsSound, GuestCvReturnIsSound DEF Guest
  <2>3. CASE Call(t)
    <3>1. CASE WaitForAddress(t)
      BY <3>1, WaitForAddressIsSound
    <3>2. CASE WaitForAddressReturn(t)
      BY <3>2, WaitReturnIsSound
    <3>3. CASE \E a \in Mutexes : SignalToAddress(t, a)
      BY <3>3, SignalToAddressIsSound
    <3>4. CASE \E a \in Mutexes, k \in Keys, timeout \in {"zero", "timed", "forever"} :
                 Wait(t, a, k, timeout)
      BY <3>4, WaitIsSound
    <3>5. CASE \E k \in Keys, count \in {0, 1} : Signal(t, k, count)
      BY <3>5, SignalIsSound
    <3>6. CASE Exit(t)
      BY <3>6, ExitIsSound
    <3> QED BY <2>3, <3>1, <3>2, <3>3, <3>4, <3>5, <3>6 DEF Call
  <2>4. CASE OnTimer(t)
    BY <2>4, OnTimerIsSound
  <2>5. CASE \E p \in NewPriorities : SetBasePriority(t, p)
    BY <2>5, SetBasePriorityIsSound
  <2>6. CASE RequestTerminate(t)
    BY <2>6, RequestTerminateIsSound
  <2>7. CASE Finalize(t)
    BY <2>7, FinalizeIsSound
  <2> QED BY <2>1, <2>2, <2>3, <2>4, <2>5, <2>6, <2>7
<1> QED BY <1>1, <1>2

LEMMA CvInvImplies ==
  ASSUME CvInv
  PROVE  MutexWordIsTrue /\ WaitsAreTidy
<1>1. PICK s : s = State
  OBVIOUS
<1>2. /\ s.tag = m_tag /\ s.info = m_waiting_lock_info /\ s.key = m_condvar_key
      /\ s.result = m_wait_result /\ s.timer = m_timer /\ s.pc = pc
  BY <1>1, StateFields
<1>3. IsCvState(s) /\ LinksHold(s) /\ TimersHold(s) /\ WordsHold(s, want, held)
  BY <1>1 DEF CvInv, CvSound
<1>4. HolderOwnsMutex
  BY <1>2, <1>3 DEF WordsHold, HolderOwnsMutex
<1>5. MutexWaiterAnnounced
  BY <1>2, <1>3 DEF WordsHold, MutexWaiterAnnounced
<1>6. TimerOnlyWhileWaiting
  BY <1>2, <1>3 DEF TimersHold, TimerOnlyWhileWaiting
<1>7. ParkedIsLinked
  <2> SUFFICES ASSUME NEW t \in GuestThreads
               PROVE  /\ pc[t] = "wait" => m_waiting_lock_info[t] # NoInfo
                      /\ pc[t] = "cvwait" =>
                           (m_waiting_lock_info[t] # NoInfo) # (m_condvar_key[t] # NoKey)
    BY DEF ParkedIsLinked
  <2>1. /\ m_condvar_key[t] # NoKey => m_waiting_lock_info[t] = NoInfo
        /\ pc[t] = "wait" => m_waiting_lock_info[t] # NoInfo
        /\ pc[t] = "cvwait" => m_waiting_lock_info[t] # NoInfo \/ m_condvar_key[t] # NoKey
    BY <1>2, <1>3 DEF LinksHold
  <2> QED BY <2>1
<1> QED BY <1>4, <1>5, <1>6, <1>7 DEF MutexWordIsTrue, WaitsAreTidy

\* The words of the user mutexes are true (MutexWordIsTrue): whoever the mutex and
\* condition variable functions returned to owns the word, and whoever the kernel
\* parked is announced in it to the owner it names, whatever passes the lock on and
\* whatever ends a wait: SignalToAddress(), Wait(), Signal(), a timeout, a
\* termination, a change of priority, the finalization of the owner.
THEOREM WordIsAlwaysTrue == CvSpec => []MutexWordIsTrue
<1>1. CvInv /\ [CvNext]_cvVars => CvInv'
  BY CvStep
<1>2. CvInv => MutexWordIsTrue
  BY CvInvImplies
<1> QED BY <1>1, <1>2, CvInitHolds, PTL DEF CvSpec

\* A parked thread is linked to one thing that can wake it and only a thread parked
\* by Wait() has a timer task (WaitsAreTidy): EndWait(), CancelWait() and the move
\* from the condition variable to the mutex leave nothing of the wait before.
THEOREM WaitsStayTidy == CvSpec => []WaitsAreTidy
<1>1. CvInv /\ [CvNext]_cvVars => CvInv'
  BY CvStep
<1>2. CvInv => WaitsAreTidy
  BY CvInvImplies
<1> QED BY <1>1, <1>2, CvInitHolds, PTL DEF CvSpec

-----------------------------------------------------------------------------
(***************************************************************************)
(* Priority inheritance.  O gives the thread each thread waits for, B the  *)
(* base priorities, Q the priorities, and L is the set of live threads.    *)
(***************************************************************************)

\* Priority p is the best of the base priority of u and the priorities of its waiters.
Inherits(O, B, Q, u, p) ==
  /\ p <= B[u]
  /\ \A w \in GuestThreads : O[w] = u => p <= Q[w]
  /\ p = B[u] \/ \E w \in GuestThreads : O[w] = u /\ p = Q[w]

\* Every live thread but t has the priority it inherits, and whoever is waited for lives.
Inherited(O, B, Q, L, t) ==
  /\ O \in [GuestThreads -> GuestThreads \cup {NoThread}]
  /\ B \in [GuestThreads -> Nat] /\ Q \in [GuestThreads -> Nat]
  /\ L \in SUBSET GuestThreads
  /\ \A w \in GuestThreads : O[w] # NoThread => O[w] \in L
  /\ \A u \in L : u # t => Inherits(O, B, Q, u, Q[u])

LEMMA NoThreadIsNone == \A t \in GuestThreads : t # NoThread
  BY CvAssumption

\* Thread u is given priority p.
Given(Q, R, u, p) == R = [Q EXCEPT ![u] = p]

\* A new priority of u concerns the thread it waits for, and no other.
LEMMA InheritedMovesOn ==
  ASSUME NEW O, NEW B, NEW Q, NEW L, NEW u \in GuestThreads, Inherited(O, B, Q, L, u),
         NEW p \in Nat, Inherits(O, B, Q, u, p), NEW R, R = [Q EXCEPT ![u] = p]
  PROVE  Inherited(O, B, R, L, O[u])
<1>1. /\ O \in [GuestThreads -> GuestThreads \cup {NoThread}]
      /\ B \in [GuestThreads -> Nat] /\ Q \in [GuestThreads -> Nat]
      /\ L \in SUBSET GuestThreads
      /\ \A w \in GuestThreads : O[w] # NoThread => O[w] \in L
      /\ \A v \in L : v # u => Inherits(O, B, Q, v, Q[v])
  BY DEF Inherited
<1>2. R \in [GuestThreads -> Nat] /\ R[u] = p /\ \A v \in GuestThreads : v # u => R[v] = Q[v]
  BY <1>1
<1>3. ASSUME NEW v \in L, v # O[u] PROVE Inherits(O, B, R, v, R[v])
  <2>1. v \in GuestThreads
    BY <1>1
  <2>2. Inherits(O, B, Q, v, R[v])
    BY <1>1, <1>2, <2>1
  <2>3. \A w \in GuestThreads : O[w] = v => R[w] = Q[w]
    BY <1>2, <1>3
  <2> QED BY <2>2, <2>3 DEF Inherits
<1> QED BY <1>1, <1>2, <1>3 DEF Inherited

LEMMA InheritedStops ==
  ASSUME NEW O, NEW B, NEW Q, NEW L, NEW u \in GuestThreads, Inherited(O, B, Q, L, u),
         Inherits(O, B, Q, u, Q[u])
  PROVE  Inherited(O, B, Q, L, NoThread)
  BY DEF Inherited

\* The threads a chain of rounds has passed rose to priority m, or fell from it.
Rises(O, B, P, Q, m, u) ==
  /\ Q \in [GuestThreads -> Nat]
  /\ \A v \in GuestThreads : Q[v] # P[v] =>
       /\ Q[v] = m /\ m < P[v] /\ m <= B[v]
       /\ \A w \in GuestThreads : O[w] = v => m <= Q[w]
  /\ u # NoThread => \E w \in GuestThreads : O[w] = u /\ Q[w] = m

Falls(O, B, P, Q, m, u) ==
  /\ Q \in [GuestThreads -> Nat]
  /\ \A v \in GuestThreads : Q[v] # P[v] =>
       /\ P[v] = m /\ m < Q[v]
       /\ \A w \in GuestThreads : O[w] = v => m < Q[w]
  /\ u # NoThread => Q[u] = P[u] /\ \E w \in GuestThreads : O[w] = u /\ P[w] = m

\* The first round.
LEMMA RiseStarts ==
  ASSUME NEW O, NEW B, NEW P, NEW L, NEW t \in GuestThreads, Inherited(O, B, P, L, t),
         NEW m \in Nat, Inherits(O, B, P, t, m), m < P[t],
         NEW R, R = [P EXCEPT ![t] = m]
  PROVE  Rises(O, B, P, R, m, O[t])
<1>1. O \in [GuestThreads -> GuestThreads \cup {NoThread}] /\ P \in [GuestThreads -> Nat]
  BY DEF Inherited
<1>2. R \in [GuestThreads -> Nat] /\ R[t] = m /\ \A v \in GuestThreads : v # t => R[v] = P[v]
  BY <1>1
<1> QED BY <1>1, <1>2 DEF Rises, Inherits

LEMMA FallStarts ==
  ASSUME NEW O, NEW B, NEW P, NEW L, NEW t \in GuestThreads, Inherited(O, B, P, L, t),
         NEW m \in Nat, Inherits(O, B, P, t, m), P[t] < m,
         NEW R, R = [P EXCEPT ![t] = m]
  PROVE  Falls(O, B, P, R, P[t], O[t])
<1>1. O \in [GuestThreads -> GuestThreads \cup {NoThread}] /\ P \in [GuestThreads -> Nat]
  BY DEF Inherited
<1>2. R \in [GuestThreads -> Nat] /\ R[t] = m /\ \A v \in GuestThreads : v # t => R[v] = P[v]
  BY <1>1
<1>3. \A w \in GuestThreads : O[w] = t => w # t /\ P[t] < P[w]
  BY <1>1 DEF Inherits
<1>4. O[t] # NoThread => O[t] \in GuestThreads /\ O[t] # t
  BY <1>1, <1>3
<1>5. ASSUME NEW v \in GuestThreads, R[v] # P[v]
      PROVE  /\ P[v] = P[t] /\ P[t] < R[v]
             /\ \A w \in GuestThreads : O[w] = v => P[t] < R[w]
  BY <1>1, <1>2, <1>3, <1>5
<1> QED BY <1>1, <1>2, <1>4, <1>5 DEF Falls

\* A later round: if it changes a priority, it is one that has not changed before.
LEMMA RiseGoesOn ==
  ASSUME NEW O, NEW B, NEW P, NEW Q, NEW L, NEW t, NEW u \in L, NEW m \in Nat,
         Inherited(O, B, P, L, t), Rises(O, B, P, Q, m, u), u = t => Q[t] # P[t],
         NEW p \in Nat, Inherits(O, B, Q, u, p), p # Q[u], NEW R, Given(Q, R, u, p)
  PROVE  Rises(O, B, P, R, m, O[u]) /\ Q[u] = P[u]
<1>1. /\ O \in [GuestThreads -> GuestThreads \cup {NoThread}] /\ B \in [GuestThreads -> Nat]
      /\ P \in [GuestThreads -> Nat] /\ Q \in [GuestThreads -> Nat]
      /\ u \in GuestThreads /\ u # NoThread
      /\ u # t => Inherits(O, B, P, u, P[u])
  BY NoThreadIsNone DEF Inherited, Rises
<1>2. PICK w \in GuestThreads : O[w] = u /\ Q[w] = m
  BY <1>1 DEF Rises
<1>3. p <= m
  BY <1>2 DEF Inherits
<1>4. \A v \in GuestThreads : Q[v] <= P[v]
  BY <1>1 DEF Rises
<1>5. Q[u] = P[u]
  <2> SUFFICES ASSUME Q[u] # P[u] PROVE FALSE
    OBVIOUS
  <2>1. Q[u] = m /\ m <= B[u] /\ \A v \in GuestThreads : O[v] = u => m <= Q[v]
    BY <1>1 DEF Rises
  <2>2. m <= p
    BY <2>1 DEF Inherits
  <2> QED BY <1>3, <2>1, <2>2
<1>6. Inherits(O, B, P, u, P[u])
  BY <1>1, <1>5
<1>7. p <= P[u]
  <2>1. CASE P[u] = B[u]
    BY <2>1 DEF Inherits
  <2>2. CASE \E v \in GuestThreads : O[v] = u /\ P[u] = P[v]
    <3>1. PICK v \in GuestThreads : O[v] = u /\ P[u] = P[v]
      BY <2>2
    <3>2. p <= Q[v] /\ Q[v] <= P[v]
      BY <1>4, <3>1 DEF Inherits
    <3> QED BY <1>1, <3>1, <3>2
  <2> QED BY <1>6, <2>1, <2>2 DEF Inherits
<1>8. p = m
  <2>1. CASE p = B[u]
    <3>1. P[u] <= B[u]
      BY <1>6 DEF Inherits
    <3> QED BY <1>1, <1>5, <1>7, <2>1, <3>1
  <2>2. CASE \E v \in GuestThreads : O[v] = u /\ p = Q[v]
    <3>1. PICK v \in GuestThreads : O[v] = u /\ p = Q[v]
      BY <2>2
    <3>2. CASE Q[v] # P[v]
      BY <3>1, <3>2 DEF Rises
    <3>3. CASE Q[v] = P[v]
      <4>1. P[u] <= P[v]
        BY <1>6, <3>1 DEF Inherits
      <4> QED BY <1>1, <1>5, <1>7, <3>1, <3>3, <4>1
    <3> QED BY <3>2, <3>3
  <2> QED BY <2>1, <2>2 DEF Inherits
<1>9. m < P[u] /\ m <= B[u] /\ \A v \in GuestThreads : O[v] = u => m <= Q[v]
  BY <1>1, <1>5, <1>7, <1>8 DEF Inherits
<1>10. R \in [GuestThreads -> Nat] /\ R[u] = m /\ \A v \in GuestThreads : v # u => R[v] = Q[v]
  BY <1>1, <1>8 DEF Given
<1>11. ASSUME NEW v \in GuestThreads, R[v] # P[v]
       PROVE  /\ R[v] = m /\ m < P[v] /\ m <= B[v]
              /\ \A x \in GuestThreads : O[x] = v => m <= R[x]
  <2>1. R[v] = m /\ m < P[v] /\ m <= B[v] /\ \A x \in GuestThreads : O[x] = v => m <= Q[x]
    <3>1. CASE v = u
      BY <1>9, <1>10, <3>1
    <3>2. CASE v # u
      BY <1>10, <1>11, <3>2 DEF Rises
    <3> QED BY <3>1, <3>2
  <2>2. \A x \in GuestThreads : O[x] = v => m <= R[x]
    BY <1>10, <2>1
  <2> QED BY <2>1, <2>2
<1> QED BY <1>1, <1>5, <1>10, <1>11 DEF Rises

LEMMA FallGoesOn ==
  ASSUME NEW O, NEW B, NEW P, NEW Q, NEW L, NEW t, NEW u \in L, NEW m \in Nat,
         Inherited(O, B, P, L, t), Falls(O, B, P, Q, m, u), u = t => Q[t] # P[t],
         NEW p \in Nat, Inherits(O, B, Q, u, p), p # Q[u], NEW R, Given(Q, R, u, p)
  PROVE  Falls(O, B, P, R, m, O[u]) /\ Q[u] = P[u]
<1>1. /\ O \in [GuestThreads -> GuestThreads \cup {NoThread}] /\ B \in [GuestThreads -> Nat]
      /\ P \in [GuestThreads -> Nat] /\ Q \in [GuestThreads -> Nat]
      /\ u \in GuestThreads /\ u # NoThread
      /\ u # t => Inherits(O, B, P, u, P[u])
  BY NoThreadIsNone DEF Inherited, Falls
<1>2. Q[u] = P[u] /\ \E w \in GuestThreads : O[w] = u /\ P[w] = m
  BY <1>1 DEF Falls
<1>3. Inherits(O, B, P, u, P[u])
  BY <1>1, <1>2
<1>4. P[u] <= m
  BY <1>2, <1>3 DEF Inherits
<1>5. \A v \in GuestThreads : P[v] <= Q[v]
  BY <1>1 DEF Falls
<1>6. P[u] <= p
  <2>1. CASE p = B[u]
    BY <1>3, <2>1 DEF Inherits
  <2>2. CASE \E v \in GuestThreads : O[v] = u /\ p = Q[v]
    <3>1. PICK v \in GuestThreads : O[v] = u /\ p = Q[v]
      BY <2>2
    <3>2. P[u] <= P[v] /\ P[v] <= Q[v]
      BY <1>3, <1>5, <3>1 DEF Inherits
    <3> QED BY <1>1, <3>1, <3>2
  <2> QED BY <2>1, <2>2 DEF Inherits
<1>7. P[u] = m
  <2> SUFFICES ASSUME P[u] # m PROVE FALSE
    OBVIOUS
  <2>1. P[u] < m
    BY <1>1, <1>4
  <2>2. CASE P[u] = B[u]
    <3>1. p <= P[u]
      BY <2>2 DEF Inherits
    <3> QED BY <1>1, <1>2, <1>6, <3>1
  <2>3. CASE \E v \in GuestThreads : O[v] = u /\ P[u] = P[v]
    <3>1. PICK v \in GuestThreads : O[v] = u /\ P[u] = P[v]
      BY <2>3
    <3>2. Q[v] = P[v]
      BY <1>1, <2>1, <3>1 DEF Falls
    <3>3. p <= Q[v]
      BY <3>1 DEF Inherits
    <3> QED BY <1>1, <1>2, <1>6, <3>1, <3>2, <3>3
  <2> QED BY <1>3, <2>2, <2>3 DEF Inherits
<1>8. m < p /\ \A w \in GuestThreads : O[w] = u => m < Q[w]
  <2>1. m < p
    BY <1>1, <1>2, <1>6, <1>7
  <2> QED BY <1>1, <2>1 DEF Inherits
<1>9. R \in [GuestThreads -> Nat] /\ R[u] = p /\ \A v \in GuestThreads : v # u => R[v] = Q[v]
  BY <1>1 DEF Given
<1>10. ASSUME NEW v \in GuestThreads, R[v] # P[v]
       PROVE  P[v] = m /\ m < R[v] /\ \A x \in GuestThreads : O[x] = v => m < R[x]
  <2>1. P[v] = m /\ m < R[v] /\ \A x \in GuestThreads : O[x] = v => m < Q[x]
    <3>1. CASE v = u
      BY <1>7, <1>8, <1>9, <3>1
    <3>2. CASE v # u
      BY <1>9, <1>10, <3>2 DEF Falls
    <3> QED BY <3>1, <3>2
  <2>2. \A x \in GuestThreads : O[x] = v => m < R[x]
    BY <1>8, <1>9, <2>1
  <2> QED BY <2>1, <2>2
<1>11. ASSUME O[u] # NoThread PROVE R[O[u]] = P[O[u]]
  <2>1. O[u] \in GuestThreads
    BY <1>1, <1>11
  <2>2. O[u] # u
    BY <1>1, <1>2, <1>7, <1>8
  <2>3. Q[O[u]] = P[O[u]]
    <3> SUFFICES ASSUME Q[O[u]] # P[O[u]] PROVE FALSE
      OBVIOUS
    <3>1. m < Q[u]
      BY <1>1, <2>1 DEF Falls
    <3> QED BY <1>1, <1>2, <1>7, <3>1
  <2> QED BY <1>9, <2>1, <2>2, <2>3
<1> QED BY <1>1, <1>2, <1>7, <1>9, <1>10, <1>11 DEF Falls

\* The threads whose priority is not what it was.
ChangedFrom(P, Q) == {v \in GuestThreads : Q[v] # P[v]}

\* After n rounds that began with t the next is for u: every other priority is as it
\* should be, and no thread has changed twice.
Going(O, B, P, Q, L, t, u, n) ==
  /\ Inherited(O, B, Q, L, u)
  /\ u # NoThread =>
       /\ u \in L
       /\ n <= Cardinality(ChangedFrom(P, Q))
       /\ \/ u = t /\ Q = P
          \/ Q[t] # P[t] /\ \E m \in Nat : Rises(O, B, P, Q, m, u) \/ Falls(O, B, P, Q, m, u)

LEMMA OneMoreChanged ==
  ASSUME NEW P \in [GuestThreads -> Nat], NEW Q \in [GuestThreads -> Nat],
         NEW u \in GuestThreads, Q[u] = P[u], NEW p \in Nat, p # Q[u],
         NEW R, Given(Q, R, u, p)
  PROVE  Cardinality(ChangedFrom(P, R)) = Cardinality(ChangedFrom(P, Q)) + 1
<1>1. R[u] = p /\ \A v \in GuestThreads : v # u => R[v] = Q[v]
  BY DEF Given
<1>2. ChangedFrom(P, R) = ChangedFrom(P, Q) \cup {u} /\ u \notin ChangedFrom(P, Q)
  BY <1>1 DEF ChangedFrom
<1>3. IsFiniteSet(ChangedFrom(P, Q))
  <2>1. ChangedFrom(P, Q) \subseteq GuestThreads
    BY DEF ChangedFrom
  <2> QED BY <2>1, CvAssumption, FS_Subset
<1> QED BY <1>2, <1>3, FS_AddElement

LEMMA FewChange ==
  ASSUME NEW P, NEW Q
  PROVE  /\ Cardinality(ChangedFrom(P, Q)) \in Nat
         /\ Cardinality(ChangedFrom(P, Q)) <= Cardinality(GuestThreads)
<1>1. ChangedFrom(P, Q) \subseteq GuestThreads
  BY DEF ChangedFrom
<1> QED BY <1>1, CvAssumption, FS_Subset, FS_CardinalityType

LEMMA GoesOn ==
  ASSUME NEW O, NEW B, NEW P, NEW Q, NEW L, NEW t \in GuestThreads, NEW u \in GuestThreads, NEW n \in Nat,
         Inherited(O, B, P, L, t), Going(O, B, P, Q, L, t, u, n),
         NEW p \in Nat, Inherits(O, B, Q, u, p), p # Q[u], NEW R, Given(Q, R, u, p)
  PROVE  Going(O, B, P, R, L, t, O[u], n + 1)
<1>1. /\ u # NoThread /\ Inherited(O, B, Q, L, u) /\ u \in L
      /\ n <= Cardinality(ChangedFrom(P, Q))
  BY NoThreadIsNone DEF Going
<1>2. /\ P \in [GuestThreads -> Nat] /\ Q \in [GuestThreads -> Nat]
      /\ O[u] # NoThread => O[u] \in L
  BY <1>1 DEF Inherited
<1>3. Inherited(O, B, R, L, O[u])
  BY <1>1, InheritedMovesOn DEF Given
<1>4. R \in [GuestThreads -> Nat] /\ R[u] = p /\ \A v \in GuestThreads : v # u => R[v] = Q[v]
  BY <1>2 DEF Given
<1>5. /\ Q[u] = P[u] /\ R[t] # P[t]
      /\ \E m \in Nat : Rises(O, B, P, R, m, O[u]) \/ Falls(O, B, P, R, m, O[u])
  <2>1. CASE u = t /\ Q = P
    <3>1. R = [P EXCEPT ![t] = p] /\ Inherits(O, B, P, t, p) /\ p # P[t]
      BY <2>1 DEF Given
    <3>2. CASE p < P[t]
      BY <1>4, <2>1, <3>1, <3>2, RiseStarts
    <3>3. CASE P[t] < p
      <4>1. Falls(O, B, P, R, P[t], O[t]) /\ P[t] \in Nat
        BY <1>2, <3>1, <3>3, FallStarts
      <4> QED BY <1>4, <2>1, <3>1, <4>1
    <3>4. p < P[t] \/ P[t] < p
      <4>1. P[t] \in Nat
        BY <1>2
      <4> QED BY <3>1, <4>1
    <3> QED BY <3>2, <3>3, <3>4
  <2>2. CASE Q[t] # P[t] /\ \E m \in Nat : Rises(O, B, P, Q, m, u) \/ Falls(O, B, P, Q, m, u)
    <3>1. PICK m \in Nat : Rises(O, B, P, Q, m, u) \/ Falls(O, B, P, Q, m, u)
      BY <2>2
    <3>0. u \in L /\ (u = t => Q[t] # P[t])
      BY <1>1, <2>2
    <3>2. CASE Rises(O, B, P, Q, m, u)
      <4>1. Rises(O, B, P, R, m, O[u]) /\ Q[u] = P[u]
        BY <3>0, <3>2, RiseGoesOn
      <4> QED BY <1>4, <2>2, <4>1
    <3>3. CASE Falls(O, B, P, Q, m, u)
      <4>1. Falls(O, B, P, R, m, O[u]) /\ Q[u] = P[u]
        BY <3>0, <3>3, FallGoesOn
      <4> QED BY <1>4, <2>2, <4>1
    <3> QED BY <3>1, <3>2, <3>3
  <2>3. \/ u = t /\ Q = P
        \/ Q[t] # P[t] /\ \E m \in Nat : Rises(O, B, P, Q, m, u) \/ Falls(O, B, P, Q, m, u)
    BY <1>1 DEF Going
  <2> QED BY <2>1, <2>2, <2>3
<1>6. n + 1 <= Cardinality(ChangedFrom(P, R))
  <2>1. Cardinality(ChangedFrom(P, R)) = Cardinality(ChangedFrom(P, Q)) + 1
    BY <1>2, <1>5, OneMoreChanged
  <2>2. Cardinality(ChangedFrom(P, Q)) \in Nat
    BY FewChange
  <2> QED BY <1>1, <2>1, <2>2
<1> QED BY <1>2, <1>3, <1>5, <1>6 DEF Going

-----------------------------------------------------------------------------
\* The same of a record of the state.
OwnersOf(s) == [w \in GuestThreads |-> s.info[w].owner]
LiveOf(s) == {u \in GuestThreads : s.pc[u] # "gone"}
PrioritiesDue(s, t) == Inherited(OwnersOf(s), s.base, s.prio, LiveOf(s), t)

LEMMA InheritedPriorityIs ==
  ASSUME NEW s, IsCvState(s), NEW u \in GuestThreads, NEW p, p = InheritedPriority(s, u)
  PROVE  /\ p \in Nat /\ Inherits(OwnersOf(s), s.base, s.prio, u, p)
         /\ \A q \in Nat : Inherits(OwnersOf(s), s.base, s.prio, u, q) => q = p
<1> DEFINE S == {s.base[u]} \cup {s.prio[w] : w \in AllWaiters(s, u)}
<1>0. s.prio \in [GuestThreads -> Nat] /\ s.base \in [GuestThreads -> Nat]
  BY DEF IsCvState
<1>1. S \subseteq Nat /\ S # {}
  BY <1>0 DEF AllWaiters
<1>2. p = Min(S)
  BY DEF InheritedPriority
<1>3. \A q : q \in S <=> \/ q = s.base[u]
                         \/ \E w \in GuestThreads : OwnersOf(s)[w] = u /\ q = s.prio[w]
  BY DEF AllWaiters, OwnersOf
<1> HIDE DEF S
<1>4. \E x \in S : \A y \in S : x <= y
  BY <1>1, LeastNatural
<1>5. p \in S /\ \A y \in S : p <= y
  BY <1>2, <1>4 DEF Min
<1>6. Inherits(OwnersOf(s), s.base, s.prio, u, p)
  BY <1>3, <1>5 DEF Inherits
<1>7. ASSUME NEW q \in Nat, Inherits(OwnersOf(s), s.base, s.prio, u, q) PROVE q = p
  <2>1. q \in S
    BY <1>3, <1>7 DEF Inherits
  <2>2. q <= p
    <3>1. CASE p = s.base[u]
      BY <1>7, <3>1 DEF Inherits
    <3>2. CASE \E w \in GuestThreads : OwnersOf(s)[w] = u /\ p = s.prio[w]
      BY <1>7, <3>2 DEF Inherits
    <3> QED BY <1>3, <1>5, <3>1, <3>2
  <2> QED BY <1>1, <1>5, <2>1, <2>2
<1> QED BY <1>1, <1>5, <1>6, <1>7

LEMMA RestoreRoundGoesOn ==
  ASSUME NEW s, IsCvState(s), NEW t \in GuestThreads, PrioritiesDue(s, t), NEW n \in Nat,
         NEW x, NEW u \in GuestThreads \cup {NoThread}, NEW z, Reordered(s, z),
         x.thread = u, x.s = z, NEW y, y = RestoreRound(x),
         Going(OwnersOf(s), s.base, s.prio, z.prio, LiveOf(s), t, u, n)
  PROVE  Going(OwnersOf(s), s.base, s.prio, y.s.prio, LiveOf(s), t, y.thread, n + 1)
<1> DEFINE new == InheritedPriority(z, u)
           q == IF u \in Range(z.queue) THEN Append(Without(z.queue, u), u) ELSE z.queue
           r == [z EXCEPT !.prio = [z.prio EXCEPT ![u] = new], !.queue = q]
<1>0. x.thread = u /\ x.s = z
  OBVIOUS
<1>1. y = IF u = NoThread THEN x
          ELSE IF new = z.prio[u] THEN [thread |-> NoThread, s |-> z]
          ELSE [thread |-> z.info[u].owner, s |-> r]
  BY DEF RestoreRound
<1>2. CASE u = NoThread
  BY <1>1, <1>2 DEF Going
<1> DEFINE O == OwnersOf(s) B == s.base P == s.prio L == LiveOf(s)
<1>3. CASE u # NoThread
  <2>1. u \in GuestThreads /\ IsCvState(z) /\ OwnersOf(z) = O /\ z.base = B
    BY <1>3 DEF Reordered, OwnersOf
  <2>2. new \in Nat /\ Inherits(O, B, z.prio, u, new)
    <3> HIDE DEF O, B
    <3> QED BY <2>1, InheritedPriorityIs
  <2>3. Inherited(O, B, z.prio, L, u)
    BY DEF Going
  <2>4. CASE new = z.prio[u]
    <3>1. y.thread = NoThread /\ y.s = z
      BY <1>1, <1>3, <2>4
    <3> HIDE DEF O, B, L, P
    <3>2. Inherited(O, B, z.prio, L, NoThread)
      BY <2>1, <2>2, <2>3, <2>4, InheritedStops
    <3>3. Going(O, B, P, z.prio, L, t, NoThread, n + 1)
      BY <3>2 DEF Going
    <3> QED BY <3>1, <3>3 DEF O, B, L, P
  <2>5. CASE new # z.prio[u]
    <3> HIDE DEF new
    <3>1. y.thread = O[u] /\ y.s.prio = [z.prio EXCEPT ![u] = new]
      <4>1. y.thread = z.info[u].owner /\ y.s = r
        BY <1>1, <1>3, <2>5
      <4>2. r.prio = [z.prio EXCEPT ![u] = new]
        BY <2>1 DEF IsCvState, Fields
      <4>3. O[u] = z.info[u].owner
        BY <2>1 DEF Reordered, OwnersOf
      <4> QED BY <4>1, <4>2, <4>3
    <3>2. PICK R : R = [z.prio EXCEPT ![u] = new]
      OBVIOUS
    <3>3. Inherited(O, B, P, L, t) /\ Going(O, B, P, z.prio, L, t, u, n)
      BY DEF PrioritiesDue
    <3> HIDE DEF O, B, L, P
    <3>4. Going(O, B, P, R, L, t, O[u], n + 1)
      BY <2>1, <2>2, <2>5, <3>2, <3>3, GoesOn DEF Given
    <3> QED BY <3>1, <3>2, <3>4 DEF O, B, L, P
  <2> QED BY <2>4, <2>5
<1> QED BY <1>2, <1>3

\* RestorePriority() ends with every priority as it should be.
LEMMA RestoreMakesDue ==
  ASSUME NEW s, IsCvState(s), NEW t \in LiveOf(s), PrioritiesDue(s, t),
         NEW r, r = RestorePriority(s, t)
  PROVE  PrioritiesDue(r, NoThread)
<1> DEFINE N == 2 * Cardinality(GuestThreads)
           F == CHOOSE G : Restoring(G, s, t, N)
           Goes(Q, u, n) == Going(OwnersOf(s), s.base, s.prio, Q, LiveOf(s), t, u, n)
           Fine(x, n) == /\ x.thread \in GuestThreads \cup {NoThread} /\ Reordered(s, x.s)
                         /\ Goes(x.s.prio, x.thread, n)
<1>0. t \in GuestThreads
  BY DEF LiveOf
<1>1. N \in Nat /\ Cardinality(GuestThreads) \in Nat
  BY ThreadsAreCounted
<1>2. Restoring(F, s, t, N)
  BY <1>1, RestoringExists
<1>3. r = F[N].s
  BY DEF RestorePriority, Restoring
<1>3a. Cardinality(GuestThreads) < N
  <2>1. Cardinality(GuestThreads) # 0
    BY <1>0, CvAssumption, FS_EmptySet
  <2> QED BY <1>1, <2>1
<1> HIDE DEF F, N
<1>4. /\ F[0] = [thread |-> t, s |-> s]
      /\ \A n \in 0..N : n # 0 => F[n] = RestoreRound(F[n - 1])
  BY <1>1, <1>2 DEF Restoring
<1>5. Fine(F[0], 0)
  <2>1. F[0].thread = t /\ F[0].s = s /\ Reordered(s, s)
    BY <1>4 DEF Reordered
  <2>2. Goes(s.prio, t, 0)
    <3>1. Cardinality(ChangedFrom(s.prio, s.prio)) \in Nat
      BY FewChange
    <3> QED BY <3>1 DEF Going, PrioritiesDue
  <2> QED BY <1>0, <2>1, <2>2
<1>6. ASSUME NEW n \in 0..N, n # 0, Fine(F[n - 1], n - 1) PROVE Fine(F[n], n)
  <2>1. PICK x : x = F[n - 1]
    OBVIOUS
  <2>2. PICK z : z = x.s
    OBVIOUS
  <2>3. PICK u \in GuestThreads \cup {NoThread} : u = x.thread
    BY <1>6, <2>1
  <2>4. PICK y : y = F[n]
    OBVIOUS
  <2>5. y = RestoreRound(x) /\ Reordered(s, z) /\ Goes(z.prio, u, n - 1)
    BY <1>4, <1>6, <2>1, <2>2, <2>3, <2>4
  <2>6. y.thread \in GuestThreads \cup {NoThread} /\ Reordered(s, y.s)
    BY <2>2, <2>3, <2>5, RestoreRoundReorders
  <2>7. PICK k \in Nat : k = n - 1 /\ n = k + 1
    BY <1>1, <1>6
  <2>8. Goes(y.s.prio, y.thread, k + 1)
    <3>1. Going(OwnersOf(s), s.base, s.prio, z.prio, LiveOf(s), t, u, k)
      BY <2>5, <2>7
    <3> QED BY <1>0, <2>2, <2>3, <2>5, <3>1, RestoreRoundGoesOn
  <2> QED BY <2>4, <2>6, <2>7, <2>8
<1> HIDE DEF Fine
<1>7. \A n \in 0..N : Fine(F[n], n)
  <2> DEFINE Bad == {n \in 0..N : ~Fine(F[n], n)}
  <2> SUFFICES ASSUME Bad # {} PROVE FALSE
    OBVIOUS
  <2>1. Bad \subseteq Nat
    BY <1>1
  <2>2. PICK n \in Bad : \A k \in Bad : n <= k
    <3> HIDE DEF Bad
    <3> QED BY <2>1, LeastNatural
  <2>3. n # 0
    BY <1>5, <2>2
  <2>4. n \in 0..N /\ n - 1 \in 0..N /\ n - 1 \notin Bad
    BY <1>1, <2>2, <2>3
  <2>5. Fine(F[n - 1], n - 1)
    BY <2>4
  <2> QED BY <1>6, <2>2, <2>3, <2>4, <2>5
<1>8. /\ Reordered(s, r)
      /\ Going(OwnersOf(s), s.base, s.prio, r.prio, LiveOf(s), t, F[N].thread, N)
  BY <1>1, <1>3, <1>7 DEF Fine
<1>9. F[N].thread = NoThread
  <2> SUFFICES ASSUME F[N].thread # NoThread PROVE FALSE
    OBVIOUS
  <2>1. N <= Cardinality(ChangedFrom(s.prio, r.prio))
    BY <1>8 DEF Going
  <2>2. Cardinality(ChangedFrom(s.prio, r.prio)) <= Cardinality(GuestThreads)
        /\ Cardinality(ChangedFrom(s.prio, r.prio)) \in Nat
    BY FewChange
  <2> QED BY <1>1, <1>3a, <2>1, <2>2
<1>10. Inherited(OwnersOf(s), s.base, r.prio, LiveOf(s), NoThread)
  BY <1>8, <1>9 DEF Going
<1>11. OwnersOf(r) = OwnersOf(s) /\ r.base = s.base /\ LiveOf(r) = LiveOf(s)
  BY <1>8 DEF Reordered, OwnersOf, LiveOf
<1> QED BY <1>10, <1>11 DEF PrioritiesDue

\* A link more, a link less, the links of a lock passed on, the links to t gone.
LEMMA LinkedInherits ==
  ASSUME NEW O, NEW B, NEW Q, NEW L, Inherited(O, B, Q, L, NoThread),
         NEW w \in GuestThreads, O[w] = NoThread, NEW o \in L, NEW M,
         M \in [GuestThreads -> GuestThreads \cup {NoThread}],
         M[w] = o, \A v \in GuestThreads : v # w => M[v] = O[v]
  PROVE  /\ Inherited(M, B, Q, L, o)
         /\ ~(Q[w] < Q[o]) => Inherited(M, B, Q, L, NoThread)
<1>1. /\ B \in [GuestThreads -> Nat] /\ Q \in [GuestThreads -> Nat]
      /\ L \in SUBSET GuestThreads
      /\ \A v \in GuestThreads : O[v] # NoThread => O[v] \in L
      /\ \A u \in L : Inherits(O, B, Q, u, Q[u]) /\ u # NoThread /\ u \in GuestThreads
  BY NoThreadIsNone DEF Inherited
<1>2. \A v \in GuestThreads : M[v] # NoThread => M[v] \in L
  BY <1>1
<1>3. ASSUME NEW u \in L, u # o PROVE Inherits(M, B, Q, u, Q[u])
  <2>1. \A v \in GuestThreads : M[v] = u <=> O[v] = u
    BY <1>1, <1>3
  <2> QED BY <1>1, <2>1 DEF Inherits
<1>4. Inherited(M, B, Q, L, o)
  BY <1>1, <1>2, <1>3 DEF Inherited
<1>5. ASSUME ~(Q[w] < Q[o]) PROVE Inherited(M, B, Q, L, NoThread)
  <2>1. Q[o] <= Q[w]
    BY <1>1, <1>5
  <2>2. \A v \in GuestThreads : M[v] = o <=> O[v] = o \/ v = w
    OBVIOUS
  <2>3. Inherits(M, B, Q, o, Q[o])
    BY <1>1, <2>1, <2>2 DEF Inherits
  <2> QED BY <1>4, <2>3 DEF Inherited
<1> QED BY <1>4, <1>5

LEMMA UnlinkedInherits ==
  ASSUME NEW O, NEW B, NEW Q, NEW L, Inherited(O, B, Q, L, NoThread),
         NEW w \in GuestThreads, NEW o \in L, O[w] = o, NEW M,
         M \in [GuestThreads -> GuestThreads \cup {NoThread}],
         M[w] = NoThread, \A v \in GuestThreads : v # w => M[v] = O[v]
  PROVE  /\ Inherited(M, B, Q, L, o)
         /\ ~(Q[o] = Q[w] /\ Q[o] < B[o]) => Inherited(M, B, Q, L, NoThread)
<1>1. /\ B \in [GuestThreads -> Nat] /\ Q \in [GuestThreads -> Nat]
      /\ L \in SUBSET GuestThreads
      /\ \A v \in GuestThreads : O[v] # NoThread => O[v] \in L
      /\ \A u \in L : Inherits(O, B, Q, u, Q[u]) /\ u # NoThread /\ u \in GuestThreads
  BY NoThreadIsNone DEF Inherited
<1>2. \A v \in GuestThreads : M[v] # NoThread => M[v] \in L
  BY <1>1
<1>3. ASSUME NEW u \in L, u # o PROVE Inherits(M, B, Q, u, Q[u])
  <2>1. \A v \in GuestThreads : M[v] = u <=> O[v] = u
    BY <1>1, <1>3
  <2> QED BY <1>1, <2>1 DEF Inherits
<1>4. Inherited(M, B, Q, L, o)
  BY <1>1, <1>2, <1>3 DEF Inherited
<1>5. ASSUME ~(Q[o] = Q[w] /\ Q[o] < B[o]) PROVE Inherited(M, B, Q, L, NoThread)
  <2>1. Q[o] <= B[o] /\ (\A v \in GuestThreads : O[v] = o => Q[o] <= Q[v])
        /\ (Q[o] = B[o] \/ \E v \in GuestThreads : O[v] = o /\ Q[o] = Q[v])
    BY <1>1 DEF Inherits
  <2>2. \A v \in GuestThreads : M[v] = o <=> O[v] = o /\ v # w
    BY <1>1
  <2>3. Q[o] = B[o] \/ Q[o] # Q[w]
    BY <1>1, <1>5, <2>1
  <2>4. Inherits(M, B, Q, o, Q[o])
    BY <2>1, <2>2, <2>3 DEF Inherits
  <2> QED BY <1>4, <2>4 DEF Inherited
<1> QED BY <1>4, <1>5

LEMMA PassedInherits ==
  ASSUME NEW O, NEW B, NEW Q, NEW L, Inherited(O, B, Q, L, NoThread),
         NEW t \in L, NEW W \in SUBSET GuestThreads, \A w \in W : O[w] = t,
         NEW n \in W, n \in L, n # t, \A w \in W : Q[n] <= Q[w], NEW M,
         M \in [GuestThreads -> GuestThreads \cup {NoThread}],
         M[n] = NoThread, \A w \in W : w # n => M[w] = n,
         \A v \in GuestThreads : v \notin W => M[v] = O[v]
  PROVE  /\ Inherited(M, B, Q, L, t)
         /\ ~(Q[t] = Q[n] /\ Q[t] < B[t]) => Inherited(M, B, Q, L, NoThread)
<1>1. /\ B \in [GuestThreads -> Nat] /\ Q \in [GuestThreads -> Nat]
      /\ L \in SUBSET GuestThreads
      /\ \A v \in GuestThreads : O[v] # NoThread => O[v] \in L
      /\ \A u \in L : Inherits(O, B, Q, u, Q[u]) /\ u # NoThread /\ u \in GuestThreads
  BY NoThreadIsNone DEF Inherited
<1>2. \A v \in GuestThreads : M[v] # NoThread => M[v] \in L
  BY <1>1
<1>3. ASSUME NEW u \in L, u # t PROVE Inherits(M, B, Q, u, Q[u])
  <2>1. CASE u # n
    <3>1. \A v \in GuestThreads : M[v] = u <=> O[v] = u
      BY <1>1, <1>3, <2>1
    <3> QED BY <1>1, <3>1 DEF Inherits
  <2>2. CASE u = n
    <3>1. \A v \in GuestThreads : M[v] = n <=> O[v] = n \/ (v \in W /\ v # n)
      BY <1>1
    <3>2. Inherits(O, B, Q, n, Q[n]) /\ \A v \in W : Q[n] <= Q[v]
      BY <1>1
    <3>3. Inherits(M, B, Q, n, Q[n])
      BY <3>1, <3>2 DEF Inherits
    <3> QED BY <2>2, <3>3
  <2> QED BY <2>1, <2>2
<1>4. Inherited(M, B, Q, L, t)
  BY <1>1, <1>2, <1>3 DEF Inherited
<1>5. ASSUME ~(Q[t] = Q[n] /\ Q[t] < B[t]) PROVE Inherited(M, B, Q, L, NoThread)
  <2>1. Q[t] <= B[t] /\ (\A v \in GuestThreads : O[v] = t => Q[t] <= Q[v])
        /\ (Q[t] = B[t] \/ \E v \in GuestThreads : O[v] = t /\ Q[t] = Q[v])
    BY <1>1 DEF Inherits
  <2>2. \A v \in GuestThreads : M[v] = t <=> O[v] = t /\ v \notin W
    BY <1>1
  <2>3. Q[t] <= Q[n] /\ \A v \in W : Q[n] <= Q[v]
    BY <2>1
  <2>4. Q[t] = B[t] \/ \A v \in W : Q[t] # Q[v]
    <3>1. CASE Q[t] # Q[n]
      BY <1>1, <2>3, <3>1
    <3>2. CASE Q[t] = Q[n]
      BY <1>1, <1>5, <2>1, <3>2
    <3> QED BY <3>1, <3>2
  <2>5. Inherits(M, B, Q, t, Q[t])
    BY <2>1, <2>2, <2>4 DEF Inherits
  <2> QED BY <1>4, <2>5 DEF Inherited
<1> QED BY <1>4, <1>5

LEMMA DroppedInherits ==
  ASSUME NEW O, NEW B, NEW Q, NEW L, Inherited(O, B, Q, L, NoThread),
         NEW t, NEW M, M \in [GuestThreads -> GuestThreads \cup {NoThread}],
         \A v \in GuestThreads : M[v] = IF O[v] = t THEN NoThread ELSE O[v],
         NEW K, K = L \ {t}
  PROVE  Inherited(M, B, Q, K, NoThread)
<1>1. /\ B \in [GuestThreads -> Nat] /\ Q \in [GuestThreads -> Nat]
      /\ L \in SUBSET GuestThreads
      /\ \A v \in GuestThreads : O[v] # NoThread => O[v] \in L
      /\ \A u \in L : Inherits(O, B, Q, u, Q[u]) /\ u # NoThread /\ u \in GuestThreads
  BY NoThreadIsNone DEF Inherited
<1>2. \A v \in GuestThreads : M[v] # NoThread => M[v] \in K
  BY <1>1
<1>3. ASSUME NEW u \in K PROVE Inherits(M, B, Q, u, Q[u])
  <2>1. \A v \in GuestThreads : M[v] = u <=> O[v] = u
    BY <1>1, <1>3
  <2>2. Inherits(O, B, Q, u, Q[u])
    BY <1>1
  <2> QED BY <2>1, <2>2 DEF Inherits
<1> QED BY <1>1, <1>2, <1>3 DEF Inherited

LEMMA RebasedInherits ==
  ASSUME NEW O, NEW B, NEW Q, NEW L, Inherited(O, B, Q, L, NoThread),
         NEW t \in GuestThreads, NEW p \in Nat, NEW A, A = [B EXCEPT ![t] = p]
  PROVE  Inherited(O, A, Q, L, t)
<1>1. /\ B \in [GuestThreads -> Nat] /\ Q \in [GuestThreads -> Nat]
      /\ L \in SUBSET GuestThreads
      /\ O \in [GuestThreads -> GuestThreads \cup {NoThread}]
      /\ \A v \in GuestThreads : O[v] # NoThread => O[v] \in L
      /\ \A u \in L : Inherits(O, B, Q, u, Q[u]) /\ u # NoThread /\ u \in GuestThreads
  BY NoThreadIsNone DEF Inherited
<1>2. A \in [GuestThreads -> Nat] /\ \A u \in GuestThreads : u # t => A[u] = B[u]
  BY <1>1
<1>3. ASSUME NEW u \in L, u # t PROVE Inherits(O, A, Q, u, Q[u])
  BY <1>1, <1>2, <1>3 DEF Inherits
<1> QED BY <1>1, <1>2, <1>3 DEF Inherited

-----------------------------------------------------------------------------
(* Each function of the kernel.                                            *)

LEMMA OwnersAre ==
  ASSUME NEW s, IsCvState(s)
  PROVE  /\ OwnersOf(s) \in [GuestThreads -> GuestThreads \cup {NoThread}]
         /\ \A w \in GuestThreads : OwnersOf(s)[w] = s.info[w].owner
         /\ \A w \in GuestThreads : s.info[w] = NoInfo <=> OwnersOf(s)[w] = NoThread
<1>1. \A w \in GuestThreads :
        /\ s.info[w].owner \in GuestThreads \cup {NoThread}
        /\ s.info[w] = NoInfo <=> s.info[w].owner = NoThread
  BY InfoTypes
<1> QED BY <1>1 DEF OwnersOf

LEMMA DueRests ==
  ASSUME NEW s, NEW t, PrioritiesDue(s, t), NEW r,
         r.info = s.info, r.base = s.base, r.prio = s.prio,
         \A u \in GuestThreads : r.pc[u] = "gone" <=> s.pc[u] = "gone"
  PROVE  PrioritiesDue(r, t)
<1>1. OwnersOf(r) = OwnersOf(s) /\ LiveOf(r) = LiveOf(s)
  BY DEF OwnersOf, LiveOf
<1> QED BY <1>1 DEF PrioritiesDue

\* The links and the sequence are new, the rest is not.
Rewired(s, x, info, q) == x = [s EXCEPT !.info = info, !.queue = q]

LEMMA RelinkedIs ==
  ASSUME NEW s, IsCvState(s), NEW info \in [GuestThreads -> Infos \cup {NoInfo}],
         NEW q \in Seq(GuestThreads), NEW x, Rewired(s, x, info, q)
  PROVE  /\ IsCvState(x) /\ x.info = info /\ x.queue = q /\ x.prio = s.prio
         /\ x.tag = s.tag /\ x.key = s.key /\ x.base = s.base
         /\ x.result = s.result /\ x.timer = s.timer /\ x.pc = s.pc
<1>1. s = [tag |-> s.tag, info |-> s.info, key |-> s.key, queue |-> s.queue, prio |-> s.prio,
           base |-> s.base, result |-> s.result, timer |-> s.timer, pc |-> s.pc]
  BY DEF IsCvState, Fields
<1>2. x = [tag |-> s.tag, info |-> info, key |-> s.key, queue |-> q, prio |-> s.prio,
           base |-> s.base, result |-> s.result, timer |-> s.timer, pc |-> s.pc]
  BY <1>1 DEF Rewired
<1>3. /\ x = Fields(x) /\ x.info = info /\ x.queue = q /\ x.prio = s.prio
      /\ x.tag = s.tag /\ x.key = s.key /\ x.base = s.base
      /\ x.result = s.result /\ x.timer = s.timer /\ x.pc = s.pc
  BY <1>2 DEF Fields
<1> QED BY <1>3 DEF IsCvState

LEMMA AddWaiterDue ==
  ASSUME NEW s, IsCvState(s), PrioritiesDue(s, NoThread),
         NEW o \in LiveOf(s), NEW w \in GuestThreads, s.info[w] = NoInfo, NEW a \in Mutexes,
         NEW r, r = AddWaiter(s, o, w, a)
  PROVE  PrioritiesDue(r, NoThread)
<1>1. PICK info : info = [s.info EXCEPT ![w] = [owner |-> o, lock |-> a]]
  OBVIOUS
<1>2. PICK q : q = Append(s.queue, w)
  OBVIOUS
<1>3. PICK x : Rewired(s, x, info, q)
  BY DEF Rewired
<1>0. o \in GuestThreads
  BY DEF LiveOf
<1>4. /\ info \in [GuestThreads -> Infos \cup {NoInfo}]
      /\ info[w].owner = o /\ \A v \in GuestThreads : v # w => info[v] = s.info[v]
  <2>1. [owner |-> o, lock |-> a] \in Infos /\ s.info \in [GuestThreads -> Infos \cup {NoInfo}]
    BY <1>0, InfoTypes DEF IsCvState
  <2> QED BY <1>1, <2>1
<1>5. q \in Seq(GuestThreads)
  <2>1. s.queue \in Seq(GuestThreads)
    BY DEF IsCvState
  <2> QED BY <1>2, <2>1, AppendHas
<1>6. r = IF s.prio[w] < s.prio[o] THEN RestorePriority(x, o) ELSE x
  BY <1>1, <1>2, <1>3 DEF AddWaiter, Rewired
<1>7. IsCvState(x) /\ x.info = info /\ x.prio = s.prio /\ x.base = s.base /\ x.pc = s.pc
  BY <1>3, <1>4, <1>5, RelinkedIs
<1>8. /\ OwnersOf(x) \in [GuestThreads -> GuestThreads \cup {NoThread}]
      /\ OwnersOf(x)[w] = o /\ OwnersOf(s)[w] = NoThread
      /\ \A v \in GuestThreads : v # w => OwnersOf(x)[v] = OwnersOf(s)[v]
      /\ LiveOf(x) = LiveOf(s)
  BY <1>4, <1>7, OwnersAre DEF LiveOf
<1>9. /\ Inherited(OwnersOf(x), s.base, s.prio, LiveOf(s), o)
      /\ ~(s.prio[w] < s.prio[o]) => Inherited(OwnersOf(x), s.base, s.prio, LiveOf(s), NoThread)
  <2>a. PICK M : M = OwnersOf(x)
    OBVIOUS
  <2>b. PICK O : O = OwnersOf(s)
    OBVIOUS
  <2>c. PICK L : L = LiveOf(s)
    OBVIOUS
  <2>2. Inherited(O, s.base, s.prio, L, NoThread) /\ o \in L
    BY <2>b, <2>c DEF PrioritiesDue
  <2> QED BY <1>8, <2>a, <2>b, <2>c, <2>2, LinkedInherits
<1>10. CASE s.prio[w] < s.prio[o]
  <2>1. PrioritiesDue(x, o) /\ o \in LiveOf(x)
    BY <1>7, <1>8, <1>9 DEF PrioritiesDue
  <2> QED BY <1>6, <1>7, <1>10, <2>1, RestoreMakesDue
<1>11. CASE ~(s.prio[w] < s.prio[o])
  BY <1>6, <1>7, <1>8, <1>9, <1>11 DEF PrioritiesDue
<1> QED BY <1>10, <1>11

LEMMA RemoveWaiterDue ==
  ASSUME NEW s, IsCvState(s), PrioritiesDue(s, NoThread),
         NEW w \in GuestThreads, s.info[w] # NoInfo,
         NEW r, r = RemoveWaiter(s, w)
  PROVE  PrioritiesDue(r, NoThread)
<1>1. PICK info : info = [s.info EXCEPT ![w] = NoInfo]
  OBVIOUS
<1>2. PICK q : q = Without(s.queue, w)
  OBVIOUS
<1>3. PICK x : Rewired(s, x, info, q)
  BY DEF Rewired
<1>0. PICK o : o = s.info[w].owner
  OBVIOUS
<1>4. /\ info \in [GuestThreads -> Infos \cup {NoInfo}]
      /\ info[w] = NoInfo /\ \A v \in GuestThreads : v # w => info[v] = s.info[v]
  BY <1>1 DEF IsCvState
<1>5. q \in Seq(GuestThreads)
  <2>1. s.queue \in Seq(GuestThreads)
    BY DEF IsCvState
  <2> QED BY <1>2, <2>1, WithoutHas
<1>6. r = IF s.prio[o] = s.prio[w] /\ s.prio[o] < s.base[o] THEN RestorePriority(x, o) ELSE x
  BY <1>0, <1>1, <1>2, <1>3 DEF RemoveWaiter, Rewired
<1>7. IsCvState(x) /\ x.info = info /\ x.prio = s.prio /\ x.base = s.base /\ x.pc = s.pc
  BY <1>3, <1>4, <1>5, RelinkedIs
<1>8. /\ OwnersOf(x) \in [GuestThreads -> GuestThreads \cup {NoThread}]
      /\ OwnersOf(x)[w] = NoThread /\ OwnersOf(s)[w] = o /\ o # NoThread
      /\ \A v \in GuestThreads : v # w => OwnersOf(x)[v] = OwnersOf(s)[v]
      /\ LiveOf(x) = LiveOf(s)
  BY <1>0, <1>4, <1>7, OwnersAre DEF LiveOf
<1>8a. o \in LiveOf(s)
  BY <1>8 DEF PrioritiesDue, Inherited
<1>9. /\ Inherited(OwnersOf(x), s.base, s.prio, LiveOf(s), o)
      /\ ~(s.prio[o] = s.prio[w] /\ s.prio[o] < s.base[o]) =>
           Inherited(OwnersOf(x), s.base, s.prio, LiveOf(s), NoThread)
  <2>a. PICK M : M = OwnersOf(x)
    OBVIOUS
  <2>b. PICK O : O = OwnersOf(s)
    OBVIOUS
  <2>c. PICK L : L = LiveOf(s)
    OBVIOUS
  <2>2. Inherited(O, s.base, s.prio, L, NoThread) /\ o \in L
    BY <1>8a, <2>b, <2>c DEF PrioritiesDue
  <2> QED BY <1>8, <2>a, <2>b, <2>c, <2>2, UnlinkedInherits
<1>10. CASE s.prio[o] = s.prio[w] /\ s.prio[o] < s.base[o]
  <2>1. PrioritiesDue(x, o) /\ o \in LiveOf(x)
    BY <1>7, <1>8, <1>8a, <1>9 DEF PrioritiesDue
  <2> QED BY <1>6, <1>7, <1>10, <2>1, RestoreMakesDue
<1>11. CASE ~(s.prio[o] = s.prio[w] /\ s.prio[o] < s.base[o])
  BY <1>6, <1>7, <1>8, <1>9, <1>11 DEF PrioritiesDue
<1> QED BY <1>10, <1>11


LEMMA FrontIsBest ==
  ASSUME NEW s, IsCvState(s), NEW S \in SUBSET GuestThreads, \A x \in S : Has(s.queue, x),
         NEW n, n = Front(s, S), S # {}
  PROVE  n \in S /\ \A y \in S : s.prio[n] <= s.prio[y]
<1>1. n \in S /\ \A y \in S \ {n} : Precedes(s, n, y)
  BY FrontPrecedes
<1>2. s.prio \in [GuestThreads -> Nat]
  BY DEF IsCvState
<1>3. ASSUME NEW y \in S PROVE s.prio[n] <= s.prio[y]
  <2>1. CASE y = n
    BY <1>2, <2>1
  <2>2. CASE y # n
    BY <1>1, <1>2, <2>2 DEF Precedes
  <2> QED BY <2>1, <2>2
<1> QED BY <1>1, <1>3

LEMMA RemoveByKeyDue ==
  ASSUME NEW s, IsCvState(s), LinksHold(s), PrioritiesDue(s, NoThread),
         NEW t \in GuestThreads, s.pc[t] = "run", NEW a \in Mutexes,
         NEW r, r = RemoveWaiterByKey(s, t, a)
  PROVE  PrioritiesDue(r, NoThread)
<1> DEFINE S == Waiters(s, t, a)
<1>1. PICK n : n = Front(s, S)
  OBVIOUS
<1>2. S \in SUBSET GuestThreads
  BY DEF Waiters
<1>3. \A x \in S : /\ Has(s.queue, x) /\ s.info[x].owner = t /\ s.info[x] # NoInfo
                   /\ s.pc[x] \in {"wait", "cvwait"}
  <2> SUFFICES ASSUME NEW x \in GuestThreads, s.info[x] = [owner |-> t, lock |-> a]
               PROVE  /\ Has(s.queue, x) /\ s.info[x].owner = t /\ s.info[x] # NoInfo
                      /\ s.pc[x] \in {"wait", "cvwait"}
    BY DEF Waiters
  <2>1. s.info[x] # NoInfo
    BY InfoTypes
  <2> QED BY <2>1 DEF LinksHold
<1>4. r = IF n = NoThread THEN s
          ELSE IF s.prio[t] = s.prio[n] /\ s.prio[t] < s.base[t]
          THEN RestorePriority([s EXCEPT !.info = PassedOn(s, t, a, n),
                                         !.queue = Without(s.queue, n)], t)
          ELSE [s EXCEPT !.info = PassedOn(s, t, a, n), !.queue = Without(s.queue, n)]
  BY <1>1 DEF RemoveWaiterByKey, PassedOn
<1>5. PassedOn(s, t, a, n) = [w \in GuestThreads |-> IF w = n THEN NoInfo
                              ELSE IF w \in S THEN [owner |-> n, lock |-> a] ELSE s.info[w]]
  BY DEF PassedOn
<1> HIDE DEF S
<1>6. CASE n = NoThread
  BY <1>4, <1>6
<1>7. CASE n # NoThread
  <2>0. S # {}
    BY <1>1, <1>2, <1>3, <1>7, FrontPrecedes
  <2>1. n \in S /\ n \in GuestThreads /\ \A y \in S : s.prio[n] <= s.prio[y]
    BY <1>1, <1>2, <1>3, <2>0, FrontIsBest
  <2>2. PICK info : info = PassedOn(s, t, a, n)
    OBVIOUS
  <2>3. PICK q : q = Without(s.queue, n)
    OBVIOUS
  <2>4. PICK x : Rewired(s, x, info, q)
    BY DEF Rewired
  <2>5. /\ info \in [GuestThreads -> Infos \cup {NoInfo}]
        /\ info[n] = NoInfo /\ \A w \in S : w # n => info[w].owner = n
        /\ \A v \in GuestThreads : v \notin S => info[v] = s.info[v]
    <3>1. [owner |-> n, lock |-> a] \in Infos /\ s.info \in [GuestThreads -> Infos \cup {NoInfo}]
      BY <2>1, InfoTypes DEF IsCvState
    <3> QED BY <1>2, <1>5, <2>1, <2>2, <3>1
  <2>6. q \in Seq(GuestThreads)
    <3>1. s.queue \in Seq(GuestThreads)
      BY DEF IsCvState
    <3> QED BY <2>3, <3>1, WithoutHas
  <2>7. r = IF s.prio[t] = s.prio[n] /\ s.prio[t] < s.base[t] THEN RestorePriority(x, t) ELSE x
    BY <1>4, <1>7, <2>2, <2>3, <2>4 DEF Rewired
  <2>8. IsCvState(x) /\ x.info = info /\ x.prio = s.prio /\ x.base = s.base /\ x.pc = s.pc
    BY <2>4, <2>5, <2>6, RelinkedIs
  <2>9. /\ OwnersOf(x) \in [GuestThreads -> GuestThreads \cup {NoThread}]
        /\ \A w \in S : OwnersOf(s)[w] = t
        /\ OwnersOf(x)[n] = NoThread /\ \A w \in S : w # n => OwnersOf(x)[w] = n
        /\ \A v \in GuestThreads : v \notin S => OwnersOf(x)[v] = OwnersOf(s)[v]
    <3>1. /\ OwnersOf(x) \in [GuestThreads -> GuestThreads \cup {NoThread}]
          /\ \A w \in GuestThreads : OwnersOf(x)[w] = x.info[w].owner
          /\ \A w \in GuestThreads : OwnersOf(s)[w] = s.info[w].owner
      BY <2>8, OwnersAre
    <3>2. NoInfo.owner = NoThread
      BY DEF NoInfo
    <3> QED BY <1>2, <1>3, <2>1, <2>5, <2>8, <3>1, <3>2
  <2>10. LiveOf(x) = LiveOf(s) /\ t \in LiveOf(s) /\ n \in LiveOf(s) /\ n # t
    BY <1>3, <2>1, <2>8 DEF LiveOf
  <2>11. /\ Inherited(OwnersOf(x), s.base, s.prio, LiveOf(s), t)
         /\ ~(s.prio[t] = s.prio[n] /\ s.prio[t] < s.base[t]) =>
              Inherited(OwnersOf(x), s.base, s.prio, LiveOf(s), NoThread)
    <3>a. PICK M : M = OwnersOf(x)
      OBVIOUS
    <3>b. PICK O : O = OwnersOf(s)
      OBVIOUS
    <3>c. PICK L : L = LiveOf(s)
      OBVIOUS
    <3>2. Inherited(O, s.base, s.prio, L, NoThread)
      BY <3>b, <3>c DEF PrioritiesDue
    <3> QED BY <1>2, <2>1, <2>9, <2>10, <3>a, <3>b, <3>c, <3>2, PassedInherits
  <2>12. CASE s.prio[t] = s.prio[n] /\ s.prio[t] < s.base[t]
    <3>1. PrioritiesDue(x, t) /\ t \in LiveOf(x)
      BY <2>8, <2>10, <2>11 DEF PrioritiesDue
    <3> QED BY <2>7, <2>8, <2>12, <3>1, RestoreMakesDue
  <2>13. CASE ~(s.prio[t] = s.prio[n] /\ s.prio[t] < s.base[t])
    BY <2>7, <2>8, <2>10, <2>11, <2>13 DEF PrioritiesDue
  <2> QED BY <2>12, <2>13
<1> QED BY <1>6, <1>7

\* A wait that ends is no priority's concern, nor is a word.
LEMMA EndWaitDue ==
  ASSUME NEW s, IsCvState(s), NEW w \in LiveOf(s), NEW res \in CvResults,
         PrioritiesDue(s, NoThread), NEW r, r = EndWait(s, w, res)
  PROVE  PrioritiesDue(r, NoThread)
<1>0. w \in GuestThreads
  BY DEF LiveOf
<1>1. /\ IsCvState(r)
      /\ r.tag = s.tag /\ r.info = s.info /\ r.key = s.key /\ r.queue = s.queue
      /\ r.prio = s.prio /\ r.base = s.base
      /\ r.result = [s.result EXCEPT ![w] = res] /\ r.timer = s.timer \ {w}
      /\ r.pc = [s.pc EXCEPT ![w] = IF s.pc[w] = "wait" THEN "woken" ELSE "cvret"]
  BY <1>0, EndWaitIs
<1>2. s.pc \in [GuestThreads -> CvPlaces]
  BY DEF IsCvState
<1>3. \A u \in GuestThreads : r.pc[u] = "gone" <=> s.pc[u] = "gone"
  BY <1>1, <1>2 DEF LiveOf
<1> QED BY <1>1, <1>3, DueRests

LEMMA PassLockDue ==
  ASSUME NEW s, IsCvState(s), LinksHold(s), PrioritiesDue(s, NoThread),
         NEW t \in GuestThreads, s.pc[t] = "run", NEW a \in Mutexes,
         NEW r, r = PassLock(s, t, a)
  PROVE  PrioritiesDue(r, NoThread)
<1>1. PICK n : n = Front(s, Waiters(s, t, a))
  OBVIOUS
<1>2. PICK s1 : s1 = RemoveWaiterByKey(s, t, a)
  OBVIOUS
<1>3. /\ n = NoThread => s1 = s /\ Waiters(s, t, a) = {}
      /\ n # NoThread => n \in Waiters(s, t, a) /\ Relinked(s, s1, PassedOn(s, t, a, n), {n})
  BY <1>1, <1>2, RemoveByKeyIs
<1>4. PrioritiesDue(s1, NoThread)
  BY <1>2, RemoveByKeyDue
<1>5. PICK v : v = IF n = NoThread THEN Free ELSE [owner |-> n, wait |-> Waiters(s1, n, a) # {}]
  OBVIOUS
<1>6. PICK e : e = [s1.tag EXCEPT ![a] = v]
  OBVIOUS
<1>7. PICK s2 : s2 = [s1 EXCEPT !.tag = e]
  OBVIOUS
<1>8. r = IF n = NoThread THEN s2 ELSE EndWait(s2, n, "Success")
  BY <1>1, <1>2, <1>5, <1>6, <1>7 DEF PassLock
<1>9. /\ IsCvState(s1) /\ s1.pc = s.pc
      /\ n # NoThread => n \in GuestThreads /\ s.pc[n] \in {"wait", "cvwait"}
  <2>1. CASE n = NoThread
    BY <1>3, <2>1
  <2>2. CASE n # NoThread
    <3>1. n \in GuestThreads /\ s.info[n] = [owner |-> t, lock |-> a]
      BY <1>3, <2>2 DEF Waiters
    <3>2. s.info[n] # NoInfo
      BY <3>1, InfoTypes
    <3> QED BY <1>3, <2>2, <3>1, <3>2 DEF Relinked, LinksHold
  <2> QED BY <2>1, <2>2
<1>10. v \in [owner: GuestThreads \cup {NoThread}, wait: BOOLEAN]
  BY <1>5, <1>9 DEF Free
<1>11. IsCvState(s2) /\ s2.info = s1.info /\ s2.prio = s1.prio /\ s2.base = s1.base /\ s2.pc = s1.pc
  BY <1>6, <1>7, <1>9, <1>10, SetTagIs
<1>12. PrioritiesDue(s2, NoThread)
  BY <1>4, <1>11, DueRests
<1>13. CASE n = NoThread
  BY <1>8, <1>12, <1>13
<1>14. CASE n # NoThread
  <2>1. r = EndWait(s2, n, "Success") /\ "Success" \in CvResults /\ n \in LiveOf(s2)
    BY <1>8, <1>9, <1>11, <1>14 DEF CvResults, LiveOf
  <2> QED BY <1>9, <1>11, <1>12, <1>14, <2>1, EndWaitDue
<1> QED BY <1>13, <1>14

LEMMA LeavesKeyDue ==
  ASSUME NEW s, IsCvState(s), PrioritiesDue(s, NoThread), NEW x, NEW r, LeavesKey(s, r, x)
  PROVE  PrioritiesDue(r, NoThread) /\ r.pc = s.pc /\ r.info = s.info
<1>1. PICK e : e = [s.key EXCEPT ![x] = NoKey]
  OBVIOUS
<1>2. PICK q : q = Without(s.queue, x)
  OBVIOUS
<1>3. r = [s EXCEPT !.key = e, !.queue = q]
  BY <1>1, <1>2 DEF LeavesKey
<1>4. r.info = s.info /\ r.prio = s.prio /\ r.base = s.base /\ r.pc = s.pc
  BY <1>3 DEF IsCvState, Fields
<1> QED BY <1>4, DueRests

LEMMA CancelWaitDue ==
  ASSUME NEW s, NEW w, NEW h, NEW x \in GuestThreads, CvSound(s, w, h),
         s.pc[x] \in {"wait", "cvwait"}, PrioritiesDue(s, NoThread),
         NEW res \in CvResults, NEW r, r = CancelWait(s, x, res)
  PROVE  PrioritiesDue(r, NoThread)
<1>1. LinksHold(s) /\ IsCvState(s)
  BY DEF CvSound
<1>2. CASE s.info[x] # NoInfo
  <2>1. PICK y : y = RemoveWaiter(s, x)
    OBVIOUS
  <2>2. Unlinked(y, w, h, x) /\ y.pc = s.pc
    BY <1>2, <2>1, RemovedIsUnlinked
  <2>3. y.key[x] = NoKey /\ IsCvState(y) /\ x \in LiveOf(y)
    BY <2>2 DEF Unlinked, LiveOf
  <2>4. r = EndWait(y, x, res)
    BY <1>2, <2>1, <2>3 DEF CancelWait
  <2>5. PrioritiesDue(y, NoThread)
    BY <1>1, <1>2, <2>1, RemoveWaiterDue
  <2> QED BY <2>3, <2>4, <2>5, EndWaitDue
<1>3. CASE s.info[x] = NoInfo
  <2>1. s.key[x] # NoKey
    BY <1>1, <1>3 DEF LinksHold
  <2>2. PICK y : LeavesKey(s, y, x)
    BY DEF LeavesKey
  <2>3. Unlinked(y, w, h, x)
    BY <2>1, <2>2, UnkeyedIsUnlinked DEF LeftKey
  <2>4. r = EndWait(y, x, res)
    BY <1>3, <2>1, <2>2 DEF CancelWait, LeavesKey
  <2>5. PrioritiesDue(y, NoThread)
    BY <1>1, <2>2, LeavesKeyDue
  <2>6. IsCvState(y) /\ x \in LiveOf(y)
    BY <2>3 DEF Unlinked, LiveOf
  <2> QED BY <2>4, <2>5, <2>6, EndWaitDue
<1> QED BY <1>2, <1>3

\* The threads that live are those that lived when the call began.
SameLives(s) == \A u \in GuestThreads : s.pc[u] = "gone" <=> pc[u] = "gone"

LEMMA SignalImplDue ==
  ASSUME NEW s, NEW x \in GuestThreads, Unlinked(s, want, held, x), s.pc[x] = "cvwait",
         PrioritiesDue(s, NoThread), SameLives(s), NEW r, r = SignalImpl(s, x)
  PROVE  PrioritiesDue(r, NoThread) /\ SameLives(r)
<1>1. IsCvState(s) /\ WordsHold(s, want, held) /\ s.info[x] = NoInfo
  BY DEF Unlinked
<1>2. PICK a \in Mutexes : a = want[x]
  BY <1>1 DEF WordsHold
<1>3. s.tag[a] \in [owner: GuestThreads \cup {NoThread}, wait: BOOLEAN]
  BY <1>1 DEF IsCvState
<1>4. PICK prev : prev = s.tag[a]
  OBVIOUS
<1>5. PICK v : v = IF prev = Free THEN [owner |-> x, wait |-> FALSE]
                   ELSE [owner |-> prev.owner, wait |-> TRUE]
  OBVIOUS
<1>6. PICK y : Retagged(s, y, a, v)
  BY DEF Retagged
<1>7. Marks(s, a, v)
  BY <1>4, <1>5 DEF Marks
<1>9. IsCvState(y) /\ y.info = s.info /\ y.prio = s.prio /\ y.base = s.base /\ y.pc = s.pc
  <2>1. Marked(s, y, a, v)
    BY <1>1, <1>6, <1>7, MarkedIs
  <2> QED BY <2>1 DEF Marked
<1>10. PrioritiesDue(y, NoThread)
  BY <1>9, DueRests
<1>11. r = IF prev = Free THEN EndWait(y, x, "Success")
           ELSE IF IsValidHandle(prev.owner) THEN AddWaiter(y, prev.owner, x, a)
           ELSE EndWait(y, x, "InvalidState")
  BY <1>2, <1>4, <1>5, <1>6 DEF SignalImpl, Retagged
<1>12. CASE \E res \in CvResults : r = EndWait(y, x, res)
  <2>1. PICK res \in CvResults : r = EndWait(y, x, res)
    BY <1>12
  <2>2. x \in LiveOf(y)
    BY <1>9 DEF LiveOf
  <2>3. PrioritiesDue(r, NoThread)
    BY <1>9, <1>10, <2>1, <2>2, EndWaitDue
  <2>4. r.pc = [y.pc EXCEPT ![x] = IF y.pc[x] = "wait" THEN "woken" ELSE "cvret"]
    BY <2>1 DEF EndWait, IsCvState, Fields
  <2>5. y.pc \in [GuestThreads -> CvPlaces]
    BY <1>9 DEF IsCvState
  <2>6. \A u \in GuestThreads : r.pc[u] = "gone" <=> y.pc[u] = "gone"
    BY <1>9, <2>4, <2>5
  <2> QED BY <1>9, <2>3, <2>6 DEF SameLives
<1>13. CASE prev # Free /\ IsValidHandle(prev.owner)
  <2>1. PICK o \in GuestThreads : o = prev.owner /\ pc[o] # "gone"
    BY <1>3, <1>4, <1>13 DEF IsValidHandle
  <2>2. r = AddWaiter(y, o, x, a)
    BY <1>11, <1>13, <2>1
  <2>3. o \in LiveOf(y)
    BY <1>9, <2>1 DEF LiveOf, SameLives
  <2>4. PrioritiesDue(r, NoThread)
    BY <1>1, <1>9, <1>10, <2>2, <2>3, AddWaiterDue
  <2>5. PICK f : f = [y.info EXCEPT ![x] = [owner |-> o, lock |-> a]]
    OBVIOUS
  <2>6. Relinked(y, r, f, {})
    BY <1>9, <2>2, <2>5, AddWaiterIs
  <2>7. r.pc = y.pc
    BY <2>6 DEF Relinked
  <2> QED BY <1>9, <2>4, <2>7 DEF SameLives
<1>14. "Success" \in CvResults /\ "InvalidState" \in CvResults
  BY DEF CvResults
<1> QED BY <1>11, <1>12, <1>13, <1>14

LEMMA SignalRoundDue ==
  ASSUME NEW x, NEW count, NEW z, NEW i, x.s = z, x.it = i,
         CvSound(z, want, held), Iterates(z, i), PrioritiesDue(z, NoThread), SameLives(z),
         NEW y, y = SignalRound(x, count)
  PROVE  PrioritiesDue(y.s, NoThread) /\ SameLives(y.s)
<1>1. CASE y = x
  BY <1>1
<1>2. CASE y # x
  <2>1. PICK u : LeavesKey(z, u, i)
    BY DEF LeavesKey
  <2>2. PICK r : r = SignalImpl(u, i)
    OBVIOUS
  <2>3. i # NoThread /\ y.s = r
    <3>1. x.s = z /\ x.it = i
      OBVIOUS
    <3> QED BY <1>2, <2>1, <2>2, <3>1 DEF SignalRound, LeavesKey
  <2>4. i \in GuestThreads /\ z.key[i] # NoKey /\ IsCvState(z)
    BY <2>3 DEF Iterates, CvSound
  <2>5. Unlinked(u, want, held, i) /\ u.pc[i] = "cvwait"
    <3>1. LeftKey(z, u, want, held, i)
      BY <2>1, <2>4, UnkeyedIsUnlinked
    <3> QED BY <3>1 DEF LeftKey
  <2>6. PrioritiesDue(u, NoThread) /\ u.pc = z.pc
    BY <2>1, <2>4, LeavesKeyDue
  <2>7. SameLives(u)
    BY <2>6 DEF SameLives
  <2> QED BY <2>2, <2>3, <2>4, <2>5, <2>6, <2>7, SignalImplDue
<1> QED BY <1>1, <1>2

LEMMA SignalLoopDue ==
  ASSUME NEW s, CvSound(s, want, held), PrioritiesDue(s, NoThread), SameLives(s),
         NEW k \in Keys, NEW count, NEW r, r = SignalLoop(s, k, count)
  PROVE  PrioritiesDue(r.s, NoThread)
<1> DEFINE N == Cardinality(GuestThreads)
           f == [it |-> Front(s, CvWaiters(s, k)), num |-> 0, s |-> s]
           F == CHOOSE G : SignalRounds(G, f, count, N)
           Fine(x) == /\ CvSound(x.s, want, held) /\ Iterates(x.s, x.it)
                      /\ PrioritiesDue(x.s, NoThread) /\ SameLives(x.s)
<1>1. N \in Nat
  BY ThreadsAreCounted
<1>2. SignalRounds(F, f, count, N)
  <2> HIDE DEF f
  <2> QED BY <1>1, SignallingExists
<1>3. r = F[N]
  BY DEF SignalLoop, SignalRounds
<1>4. Fine(f)
  <2>1. PICK n : n = Front(s, CvWaiters(s, k))
    OBVIOUS
  <2>2. CvWaiters(s, k) \in SUBSET GuestThreads /\ \A x \in CvWaiters(s, k) : s.key[x] # NoKey
    BY CvAssumption DEF CvWaiters
  <2>3. n = NoThread \/ n \in CvWaiters(s, k)
    <3>1. IsCvState(s) /\ LinksHold(s)
      BY DEF CvSound
    <3> QED BY <2>1, <2>2, <3>1, FrontIterates
  <2>4. f.s = s /\ f.it = n
    BY <2>1
  <2> QED BY <2>2, <2>3, <2>4 DEF Iterates
<1> HIDE DEF F, N, f
<1>5. /\ F[0] = f
      /\ \A n \in 0..N : n # 0 => F[n] = SignalRound(F[n - 1], count)
  BY <1>1, <1>2 DEF SignalRounds
<1>6. ASSUME NEW n \in 0..N, n # 0, Fine(F[n - 1]) PROVE Fine(F[n])
  <2>1. PICK x : x = F[n - 1]
    OBVIOUS
  <2>2. PICK z : z = x.s
    OBVIOUS
  <2>3. PICK i : i = x.it
    OBVIOUS
  <2>4. PICK y : y = F[n]
    OBVIOUS
  <2>5. /\ y = SignalRound(x, count) /\ CvSound(z, want, held) /\ Iterates(z, i)
        /\ PrioritiesDue(z, NoThread) /\ SameLives(z)
    BY <1>5, <1>6, <2>1, <2>2, <2>3, <2>4
  <2>6. CvSound(y.s, want, held) /\ Iterates(y.s, y.it)
    BY <2>2, <2>3, <2>5, SignalRoundIsSound
  <2>7. PrioritiesDue(y.s, NoThread) /\ SameLives(y.s)
    BY <2>2, <2>3, <2>5, SignalRoundDue
  <2> QED BY <2>4, <2>6, <2>7
<1> HIDE DEF Fine
<1>7. \A n \in 0..N : Fine(F[n])
  <2> DEFINE B == {n \in 0..N : ~Fine(F[n])}
  <2> SUFFICES ASSUME B # {} PROVE FALSE
    OBVIOUS
  <2>1. B \subseteq Nat
    BY <1>1
  <2>2. PICK n \in B : \A j \in B : n <= j
    <3> HIDE DEF B
    <3> QED BY <2>1, LeastNatural
  <2>3. n # 0
    BY <1>4, <1>5, <2>2
  <2>4. n \in 0..N /\ n - 1 \in 0..N /\ n - 1 \notin B
    BY <1>1, <2>2, <2>3
  <2>5. Fine(F[n - 1])
    BY <2>4
  <2> QED BY <1>6, <2>2, <2>3, <2>4, <2>5
<1> QED BY <1>1, <1>3, <1>7 DEF Fine

LEMMA RebasedDue ==
  ASSUME NEW s, IsCvState(s), PrioritiesDue(s, NoThread), NEW t \in LiveOf(s), NEW p \in Nat,
         NEW r, Rebased(s, r, t, p)
  PROVE  PrioritiesDue(r, NoThread)
<1>1. PICK e : e = [s.base EXCEPT ![t] = p]
  OBVIOUS
<1>2. PICK y : y = [s EXCEPT !.base = e]
  OBVIOUS
<1>3. r = RestorePriority(y, t)
  BY <1>1, <1>2 DEF Rebased
<1>0. t \in GuestThreads
  BY DEF LiveOf
<1>4. s = [tag |-> s.tag, info |-> s.info, key |-> s.key, queue |-> s.queue, prio |-> s.prio,
           base |-> s.base, result |-> s.result, timer |-> s.timer, pc |-> s.pc]
  BY DEF IsCvState, Fields
<1>5. y = [tag |-> s.tag, info |-> s.info, key |-> s.key, queue |-> s.queue, prio |-> s.prio,
           base |-> e, result |-> s.result, timer |-> s.timer, pc |-> s.pc]
  BY <1>2, <1>4
<1>6. /\ y = Fields(y) /\ y.tag = s.tag /\ y.info = s.info /\ y.key = s.key /\ y.queue = s.queue
      /\ y.prio = s.prio /\ y.base = e
      /\ y.result = s.result /\ y.timer = s.timer /\ y.pc = s.pc
  BY <1>5 DEF Fields
<1>7. e \in [GuestThreads -> Nat]
  BY <1>1 DEF IsCvState
<1>8. IsCvState(y)
  BY <1>6, <1>7 DEF IsCvState
<1>9. Inherited(OwnersOf(s), e, s.prio, LiveOf(s), t)
  BY <1>0, <1>1, RebasedInherits DEF PrioritiesDue
<1>10. OwnersOf(y) = OwnersOf(s) /\ LiveOf(y) = LiveOf(s)
  BY <1>6 DEF OwnersOf, LiveOf
<1>11. PrioritiesDue(y, t) /\ t \in LiveOf(y)
  BY <1>6, <1>9, <1>10 DEF PrioritiesDue
<1> QED BY <1>3, <1>8, <1>11, RestoreMakesDue

LEMMA FinalizedDue ==
  ASSUME NEW s, NEW w, NEW h, CvSound(s, w, h), PrioritiesDue(s, NoThread),
         NEW t \in GuestThreads, NEW W, W = AllWaiters(s, t), NEW r, Finalized(s, r, t, W),
         s.pc[t] = "exited"
  PROVE  PrioritiesDue(r, NoThread)
<1>1. IsCvState(s) /\ LinksHold(s) /\ IsCvState(r)
  BY FinalizedIsSound DEF CvSound
<1>2. PICK i : i = [u \in GuestThreads |-> IF u \in W THEN NoInfo ELSE s.info[u]]
  OBVIOUS
<1>3. PICK f : f = [u \in GuestThreads |-> IF u = t THEN "gone"
                    ELSE IF u \notin W THEN s.pc[u]
                    ELSE IF s.pc[u] = "wait" THEN "woken" ELSE "cvret"]
  OBVIOUS
<1>4. r.info = i /\ r.pc = f /\ r.prio = s.prio /\ r.base = s.base
  BY <1>1, <1>2, <1>3 DEF Finalized, IsCvState, Fields
<1>5. \A u \in GuestThreads : u \in W <=> OwnersOf(s)[u] = t
  BY DEF AllWaiters, OwnersOf
<1>6. /\ OwnersOf(r) \in [GuestThreads -> GuestThreads \cup {NoThread}]
      /\ \A u \in GuestThreads :
           OwnersOf(r)[u] = IF OwnersOf(s)[u] = t THEN NoThread ELSE OwnersOf(s)[u]
  <2>1. NoInfo.owner = NoThread
    BY DEF NoInfo
  <2>2. /\ OwnersOf(r) \in [GuestThreads -> GuestThreads \cup {NoThread}]
        /\ \A u \in GuestThreads : OwnersOf(r)[u] = r.info[u].owner
        /\ \A u \in GuestThreads : OwnersOf(s)[u] = s.info[u].owner
    BY <1>1, OwnersAre
  <2> QED BY <1>2, <1>4, <1>5, <2>1, <2>2
<1>7. \A u \in W : u \in GuestThreads /\ s.pc[u] # "gone"
  <2> SUFFICES ASSUME NEW u \in GuestThreads, s.info[u].owner = t PROVE s.pc[u] # "gone"
    BY DEF AllWaiters
  <2>1. s.info[u] # NoInfo
    BY <1>1, InfoTypes
  <2> QED BY <1>1, <2>1 DEF LinksHold
<1>8. LiveOf(r) = LiveOf(s) \ {t}
  BY <1>3, <1>4, <1>7 DEF LiveOf
<1>9. Inherited(OwnersOf(r), s.base, s.prio, LiveOf(r), NoThread)
  <2>a. PICK M : M = OwnersOf(r)
    OBVIOUS
  <2>b. PICK O : O = OwnersOf(s)
    OBVIOUS
  <2>c. PICK L : L = LiveOf(s)
    OBVIOUS
  <2>1. Inherited(O, s.base, s.prio, L, NoThread)
    BY <2>b, <2>c DEF PrioritiesDue
  <2> QED BY <1>6, <1>8, <2>a, <2>b, <2>c, <2>1, DroppedInherits
<1> QED BY <1>4, <1>9 DEF PrioritiesDue

DueInv == PrioritiesDue(State, NoThread)

LEMMA AppliedIsDue ==
  ASSUME NEW r, PrioritiesDue(r, NoThread), Apply(r)
  PROVE  DueInv'
<1>1. /\ m_waiting_lock_info' = r.info /\ m_priority' = r.prio /\ m_base_priority' = r.base
      /\ pc' = r.pc
  BY DEF Apply
<1>2. PICK s : s = State'
  OBVIOUS
<1>3. s.info = r.info /\ s.prio = r.prio /\ s.base = r.base /\ s.pc = r.pc
  BY <1>1, <1>2 DEF State
<1>4. PrioritiesDue(s, NoThread)
  BY <1>3, DueRests
<1> QED BY <1>2, <1>4 DEF DueInv

\* A step that changes no link and no priority, and ends no thread.
LEMMA StaysDue ==
  ASSUME DueInv, UNCHANGED <<m_waiting_lock_info, m_priority, m_base_priority>>,
         \A u \in GuestThreads : pc'[u] = "gone" <=> pc[u] = "gone"
  PROVE  DueInv'
<1>1. PICK s : s = State
  OBVIOUS
<1>2. PICK r : r = State'
  OBVIOUS
<1>3. /\ r.info = s.info /\ r.prio = s.prio /\ r.base = s.base /\ r.pc = pc' /\ s.pc = pc
  BY <1>1, <1>2 DEF State
<1>4. PrioritiesDue(s, NoThread) /\ \A u \in GuestThreads : r.pc[u] = "gone" <=> s.pc[u] = "gone"
  BY <1>1, <1>3 DEF DueInv
<1>5. PrioritiesDue(r, NoThread)
  BY <1>3, <1>4, DueRests
<1> QED BY <1>2, <1>5 DEF DueInv

\* The place of one thread that lives changes to another.
LEMMA PlaceIsDue ==
  ASSUME CvInv, DueInv, UNCHANGED <<m_waiting_lock_info, m_priority, m_base_priority>>,
         NEW t \in GuestThreads, pc[t] # "gone", NEW p, p # "gone", pc' = [pc EXCEPT ![t] = p]
  PROVE  DueInv'
<1>1. pc \in [GuestThreads -> CvPlaces]
  BY InvSays
<1>2. \A u \in GuestThreads : pc'[u] = "gone" <=> pc[u] = "gone"
  BY <1>1
<1> QED BY <1>2, StaysDue

LEMMA GuestIsDue ==
  ASSUME CvInv, DueInv, NEW t \in GuestThreads, Guest(t)
  PROVE  DueInv'
<1>1. CASE \E a \in Mutexes : GuestLock(t, a)
  <2>1. PICK a \in Mutexes : GuestLock(t, a)
    BY <1>1
  <2>2. PICK p : p \in {"run", "lock"} /\ pc' = [pc EXCEPT ![t] = p]
    BY <2>1 DEF GuestLock
  <2>3. /\ UNCHANGED <<m_waiting_lock_info, m_priority, m_base_priority>>
        /\ pc[t] # "gone" /\ p # "gone"
    BY <2>1, <2>2 DEF GuestLock, Starts
  <2> QED BY <2>2, <2>3, PlaceIsDue
<1>2. CASE \E a \in Mutexes : GuestUnlock(t, a)
  <2>1. UNCHANGED <<m_waiting_lock_info, m_priority, m_base_priority>> /\ pc' = pc
    BY <1>2 DEF GuestUnlock
  <2> QED BY <2>1, StaysDue
<1>3. CASE GuestCheck(t)
  <2>1. PICK p : p \in {"run", "relock"} /\ pc' = [pc EXCEPT ![t] = p]
    BY <1>3 DEF GuestCheck
  <2>2. /\ UNCHANGED <<m_waiting_lock_info, m_priority, m_base_priority>>
        /\ pc[t] # "gone" /\ p # "gone"
    BY <1>3, <2>1 DEF GuestCheck, kernelVars
  <2> QED BY <2>1, <2>2, PlaceIsDue
<1>4. CASE GuestCvReturn(t)
  <2>1. PICK p : p \in {"run", "relock"} /\ pc' = [pc EXCEPT ![t] = p]
    BY <1>4 DEF GuestCvReturn
  <2>2. /\ UNCHANGED <<m_waiting_lock_info, m_priority, m_base_priority>>
        /\ pc[t] # "gone" /\ p # "gone"
    BY <1>4, <2>1 DEF GuestCvReturn, kernelVars
  <2> QED BY <2>1, <2>2, PlaceIsDue
<1> QED BY <1>1, <1>2, <1>3, <1>4 DEF Guest

LEMMA ReturnIsDue ==
  ASSUME CvInv, DueInv, NEW t \in GuestThreads, WaitForAddressReturn(t) \/ Exit(t)
  PROVE  DueInv'
<1>1. PICK p : p \in {"check", "exited"} /\ pc' = [pc EXCEPT ![t] = p]
  BY DEF WaitForAddressReturn, Exit
<1>2. /\ UNCHANGED <<m_waiting_lock_info, m_priority, m_base_priority>>
      /\ pc[t] # "gone" /\ p # "gone"
  BY <1>1 DEF WaitForAddressReturn, Exit, kernelVars
<1> QED BY <1>1, <1>2, PlaceIsDue

\* The state, as the lemmas on the kernel's functions take it.
LEMMA DueStateIs ==
  ASSUME CvInv, DueInv, NEW s, s = State
  PROVE  /\ CvSound(s, want, held) /\ IsCvState(s) /\ LinksHold(s) /\ s.pc = pc /\ SameLives(s)
         /\ PrioritiesDue(s, NoThread)
<1>1. CvSound(s, want, held) /\ s.pc = pc /\ PrioritiesDue(s, NoThread)
  BY StateFields DEF CvInv, DueInv
<1> QED BY <1>1 DEF CvSound, SameLives

LEMMA PlacedDue ==
  ASSUME NEW s, IsCvState(s), PrioritiesDue(s, NoThread), NEW t \in LiveOf(s), NEW p \in CvPlaces,
         p # "gone", NEW r, Placed(s, r, t, p)
  PROVE  PrioritiesDue(r, NoThread)
<1>0. t \in GuestThreads
  BY DEF LiveOf
<1>1. PlacedAt(s, r, t, p)
  BY <1>0, PlacedIs
<1>2. /\ r.info = s.info /\ r.prio = s.prio /\ r.base = s.base /\ r.pc[t] = p
      /\ \A u \in GuestThreads \ {t} : r.pc[u] = s.pc[u]
  BY <1>1 DEF PlacedAt
<1>3. \A u \in GuestThreads : r.pc[u] = "gone" <=> s.pc[u] = "gone"
  BY <1>2 DEF LiveOf
<1> QED BY <1>2, <1>3, DueRests

LEMMA WaitForAddressIsDue ==
  ASSUME CvInv, DueInv, NEW t \in GuestThreads, WaitForAddress(t)
  PROVE  DueInv'
<1>1. PICK s : s = State
  OBVIOUS
<1>2. IsCvState(s) /\ LinksHold(s) /\ s.pc = pc /\ PrioritiesDue(s, NoThread)
  BY <1>1, DueStateIs
<1>3. pc[t] = "lock"
  BY DEF WaitForAddress
<1>4. PICK a \in Mutexes : a = want[t]
  BY <1>3, InvSays
<1>5. CASE Apply([s EXCEPT !.pc = [s.pc EXCEPT ![t] = "check"]])
  <2>1. PICK p \in CvPlaces : p = "check" /\ p # "gone"
    BY DEF CvPlaces
  <2>2. PICK r : Placed(s, r, t, p)
    BY DEF Placed
  <2>3. t \in LiveOf(s)
    BY <1>2, <1>3 DEF LiveOf
  <2>4. PrioritiesDue(r, NoThread)
    BY <1>2, <2>1, <2>2, <2>3, PlacedDue
  <2>5. Apply(r)
    BY <1>5, <2>1, <2>2 DEF Placed
  <2> QED BY <2>4, <2>5, AppliedIsDue
<1>6. CASE /\ IsValidHandle(seen[t])
           /\ Apply([AddWaiter(s, seen[t], t, a) EXCEPT !.pc = [@ EXCEPT ![t] = "wait"]])
  <2>1. PICK o \in GuestThreads : o = seen[t] /\ pc[o] # "gone"
    BY <1>6, InvSays DEF IsValidHandle
  <2>2. PICK y : y = AddWaiter(s, o, t, a)
    OBVIOUS
  <2>3. o \in LiveOf(s) /\ s.info[t] = NoInfo
    BY <1>2, <1>3, <2>1 DEF LiveOf, LinksHold
  <2>4. PrioritiesDue(y, NoThread)
    BY <1>2, <2>2, <2>3, AddWaiterDue
  <2>5. PICK f : f = [s.info EXCEPT ![t] = [owner |-> o, lock |-> a]]
    OBVIOUS
  <2>6. Relinked(s, y, f, {})
    BY <1>2, <2>2, <2>5, AddWaiterIs
  <2>7. IsCvState(y) /\ t \in LiveOf(y)
    BY <1>2, <1>3, <2>6 DEF Relinked, LiveOf
  <2>8. PICK p \in CvPlaces : p = "wait" /\ p # "gone"
    BY DEF CvPlaces
  <2>9. PICK r : Placed(y, r, t, p)
    BY DEF Placed
  <2>10. PrioritiesDue(r, NoThread)
    BY <2>4, <2>7, <2>8, <2>9, PlacedDue
  <2>11. Apply(r)
    BY <1>6, <2>1, <2>2, <2>8, <2>9 DEF Placed
  <2> QED BY <2>10, <2>11, AppliedIsDue
<1> QED BY <1>1, <1>4, <1>5, <1>6 DEF WaitForAddress

LEMMA SignalToAddressIsDue ==
  ASSUME CvInv, DueInv, NEW t \in GuestThreads, NEW a \in Mutexes, SignalToAddress(t, a)
  PROVE  DueInv'
<1>1. PICK s : s = State
  OBVIOUS
<1>2. IsCvState(s) /\ LinksHold(s) /\ s.pc = pc /\ PrioritiesDue(s, NoThread)
  BY <1>1, DueStateIs
<1>3. PICK r : r = PassLock(s, t, a)
  OBVIOUS
<1>4. s.pc[t] = "run" /\ Apply(r)
  BY <1>1, <1>2, <1>3 DEF SignalToAddress
<1>5. PrioritiesDue(r, NoThread)
  BY <1>2, <1>3, <1>4, PassLockDue
<1> QED BY <1>4, <1>5, AppliedIsDue

LEMMA WaitIsDue ==
  ASSUME CvInv, DueInv, NEW t \in GuestThreads, NEW a \in Mutexes, NEW k \in Keys, NEW timeout,
         Wait(t, a, k, timeout)
  PROVE  DueInv'
<1>1. PICK s : s = State
  OBVIOUS
<1>2. IsCvState(s) /\ LinksHold(s) /\ s.pc = pc /\ PrioritiesDue(s, NoThread) /\ CvSound(s, want, held)
  BY <1>1, DueStateIs
<1>3. PICK y : y = PassLock(s, t, a)
  OBVIOUS
<1>4. s.pc[t] = "run" /\ Releases(s, want, held, t, a, held')
  BY <1>2 DEF Wait, Starts, Releases
<1>5. CvSound(y, want, held') /\ y.pc[t] = "run"
  BY <1>3, <1>4, PassLockIsSound
<1>6. PrioritiesDue(y, NoThread)
  BY <1>2, <1>3, <1>4, PassLockDue
<1>7. IsCvState(y) /\ y.pc \in [GuestThreads -> CvPlaces]
  BY <1>5 DEF CvSound, IsCvState
<1>8. ASSUME NEW r, Apply(r), r.info = y.info, r.prio = y.prio, r.base = y.base,
             NEW p, p # "gone", r.pc = [y.pc EXCEPT ![t] = p]
      PROVE  DueInv'
  <2>1. \A u \in GuestThreads : r.pc[u] = "gone" <=> y.pc[u] = "gone"
    BY <1>5, <1>7, <1>8
  <2>2. PrioritiesDue(r, NoThread)
    BY <1>6, <1>8, <2>1, DueRests
  <2> QED BY <1>8, <2>2, AppliedIsDue
<1>9. CASE Apply([y EXCEPT !.result = [@ EXCEPT ![t] = "TimedOut"],
                           !.pc = [@ EXCEPT ![t] = "cvret"]])
  <2>1. PICK r : GivesUp(y, r, t)
    BY DEF GivesUp
  <2>2. Apply(r)
    BY <1>9, <2>1 DEF GivesUp
  <2>3. /\ r.info = y.info /\ r.prio = y.prio /\ r.base = y.base
        /\ r.pc = [y.pc EXCEPT ![t] = "cvret"]
    BY <1>7, <2>1 DEF GivesUp, IsCvState, Fields
  <2> QED BY <1>8, <2>2, <2>3
<1>10. CASE Apply([y EXCEPT !.key = [@ EXCEPT ![t] = k], !.queue = Append(@, t),
                            !.timer = IF timeout = "timed" THEN @ \cup {t} ELSE @,
                            !.pc = [@ EXCEPT ![t] = "cvwait"]])
  <2>1. PICK timed : timed = (timeout = "timed")
    OBVIOUS
  <2>2. PICK r : Parks(y, r, t, k, timed)
    BY DEF Parks
  <2>3. Apply(r)
    BY <1>10, <2>1, <2>2 DEF Parks
  <2>4. /\ r.info = y.info /\ r.prio = y.prio /\ r.base = y.base
        /\ r.pc = [y.pc EXCEPT ![t] = "cvwait"]
    BY <1>7, <2>2 DEF Parks, IsCvState, Fields
  <2> QED BY <1>8, <2>3, <2>4
<1> QED BY <1>1, <1>3, <1>9, <1>10 DEF Wait

LEMMA SignalIsDue ==
  ASSUME CvInv, DueInv, NEW t \in GuestThreads, NEW k \in Keys, NEW count, Signal(t, k, count)
  PROVE  DueInv'
<1>1. PICK s : s = State
  OBVIOUS
<1>2. CvSound(s, want, held) /\ PrioritiesDue(s, NoThread) /\ SameLives(s)
  BY <1>1, DueStateIs
<1>3. PICK x : x = SignalLoop(s, k, count)
  OBVIOUS
<1>4. PICK r : r = x.s
  OBVIOUS
<1>5. PrioritiesDue(r, NoThread)
  BY <1>2, <1>3, <1>4, SignalLoopDue
<1>6. Apply(r)
  BY <1>1, <1>3, <1>4 DEF Signal
<1> QED BY <1>5, <1>6, AppliedIsDue

LEMMA SetBasePriorityIsDue ==
  ASSUME CvInv, DueInv, NEW t \in GuestThreads, NEW p \in NewPriorities, SetBasePriority(t, p)
  PROVE  DueInv'
<1>1. PICK s : s = State
  OBVIOUS
<1>2. IsCvState(s) /\ s.pc = pc /\ PrioritiesDue(s, NoThread) /\ p \in Nat
  BY <1>1, DueStateIs, CvAssumption
<1>3. PICK r : Rebased(s, r, t, p)
  BY DEF Rebased
<1>4. t \in LiveOf(s)
  BY <1>2 DEF LiveOf, SetBasePriority
<1>5. PrioritiesDue(r, NoThread)
  BY <1>2, <1>3, <1>4, RebasedDue
<1>6. Apply(r)
  BY <1>1, <1>3 DEF SetBasePriority, Rebased
<1> QED BY <1>5, <1>6, AppliedIsDue

LEMMA RequestTerminateIsDue ==
  ASSUME CvInv, DueInv, NEW t \in GuestThreads, RequestTerminate(t)
  PROVE  DueInv'
<1>1. PICK s : s = State
  OBVIOUS
<1>2. IsCvState(s) /\ s.pc = pc /\ PrioritiesDue(s, NoThread) /\ CvSound(s, want, held)
  BY <1>1, DueStateIs
<1>3. PICK p \in Nat : p = TerminatingThreadPriority
  BY DEF TerminatingThreadPriority
<1>4. PICK y : Rebased(s, y, t, p)
  BY DEF Rebased
<1>5. CvSound(y, want, held) /\ y.pc = s.pc
  BY <1>2, <1>4, RebasedIsSound
<1>6. t \in LiveOf(s)
  BY <1>2 DEF LiveOf, RequestTerminate
<1>7. PrioritiesDue(y, NoThread)
  BY <1>2, <1>4, <1>6, RebasedDue
<1>8. PICK res \in CvResults : res = "TerminationRequested"
  BY DEF CvResults
<1>9. PICK r : r = IF pc[t] \in {"wait", "cvwait"} THEN CancelWait(y, t, res) ELSE y
  OBVIOUS
<1>10. PrioritiesDue(r, NoThread)
  <2>1. CASE pc[t] \in {"wait", "cvwait"}
    <3>1. r = CancelWait(y, t, res) /\ y.pc[t] \in {"wait", "cvwait"}
      BY <1>2, <1>5, <1>9, <2>1
    <3> QED BY <1>5, <1>7, <3>1, CancelWaitDue
  <2>2. CASE pc[t] \notin {"wait", "cvwait"}
    BY <1>7, <1>9, <2>2
  <2> QED BY <2>1, <2>2
<1>11. Apply(r)
  BY <1>1, <1>3, <1>4, <1>8, <1>9 DEF RequestTerminate, Rebased
<1> QED BY <1>10, <1>11, AppliedIsDue

LEMMA OnTimerIsDue ==
  ASSUME CvInv, DueInv, NEW t \in GuestThreads, OnTimer(t)
  PROVE  DueInv'
<1>1. PICK s : s = State
  OBVIOUS
<1>2. IsCvState(s) /\ s.pc = pc /\ PrioritiesDue(s, NoThread) /\ CvSound(s, want, held)
  BY <1>1, DueStateIs
<1>3. PICK y : Untimed(s, y, t)
  BY DEF Untimed
<1>4. CvSound(y, want, held) /\ y.pc = s.pc
  BY <1>2, <1>3, UntimedIsSound
<1>5. PrioritiesDue(y, NoThread)
  <2>1. y.info = s.info /\ y.prio = s.prio /\ y.base = s.base
    BY <1>2, <1>3 DEF Untimed, IsCvState, Fields
  <2> QED BY <1>2, <1>4, <2>1, DueRests
<1>6. PICK res \in CvResults : res = "TimedOut"
  BY DEF CvResults
<1>7. PICK r : r = IF pc[t] \in {"wait", "cvwait"} THEN CancelWait(y, t, res) ELSE y
  OBVIOUS
<1>8. PrioritiesDue(r, NoThread)
  <2>1. CASE pc[t] \in {"wait", "cvwait"}
    <3>1. r = CancelWait(y, t, res) /\ y.pc[t] \in {"wait", "cvwait"}
      BY <1>2, <1>4, <1>7, <2>1
    <3> QED BY <1>4, <1>5, <3>1, CancelWaitDue
  <2>2. CASE pc[t] \notin {"wait", "cvwait"}
    BY <1>5, <1>7, <2>2
  <2> QED BY <2>1, <2>2
<1>9. Apply(r)
  BY <1>1, <1>3, <1>6, <1>7 DEF OnTimer, Untimed
<1> QED BY <1>8, <1>9, AppliedIsDue

LEMMA FinalizeIsDue ==
  ASSUME CvInv, DueInv, NEW t \in GuestThreads, Finalize(t)
  PROVE  DueInv'
<1>1. PICK s : s = State
  OBVIOUS
<1>2. s.pc = pc /\ PrioritiesDue(s, NoThread) /\ CvSound(s, want, held)
  BY <1>1, DueStateIs
<1>3. PICK W : W = AllWaiters(s, t)
  OBVIOUS
<1>4. PICK r : Finalized(s, r, t, W)
  BY DEF Finalized
<1>5. s.pc[t] = "exited" /\ Apply(r)
  BY <1>1, <1>2, <1>3, <1>4 DEF Finalize, Finalized
<1>6. PrioritiesDue(r, NoThread)
  BY <1>2, <1>3, <1>4, <1>5, FinalizedDue
<1> QED BY <1>5, <1>6, AppliedIsDue

LEMMA DueInit == CvInit => DueInv
<1> SUFFICES ASSUME CvInit PROVE DueInv
  OBVIOUS
<1>1. PICK s : s = State
  OBVIOUS
<1>2. /\ s.info = m_waiting_lock_info /\ s.prio = InitPriority /\ s.base = InitPriority
      /\ IsCvState(s)
  BY <1>1, StateFields, CvInitHolds DEF CvInit, CvInv, CvSound
<1>3. \A w \in GuestThreads : s.info[w] = NoInfo
  BY <1>2 DEF CvInit
<1>4. /\ OwnersOf(s) \in [GuestThreads -> GuestThreads \cup {NoThread}]
      /\ \A w \in GuestThreads : OwnersOf(s)[w] = NoThread
  BY <1>2, <1>3, OwnersAre
<1>5. \A u \in GuestThreads : Inherits(OwnersOf(s), s.base, s.prio, u, s.prio[u])
  BY <1>2, <1>4, NoThreadIsNone, CvAssumption DEF Inherits
<1>6. LiveOf(s) \in SUBSET GuestThreads
  BY DEF LiveOf
<1> QED BY <1>1, <1>2, <1>4, <1>5, <1>6, CvAssumption DEF DueInv, PrioritiesDue, Inherited

LEMMA DueStep ==
  ASSUME CvInv, DueInv, [CvNext]_cvVars
  PROVE  DueInv'
<1>1. CASE UNCHANGED cvVars
  <2>1. UNCHANGED <<m_waiting_lock_info, m_priority, m_base_priority>> /\ pc' = pc
    BY <1>1 DEF cvVars, kernelVars
  <2> QED BY <2>1, StaysDue
<1>2. CASE CvNext
  <2>1. PICK t \in GuestThreads : \/ Guest(t) \/ Call(t) \/ OnTimer(t)
                                  \/ \E p \in NewPriorities : SetBasePriority(t, p)
                                  \/ RequestTerminate(t) \/ Finalize(t)
    BY <1>2 DEF CvNext
  <2>2. CASE Guest(t)
    BY <2>2, GuestIsDue
  <2>3. CASE Call(t)
    <3>1. CASE WaitForAddress(t)
      BY <3>1, WaitForAddressIsDue
    <3>2. CASE WaitForAddressReturn(t) \/ Exit(t)
      BY <3>2, ReturnIsDue
    <3>3. CASE \E a \in Mutexes : SignalToAddress(t, a)
      BY <3>3, SignalToAddressIsDue
    <3>4. CASE \E a \in Mutexes, k \in Keys, timeout \in {"zero", "timed", "forever"} :
                 Wait(t, a, k, timeout)
      BY <3>4, WaitIsDue
    <3>5. CASE \E k \in Keys, count \in {0, 1} : Signal(t, k, count)
      BY <3>5, SignalIsDue
    <3> QED BY <2>3, <3>1, <3>2, <3>3, <3>4, <3>5 DEF Call
  <2>4. CASE OnTimer(t)
    BY <2>4, OnTimerIsDue
  <2>5. CASE \E p \in NewPriorities : SetBasePriority(t, p)
    BY <2>5, SetBasePriorityIsDue
  <2>6. CASE RequestTerminate(t)
    BY <2>6, RequestTerminateIsDue
  <2>7. CASE Finalize(t)
    BY <2>7, FinalizeIsDue
  <2> QED BY <2>1, <2>2, <2>3, <2>4, <2>5, <2>6, <2>7
<1> QED BY <1>1, <1>2

LEMMA DueImplies ==
  ASSUME CvInv, DueInv
  PROVE  PriorityInherited
<1>1. PICK s : s = State
  OBVIOUS
<1>2. IsCvState(s) /\ PrioritiesDue(s, NoThread) /\ s.pc = pc /\ s.prio = m_priority
  BY <1>1, DueStateIs, StateFields
<1>3. ASSUME NEW t \in GuestThreads, pc[t] # "gone"
      PROVE  m_priority[t] = InheritedPriority(s, t)
  <2>1. t \in LiveOf(s) /\ t # NoThread /\ s.prio[t] \in Nat
    BY <1>2, <1>3, NoThreadIsNone DEF LiveOf, IsCvState
  <2>2. Inherits(OwnersOf(s), s.base, s.prio, t, s.prio[t])
    BY <1>2, <2>1 DEF PrioritiesDue, Inherited
  <2>3. s.prio[t] = InheritedPriority(s, t)
    BY <1>2, <2>1, <2>2, InheritedPriorityIs
  <2> QED BY <1>2, <2>3
<1> QED BY <1>1, <1>3 DEF PriorityInherited

\* Priorities are inherited exactly (PriorityInherited): after every call each live
\* thread has the better of its base priority and the best priority of those who wait
\* for a mutex it owns.  AddWaiter(), RemoveWaiter(), RemoveWaiterByKey(),
\* SetBasePriority(), RequestTerminate() and Finalize() disturb one thread at a time,
\* and RestorePriority() puts it right along the owners, whether they form a chain or
\* a circle.
THEOREM PrioritiesAreInherited == CvSpec => []PriorityInherited
<1>1. CvInv /\ [CvNext]_cvVars => CvInv'
  BY CvStep
<1>2. CvInv /\ DueInv /\ [CvNext]_cvVars => DueInv'
  BY DueStep
<1>3. CvInv /\ DueInv => PriorityInherited
  BY DueImplies
<1> QED BY <1>1, <1>2, <1>3, CvInitHolds, DueInit, PTL DEF CvSpec

-----------------------------------------------------------------------------
(***************************************************************************)
(* What a broadcast leaves in its tree.                                    *)
(***************************************************************************)

\* Thread x comes before thread y in a sequence.
InOrder(q, x, y) == \E i, j \in 1..Len(q) : i < j /\ q[i] = x /\ q[j] = y

LEMMA KeepInOrder ==
  ASSUME NEW q \in Seq(GuestThreads), NEW P \in SUBSET (DOMAIN q),
         NEW i \in P, NEW j \in P, i < j
  PROVE  InOrder(Keep(q, P), q[i], q[j])
<1>1. PICK at \in [1..Cardinality(P) -> P] :
           /\ Cardinality(P) \in Nat
           /\ Len(Keep(q, P)) = Cardinality(P)
           /\ \A n \in 1..Cardinality(P) : Keep(q, P)[n] = q[at[n]]
           /\ \A n, m \in 1..Cardinality(P) : n < m => at[n] < at[m]
           /\ \A k \in P : \E n \in 1..Cardinality(P) : at[n] = k
  <2>1. KeptFrom(GuestThreads, q, P)
    BY KeepFacts
  <2> QED BY <2>1 DEF KeptFrom
<1>2. PICK n \in 1..Cardinality(P) : at[n] = i
  BY <1>1
<1>3. PICK m \in 1..Cardinality(P) : at[m] = j
  BY <1>1
<1>4. i \in Nat /\ j \in Nat
  OBVIOUS
<1>5. n < m
  <2>1. n # m
    BY <1>2, <1>3, <1>4
  <2>2. ~(m < n)
    BY <1>1, <1>2, <1>3, <1>4
  <2> QED BY <1>1, <2>1, <2>2
<1> QED BY <1>1, <1>2, <1>3, <1>5 DEF InOrder

LEMMA WithoutInOrder ==
  ASSUME NEW q \in Seq(GuestThreads), NEW t, NEW r, r = Without(q, t),
         NEW x, NEW y, x # t, y # t, InOrder(q, x, y)
  PROVE  InOrder(r, x, y)
<1> DEFINE P == {i \in DOMAIN q : q[i] # t}
<1>1. r = Keep(q, P) /\ P \in SUBSET (DOMAIN q)
  BY DEF Without
<1>2. PICK i, j \in 1..Len(q) : i < j /\ q[i] = x /\ q[j] = y
  BY DEF InOrder
<1>3. i \in P /\ j \in P
  BY <1>2
<1> HIDE DEF P
<1> QED BY <1>1, <1>2, <1>3, KeepInOrder

LEMMA AppendInOrder ==
  ASSUME NEW q \in Seq(GuestThreads), NEW t \in GuestThreads, NEW r, r = Append(q, t),
         NEW x, NEW y, InOrder(q, x, y)
  PROVE  InOrder(r, x, y)
<1>1. Len(r) = Len(q) + 1 /\ Len(q) \in Nat /\ \A i \in 1..Len(q) : r[i] = q[i]
  OBVIOUS
<1>2. PICK i, j \in 1..Len(q) : i < j /\ q[i] = x /\ q[j] = y
  BY DEF InOrder
<1>3. i \in 1..Len(r) /\ j \in 1..Len(r)
  BY <1>1
<1> QED BY <1>1, <1>2, <1>3 DEF InOrder

\* Whoever preceded a thread of U in the trees still does.
Ahead(s, r, U) ==
  \A x \in GuestThreads, y \in U : Precedes(s, x, y) => Precedes(r, x, y)

LEMMA PrecedesIs ==
  ASSUME NEW s, NEW x, NEW y
  PROVE  Precedes(s, x, y) <=> \/ s.prio[x] < s.prio[y]
                               \/ s.prio[x] = s.prio[y] /\ InOrder(s.queue, x, y)
  BY DEF Precedes, InOrder

LEMMA PrecedesSays ==
  ASSUME NEW s, NEW x, NEW y, Precedes(s, x, y)
  PROVE  s.prio[x] < s.prio[y] \/ (s.prio[x] = s.prio[y] /\ InOrder(s.queue, x, y))
  BY DEF Precedes, InOrder

\* No live thread has a better priority than it inherits.
Supported(O, B, Q, L) ==
  /\ O \in [GuestThreads -> GuestThreads \cup {NoThread}]
  /\ B \in [GuestThreads -> Nat] /\ Q \in [GuestThreads -> Nat]
  /\ L \in SUBSET GuestThreads
  /\ \A w \in GuestThreads : O[w] # NoThread => O[w] \in L
  /\ \A v \in L : B[v] <= Q[v] \/ \E w \in GuestThreads : O[w] = v /\ Q[w] <= Q[v]

LEMMA SupportedRises ==
  ASSUME NEW O, NEW B, NEW Q, NEW L, Supported(O, B, Q, L), NEW u \in L,
         NEW p \in Nat, Inherits(O, B, Q, u, p), NEW R, Given(Q, R, u, p)
  PROVE  p <= Q[u] /\ Supported(O, B, R, L)
<1>1. /\ O \in [GuestThreads -> GuestThreads \cup {NoThread}]
      /\ B \in [GuestThreads -> Nat] /\ Q \in [GuestThreads -> Nat]
      /\ L \in SUBSET GuestThreads
      /\ \A w \in GuestThreads : O[w] # NoThread => O[w] \in L
      /\ \A v \in L : B[v] <= Q[v] \/ \E w \in GuestThreads : O[w] = v /\ Q[w] <= Q[v]
  BY DEF Supported
<1>2. p <= Q[u]
  <2>1. CASE B[u] <= Q[u]
    BY <1>1, <2>1 DEF Inherits
  <2>2. CASE \E w \in GuestThreads : O[w] = u /\ Q[w] <= Q[u]
    <3>1. PICK w \in GuestThreads : O[w] = u /\ Q[w] <= Q[u]
      BY <2>2
    <3>2. p <= Q[w]
      BY <3>1 DEF Inherits
    <3> QED BY <1>1, <3>1, <3>2
  <2> QED BY <1>1, <2>1, <2>2
<1>3. /\ R \in [GuestThreads -> Nat] /\ R[u] = p /\ u \in GuestThreads
      /\ \A v \in GuestThreads : v # u => R[v] = Q[v]
  BY <1>1 DEF Given
<1>4. \A v \in GuestThreads : R[v] <= Q[v]
  BY <1>1, <1>2, <1>3
<1>5. ASSUME NEW v \in L
      PROVE  B[v] <= R[v] \/ \E w \in GuestThreads : O[w] = v /\ R[w] <= R[v]
  <2>1. CASE v # u
    <3>1. R[v] = Q[v] /\ v \in GuestThreads
      BY <1>1, <1>3, <2>1
    <3>2. CASE B[v] <= Q[v]
      BY <3>1, <3>2
    <3>3. CASE \E w \in GuestThreads : O[w] = v /\ Q[w] <= Q[v]
      <4>1. PICK w \in GuestThreads : O[w] = v /\ Q[w] <= Q[v]
        BY <3>3
      <4>2. R[w] <= R[v]
        BY <1>1, <1>3, <1>4, <3>1, <4>1
      <4> QED BY <4>1, <4>2
    <3> QED BY <1>1, <3>2, <3>3
  <2>2. CASE v = u
    <3>1. CASE p = B[u]
      BY <1>1, <1>3, <2>2, <3>1
    <3>2. CASE \E w \in GuestThreads : O[w] = u /\ p = Q[w]
      <4>1. PICK w \in GuestThreads : O[w] = u /\ p = Q[w]
        BY <3>2
      <4>2. R[w] <= R[v]
        BY <1>3, <1>4, <2>2, <4>1
      <4> QED BY <2>2, <4>1, <4>2
    <3> QED BY <3>1, <3>2 DEF Inherits
  <2> QED BY <2>1, <2>2
<1> QED BY <1>1, <1>2, <1>3, <1>5 DEF Supported

\* Thread u rises, and is linked anew where it waits.
Raised(z, r, u, p, q) == r = [z EXCEPT !.prio = [z.prio EXCEPT ![u] = p], !.queue = q]

LEMMA RaisedIsAhead ==
  ASSUME NEW z, IsCvState(z), NEW u \in GuestThreads, NEW p \in Nat, p < z.prio[u],
         NEW q, q = IF u \in Range(z.queue) THEN Append(Without(z.queue, u), u) ELSE z.queue,
         NEW r, Raised(z, r, u, p, q), NEW U \in SUBSET GuestThreads, u \notin U
  PROVE  Ahead(z, r, U)
<1>1. r.prio = [z.prio EXCEPT ![u] = p] /\ r.queue = q
  BY DEF Raised, IsCvState, Fields
<1>2. z.prio \in [GuestThreads -> Nat] /\ z.queue \in Seq(GuestThreads)
  BY DEF IsCvState
<1>3. ASSUME NEW x \in GuestThreads, NEW y \in U, Precedes(z, x, y) PROVE Precedes(r, x, y)
  <2>1. y \in GuestThreads /\ y # u /\ r.prio[y] = z.prio[y]
    BY <1>1, <1>2
  <2>2. z.prio[x] < z.prio[y] \/ (z.prio[x] = z.prio[y] /\ InOrder(z.queue, x, y))
    BY <1>3, PrecedesSays
  <2>3. CASE x = u
    <3>1. r.prio[x] < r.prio[y]
      <4>1. r.prio[x] = p
        BY <1>1, <1>2, <2>3
      <4>2. z.prio[x] <= z.prio[y] /\ z.prio[x] \in Nat /\ z.prio[y] \in Nat
        BY <1>2, <2>1, <2>2
      <4> QED BY <2>1, <2>3, <4>1, <4>2
    <3> QED BY <3>1, PrecedesIs
  <2>4. CASE x # u
    <3>1. r.prio[x] = z.prio[x]
      BY <1>1, <1>2, <2>4
    <3>2. InOrder(z.queue, x, y) => InOrder(q, x, y)
      <4> SUFFICES ASSUME InOrder(z.queue, x, y) PROVE InOrder(q, x, y)
        OBVIOUS
      <4>1. PICK e : e = Without(z.queue, u)
        OBVIOUS
      <4>2. PICK f : f = Append(e, u)
        OBVIOUS
      <4>3. e \in Seq(GuestThreads)
        BY <1>2, <4>1, WithoutHas
      <4>4. InOrder(e, x, y)
        BY <1>2, <2>1, <2>4, <4>1, WithoutInOrder
      <4>5. InOrder(f, x, y)
        BY <4>2, <4>3, <4>4, AppendInOrder
      <4>6. q = f \/ q = z.queue
        BY <4>1, <4>2
      <4> QED BY <4>5, <4>6
    <3> QED BY <1>1, <2>1, <2>2, <3>1, <3>2, PrecedesIs
  <2> QED BY <2>3, <2>4
<1> QED BY <1>3 DEF Ahead

\* Restoring what can only rise, of threads outside U.
Rising(s, z, u, U) ==
  /\ Reordered(s, z) /\ u \in LiveOf(s) \cup {NoThread} /\ u \notin U
  /\ Supported(OwnersOf(s), s.base, z.prio, LiveOf(s))

LEMMA RestoreRoundIsAhead ==
  ASSUME NEW s, NEW U \in SUBSET GuestThreads, NoThread \notin U,
         \A w \in GuestThreads : OwnersOf(s)[w] \notin U,
         NEW x, NEW u, NEW z, x.thread = u, x.s = z, Rising(s, z, u, U),
         NEW y, y = RestoreRound(x)
  PROVE  Rising(s, y.s, y.thread, U) /\ Ahead(z, y.s, U)
<1> DEFINE new == InheritedPriority(z, u)
           q == IF u \in Range(z.queue) THEN Append(Without(z.queue, u), u) ELSE z.queue
<1>0. x.thread = u /\ x.s = z /\ Reordered(s, z)
  BY DEF Rising
<1>1. PICK r : Raised(z, r, u, new, q)
  BY DEF Raised
<1>2. y = IF u = NoThread THEN x
          ELSE IF new = z.prio[u] THEN [thread |-> NoThread, s |-> z]
          ELSE [thread |-> z.info[u].owner, s |-> r]
  BY <1>0, <1>1 DEF RestoreRound, Raised
<1>3. Ahead(z, z, U)
  BY DEF Ahead
<1>4. CASE u = NoThread
  BY <1>0, <1>2, <1>3, <1>4
<1>5. CASE u # NoThread /\ new = z.prio[u]
  <2>1. y.thread = NoThread /\ y.s = z
    BY <1>2, <1>5
  <2> QED BY <1>3, <2>1 DEF Rising
<1>6. CASE u # NoThread /\ new # z.prio[u]
  <2>0. u \in LiveOf(s) /\ u \in GuestThreads /\ IsCvState(z)
    BY <1>0, <1>6 DEF Rising, LiveOf, Reordered
  <2>1. y.thread = z.info[u].owner /\ y.s = r
    BY <1>2, <1>6
  <2>a. PICK O : O = OwnersOf(s)
    OBVIOUS
  <2>b. PICK L : L = LiveOf(s)
    OBVIOUS
  <2>2. OwnersOf(z) = O /\ z.base = s.base /\ y.thread = O[u]
    BY <1>0, <2>0, <2>1, <2>a DEF Reordered, OwnersOf
  <2>3. new \in Nat /\ Inherits(O, s.base, z.prio, u, new)
    BY <2>0, <2>2, InheritedPriorityIs
  <2>4. y.thread \in GuestThreads \cup {NoThread} /\ Reordered(s, y.s)
    <3>1. u \in GuestThreads \cup {NoThread}
      BY <2>0
    <3> QED BY <1>0, <3>1, RestoreRoundReorders
  <2>5. PICK R : Given(z.prio, R, u, new)
    BY DEF Given
  <2> HIDE DEF new, q
  <2>6. Supported(O, s.base, z.prio, L)
    BY <2>a, <2>b DEF Rising
  <2>7. new <= z.prio[u] /\ Supported(O, s.base, R, L)
    BY <2>0, <2>b, <2>3, <2>5, <2>6, SupportedRises
  <2>8. r.prio = R
    BY <1>1, <2>0, <2>5 DEF Raised, Given, IsCvState, Fields
  <2>9. new < z.prio[u]
    <3>1. z.prio[u] \in Nat
      BY <2>0 DEF IsCvState
    <3> QED BY <1>6, <2>3, <2>7, <3>1
  <2>10. Ahead(z, r, U)
    <3>1. u \notin U
      BY DEF Rising
    <3> QED BY <1>1, <2>0, <2>3, <2>9, <3>1, RaisedIsAhead DEF q
  <2>11. y.thread \in LiveOf(s) \cup {NoThread} /\ y.thread \notin U
    BY <2>0, <2>2, <2>a, <2>b, <2>6 DEF Supported
  <2> QED BY <2>1, <2>4, <2>7, <2>8, <2>10, <2>11, <2>a, <2>b DEF Rising
<1> QED BY <1>4, <1>5, <1>6

\* RestorePriority(), where it can only raise, takes nothing from before a thread of U.
LEMMA RestoreIsAhead ==
  ASSUME NEW s, IsCvState(s), NEW U \in SUBSET GuestThreads, NoThread \notin U,
         \A w \in GuestThreads : OwnersOf(s)[w] \notin U,
         NEW t \in LiveOf(s), t \notin U, Supported(OwnersOf(s), s.base, s.prio, LiveOf(s)),
         NEW r, r = RestorePriority(s, t)
  PROVE  Ahead(s, r, U)
<1> DEFINE N == 2 * Cardinality(GuestThreads)
           F == CHOOSE G : Restoring(G, s, t, N)
           Fine(x) == Rising(s, x.s, x.thread, U) /\ Ahead(s, x.s, U)
<1>1. N \in Nat
  BY ThreadsAreCounted
<1>2. Restoring(F, s, t, N)
  BY <1>1, RestoringExists
<1>3. r = F[N].s
  BY DEF RestorePriority, Restoring
<1> HIDE DEF F, N
<1>4. /\ F[0] = [thread |-> t, s |-> s]
      /\ \A n \in 0..N : n # 0 => F[n] = RestoreRound(F[n - 1])
  BY <1>1, <1>2 DEF Restoring
<1>5. Fine(F[0])
  <2>1. F[0].thread = t /\ F[0].s = s /\ Reordered(s, s) /\ Ahead(s, s, U)
    BY <1>4 DEF Reordered, Ahead
  <2> QED BY <2>1 DEF Rising
<1>6. ASSUME NEW n \in 0..N, n # 0, Fine(F[n - 1]) PROVE Fine(F[n])
  <2>1. PICK x : x = F[n - 1]
    OBVIOUS
  <2>2. PICK z : z = x.s
    OBVIOUS
  <2>3. PICK u : u = x.thread
    OBVIOUS
  <2>4. PICK y : y = F[n]
    OBVIOUS
  <2>5. y = RestoreRound(x) /\ Rising(s, z, u, U) /\ Ahead(s, z, U)
    BY <1>4, <1>6, <2>1, <2>2, <2>3, <2>4
  <2>6. Rising(s, y.s, y.thread, U) /\ Ahead(z, y.s, U)
    BY <2>2, <2>3, <2>5, RestoreRoundIsAhead
  <2>7. Ahead(s, y.s, U)
    BY <2>5, <2>6 DEF Ahead
  <2> QED BY <2>4, <2>6, <2>7
<1> HIDE DEF Fine
<1>7. \A n \in 0..N : Fine(F[n])
  <2> DEFINE Bad == {n \in 0..N : ~Fine(F[n])}
  <2> SUFFICES ASSUME Bad # {} PROVE FALSE
    OBVIOUS
  <2>1. Bad \subseteq Nat
    BY <1>1
  <2>2. PICK n \in Bad : \A k \in Bad : n <= k
    <3> HIDE DEF Bad
    <3> QED BY <2>1, LeastNatural
  <2>3. n # 0
    BY <1>5, <2>2
  <2>4. n \in 0..N /\ n - 1 \in 0..N /\ n - 1 \notin Bad
    BY <1>1, <2>2, <2>3
  <2>5. Fine(F[n - 1])
    BY <2>4
  <2> QED BY <1>6, <2>2, <2>3, <2>4, <2>5
<1> QED BY <1>1, <1>3, <1>7 DEF Fine

LEMMA LinkedIsSupported ==
  ASSUME NEW O, NEW B, NEW Q, NEW L, Inherited(O, B, Q, L, NoThread),
         NEW w \in GuestThreads, O[w] = NoThread, NEW o \in L, NEW M,
         M \in [GuestThreads -> GuestThreads \cup {NoThread}],
         M[w] = o, \A v \in GuestThreads : v # w => M[v] = O[v]
  PROVE  Supported(M, B, Q, L)
<1>1. /\ B \in [GuestThreads -> Nat] /\ Q \in [GuestThreads -> Nat]
      /\ L \in SUBSET GuestThreads
      /\ \A v \in GuestThreads : O[v] # NoThread => O[v] \in L
      /\ \A u \in L : u # NoThread => Inherits(O, B, Q, u, Q[u])
  BY DEF Inherited
<1>2. \A v \in GuestThreads : M[v] # NoThread => M[v] \in L
  BY <1>1
<1>3. ASSUME NEW v \in L
      PROVE  B[v] <= Q[v] \/ \E u \in GuestThreads : M[u] = v /\ Q[u] <= Q[v]
  <2>1. v \in GuestThreads /\ v # NoThread /\ B[v] \in Nat /\ Q[v] \in Nat
    BY <1>1, NoThreadIsNone
  <2>2. CASE Q[v] = B[v]
    BY <2>1, <2>2
  <2>3. CASE \E u \in GuestThreads : O[u] = v /\ Q[v] = Q[u]
    <3>1. PICK u \in GuestThreads : O[u] = v /\ Q[v] = Q[u]
      BY <2>3
    <3>2. M[u] = v
      BY <2>1, <3>1
    <3> QED BY <2>1, <3>1, <3>2
  <2> QED BY <1>1, <2>1, <2>2, <2>3 DEF Inherits
<1> QED BY <1>1, <1>2, <1>3 DEF Supported

LEMMA AddWaiterIsAhead ==
  ASSUME NEW s, IsCvState(s), PrioritiesDue(s, NoThread),
         NEW o \in LiveOf(s), NEW w \in GuestThreads, s.info[w] = NoInfo, NEW a \in Mutexes,
         NEW U \in SUBSET GuestThreads, o \notin U, \A v \in GuestThreads : s.info[v].owner \notin U,
         NEW r, r = AddWaiter(s, o, w, a)
  PROVE  Ahead(s, r, U)
<1>1. PICK info : info = [s.info EXCEPT ![w] = [owner |-> o, lock |-> a]]
  OBVIOUS
<1>2. PICK q : q = Append(s.queue, w)
  OBVIOUS
<1>3. PICK x : Rewired(s, x, info, q)
  BY DEF Rewired
<1>0. o \in GuestThreads /\ NoThread \notin U
  BY NoThreadIsNone DEF LiveOf
<1>4. /\ info \in [GuestThreads -> Infos \cup {NoInfo}]
      /\ info[w].owner = o /\ \A v \in GuestThreads : v # w => info[v] = s.info[v]
  <2>1. [owner |-> o, lock |-> a] \in Infos /\ s.info \in [GuestThreads -> Infos \cup {NoInfo}]
    BY <1>0, InfoTypes DEF IsCvState
  <2> QED BY <1>1, <2>1
<1>5. q \in Seq(GuestThreads) /\ s.queue \in Seq(GuestThreads)
  <2>1. s.queue \in Seq(GuestThreads)
    BY DEF IsCvState
  <2> QED BY <1>2, <2>1, AppendHas
<1>6. r = IF s.prio[w] < s.prio[o] THEN RestorePriority(x, o) ELSE x
  BY <1>1, <1>2, <1>3 DEF AddWaiter, Rewired
<1>7. /\ IsCvState(x) /\ x.info = info /\ x.prio = s.prio /\ x.base = s.base /\ x.pc = s.pc
      /\ x.queue = q
  BY <1>3, <1>4, <1>5, RelinkedIs
<1>8. /\ OwnersOf(x) \in [GuestThreads -> GuestThreads \cup {NoThread}]
      /\ OwnersOf(x)[w] = o /\ OwnersOf(s)[w] = NoThread
      /\ \A v \in GuestThreads : v # w => OwnersOf(x)[v] = OwnersOf(s)[v]
      /\ LiveOf(x) = LiveOf(s)
      /\ \A v \in GuestThreads : OwnersOf(x)[v] \notin U
  <2>1. /\ OwnersOf(x) \in [GuestThreads -> GuestThreads \cup {NoThread}]
        /\ \A v \in GuestThreads : OwnersOf(x)[v] = info[v].owner
        /\ \A v \in GuestThreads : OwnersOf(s)[v] = s.info[v].owner
        /\ OwnersOf(s)[w] = NoThread
    BY <1>7, OwnersAre
  <2>2. LiveOf(x) = LiveOf(s)
    BY <1>7 DEF LiveOf
  <2> QED BY <1>4, <2>1, <2>2
<1>9. Ahead(s, x, U)
  <2>1. ASSUME NEW u \in GuestThreads, NEW y \in U, Precedes(s, u, y) PROVE Precedes(x, u, y)
    <3>1. s.prio[u] < s.prio[y] \/ (s.prio[u] = s.prio[y] /\ InOrder(s.queue, u, y))
      BY <2>1, PrecedesSays
    <3>2. InOrder(s.queue, u, y) => InOrder(q, u, y)
      BY <1>2, <1>5, AppendInOrder
    <3> QED BY <1>7, <3>1, <3>2, PrecedesIs
  <2> QED BY <2>1 DEF Ahead
<1>10. CASE s.prio[w] < s.prio[o]
  <2>a. PICK M : M = OwnersOf(x)
    OBVIOUS
  <2>b. PICK O : O = OwnersOf(s)
    OBVIOUS
  <2>c. PICK L : L = LiveOf(s)
    OBVIOUS
  <2>1. Inherited(O, s.base, s.prio, L, NoThread) /\ o \in L
    BY <2>b, <2>c DEF PrioritiesDue
  <2>2. Supported(M, s.base, s.prio, L)
    BY <1>8, <2>a, <2>b, <2>c, <2>1, LinkedIsSupported
  <2>3. Supported(OwnersOf(x), x.base, x.prio, LiveOf(x)) /\ o \in LiveOf(x)
    BY <1>7, <1>8, <2>a, <2>c, <2>2
  <2>4. Ahead(x, r, U)
    BY <1>0, <1>6, <1>7, <1>8, <1>10, <2>3, RestoreIsAhead
  <2> QED BY <1>9, <2>4 DEF Ahead
<1>11. CASE ~(s.prio[w] < s.prio[o])
  BY <1>6, <1>9, <1>11
<1> QED BY <1>10, <1>11

-----------------------------------------------------------------------------
OwnsNothing(s, t) == \A a \in Mutexes : s.tag[a].owner # t

\* Whoever still waits for a key waited for it before, and owns what it owned.
KeyedAsBefore(s, r) ==
  \A t \in GuestThreads : r.key[t] # NoKey =>
    r.key[t] = s.key[t] /\ (OwnsNothing(r, t) => OwnsNothing(s, t))

LEMMA SignalImplIsAhead ==
  ASSUME NEW s, NEW x \in GuestThreads, Unlinked(s, want, held, x), s.pc[x] = "cvwait",
         PrioritiesDue(s, NoThread), SameLives(s), NEW r, r = SignalImpl(s, x),
         NEW U, U = {t \in GuestThreads : OwnsNothing(s, t)}
  PROVE  Ahead(s, r, U) /\ KeyedAsBefore(s, r)
<1>1. /\ IsCvState(s) /\ WordsHold(s, want, held) /\ s.info[x] = NoInfo /\ s.key[x] = NoKey
  BY DEF Unlinked
<1>2. PICK a \in Mutexes : a = want[x]
  BY <1>1 DEF WordsHold
<1>3. /\ s.tag[a] \in [owner: GuestThreads \cup {NoThread}, wait: BOOLEAN]
      /\ s.tag \in [Mutexes -> [owner: GuestThreads \cup {NoThread}, wait: BOOLEAN]]
  BY <1>1 DEF IsCvState
<1>4. PICK prev : prev = s.tag[a]
  OBVIOUS
<1>5. PICK v : v = IF prev = Free THEN [owner |-> x, wait |-> FALSE]
                   ELSE [owner |-> prev.owner, wait |-> TRUE]
  OBVIOUS
<1>6. PICK y : Retagged(s, y, a, v)
  BY DEF Retagged
<1>7. Marks(s, a, v)
  BY <1>4, <1>5 DEF Marks
<1>8. /\ IsCvState(y) /\ y.tag = [s.tag EXCEPT ![a] = v] /\ y.info = s.info /\ y.key = s.key
      /\ y.queue = s.queue /\ y.prio = s.prio /\ y.base = s.base /\ y.pc = s.pc
  <2>1. Marked(s, y, a, v)
    BY <1>1, <1>6, <1>7, MarkedIs
  <2> QED BY <2>1 DEF Marked
<1>9. PrioritiesDue(y, NoThread)
  BY <1>8, DueRests
<1>10. r = IF prev = Free THEN EndWait(y, x, "Success")
           ELSE IF IsValidHandle(prev.owner) THEN AddWaiter(y, prev.owner, x, a)
           ELSE EndWait(y, x, "InvalidState")
  BY <1>2, <1>4, <1>5, <1>6 DEF SignalImpl, Retagged
<1>11. ASSUME NEW t \in GuestThreads, t # x, OwnsNothing(y, t) PROVE OwnsNothing(s, t)
  <2>1. v.owner = x \/ v.owner = s.tag[a].owner
    BY <1>4, <1>5
  <2>2. prev = Free => s.tag[a].owner # t
    BY <1>4, NoThreadIsNone DEF Free
  <2>3. prev # Free => v.owner = s.tag[a].owner
    BY <1>4, <1>5
  <2>4. y.tag[a] = v /\ \A b \in Mutexes : b # a => y.tag[b] = s.tag[b]
    BY <1>3, <1>8
  <2> QED BY <1>11, <2>2, <2>3, <2>4 DEF OwnsNothing
<1>12. Ahead(s, y, U)
  BY <1>8 DEF Ahead, Precedes
<1>13. CASE \E res \in CvResults : r = EndWait(y, x, res)
  <2>1. r.tag = y.tag /\ r.key = y.key /\ r.queue = y.queue /\ r.prio = y.prio
    <3>1. PICK res \in CvResults : r = EndWait(y, x, res)
      BY <1>13
    <3> QED BY <1>8, <3>1 DEF EndWait, IsCvState, Fields
  <2>2. Ahead(s, r, U)
    <3>1. r.queue = s.queue /\ r.prio = s.prio
      BY <1>8, <2>1
    <3> QED BY <3>1 DEF Ahead, Precedes
  <2>3. \A t \in GuestThreads : OwnsNothing(r, t) => OwnsNothing(y, t)
    BY <2>1 DEF OwnsNothing
  <2> QED BY <1>1, <1>8, <1>11, <2>1, <2>2, <2>3 DEF KeyedAsBefore
<1>14. CASE prev # Free /\ IsValidHandle(prev.owner)
  <2>1. PICK o \in GuestThreads : o = prev.owner /\ pc[o] # "gone"
    BY <1>3, <1>4, <1>14 DEF IsValidHandle
  <2>2. r = AddWaiter(y, o, x, a)
    BY <1>10, <1>14, <2>1
  <2>3. o \in LiveOf(y)
    BY <1>8, <2>1 DEF LiveOf, SameLives
  <2>4. o \notin U /\ U \in SUBSET GuestThreads
    BY <1>4, <2>1 DEF OwnsNothing
  <2>5. \A w \in GuestThreads : y.info[w].owner \notin U
    <3> SUFFICES ASSUME NEW w \in GuestThreads, s.info[w].owner \in U PROVE FALSE
      BY <1>8
    <3>1. s.info[w] # NoInfo
      <4>1. NoInfo.owner = NoThread
        BY DEF NoInfo
      <4>2. s.info[w].owner \in GuestThreads
        BY <2>4
      <4> QED BY <4>1, <4>2, NoThreadIsNone
    <3>2. s.info[w] \in Infos
      BY <1>1, <3>1, InfoTypes
    <3>3. s.info[w].lock \in Mutexes
      BY <1>1, <3>2, InfoTypes
    <3>4. s.tag[s.info[w].lock].owner = s.info[w].owner
      <4>1. s.tag[s.info[w].lock] = [owner |-> s.info[w].owner, wait |-> TRUE]
        BY <1>1, <3>1 DEF WordsHold
      <4> QED BY <4>1
    <3> QED BY <3>3, <3>4 DEF OwnsNothing
  <2>6. Ahead(y, r, U)
    BY <1>1, <1>8, <1>9, <2>2, <2>3, <2>4, <2>5, AddWaiterIsAhead
  <2>7. Ahead(s, r, U)
    BY <1>12, <2>6 DEF Ahead
  <2>8. PICK f : f = [y.info EXCEPT ![x] = [owner |-> o, lock |-> a]]
    OBVIOUS
  <2>9. Relinked(y, r, f, {})
    BY <1>8, <2>2, <2>8, AddWaiterIs
  <2>10. r.tag = y.tag /\ r.key = y.key
    BY <2>9 DEF Relinked
  <2>11. \A t \in GuestThreads : OwnsNothing(r, t) => OwnsNothing(y, t)
    BY <2>10 DEF OwnsNothing
  <2> QED BY <1>1, <1>8, <1>11, <2>7, <2>10, <2>11 DEF KeyedAsBefore
<1>15. "Success" \in CvResults /\ "InvalidState" \in CvResults
  BY DEF CvResults
<1> QED BY <1>10, <1>13, <1>14, <1>15

LEMMA KeptKeyed ==
  ASSUME NEW s, NEW y, NEW r, KeyedAsBefore(s, y), KeyedAsBefore(y, r)
  PROVE  KeyedAsBefore(s, r)
  BY DEF KeyedAsBefore

LEMMA LeavesKeyIsAhead ==
  ASSUME NEW s, IsCvState(s), NEW x \in GuestThreads, NEW r, LeavesKey(s, r, x),
         NEW y \in GuestThreads, NEW t \in GuestThreads, y # x, t # x,
         Precedes(s, t, y)
  PROVE  Precedes(r, t, y)
<1>1. r.prio = s.prio /\ r.queue = Without(s.queue, x)
  BY DEF LeavesKey, IsCvState, Fields
<1>2. s.queue \in Seq(GuestThreads)
  BY DEF IsCvState
<1>3. s.prio[t] < s.prio[y] \/ (s.prio[t] = s.prio[y] /\ InOrder(s.queue, t, y))
  BY PrecedesSays
<1>4. PICK q : q = Without(s.queue, x)
  OBVIOUS
<1>5. InOrder(s.queue, t, y) => InOrder(q, t, y)
  BY <1>2, <1>4, WithoutInOrder
<1> QED BY <1>1, <1>3, <1>4, <1>5, PrecedesIs

LEMMA LeavesKeyKeeps ==
  ASSUME NEW s, IsCvState(s), NEW x \in GuestThreads, NEW r, LeavesKey(s, r, x)
  PROVE  /\ KeyedAsBefore(s, r) /\ r.tag = s.tag
         /\ \A t \in GuestThreads : OwnsNothing(r, t) <=> OwnsNothing(s, t)
<1>1. r.tag = s.tag /\ r.key = [s.key EXCEPT ![x] = NoKey]
  BY DEF LeavesKey, IsCvState, Fields
<1>2. s.key \in [GuestThreads -> Keys \cup {NoKey}]
  BY DEF IsCvState
<1>3. \A t \in GuestThreads : OwnsNothing(r, t) <=> OwnsNothing(s, t)
  BY <1>1 DEF OwnsNothing
<1>4. \A t \in GuestThreads : r.key[t] # NoKey => r.key[t] = s.key[t]
  BY <1>1, <1>2
<1> QED BY <1>1, <1>3, <1>4 DEF KeyedAsBefore

\* Of the threads that wait for k, those without a mutex are where the iterator is,
\* or come later.
Covered(z, i, k) ==
  /\ i = NoThread \/ (i \in GuestThreads /\ z.key[i] = k)
  /\ \A t \in GuestThreads : z.key[t] = k /\ OwnsNothing(z, t) =>
       i # NoThread /\ (t = i \/ Precedes(z, i, t))

LEMMA SignalRoundIsCovered ==
  ASSUME NEW x, NEW count, NEW z, NEW i, NEW k \in Keys, x.s = z, x.it = i,
         CvSound(z, want, held), PrioritiesDue(z, NoThread), SameLives(z), Covered(z, i, k),
         NEW y, y = SignalRound(x, count)
  PROVE  Covered(y.s, y.it, k) /\ KeyedAsBefore(z, y.s)
<1>0. k # NoKey
  BY CvAssumption
<1>1. CASE y = x
  BY <1>1 DEF KeyedAsBefore
<1>2. CASE y # x
  <2>1. PICK u : LeavesKey(z, u, i)
    BY DEF LeavesKey
  <2>2. PICK r : r = SignalImpl(u, i)
    OBVIOUS
  <2>3. i # NoThread /\ y = [it |-> CvSuccessor(z, i), num |-> x.num + 1, s |-> r]
    <3>1. x.s = z /\ x.it = i
      OBVIOUS
    <3> QED BY <1>2, <2>1, <2>2, <3>1 DEF SignalRound, LeavesKey
  <2>4. i \in GuestThreads /\ z.key[i] = k /\ IsCvState(z) /\ LinksHold(z)
    BY <2>3 DEF Covered, CvSound
  <2>5. Unlinked(u, want, held, i) /\ u.pc[i] = "cvwait"
    <3>1. LeftKey(z, u, want, held, i)
      BY <1>0, <2>1, <2>4, UnkeyedIsUnlinked
    <3> QED BY <3>1 DEF LeftKey
  <2>6. PrioritiesDue(u, NoThread) /\ u.pc = z.pc
    BY <1>0, <2>1, <2>4, LeavesKeyDue
  <2>7. SameLives(u)
    BY <2>6 DEF SameLives
  <2>8. PICK U : U = {t \in GuestThreads : OwnsNothing(u, t)}
    OBVIOUS
  <2>9. Ahead(u, r, U) /\ KeyedAsBefore(u, r)
    BY <2>2, <2>4, <2>5, <2>6, <2>7, <2>8, SignalImplIsAhead
  <2>10. KeyedAsBefore(z, u) /\ \A t \in GuestThreads : OwnsNothing(u, t) <=> OwnsNothing(z, t)
    BY <2>1, <2>4, LeavesKeyKeeps
  <2>11. KeyedAsBefore(z, r)
    BY <2>9, <2>10, KeptKeyed
  <2>12. r.key[i] = NoKey
    <3>1. u.key[i] = NoKey
      BY <2>5 DEF Unlinked
    <3>2. r.key[i] # NoKey => r.key[i] = u.key[i]
      BY <2>4, <2>9 DEF KeyedAsBefore
    <3> QED BY <3>1, <3>2
  <2> DEFINE S == {v \in CvWaiters(z, k) \ {i} : Precedes(z, i, v)}
  <2>13. CvSuccessor(z, i) = Front(z, S)
    BY <2>4 DEF CvSuccessor
  <2>14. /\ S \in SUBSET GuestThreads
         /\ \A v \in GuestThreads : v \in S <=> z.key[v] = k /\ v # i /\ Precedes(z, i, v)
    BY DEF CvWaiters
  <2> HIDE DEF S
  <2>15. \A v \in S : Has(z.queue, v)
    BY <1>0, <2>4, <2>14 DEF LinksHold
  <2>16. PICK n : n = Front(z, S)
    OBVIOUS
  <2>17. /\ S = {} => n = NoThread
         /\ S # {} => n \in S /\ \A v \in S \ {n} : Precedes(z, n, v)
    BY <2>4, <2>14, <2>15, <2>16, FrontPrecedes
  <2>18. y.s = r /\ y.it = n
    BY <2>3, <2>13, <2>16
  <2>19. ASSUME NEW t \in GuestThreads, r.key[t] = k, OwnsNothing(r, t)
         PROVE  n # NoThread /\ (t = n \/ Precedes(r, n, t))
    <3>1. t # i
      BY <1>0, <2>12, <2>19
    <3>2. z.key[t] = k /\ OwnsNothing(z, t) /\ OwnsNothing(u, t)
      <4>1. z.key[t] = k /\ OwnsNothing(z, t)
        BY <1>0, <2>11, <2>19 DEF KeyedAsBefore
      <4> QED BY <2>10, <4>1
    <3>3. Precedes(z, i, t)
      BY <3>1, <3>2 DEF Covered
    <3>4. t \in S /\ n \in S /\ n \in GuestThreads
      BY <2>14, <2>17, <3>1, <3>2, <3>3
    <3>5. n # NoThread /\ n # i
      BY <2>14, <3>4, NoThreadIsNone
    <3>6. CASE t # n
      <4>1. Precedes(z, n, t)
        BY <2>17, <3>4, <3>6
      <4>2. Precedes(u, n, t)
        BY <2>1, <2>4, <3>1, <3>4, <3>5, <4>1, LeavesKeyIsAhead
      <4>3. t \in U
        BY <2>8, <3>2
      <4>4. Precedes(r, n, t)
        BY <2>9, <3>4, <4>2, <4>3 DEF Ahead
      <4> QED BY <3>5, <4>4
    <3> QED BY <3>5, <3>6
  <2>20. n = NoThread \/ (n \in GuestThreads /\ r.key[n] = k)
    <3>1. Signalled(z, i, r)
      BY <1>0, <2>1, <2>2, <2>4, SignalledIsSound
    <3>2. ASSUME n \in S PROVE n \in GuestThreads /\ n # i /\ z.key[n] = k
      BY <2>14, <3>2
    <3>3. ASSUME n \in S PROVE r.key[n] = k
      BY <3>1, <3>2, <3>3 DEF Signalled
    <3> QED BY <2>17, <3>2, <3>3
  <2> QED BY <2>11, <2>18, <2>19, <2>20 DEF Covered
<1> QED BY <1>1, <1>2

LEMMA SignalLoopIsCovered ==
  ASSUME NEW s, CvSound(s, want, held), PrioritiesDue(s, NoThread), SameLives(s),
         NEW k \in Keys, NEW count, NEW r, r = SignalLoop(s, k, count)
  PROVE  Covered(r.s, r.it, k) /\ KeyedAsBefore(s, r.s)
<1> DEFINE N == Cardinality(GuestThreads)
           f == [it |-> Front(s, CvWaiters(s, k)), num |-> 0, s |-> s]
           F == CHOOSE G : SignalRounds(G, f, count, N)
           Fine(x) == /\ CvSound(x.s, want, held) /\ Iterates(x.s, x.it)
                      /\ PrioritiesDue(x.s, NoThread) /\ SameLives(x.s)
                      /\ Covered(x.s, x.it, k) /\ KeyedAsBefore(s, x.s)
<1>0. k # NoKey
  BY CvAssumption
<1>1. N \in Nat
  BY ThreadsAreCounted
<1>2. SignalRounds(F, f, count, N)
  <2> HIDE DEF f
  <2> QED BY <1>1, SignallingExists
<1>3. r = F[N]
  BY DEF SignalLoop, SignalRounds
<1>4. Fine(f)
  <2>1. PICK n : n = Front(s, CvWaiters(s, k))
    OBVIOUS
  <2>2. PICK S : S = CvWaiters(s, k)
    OBVIOUS
  <2>2a. S \in SUBSET GuestThreads /\ \A x \in GuestThreads : x \in S <=> s.key[x] = k
    BY <2>2 DEF CvWaiters
  <2>3. IsCvState(s) /\ \A x \in S : Has(s.queue, x)
    BY <1>0, <2>2a DEF CvSound, LinksHold
  <2>4. /\ S = {} => n = NoThread
        /\ S # {} => n \in S /\ \A v \in S \ {n} : Precedes(s, n, v)
    BY <2>1, <2>2, <2>2a, <2>3, FrontPrecedes
  <2>5. f.s = s /\ f.it = n
    BY <2>1
  <2>6. Covered(s, n, k)
    <3>1. n = NoThread \/ (n \in GuestThreads /\ s.key[n] = k)
      BY <2>2a, <2>4
    <3>2. ASSUME NEW t \in GuestThreads, s.key[t] = k
          PROVE  n # NoThread /\ (t = n \/ Precedes(s, n, t))
      <4>1. t \in S
        BY <2>2a, <3>2
      <4>2. n \in S /\ n \in GuestThreads
        BY <2>2a, <2>4, <4>1
      <4>3. t # n => Precedes(s, n, t)
        BY <2>4, <4>1
      <4> QED BY <4>2, <4>3, NoThreadIsNone
    <3> QED BY <3>1, <3>2 DEF Covered
  <2>7. Iterates(s, n) /\ KeyedAsBefore(s, s)
    BY <1>0, <2>6 DEF Covered, Iterates, KeyedAsBefore
  <2> QED BY <2>5, <2>6, <2>7
<1> HIDE DEF F, N, f
<1>5. /\ F[0] = f
      /\ \A n \in 0..N : n # 0 => F[n] = SignalRound(F[n - 1], count)
  BY <1>1, <1>2 DEF SignalRounds
<1>6. ASSUME NEW n \in 0..N, n # 0, Fine(F[n - 1]) PROVE Fine(F[n])
  <2>1. PICK x : x = F[n - 1]
    OBVIOUS
  <2>2. PICK z : z = x.s
    OBVIOUS
  <2>3. PICK i : i = x.it
    OBVIOUS
  <2>4. PICK y : y = F[n]
    OBVIOUS
  <2>5. /\ y = SignalRound(x, count) /\ CvSound(z, want, held) /\ Iterates(z, i)
        /\ PrioritiesDue(z, NoThread) /\ SameLives(z)
        /\ Covered(z, i, k) /\ KeyedAsBefore(s, z)
    BY <1>5, <1>6, <2>1, <2>2, <2>3, <2>4
  <2>6. CvSound(y.s, want, held) /\ Iterates(y.s, y.it)
    BY <2>2, <2>3, <2>5, SignalRoundIsSound
  <2>7. PrioritiesDue(y.s, NoThread) /\ SameLives(y.s)
    BY <2>2, <2>3, <2>5, SignalRoundDue
  <2>8. Covered(y.s, y.it, k) /\ KeyedAsBefore(z, y.s)
    BY <2>2, <2>3, <2>5, SignalRoundIsCovered
  <2>9. KeyedAsBefore(s, y.s)
    BY <2>5, <2>8, KeptKeyed
  <2> QED BY <2>4, <2>6, <2>7, <2>8, <2>9
<1> HIDE DEF Fine
<1>7. \A n \in 0..N : Fine(F[n])
  <2> DEFINE B == {n \in 0..N : ~Fine(F[n])}
  <2> SUFFICES ASSUME B # {} PROVE FALSE
    OBVIOUS
  <2>1. B \subseteq Nat
    BY <1>1
  <2>2. PICK n \in B : \A j \in B : n <= j
    <3> HIDE DEF B
    <3> QED BY <2>1, LeastNatural
  <2>3. n # 0
    BY <1>4, <1>5, <2>2
  <2>4. n \in 0..N /\ n - 1 \in 0..N /\ n - 1 \notin B
    BY <1>1, <2>2, <2>3
  <2>5. Fine(F[n - 1])
    BY <2>4
  <2> QED BY <1>6, <2>2, <2>3, <2>4, <2>5
<1> QED BY <1>1, <1>3, <1>7 DEF Fine

LEMMA SameWordsKeyed ==
  ASSUME NEW s, NEW r, r.tag = s.tag,
         \A t \in GuestThreads : r.key[t] # NoKey => r.key[t] = s.key[t]
  PROVE  KeyedAsBefore(s, r)
<1>1. \A t \in GuestThreads : OwnsNothing(r, t) => OwnsNothing(s, t)
  BY DEF OwnsNothing
<1> QED BY <1>1 DEF KeyedAsBefore

\* A step that takes no flag down and leaves whoever waits for a key as it was.
LEMMA FlagsStay ==
  ASSUME CvInv, FlagCoversWaiters, NEW s, s = State, NEW r,
         m_tag' = r.tag, m_condvar_key' = r.key, KeyedAsBefore(s, r),
         \A k \in Keys : m_has_waiter[k] => m_has_waiter'[k]
  PROVE  FlagCoversWaiters'
<1>1. s.key = m_condvar_key /\ s.tag = m_tag
  BY StateFields
<1>2. s.key \in [GuestThreads -> Keys \cup {NoKey}]
  BY DEF CvInv, CvSound, IsCvState
<1>3. ASSUME NEW t \in GuestThreads, r.key[t] # NoKey, OwnsNothing(r, t)
      PROVE  m_has_waiter'[r.key[t]]
  <2>1. r.key[t] = s.key[t] /\ OwnsNothing(s, t)
    BY <1>3 DEF KeyedAsBefore
  <2>2. r.key[t] \in Keys
    BY <1>2, <1>3, <2>1
  <2>3. \A a \in Mutexes : m_tag[a].owner # t
    BY <1>1, <2>1 DEF OwnsNothing
  <2>4. m_has_waiter[m_condvar_key[t]]
    BY <1>1, <1>3, <2>1, <2>3 DEF FlagCoversWaiters
  <2> QED BY <1>1, <2>1, <2>2, <2>4
<1>4. \A t \in GuestThreads : (\A a \in Mutexes : r.tag[a].owner # t) => OwnsNothing(r, t)
  BY DEF OwnsNothing
<1> QED BY <1>3, <1>4 DEF FlagCoversWaiters

LEMMA AppliedFlagsStay ==
  ASSUME CvInv, FlagCoversWaiters, NEW s, s = State, NEW r, Apply(r), KeyedAsBefore(s, r),
         UNCHANGED m_has_waiter
  PROVE  FlagCoversWaiters'
<1>1. m_tag' = r.tag /\ m_condvar_key' = r.key
  BY DEF Apply
<1> QED BY <1>1, FlagsStay

\* A step of the guest, or of a thread that returns, that changes no word.
LEMMA SameFlags ==
  ASSUME CvInv, FlagCoversWaiters, UNCHANGED <<m_tag, m_condvar_key, m_has_waiter>>
  PROVE  FlagCoversWaiters'
  BY DEF FlagCoversWaiters

LEMMA GuestFlags ==
  ASSUME CvInv, FlagCoversWaiters, NEW t \in GuestThreads, Guest(t)
  PROVE  FlagCoversWaiters'
<1>0. /\ m_tag \in [Mutexes -> [owner: GuestThreads \cup {NoThread}, wait: BOOLEAN]]
      /\ m_condvar_key \in [GuestThreads -> Keys \cup {NoKey}]
      /\ \A u \in GuestThreads : m_condvar_key[u] # NoKey => pc[u] = "cvwait"
  <2>1. CvSound(State, want, held)
    BY DEF CvInv
  <2> QED BY <2>1, StateFields DEF CvSound, IsCvState, LinksHold
<1>5. ASSUME UNCHANGED <<m_condvar_key, m_has_waiter>>,
             \A u \in GuestThreads : m_condvar_key[u] # NoKey /\ (\A b \in Mutexes : m_tag'[b].owner # u)
               => \A b \in Mutexes : m_tag[b].owner # u
      PROVE  FlagCoversWaiters'
  BY <1>5 DEF FlagCoversWaiters
<1>1. CASE \E a \in Mutexes : GuestLock(t, a)
  <2>1. PICK a \in Mutexes : GuestLock(t, a)
    BY <1>1
  <2>2. PICK v : /\ m_tag' = [m_tag EXCEPT ![a] = v]
                 /\ m_tag[a] = Free \/ v.owner = m_tag[a].owner
    BY <2>1 DEF GuestLock
  <2>3. UNCHANGED <<m_condvar_key, m_has_waiter>>
    BY <2>1 DEF GuestLock
  <2>4. ASSUME NEW u \in GuestThreads, \A b \in Mutexes : m_tag'[b].owner # u
        PROVE  \A b \in Mutexes : m_tag[b].owner # u
    <3>1. m_tag'[a] = v /\ \A b \in Mutexes : b # a => m_tag'[b] = m_tag[b]
      BY <1>0, <2>2
    <3>2. m_tag[a].owner # u
      <4>1. m_tag[a] = Free => m_tag[a].owner = NoThread
        BY DEF Free
      <4> QED BY <2>2, <2>4, <3>1, <4>1, NoThreadIsNone
    <3> QED BY <2>4, <3>1, <3>2
  <2> QED BY <1>5, <2>3, <2>4
<1>2. CASE \E a \in Mutexes : GuestUnlock(t, a)
  <2>1. PICK a \in Mutexes : GuestUnlock(t, a)
    BY <1>2
  <2>2. /\ m_tag' = [m_tag EXCEPT ![a] = Free] /\ m_tag[a].owner = t /\ pc[t] = "run"
        /\ UNCHANGED <<m_condvar_key, m_has_waiter>>
    BY <2>1 DEF GuestUnlock
  <2>3. ASSUME NEW u \in GuestThreads, m_condvar_key[u] # NoKey, \A b \in Mutexes : m_tag'[b].owner # u
        PROVE  \A b \in Mutexes : m_tag[b].owner # u
    <3>1. \A b \in Mutexes : b # a => m_tag'[b] = m_tag[b]
      BY <1>0, <2>2
    <3>2. m_tag[a].owner # u
      <4>1. u # t
        BY <1>0, <2>2, <2>3
      <4> QED BY <2>2, <4>1
    <3> QED BY <2>3, <3>1, <3>2
  <2> QED BY <1>5, <2>2, <2>3
<1>3. CASE GuestCheck(t)
  <2>1. UNCHANGED <<m_tag, m_condvar_key, m_has_waiter>>
    BY <1>3 DEF GuestCheck, kernelVars
  <2> QED BY <2>1, SameFlags
<1>4. CASE GuestCvReturn(t)
  <2>1. UNCHANGED <<m_tag, m_condvar_key, m_has_waiter>>
    BY <1>4 DEF GuestCvReturn, kernelVars
  <2> QED BY <2>1, SameFlags
<1> QED BY <1>1, <1>2, <1>3, <1>4 DEF Guest

LEMMA WaitForAddressFlags ==
  ASSUME CvInv, DueInv, FlagCoversWaiters, NEW t \in GuestThreads, WaitForAddress(t)
  PROVE  FlagCoversWaiters'
<1>1. PICK s : s = State
  OBVIOUS
<1>2. IsCvState(s) /\ LinksHold(s) /\ s.pc = pc
  BY <1>1, DueStateIs
<1>3. pc[t] = "lock" /\ UNCHANGED m_has_waiter
  BY DEF WaitForAddress
<1>4. PICK a \in Mutexes : a = want[t]
  BY <1>3, InvSays
<1>5. CASE Apply([s EXCEPT !.pc = [s.pc EXCEPT ![t] = "check"]])
  <2>1. PICK p \in CvPlaces : p = "check"
    BY DEF CvPlaces
  <2>2. PICK r : Placed(s, r, t, p)
    BY DEF Placed
  <2>3. r.tag = s.tag /\ r.key = s.key
    <3>1. PlacedAt(s, r, t, p)
      BY <1>2, <2>2, PlacedIs
    <3> QED BY <3>1 DEF PlacedAt
  <2>4. KeyedAsBefore(s, r)
    BY <2>3, SameWordsKeyed
  <2>5. Apply(r)
    BY <1>5, <2>1, <2>2 DEF Placed
  <2> QED BY <1>1, <1>3, <2>4, <2>5, AppliedFlagsStay
<1>6. CASE /\ IsValidHandle(seen[t])
           /\ Apply([AddWaiter(s, seen[t], t, a) EXCEPT !.pc = [@ EXCEPT ![t] = "wait"]])
  <2>1. PICK o \in GuestThreads : o = seen[t]
    BY <1>6, InvSays DEF IsValidHandle
  <2>2. PICK y : y = AddWaiter(s, o, t, a)
    OBVIOUS
  <2>3. PICK f : f = [s.info EXCEPT ![t] = [owner |-> o, lock |-> a]]
    OBVIOUS
  <2>4. Relinked(s, y, f, {})
    BY <1>2, <2>2, <2>3, AddWaiterIs
  <2>5. PICK p \in CvPlaces : p = "wait"
    BY DEF CvPlaces
  <2>6. PICK r : Placed(y, r, t, p)
    BY DEF Placed
  <2>7. r.tag = s.tag /\ r.key = s.key
    <3>1. PlacedAt(y, r, t, p)
      BY <2>4, <2>6, PlacedIs DEF Relinked
    <3> QED BY <2>4, <3>1 DEF PlacedAt, Relinked
  <2>8. KeyedAsBefore(s, r)
    BY <2>7, SameWordsKeyed
  <2>9. Apply(r)
    BY <1>6, <2>1, <2>2, <2>5, <2>6 DEF Placed
  <2> QED BY <1>1, <1>3, <2>8, <2>9, AppliedFlagsStay
<1> QED BY <1>1, <1>4, <1>5, <1>6 DEF WaitForAddress

LEMMA PassLockKeyed ==
  ASSUME NEW s, NEW w, NEW h, NEW t, NEW a, NEW g, Releases(s, w, h, t, a, g),
         NEW r, r = PassLock(s, t, a)
  PROVE  KeyedAsBefore(s, r) /\ r.key = s.key
<1>1. /\ IsCvState(s) /\ LinksHold(s) /\ t \in GuestThreads /\ s.pc[t] = "run" /\ a \in Mutexes
      /\ s.tag[a].owner = t
  BY DEF Releases, CvSound, WordsHold
<1>2. s.tag \in [Mutexes -> [owner: GuestThreads \cup {NoThread}, wait: BOOLEAN]]
  BY <1>1 DEF IsCvState
<1>3. r.key = s.key /\ \E v : r.tag = [s.tag EXCEPT ![a] = v]
  <2>1. CASE r = [s EXCEPT !.tag = [s.tag EXCEPT ![a] = Free]]
    BY <1>1, <2>1 DEF IsCvState, Fields
  <2>2. CASE \E n \in GuestThreads : PassedTo(s, r, t, a, n)
    BY <2>2 DEF PassedTo
  <2> QED BY <1>1, <2>1, <2>2, PassLockIs
<1>4. ASSUME NEW u \in GuestThreads, s.key[u] # NoKey, OwnsNothing(r, u)
      PROVE  OwnsNothing(s, u)
  <2>1. u # t
    BY <1>1, <1>4 DEF LinksHold
  <2>2. \A b \in Mutexes : b # a => r.tag[b] = s.tag[b]
    BY <1>2, <1>3
  <2> QED BY <1>1, <1>4, <2>1, <2>2 DEF OwnsNothing
<1> QED BY <1>3, <1>4 DEF KeyedAsBefore

LEMMA SignalToAddressFlags ==
  ASSUME CvInv, FlagCoversWaiters, NEW t \in GuestThreads, NEW a \in Mutexes, SignalToAddress(t, a)
  PROVE  FlagCoversWaiters'
<1>1. PICK s : s = State
  OBVIOUS
<1>2. PICK r : r = PassLock(s, t, a)
  OBVIOUS
<1>3. CvSound(s, want, held) /\ s.pc = pc
  BY <1>1, StateFields DEF CvInv
<1>4. /\ Releases(s, want, held, t, a, held') /\ Apply(r) /\ UNCHANGED m_has_waiter
  BY <1>1, <1>2, <1>3 DEF SignalToAddress, Releases
<1>5. KeyedAsBefore(s, r)
  BY <1>2, <1>4, PassLockKeyed
<1> QED BY <1>1, <1>4, <1>5, AppliedFlagsStay

FlagInv == m_has_waiter \in [Keys -> BOOLEAN] /\ FlagCoversWaiters

LEMMA WaitFlags ==
  ASSUME CvInv, FlagInv, NEW t \in GuestThreads, NEW a \in Mutexes, NEW k \in Keys, NEW timeout,
         Wait(t, a, k, timeout)
  PROVE  FlagCoversWaiters'
<1>1. PICK s : s = State
  OBVIOUS
<1>2. CvSound(s, want, held) /\ s.pc = pc /\ s.key = m_condvar_key /\ s.tag = m_tag
  BY <1>1, StateFields DEF CvInv
<1>3. PICK y : y = PassLock(s, t, a)
  OBVIOUS
<1>4. Releases(s, want, held, t, a, held')
  BY <1>2 DEF Wait, Starts, Releases
<1>5. KeyedAsBefore(s, y) /\ y.key = s.key
  BY <1>3, <1>4, PassLockKeyed
<1>6. IsCvState(y)
  BY <1>3, <1>4, PassLockIsSound DEF CvSound
<1>7. /\ m_has_waiter'[k] = TRUE /\ FlagCoversWaiters
      /\ \A j \in Keys : m_has_waiter[j] => m_has_waiter'[j]
  BY DEF Wait, FlagInv
<1>8. CASE Apply([y EXCEPT !.result = [@ EXCEPT ![t] = "TimedOut"],
                           !.pc = [@ EXCEPT ![t] = "cvret"]])
  <2>1. PICK r : GivesUp(y, r, t)
    BY DEF GivesUp
  <2>2. Apply(r)
    BY <1>8, <2>1 DEF GivesUp
  <2>3. r.tag = y.tag /\ r.key = y.key
    BY <1>6, <2>1 DEF GivesUp, IsCvState, Fields
  <2>4. KeyedAsBefore(y, r)
    BY <2>3, SameWordsKeyed
  <2>5. KeyedAsBefore(s, r)
    BY <1>5, <2>4, KeptKeyed
  <2>6. m_tag' = r.tag /\ m_condvar_key' = r.key
    BY <2>2 DEF Apply
  <2> QED BY <1>1, <1>7, <2>5, <2>6, FlagsStay
<1>9. CASE Apply([y EXCEPT !.key = [@ EXCEPT ![t] = k], !.queue = Append(@, t),
                           !.timer = IF timeout = "timed" THEN @ \cup {t} ELSE @,
                           !.pc = [@ EXCEPT ![t] = "cvwait"]])
  <2>1. PICK timed : timed = (timeout = "timed")
    OBVIOUS
  <2>2. PICK r : Parks(y, r, t, k, timed)
    BY DEF Parks
  <2>3. Apply(r)
    BY <1>9, <2>1, <2>2 DEF Parks
  <2>4. r.tag = y.tag /\ r.key = [y.key EXCEPT ![t] = k]
    BY <1>6, <2>2 DEF Parks, IsCvState, Fields
  <2>5. y.key \in [GuestThreads -> Keys \cup {NoKey}]
    BY <1>6 DEF IsCvState
  <2>6. r.key[t] = k /\ \A u \in GuestThreads : u # t => r.key[u] = s.key[u]
    BY <1>5, <2>4, <2>5
  <2>7. m_tag' = r.tag /\ m_condvar_key' = r.key
    BY <2>3 DEF Apply
  <2>8. ASSUME NEW u \in GuestThreads, r.key[u] # NoKey, \A b \in Mutexes : r.tag[b].owner # u
        PROVE  m_has_waiter'[r.key[u]]
    <3>1. CASE u = t
      BY <1>7, <2>6, <3>1
    <3>2. CASE u # t
      <4>1. r.key[u] = s.key[u] /\ s.key[u] # NoKey /\ y.key[u] = s.key[u]
        BY <1>5, <2>6, <2>8, <3>2
      <4>2. OwnsNothing(y, u)
        BY <2>4, <2>8 DEF OwnsNothing
      <4>3. OwnsNothing(s, u)
        BY <1>5, <4>1, <4>2 DEF KeyedAsBefore
      <4>4. m_condvar_key[u] = s.key[u] /\ m_has_waiter[m_condvar_key[u]]
        BY <1>2, <1>7, <4>1, <4>3 DEF FlagCoversWaiters, OwnsNothing
      <4>5. s.key[u] \in Keys
        BY <1>5, <2>5, <4>1
      <4> QED BY <1>7, <4>1, <4>4, <4>5
    <3> QED BY <3>1, <3>2
  <2> QED BY <2>7, <2>8 DEF FlagCoversWaiters
<1> QED BY <1>1, <1>3, <1>8, <1>9 DEF Wait

LEMMA SignalFlags ==
  ASSUME CvInv, DueInv, FlagInv, NEW t \in GuestThreads, NEW k \in Keys, NEW count,
         Signal(t, k, count)
  PROVE  FlagCoversWaiters'
<1>1. PICK s : s = State
  OBVIOUS
<1>2. /\ CvSound(s, want, held) /\ PrioritiesDue(s, NoThread) /\ SameLives(s)
      /\ s.key = m_condvar_key /\ s.tag = m_tag
  BY <1>1, DueStateIs, StateFields
<1>3. PICK x : x = SignalLoop(s, k, count)
  OBVIOUS
<1>4. PICK r : r = x.s
  OBVIOUS
<1>5. PICK i : i = x.it
  OBVIOUS
<1>6. Covered(r, i, k) /\ KeyedAsBefore(s, r)
  BY <1>2, <1>3, <1>4, <1>5, SignalLoopIsCovered
<1>7. m_tag' = r.tag /\ m_condvar_key' = r.key
  BY <1>1, <1>3, <1>4 DEF Signal, Apply
<1>8. m_has_waiter' = [m_has_waiter EXCEPT ![k] = @ /\ i # NoThread]
  BY <1>1, <1>3, <1>5 DEF Signal
<1>9. ASSUME NEW u \in GuestThreads, r.key[u] # NoKey, \A b \in Mutexes : r.tag[b].owner # u
      PROVE  m_has_waiter'[r.key[u]]
  <2>1. OwnsNothing(r, u)
    BY <1>9 DEF OwnsNothing
  <2>2. r.key[u] = s.key[u] /\ OwnsNothing(s, u)
    BY <1>6, <1>9, <2>1 DEF KeyedAsBefore
  <2>3. m_has_waiter[s.key[u]]
    BY <1>2, <1>9, <2>2 DEF FlagInv, FlagCoversWaiters, OwnsNothing
  <2>4. s.key[u] \in Keys
    BY <1>2, <1>9, <2>2 DEF CvSound, IsCvState
  <2>5. CASE s.key[u] = k
    <3>1. i # NoThread
      BY <1>6, <2>1, <2>2, <2>5 DEF Covered
    <3> QED BY <1>8, <2>2, <2>3, <2>5, <3>1 DEF FlagInv
  <2>6. CASE s.key[u] # k
    BY <1>8, <2>2, <2>3, <2>4, <2>6 DEF FlagInv
  <2> QED BY <2>5, <2>6
<1> QED BY <1>7, <1>9 DEF FlagCoversWaiters

LEMMA RebasedKeyed ==
  ASSUME NEW s, IsCvState(s), NEW t \in GuestThreads, NEW p \in Nat, NEW r, Rebased(s, r, t, p)
  PROVE  KeyedAsBefore(s, r)
<1>1. PICK e : e = [s.base EXCEPT ![t] = p]
  OBVIOUS
<1>2. PICK y : y = [s EXCEPT !.base = e]
  OBVIOUS
<1>3. e \in [GuestThreads -> Nat]
  BY <1>1 DEF IsCvState
<1>4. y = [tag |-> s.tag, info |-> s.info, key |-> s.key, queue |-> s.queue, prio |-> s.prio,
           base |-> e, result |-> s.result, timer |-> s.timer, pc |-> s.pc]
  <2>1. s = [tag |-> s.tag, info |-> s.info, key |-> s.key, queue |-> s.queue, prio |-> s.prio,
             base |-> s.base, result |-> s.result, timer |-> s.timer, pc |-> s.pc]
    BY DEF IsCvState, Fields
  <2> QED BY <1>2, <2>1
<1>5. /\ y = Fields(y) /\ y.tag = s.tag /\ y.info = s.info /\ y.key = s.key /\ y.queue = s.queue
      /\ y.prio = s.prio /\ y.base = e /\ y.result = s.result /\ y.timer = s.timer /\ y.pc = s.pc
  BY <1>4 DEF Fields
<1>6. IsCvState(y)
  BY <1>3, <1>5 DEF IsCvState
<1>7. r = RestorePriority(y, t)
  BY <1>1, <1>2 DEF Rebased
<1>8. Reordered(y, r)
  BY <1>6, <1>7, RestoreReorders
<1>9. r.tag = s.tag /\ r.key = s.key
  BY <1>5, <1>8 DEF Reordered
<1> QED BY <1>9, SameWordsKeyed

LEMMA CancelWaitKeyed ==
  ASSUME NEW s, IsCvState(s), NEW x \in GuestThreads, NEW res \in CvResults,
         NEW r, r = CancelWait(s, x, res)
  PROVE  KeyedAsBefore(s, r)
<1>1. PICK y : y = IF s.info[x] # NoInfo THEN RemoveWaiter(s, x) ELSE s
  OBVIOUS
<1>2. IsCvState(y) /\ y.tag = s.tag /\ y.key = s.key
  <2>1. CASE s.info[x] # NoInfo
    <3>1. PICK f : f = [s.info EXCEPT ![x] = NoInfo]
      OBVIOUS
    <3>2. y = RemoveWaiter(s, x)
      BY <1>1, <2>1
    <3>3. Relinked(s, y, f, {x})
      BY <2>1, <3>1, <3>2, RemoveWaiterIs
    <3> QED BY <3>3 DEF Relinked
  <2>2. CASE s.info[x] = NoInfo
    BY <1>1, <2>2
  <2> QED BY <2>1, <2>2
<1>3. PICK u : LeavesKey(y, u, x)
  BY DEF LeavesKey
<1>4. PICK z : z = IF y.key[x] = NoKey THEN y ELSE u
  OBVIOUS
<1>5. z.tag = y.tag /\ KeyedAsBefore(y, z) /\ z = Fields(z)
  <2>1. KeyedAsBefore(y, y) /\ y = Fields(y)
    BY <1>2 DEF KeyedAsBefore, IsCvState
  <2>2. KeyedAsBefore(y, u) /\ u.tag = y.tag
    BY <1>2, <1>3, LeavesKeyKeeps
  <2>3. u = Fields(u)
    <3>1. PICK e : e = [y.key EXCEPT ![x] = NoKey]
      OBVIOUS
    <3>2. PICK q : q = Without(y.queue, x)
      OBVIOUS
    <3>3. u = [y EXCEPT !.key = e, !.queue = q]
      BY <1>3, <3>1, <3>2 DEF LeavesKey
    <3> QED BY <2>1, <3>3 DEF Fields
  <2> QED BY <1>4, <2>1, <2>2, <2>3
<1>6. r = EndWait(z, x, res)
  BY <1>1, <1>3, <1>4 DEF CancelWait, LeavesKey
<1>7. r.tag = z.tag /\ r.key = z.key
  BY <1>5, <1>6 DEF EndWait, Fields
<1>8. KeyedAsBefore(z, r)
  BY <1>7, SameWordsKeyed
<1>9. KeyedAsBefore(s, y)
  BY <1>2, SameWordsKeyed
<1>10. KeyedAsBefore(y, r)
  BY <1>5, <1>8, KeptKeyed
<1> QED BY <1>9, <1>10, KeptKeyed

LEMMA SetBasePriorityFlags ==
  ASSUME CvInv, FlagCoversWaiters, NEW t \in GuestThreads, NEW p \in NewPriorities,
         SetBasePriority(t, p)
  PROVE  FlagCoversWaiters'
<1>1. PICK s : s = State
  OBVIOUS
<1>2. IsCvState(s) /\ p \in Nat
  BY <1>1, CvAssumption DEF CvInv, CvSound
<1>3. PICK r : Rebased(s, r, t, p)
  BY DEF Rebased
<1>4. KeyedAsBefore(s, r)
  BY <1>2, <1>3, RebasedKeyed
<1>5. Apply(r) /\ UNCHANGED m_has_waiter
  BY <1>1, <1>3 DEF SetBasePriority, Rebased
<1> QED BY <1>1, <1>4, <1>5, AppliedFlagsStay

LEMMA RequestTerminateFlags ==
  ASSUME CvInv, FlagCoversWaiters, NEW t \in GuestThreads, RequestTerminate(t)
  PROVE  FlagCoversWaiters'
<1>1. PICK s : s = State
  OBVIOUS
<1>2. IsCvState(s) /\ CvSound(s, want, held)
  BY <1>1 DEF CvInv, CvSound
<1>3. PICK p \in Nat : p = TerminatingThreadPriority
  BY DEF TerminatingThreadPriority
<1>4. PICK y : Rebased(s, y, t, p)
  BY DEF Rebased
<1>5. KeyedAsBefore(s, y)
  BY <1>2, <1>3, <1>4, RebasedKeyed
<1>6. IsCvState(y)
  <2>1. CvSound(y, want, held)
    BY <1>2, <1>4, RebasedIsSound
  <2> QED BY <2>1 DEF CvSound
<1>7. PICK res \in CvResults : res = "TerminationRequested"
  BY DEF CvResults
<1>8. PICK r : r = IF pc[t] \in {"wait", "cvwait"} THEN CancelWait(y, t, res) ELSE y
  OBVIOUS
<1>9. KeyedAsBefore(s, r)
  <2>1. CASE r = y
    BY <1>5, <2>1
  <2>2. CASE r = CancelWait(y, t, res)
    <3>1. KeyedAsBefore(y, r)
      BY <1>6, <2>2, CancelWaitKeyed
    <3> QED BY <1>5, <3>1, KeptKeyed
  <2> QED BY <1>8, <2>1, <2>2
<1>10. Apply(r) /\ UNCHANGED m_has_waiter
  BY <1>1, <1>3, <1>4, <1>7, <1>8 DEF RequestTerminate, Rebased
<1> QED BY <1>1, <1>9, <1>10, AppliedFlagsStay

LEMMA OnTimerFlags ==
  ASSUME CvInv, FlagCoversWaiters, NEW t \in GuestThreads, OnTimer(t)
  PROVE  FlagCoversWaiters'
<1>1. PICK s : s = State
  OBVIOUS
<1>2. IsCvState(s) /\ CvSound(s, want, held)
  BY <1>1 DEF CvInv, CvSound
<1>3. PICK y : Untimed(s, y, t)
  BY DEF Untimed
<1>4. IsCvState(y)
  <2>1. CvSound(y, want, held)
    BY <1>2, <1>3, UntimedIsSound
  <2> QED BY <2>1 DEF CvSound
<1>5. KeyedAsBefore(s, y)
  <2>1. y.tag = s.tag /\ y.key = s.key
    BY <1>2, <1>3 DEF Untimed, IsCvState, Fields
  <2> QED BY <2>1, SameWordsKeyed
<1>6. PICK res \in CvResults : res = "TimedOut"
  BY DEF CvResults
<1>7. PICK r : r = IF pc[t] \in {"wait", "cvwait"} THEN CancelWait(y, t, res) ELSE y
  OBVIOUS
<1>8. KeyedAsBefore(s, r)
  <2>1. CASE r = y
    BY <1>5, <2>1
  <2>2. CASE r = CancelWait(y, t, res)
    <3>1. KeyedAsBefore(y, r)
      BY <1>4, <2>2, CancelWaitKeyed
    <3> QED BY <1>5, <3>1, KeptKeyed
  <2> QED BY <1>7, <2>1, <2>2
<1>9. Apply(r) /\ UNCHANGED m_has_waiter
  BY <1>1, <1>3, <1>6, <1>7 DEF OnTimer, Untimed
<1> QED BY <1>1, <1>8, <1>9, AppliedFlagsStay

LEMMA FinalizeFlags ==
  ASSUME CvInv, FlagCoversWaiters, NEW t \in GuestThreads, Finalize(t)
  PROVE  FlagCoversWaiters'
<1>1. PICK s : s = State
  OBVIOUS
<1>2. IsCvState(s) /\ s.tag = m_tag /\ s.key = m_condvar_key
  BY <1>1, StateFields DEF CvInv, CvSound
<1>3. PICK W : W = AllWaiters(s, t)
  OBVIOUS
<1>4. PICK r : Finalized(s, r, t, W)
  BY DEF Finalized
<1>5. Apply(r) /\ UNCHANGED m_has_waiter
  BY <1>1, <1>3, <1>4 DEF Finalize, Finalized
<1>6. r.tag = s.tag /\ r.key = s.key
  BY <1>2, <1>4 DEF Finalized, IsCvState, Fields
<1>7. KeyedAsBefore(s, r)
  BY <1>6, SameWordsKeyed
<1> QED BY <1>1, <1>5, <1>7, AppliedFlagsStay

LEMMA FlagTypes ==
  ASSUME FlagInv, NEW t \in GuestThreads,
         \/ Guest(t) \/ Call(t) \/ OnTimer(t) \/ \E p \in NewPriorities : SetBasePriority(t, p)
         \/ RequestTerminate(t) \/ Finalize(t)
  PROVE  m_has_waiter' \in [Keys -> BOOLEAN]
<1>1. m_has_waiter \in [Keys -> BOOLEAN]
  BY DEF FlagInv
<1>2. CASE UNCHANGED m_has_waiter
  BY <1>1, <1>2
<1>3. CASE Guest(t)
  BY <1>2, <1>3 DEF Guest, GuestLock, GuestUnlock, GuestCheck, GuestCvReturn, kernelVars
<1>4. CASE Call(t)
  <2>1. CASE WaitForAddress(t) \/ WaitForAddressReturn(t) \/ Exit(t)
             \/ \E a \in Mutexes : SignalToAddress(t, a)
    BY <1>2, <2>1 DEF WaitForAddress, WaitForAddressReturn, Exit, SignalToAddress, kernelVars
  <2>2. CASE \E a \in Mutexes, k \in Keys, timeout \in {"zero", "timed", "forever"} :
               Wait(t, a, k, timeout)
    <3>1. PICK k \in Keys : m_has_waiter' = [m_has_waiter EXCEPT ![k] = TRUE]
      BY <2>2 DEF Wait
    <3> QED BY <1>1, <3>1
  <2>3. CASE \E k \in Keys, count \in {0, 1} : Signal(t, k, count)
    <3>1. PICK k \in Keys, b \in BOOLEAN : m_has_waiter' = [m_has_waiter EXCEPT ![k] = b]
      <4>1. PICK k \in Keys, count \in {0, 1} : Signal(t, k, count)
        BY <2>3
      <4>2. PICK i : i = SignalLoop(State, k, count).it
        OBVIOUS
      <4>3. m_has_waiter' = [m_has_waiter EXCEPT ![k] = @ /\ i # NoThread]
        BY <4>1, <4>2 DEF Signal
      <4>4. PICK b : b = (m_has_waiter[k] /\ i # NoThread)
        OBVIOUS
      <4>5. b \in BOOLEAN
        BY <4>4
      <4> QED BY <4>3, <4>4, <4>5
    <3> QED BY <1>1, <3>1
  <2> QED BY <1>4, <2>1, <2>2, <2>3 DEF Call
<1>5. CASE \/ OnTimer(t) \/ \E p \in NewPriorities : SetBasePriority(t, p)
           \/ RequestTerminate(t) \/ Finalize(t)
  BY <1>2, <1>5 DEF OnTimer, SetBasePriority, RequestTerminate, Finalize
<1> QED BY <1>3, <1>4, <1>5

LEMMA FlagStep ==
  ASSUME CvInv, DueInv, FlagInv, [CvNext]_cvVars
  PROVE  FlagInv'
<1>0. FlagCoversWaiters
  BY DEF FlagInv
<1>1. CASE UNCHANGED cvVars
  <2>1. UNCHANGED <<m_tag, m_condvar_key, m_has_waiter>>
    BY <1>1 DEF cvVars, kernelVars
  <2>2. FlagCoversWaiters'
    BY <1>0, <2>1, SameFlags
  <2> QED BY <2>1, <2>2 DEF FlagInv
<1>2. CASE CvNext
  <2>1. PICK t \in GuestThreads : \/ Guest(t) \/ Call(t) \/ OnTimer(t)
                                  \/ \E p \in NewPriorities : SetBasePriority(t, p)
                                  \/ RequestTerminate(t) \/ Finalize(t)
    BY <1>2 DEF CvNext
  <2> SUFFICES FlagCoversWaiters'
    BY <2>1, FlagTypes DEF FlagInv
  <2>2. CASE Guest(t)
    BY <1>0, <2>2, GuestFlags
  <2>3. CASE Call(t)
    <3>1. CASE WaitForAddress(t)
      BY <1>0, <3>1, WaitForAddressFlags
    <3>2. CASE WaitForAddressReturn(t) \/ Exit(t)
      <4>1. UNCHANGED <<m_tag, m_condvar_key, m_has_waiter>>
        BY <3>2 DEF WaitForAddressReturn, Exit, kernelVars
      <4> QED BY <1>0, <4>1, SameFlags
    <3>3. CASE \E a \in Mutexes : SignalToAddress(t, a)
      BY <1>0, <3>3, SignalToAddressFlags
    <3>4. CASE \E a \in Mutexes, k \in Keys, timeout \in {"zero", "timed", "forever"} :
                 Wait(t, a, k, timeout)
      BY <3>4, WaitFlags
    <3>5. CASE \E k \in Keys, count \in {0, 1} : Signal(t, k, count)
      BY <3>5, SignalFlags
    <3> QED BY <2>3, <3>1, <3>2, <3>3, <3>4, <3>5 DEF Call
  <2>4. CASE OnTimer(t)
    BY <1>0, <2>4, OnTimerFlags
  <2>5. CASE \E p \in NewPriorities : SetBasePriority(t, p)
    BY <1>0, <2>5, SetBasePriorityFlags
  <2>6. CASE RequestTerminate(t)
    BY <1>0, <2>6, RequestTerminateFlags
  <2>7. CASE Finalize(t)
    BY <1>0, <2>7, FinalizeFlags
  <2> QED BY <2>1, <2>2, <2>3, <2>4, <2>5, <2>6, <2>7
<1> QED BY <1>1, <1>2

\* The word at a condition key stays set while a thread that owns no mutex waits for
\* the key (FlagCoversWaiters), so that a guest that skips the call on zero skips no
\* such thread: Signal() clears the word only when its iterator has come to the end,
\* and no such waiter is left behind the iterator, although SignalImpl() changes the
\* priorities of threads in the tree it walks.
THEOREM FlagsCoverWaiters == CvSpec => []FlagCoversWaiters
<1>1. CvInv /\ [CvNext]_cvVars => CvInv'
  BY CvStep
<1>2. CvInv /\ DueInv /\ [CvNext]_cvVars => DueInv'
  BY DueStep
<1>3. CvInv /\ DueInv /\ FlagInv /\ [CvNext]_cvVars => FlagInv'
  BY FlagStep
<1>4. CvInit => FlagInv
  BY DEF CvInit, FlagInv, FlagCoversWaiters
<1>5. FlagInv => FlagCoversWaiters
  BY DEF FlagInv
<1> QED BY <1>1, <1>2, <1>3, <1>4, <1>5, CvInitHolds, DueInit, PTL DEF CvSpec

=============================================================================
