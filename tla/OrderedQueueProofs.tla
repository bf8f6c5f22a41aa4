------------------------- MODULE OrderedQueueProofs -------------------------
(***************************************************************************)
(* Two components that keep ordered queues: the timing thread with its     *)
(* queue of events, and the scheduler with its queues of threads.  Both    *)
(* drop elements from a queue by keeping the others in their order.        *)
(***************************************************************************)
EXTENDS CoreTiming, KPriorityQueue, FiniteSetTheorems, SequenceTheorems,
        WellFoundedInduction, TLAPS

-----------------------------------------------------------------------------
(***************************************************************************)
(* The timing thread overlooks no event, and what its clients are told     *)
(* holds: proofs for every set of event types, every bound and every       *)
(* horizon.                                                                *)
(*                                                                         *)
(* The invariant has four parts on top of the types.  Order: the queue is  *)
(* sorted, so the event the thread sleeps for is the earliest.  Places:    *)
(* where the thread is while it holds advance_lock, has announced that it  *)
(* waits, or runs a callback, and what then is in the queue.  Silence: a   *)
(* type that was unscheduled has no event and cannot get one.  Handshake:  *)
(* which answers of the thread the flags paused and paused_set stand for.  *)
(***************************************************************************)

InCallback == timer.pc \in {"callback", "relock"}

Sorted(q) == \A i, j \in DOMAIN q : i < j => q[i].time <= q[j].time

\* An event is looping if its type is.
LoopingOK ==
  \A i \in DOMAIN event_queue :
    (event_queue[i].reschedule_time # 0) <=> (event_queue[i].type \in Looping)

\* The event of the queue whose callback runs, and that it is there unless it
\* was erased.
RunningOK ==
  /\ \A i \in DOMAIN event_queue : event_queue[i].running =>
       InCallback /\ event_queue[i].type = timer.type /\ timer.type \in Looping
  /\ InCallback /\ timer.type \in Looping /\ ~timer.changed =>
       \E i \in DOMAIN event_queue : event_queue[i].running
  /\ timer.changed => \A i \in DOMAIN event_queue : ~event_queue[i].running
  /\ IF InCallback THEN timer.type \in Types
     ELSE timer.type = Nobody /\ ~timer.changed

\* Who holds advance_lock, when the wait is announced, and that a client that
\* waits for a callback waits for one.
LockOK ==
  /\ advance_lock <=> Advancing
  /\ wait_set => timer.pc \in {"idle", "wake"}
  /\ client.pc = "uwait" => client.type \in Types

QueueInv == Sorted(event_queue) /\ LoopingOK /\ RunningOK /\ LockOK

\* A type that was unscheduled, or is about to be, has no event in the queue,
\* and no callback that would put one there.
Silent(type) ==
  /\ \A i \in DOMAIN event_queue : event_queue[i].type # type
  /\ InCallback /\ timer.type = type => timer.changed

SilenceOK ==
  /\ UnscheduleIsFinal
  /\ client.pc = "uwait" /\ client.type \notin SelfSched => Silent(client.type)

\* The handshake of SyncPause with the thread, once the thread has been at its
\* first pause: where the flags agree the thread is on the side they name.
HandshakeOK ==
  /\ start = "new" => /\ paused
                      /\ control.pc \notin {"store", "setp", "set", "spin"}
                      /\ control.pc = "idle" => ~control.arg
  /\ start = "ready" /\ control.pc \in {"idle", "store", "setp", "set", "spin"} =>
       /\ control.pc \in {"idle", "store"} => paused_set = paused
       /\ control.pc = "store" => control.arg # paused
       /\ control.pc \in {"setp", "set", "spin"} => control.arg = paused
       /\ paused /\ paused_set => timer.pc \in {"outer", "inner", "setp", "pwait"}
       /\ ~paused /\ ~paused_set => timer.pc \notin {"outer", "setp", "pwait", "done"}
  /\ shutting_down => control.pc \in {"rset", "join", "end"}

Inv == TypeOK /\ QueueInv /\ NoLostWakeup /\ SilenceOK /\ HandshakeOK

-----------------------------------------------------------------------------
(***************************************************************************)
(* The queue.                                                              *)
(***************************************************************************)

\* Times are numbers.
LEMMA EventTimes ==
  ASSUME NEW e \in Events
  PROVE  e.time \in Int
<1>1. e.time \in 0..(Horizon + 1)
  BY DEF Events, Ticks
<1> QED
  BY <1>1, TimingAssumption

\* As many numbers as the last one says.
LEMMA FirstNumbers ==
  ASSUME NEW n \in Nat
  PROVE  IsFiniteSet(1..n) /\ Cardinality(1..n) = n
<1>1. IsFiniteSet(1..n) /\ Cardinality(1..n) = IF 1 > n THEN 0 ELSE n - 1 + 1
  BY FS_Interval
<1> QED
  BY <1>1

\* A set of such numbers.
LEMMA SomeNumbers ==
  ASSUME NEW n \in Nat, NEW P \in SUBSET (1..n)
  PROVE  /\ IsFiniteSet(P) /\ Cardinality(P) \in Nat /\ Cardinality(P) <= n
         /\ P # 1..n => Cardinality(P) < n
<1>1. IsFiniteSet(1..n) /\ Cardinality(1..n) = n
  BY FirstNumbers
<1>2. /\ IsFiniteSet(P) /\ Cardinality(P) <= n
      /\ n = Cardinality(P) => 1..n = P
  BY <1>1, FS_Subset
<1>3. Cardinality(P) \in Nat
  BY <1>2, FS_CardinalityType
<1> QED
  BY <1>2, <1>3

\* Emplace counts the events that stay in front: in a sorted queue they are the
\* first ones.
LEMMA PrefixIsCounted ==
  ASSUME NEW n \in Nat, NEW P \in SUBSET (1..n),
         \A i, j \in 1..n : i < j /\ j \in P => i \in P
  PROVE  Cardinality(P) \in 0..n /\ P = 1..Cardinality(P)
<1>2. IsFiniteSet(P) /\ Cardinality(P) \in Nat /\ Cardinality(P) <= n
  BY SomeNumbers
<1>3. ASSUME NEW j \in P
      PROVE  j <= Cardinality(P)
  <2>1. j \in Nat /\ j >= 1 /\ 1..j \in SUBSET P
    OBVIOUS
  <2>2. Cardinality(1..j) = j
    BY <2>1, FirstNumbers
  <2> QED
    BY <2>1, <2>2, <1>2, FS_Subset
<1>4. ASSUME NEW i \in 1..Cardinality(P), i \notin P
      PROVE  FALSE
  <2>1. P \in SUBSET (1..(i - 1))
    <3>1. ASSUME NEW j \in P PROVE j \in 1..(i - 1)
      BY <1>2, <1>4
    <3> QED
      BY <3>1
  <2>2. IsFiniteSet(1..(i - 1)) /\ Cardinality(1..(i - 1)) = i - 1
    <3>1. i - 1 \in Nat
      BY <1>2
    <3> QED
      BY <3>1, FirstNumbers
  <2>3. Cardinality(P) <= i - 1
    BY <2>1, <2>2, FS_Subset
  <2> QED
    BY <1>2, <2>3
<1>5. P \subseteq 1..Cardinality(P)
  BY <1>2, <1>3
<1>6. 1..Cardinality(P) \subseteq P
  BY <1>4
<1>7. P = 1..Cardinality(P)
  BY <1>5, <1>6
<1>8. Cardinality(P) \in 0..n
  BY <1>2
<1> QED
  BY <1>7, <1>8

\* What Emplace does: the event is put at one place, and everything before it is
\* not later, everything behind it is later.
LEMMA EmplaceDef ==
  ASSUME NEW q \in Seq(Events), NEW e \in Events, Sorted(q)
  PROVE  \E k \in 0..Len(q) :
           /\ Emplace(q, e) \in Seq(Events)
           /\ Len(Emplace(q, e)) = Len(q) + 1
           /\ \A i \in 1..(Len(q) + 1) : Emplace(q, e)[i] =
                IF i <= k THEN q[i] ELSE IF i = k + 1 THEN e ELSE q[i - 1]
           /\ \A i \in 1..k : q[i].time <= e.time
           /\ \A i \in (k + 1)..Len(q) : e.time < q[i].time
<1> DEFINE P == {i \in DOMAIN q : q[i].time <= e.time}
           k == Cardinality(P)
           front == SubSeq(q, 1, k)
           back == SubSeq(q, k + 1, Len(q))
<1>1. DOMAIN q = 1..Len(q) /\ Len(q) \in Nat
  OBVIOUS
<1>2. /\ \A i \in 1..Len(q) : q[i].time \in Int
      /\ e.time \in Int
  <2>1. \A i \in 1..Len(q) : q[i] \in Events
    BY <1>1
  <2> QED
    BY <2>1, EventTimes
<1>3. k \in 0..Len(q) /\ P = 1..k
  <2>1. P \in SUBSET (1..Len(q))
    BY <1>1
  <2>2. \A i, j \in 1..Len(q) : i < j /\ j \in P => i \in P
    BY <1>1, <1>2 DEF Sorted
  <2> HIDE DEF P
  <2> QED
    BY <1>1, <2>1, <2>2, PrefixIsCounted
<1>4. /\ \A i \in 1..k : q[i].time <= e.time
      /\ \A i \in (k + 1)..Len(q) : e.time < q[i].time
  <2>1. ASSUME NEW i \in 1..k PROVE q[i].time <= e.time
    BY <1>3
  <2>2. ASSUME NEW i \in (k + 1)..Len(q) PROVE e.time < q[i].time
    <3>1. i \in 1..Len(q) /\ i \notin 1..k
      BY <1>1, <1>3
    <3>2. i \notin P
      BY <1>3, <3>1
    <3> QED
      BY <1>1, <1>2, <3>1, <3>2
  <2> QED
    BY <2>1, <2>2
<1> HIDE DEF k
<1>5. /\ front \in Seq(Events) /\ Len(front) = k
      /\ \A i \in 1..k : front[i] = q[i]
  <2>1. \A i \in 1..k : q[i] \in Events
    BY <1>1, <1>3
  <2>2. k \in Int /\ k >= 0
    BY <1>3
  <2> QED
    BY <2>1, <2>2, SubSeqProperties
<1>6. /\ back \in Seq(Events) /\ Len(back) = Len(q) - k
      /\ \A i \in 1..(Len(q) - k) : back[i] = q[k + i]
  <2>1. \A i \in (k + 1)..Len(q) : q[i] \in Events
    BY <1>1, <1>3
  <2>2. k \in Int /\ k >= 0 /\ k <= Len(q)
    BY <1>3
  <2>3. /\ back \in Seq(Events)
        /\ Len(back) = IF k + 1 <= Len(q) THEN Len(q) - (k + 1) + 1 ELSE 0
        /\ \A i \in 1..(Len(q) - (k + 1) + 1) : back[i] = q[(k + 1) + i - 1]
    BY <1>1, <2>1, <2>2, SubSeqProperties
  <2> HIDE DEF back
  <2>4. Len(back) = Len(q) - k
    <3>1. CASE k + 1 <= Len(q)
      <4>1. Len(back) = Len(q) - (k + 1) + 1
        BY <2>3, <3>1
      <4>2. \A a, b \in Int : a - (b + 1) + 1 = a - b
        OBVIOUS
      <4> QED
        BY <1>1, <2>2, <4>1, <4>2
    <3>2. CASE ~(k + 1 <= Len(q))
      <4>1. Len(back) = 0
        BY <2>3, <3>2
      <4>2. \A a, b \in Int : b <= a /\ ~(b + 1 <= a) => a - b = 0
        OBVIOUS
      <4>3. Len(q) \in Int /\ k \in Int /\ k <= Len(q) /\ ~(k + 1 <= Len(q))
        BY <1>1, <2>2, <3>2
      <4>4. Len(q) - k = 0
        BY <4>2, <4>3, Zenon
      <4> QED
        BY <4>1, <4>4
    <3> QED
      BY <3>1, <3>2
  <2>5. ASSUME NEW i \in 1..(Len(q) - k)
        PROVE  back[i] = q[k + i]
    <3>1. i \in 1..(Len(q) - (k + 1) + 1) /\ (k + 1) + i - 1 = k + i
      BY <1>1, <2>2
    <3> QED
      BY <2>3, <3>1
  <2> QED
    BY <2>3, <2>4, <2>5
<1> HIDE DEF front, back
<1>7. /\ front \o <<e>> \in Seq(Events) /\ Len(front \o <<e>>) = k + 1
      /\ \A i \in 1..(k + 1) : (front \o <<e>>)[i] = IF i <= k THEN q[i] ELSE e
  <2>1. <<e>> \in Seq(Events) /\ Len(<<e>>) = 1 /\ <<e>>[1] = e
    OBVIOUS
  <2>2. /\ front \o <<e>> \in Seq(Events) /\ Len(front \o <<e>>) = k + 1
        /\ \A i \in 1..(k + 1) : (front \o <<e>>)[i] =
             IF i <= k THEN front[i] ELSE <<e>>[i - k]
    BY <1>5, <2>1, ConcatProperties
  <2>3. \A i \in 1..(k + 1) : ~(i <= k) => i - k = 1
    BY <1>3
  <2>4. \A i \in 1..(k + 1) : i <= k => i \in 1..k
    BY <1>3
  <2> QED
    BY <1>5, <2>1, <2>2, <2>3, <2>4
<1>8. /\ (front \o <<e>>) \o back \in Seq(Events)
      /\ Len((front \o <<e>>) \o back) = (k + 1) + (Len(q) - k)
      /\ \A i \in 1..((k + 1) + (Len(q) - k)) : ((front \o <<e>>) \o back)[i] =
           IF i <= k + 1 THEN (front \o <<e>>)[i] ELSE back[i - (k + 1)]
  <2> DEFINE a == front \o <<e>>
  <2>1. a \in Seq(Events) /\ Len(a) = k + 1
    BY <1>7
  <2> HIDE DEF a
  <2>2. /\ a \o back \in Seq(Events)
        /\ Len(a \o back) = Len(a) + Len(back)
        /\ \A i \in 1..(Len(a) + Len(back)) : (a \o back)[i] =
             IF i <= Len(a) THEN a[i] ELSE back[i - Len(a)]
    BY <1>6, <2>1, ConcatProperties
  <2> QED
    BY <1>6, <2>1, <2>2 DEF a
<1>9. (k + 1) + (Len(q) - k) = Len(q) + 1
  BY <1>1, <1>3
<1>10. Emplace(q, e) = (front \o <<e>>) \o back
  BY DEF Emplace, front, back, k
<1>11. ASSUME NEW i \in 1..(Len(q) + 1)
       PROVE  Emplace(q, e)[i] =
                IF i <= k THEN q[i] ELSE IF i = k + 1 THEN e ELSE q[i - 1]
  <2>1. CASE i <= k + 1
    <3>1. i \in 1..(k + 1)
      BY <1>3, <2>1
    <3>2. i <= k \/ i = k + 1
      BY <1>3, <3>1
    <3> QED
      BY <1>3, <1>7, <1>8, <1>9, <1>10, <2>1, <3>1, <3>2
  <2>2. CASE ~(i <= k + 1)
    <3>1. /\ i - (k + 1) \in 1..(Len(q) - k) /\ k + (i - (k + 1)) = i - 1
          /\ ~(i <= k) /\ i # k + 1
      BY <1>1, <1>3, <2>2
    <3> QED
      BY <1>6, <1>8, <1>9, <1>10, <2>2, <3>1
  <2> QED
    BY <2>1, <2>2
<1> QED
  BY <1>3, <1>4, <1>8, <1>9, <1>10, <1>11

\* The queue with one more event: sorted again, and with the same other events.
LEMMA EmplaceFacts ==
  ASSUME NEW q \in Seq(Events), NEW e \in Events, Sorted(q)
  PROVE  /\ Emplace(q, e) \in Seq(Events)
         /\ Len(Emplace(q, e)) = Len(q) + 1
         /\ Sorted(Emplace(q, e))
         /\ \A i \in DOMAIN Emplace(q, e) :
              Emplace(q, e)[i] = e \/ \E j \in DOMAIN q : Emplace(q, e)[i] = q[j]
         /\ \A j \in DOMAIN q : \E i \in DOMAIN Emplace(q, e) : Emplace(q, e)[i] = q[j]
<1> DEFINE p == Emplace(q, e)
<1>1. PICK k \in 0..Len(q) :
           /\ p \in Seq(Events)
           /\ Len(p) = Len(q) + 1
           /\ \A i \in 1..(Len(q) + 1) : p[i] =
                IF i <= k THEN q[i] ELSE IF i = k + 1 THEN e ELSE q[i - 1]
           /\ \A i \in 1..k : q[i].time <= e.time
           /\ \A i \in (k + 1)..Len(q) : e.time < q[i].time
  BY EmplaceDef
<1> HIDE DEF p
<1>2. /\ DOMAIN q = 1..Len(q) /\ Len(q) \in Nat
      /\ DOMAIN p = 1..(Len(q) + 1)
  BY <1>1
<1>3. /\ \A i \in 1..Len(q) : q[i].time \in Int
      /\ e.time \in Int
  <2>1. \A i \in 1..Len(q) : q[i] \in Events
    BY <1>2
  <2> QED
    BY <2>1, EventTimes
<1>4. Sorted(p)
  <2> SUFFICES ASSUME NEW i \in 1..(Len(q) + 1), NEW j \in 1..(Len(q) + 1), i < j
               PROVE  p[i].time <= p[j].time
    BY <1>2 DEF Sorted
  <2>1. \A a, b \in 1..Len(q) : a < b => q[a].time <= q[b].time
    BY <1>2 DEF Sorted
  <2>2. CASE j <= k
    <3>1. i \in 1..Len(q) /\ j \in 1..Len(q) /\ i <= k
      BY <1>2, <2>2
    <3> QED
      BY <1>1, <2>1, <2>2, <3>1
  <2>3. CASE j = k + 1
    <3>1. i \in 1..k /\ ~(j <= k)
      BY <1>2, <2>3
    <3> QED
      BY <1>1, <2>3, <3>1
  <2>4. CASE j > k + 1 /\ i <= k
    <3>1. /\ i \in 1..k /\ j - 1 \in (k + 1)..Len(q) /\ ~(j <= k) /\ j # k + 1
          /\ i \in 1..Len(q) /\ j - 1 \in 1..Len(q)
      BY <1>2, <2>4
    <3>2. p[i] = q[i] /\ p[j] = q[j - 1]
      BY <1>1, <2>4, <3>1
    <3>3. q[i].time <= e.time /\ e.time < q[j - 1].time
      BY <1>1, <3>1
    <3> QED
      BY <1>3, <3>1, <3>2, <3>3
  <2>5. CASE j > k + 1 /\ i = k + 1
    <3>1. /\ j - 1 \in (k + 1)..Len(q) /\ ~(j <= k) /\ j # k + 1 /\ ~(i <= k)
          /\ j - 1 \in 1..Len(q)
      BY <1>2, <2>5
    <3>2. p[i] = e /\ p[j] = q[j - 1]
      BY <1>1, <2>5, <3>1
    <3>3. e.time < q[j - 1].time
      BY <1>1, <3>1
    <3> QED
      BY <1>3, <3>1, <3>2, <3>3
  <2>6. CASE j > k + 1 /\ i > k + 1
    <3>1. /\ i - 1 \in 1..Len(q) /\ j - 1 \in 1..Len(q) /\ i - 1 < j - 1
          /\ ~(i <= k) /\ ~(j <= k) /\ i # k + 1 /\ j # k + 1
      BY <1>2, <2>6
    <3> QED
      BY <1>1, <2>1, <3>1
  <2> QED
    BY <1>2, <2>2, <2>3, <2>4, <2>5, <2>6
<1>5. ASSUME NEW i \in 1..(Len(q) + 1)
      PROVE  p[i] = e \/ \E j \in DOMAIN q : p[i] = q[j]
  <2>1. CASE i <= k
    BY <1>1, <1>2, <2>1
  <2>2. CASE i = k + 1
    BY <1>1, <1>2, <2>2
  <2>3. CASE i > k + 1
    <3>1. i - 1 \in 1..Len(q) /\ ~(i <= k) /\ i # k + 1
      BY <1>2, <2>3
    <3> QED
      BY <1>1, <1>2, <3>1
  <2> QED
    BY <1>2, <2>1, <2>2, <2>3
<1>6. ASSUME NEW j \in 1..Len(q)
      PROVE  \E i \in 1..(Len(q) + 1) : p[i] = q[j]
  <2>1. CASE j <= k
    BY <1>1, <1>2, <2>1
  <2>2. CASE j > k
    <3>1. /\ j + 1 \in 1..(Len(q) + 1) /\ ~(j + 1 <= k) /\ j + 1 # k + 1
          /\ (j + 1) - 1 = j
      BY <1>2, <2>2
    <3>2. p[j + 1] = q[(j + 1) - 1]
      BY <1>1, <3>1
    <3> QED
      BY <3>1, <3>2
  <2> QED
    BY <1>2, <2>1, <2>2
<1>7. p \in Seq(Events) /\ Len(p) = Len(q) + 1
  BY <1>1
<1> QED
  BY <1>2, <1>4, <1>5, <1>6, <1>7 DEF p

\* The places that are kept are numbered in their order, and no number is left
\* out.
LEMMA RanksAreTheNumbers ==
  ASSUME NEW m \in Nat, NEW P \in SUBSET (1..m)
  PROVE  /\ IsFiniteSet(P) /\ Cardinality(P) \in Nat /\ Cardinality(P) <= m
         /\ \A i, j \in P : i < j => Rank(P, i) < Rank(P, j)
         /\ \A i \in P : Rank(P, i) \in 1..Cardinality(P)
         /\ \A n \in 1..Cardinality(P) : \E i \in P : Rank(P, i) = n
<1>2. IsFiniteSet(P) /\ Cardinality(P) \in Nat /\ Cardinality(P) <= m
  BY SomeNumbers
<1> DEFINE Upto(i) == {j \in P : j <= i}
           rank == [i \in P |-> Rank(P, i)]
<1>1. \A i \in P : Rank(P, i) = Cardinality(Upto(i))
  BY DEF Rank
<1> HIDE DEF rank
<1>3. ASSUME NEW i \in P
      PROVE  /\ IsFiniteSet(Upto(i)) /\ Cardinality(Upto(i)) \in Nat
             /\ Cardinality(Upto(i)) <= Cardinality(P)
  BY <1>2, FS_Subset, FS_CardinalityType
<1>4. ASSUME NEW i \in P, NEW j \in P, i < j
      PROVE  Rank(P, i) < Rank(P, j)
  <2>1. Upto(i) \in SUBSET Upto(j) /\ j \in Upto(j) /\ j \notin Upto(i)
    <3>1. P \subseteq Int
      OBVIOUS
    <3>2. \A n \in P : n <= i => n <= j
      BY <1>4, <3>1
    <3>3. j <= j /\ ~(j <= i)
      BY <1>4, <3>1
    <3> QED
      BY <3>2, <3>3
  <2>2. /\ Cardinality(Upto(i)) <= Cardinality(Upto(j))
        /\ Cardinality(Upto(j)) = Cardinality(Upto(i)) => Upto(j) = Upto(i)
    <3> HIDE DEF Upto
    <3> QED
      BY <1>3, <2>1, FS_Subset
  <2>3. Cardinality(Upto(i)) # Cardinality(Upto(j))
    BY <2>1, <2>2
  <2> QED
    BY <1>1, <1>3, <2>2, <2>3
<1>5. ASSUME NEW i \in P
      PROVE  Rank(P, i) \in 1..Cardinality(P)
  <2>1. i \in Upto(i)
    OBVIOUS
  <2>2. Cardinality(Upto(i)) # 0
    <3> HIDE DEF Upto
    <3> QED
      BY <1>3, <2>1, FS_EmptySet
  <2> QED
    BY <1>1, <1>2, <1>3, <2>2
<1>6. \A n \in 1..Cardinality(P) : \E i \in P : Rank(P, i) = n
  <2> DEFINE T == 1..Cardinality(P)
  <2>1. IsFiniteSet(T) /\ Cardinality(T) = Cardinality(P)
    BY <1>2, FirstNumbers
  <2>2. rank \in Injection(P, T)
    <3>1. rank \in [P -> T]
      BY <1>5 DEF rank
    <3>2. ASSUME NEW i \in P, NEW j \in P, rank[i] = rank[j]
          PROVE  i = j
      <4>1. Rank(P, i) = Rank(P, j)
        BY <3>2 DEF rank
      <4>2. i \in Int /\ j \in Int /\ Rank(P, i) \in Int
        BY <1>2, <1>5
      <4>3. ~(i < j) /\ ~(j < i)
        BY <1>4, <4>1, <4>2
      <4> QED
        BY <4>2, <4>3
    <3> HIDE DEF T
    <3> QED
      BY <3>1, <3>2 DEF Injection, IsInjective
  <2> HIDE DEF T
  <2>3. rank \in Surjection(P, T)
    BY <2>1, <2>2, FS_Injection
  <2> QED
    BY <2>3 DEF Surjection, T, rank
<1> QED
  BY <1>2, <1>4, <1>5, <1>6

\* What is kept of the queue: sorted as before, exactly the events at the given
\* places, and fewer if a place is missing.
LEMMA KeepFacts ==
  ASSUME NEW q \in Seq(Events), NEW P \in SUBSET (DOMAIN q)
  PROVE  /\ Keep(q, P) \in Seq(Events)
         /\ Len(Keep(q, P)) <= Len(q)
         /\ P # DOMAIN q => Len(Keep(q, P)) < Len(q)
         /\ Sorted(q) => Sorted(Keep(q, P))
         /\ \A n \in DOMAIN Keep(q, P) : \E i \in P : Keep(q, P)[n] = q[i]
         /\ \A i \in P : \E n \in DOMAIN Keep(q, P) : Keep(q, P)[n] = q[i]
<1> DEFINE c == Cardinality(P)
           k == Keep(q, P)
           At(n) == CHOOSE i \in P : Rank(P, i) = n
<1>1. DOMAIN q = 1..Len(q) /\ Len(q) \in Nat
  OBVIOUS
<1>2. P \in SUBSET (1..Len(q))
  BY <1>1
<1>5. k = [n \in 1..c |-> q[At(n)]]
  BY DEF Keep
<1>6. /\ IsFiniteSet(P) /\ c \in Nat /\ c <= Len(q)
      /\ \A i, j \in P : i < j => Rank(P, i) < Rank(P, j)
      /\ \A i \in P : Rank(P, i) \in 1..c
      /\ \A n \in 1..c : \E i \in P : Rank(P, i) = n
  BY <1>1, <1>2, RanksAreTheNumbers
<1>7. \A n \in 1..c : At(n) \in P /\ Rank(P, At(n)) = n
  BY <1>6
<1>8. \A i \in P : At(Rank(P, i)) = i
  <2> SUFFICES ASSUME NEW i \in P PROVE At(Rank(P, i)) = i
    OBVIOUS
  <2>1. At(Rank(P, i)) \in P /\ Rank(P, At(Rank(P, i))) = Rank(P, i)
    BY <1>6, <1>7
  <2> DEFINE a == At(Rank(P, i))
  <2> HIDE DEF a, At
  <2>2. a \in P /\ Rank(P, a) = Rank(P, i)
    BY <2>1 DEF a
  <2>3. a \in Int /\ i \in Int /\ Rank(P, a) \in Int
    BY <1>2, <1>6, <2>2
  <2>4. ~(a < i) /\ ~(i < a)
    BY <1>6, <2>2, <2>3
  <2> QED
    BY <2>3, <2>4 DEF a
<1> HIDE DEF At, c, k
<1>9. k \in Seq(Events) /\ Len(k) = c /\ DOMAIN k = 1..c
  <2>1. \A n \in 1..c : q[At(n)] \in Events
    BY <1>1, <1>2, <1>7
  <2>2. k \in [1..c -> Events]
    BY <1>5, <2>1
  <2> QED
    BY <1>6, <2>2
<1>10. P # DOMAIN q => c < Len(q)
  BY <1>1, <1>2, SomeNumbers DEF c
<1>11. ASSUME Sorted(q) PROVE Sorted(k)
  <2> SUFFICES ASSUME NEW n \in 1..c, NEW m \in 1..c, n < m
               PROVE  k[n].time <= k[m].time
    BY <1>9 DEF Sorted
  <2>1. k[n] = q[At(n)] /\ k[m] = q[At(m)]
    BY <1>5
  <2>2. At(n) \in P /\ Rank(P, At(n)) = n /\ At(m) \in P /\ Rank(P, At(m)) = m
    BY <1>7
  <2>3. At(n) \in Int /\ At(m) \in Int
    BY <1>2, <2>2
  <2>4. At(n) # At(m)
    BY <2>2, <1>6
  <2>5. ~(At(m) < At(n))
    <3>1. At(m) < At(n) => m < n
      BY <1>6, <2>2
    <3> QED
      BY <1>6, <3>1
  <2>6. At(n) < At(m)
    BY <2>3, <2>4, <2>5
  <2> QED
    BY <1>11, <2>1, <2>2, <2>6 DEF Sorted
<1>12. ASSUME NEW n \in 1..c PROVE \E i \in P : k[n] = q[i]
  BY <1>5, <1>7
<1>13. ASSUME NEW i \in P PROVE \E n \in 1..c : k[n] = q[i]
  <2>1. Rank(P, i) \in 1..c /\ At(Rank(P, i)) = i
    BY <1>6, <1>8
  <2>2. k[Rank(P, i)] = q[i]
    BY <1>5, <2>1
  <2> QED
    BY <2>1, <2>2
<1> QED
  BY <1>1, <1>6, <1>9, <1>10, <1>11, <1>12, <1>13 DEF k

-----------------------------------------------------------------------------
(***************************************************************************)
(* What every step does to the queue, in the terms of the lemmas above.    *)
(***************************************************************************)

\* The events ScheduleEvent and the rescheduling put into the queue.
LEMMA ScheduledIsEvent ==
  ASSUME NEW type \in Types, NEW time \in Nat, NEW step \in Nat
  PROVE  /\ ScheduledAt(type, time, step) \in Events
         /\ ScheduledAt(type, time, step).type = type
         /\ ScheduledAt(type, time, step).reschedule_time = step
         /\ ~ScheduledAt(type, time, step).running
<1>1. Cap(time) \in Ticks
  BY TimingAssumption DEF Cap, Ticks
<1> QED
  BY <1>1 DEF ScheduledAt, Events

\* Advance() takes the head of the queue.
LEMMA AdvanceQueue ==
  ASSUME TypeOK, QueueInv, Advance
  PROVE  /\ event_queue # << >> /\ event_queue[1] \in Events
         /\ Head(event_queue) = event_queue[1]
         /\ timer' = [timer EXCEPT !.pc = "callback", !.type = event_queue[1].type]
         /\ event_queue' \in Seq(Events)
         /\ Len(event_queue') <= Len(event_queue)
         /\ Sorted(event_queue')
         /\ \/ /\ event_queue[1].reschedule_time = 0
               /\ \A i \in DOMAIN event_queue' : \E j \in DOMAIN event_queue :
                    event_queue'[i] = event_queue[j]
            \/ /\ event_queue[1].reschedule_time # 0
               /\ 1 \in DOMAIN event_queue'
               /\ event_queue'[1] = [event_queue[1] EXCEPT !.running = TRUE]
               /\ \A i \in DOMAIN event_queue' :
                    i # 1 => i \in DOMAIN event_queue /\ event_queue'[i] = event_queue[i]
<1> DEFINE q == event_queue
           p == event_queue'
<1>1. q \in Seq(Events) /\ q # << >> /\ Len(q) \in Nat /\ Len(q) >= 1
  BY DEF TypeOK, Advance, Due
<1>2. DOMAIN q = 1..Len(q) /\ q[1] \in Events /\ Head(q) = q[1]
  BY <1>1
<1>3. timer' = [timer EXCEPT !.pc = "callback", !.type = q[1].type]
  BY <1>2 DEF Advance
<1>4. p = IF q[1].reschedule_time = 0 THEN Tail(q) ELSE [q EXCEPT ![1].running = TRUE]
  BY <1>2 DEF Advance
<1>5. Sorted(q)
  BY DEF QueueInv
<1> HIDE DEF q, p
<1>6. CASE q[1].reschedule_time = 0
  <2>1. p = Tail(q)
    BY <1>4, <1>6
  <2>2. /\ p \in Seq(Events) /\ Len(p) = Len(q) - 1
        /\ \A i \in 1..(Len(q) - 1) : p[i] = q[i + 1]
    BY <1>1, <2>1
  <2>3. DOMAIN p = 1..(Len(q) - 1)
    BY <2>2
  <2>5. \A i \in DOMAIN p : i \in Int /\ i + 1 \in DOMAIN q /\ p[i] = q[i + 1]
    BY <1>1, <1>2, <2>2, <2>3
  <2>4. Sorted(p)
    <3> SUFFICES ASSUME NEW i \in DOMAIN p, NEW j \in DOMAIN p, i < j
                 PROVE  p[i].time <= p[j].time
      BY DEF Sorted
    <3>1. i + 1 < j + 1
      BY <2>5
    <3> QED
      BY <1>5, <2>5, <3>1 DEF Sorted
  <2>6. \A i \in DOMAIN p : \E j \in DOMAIN q : p[i] = q[j]
    BY <2>5
  <2>7. Len(p) <= Len(q)
    BY <1>1, <2>2
  <2> QED
    BY <1>1, <1>2, <1>3, <1>6, <2>2, <2>4, <2>6, <2>7 DEF p, q
<1>7. CASE q[1].reschedule_time # 0
  <2>1. p = [q EXCEPT ![1] = [q[1] EXCEPT !.running = TRUE]]
    BY <1>4, <1>7
  <2>2. [q[1] EXCEPT !.running = TRUE] \in Events
    BY <1>2 DEF Events
  <2>3. p \in Seq(Events) /\ Len(p) = Len(q) /\ DOMAIN p = 1..Len(q)
    BY <1>1, <2>1, <2>2
  <2>4. /\ p[1] = [q[1] EXCEPT !.running = TRUE]
        /\ \A i \in 1..Len(q) : i # 1 => p[i] = q[i]
    BY <1>1, <1>2, <2>1
  <2>5. p[1].time = q[1].time
    BY <1>2, <2>4 DEF Events
  <2>6. \A i \in 1..Len(q) : p[i].time = q[i].time
    BY <1>1, <2>4, <2>5
  <2>7. Sorted(p)
    BY <1>2, <1>5, <2>3, <2>6 DEF Sorted
  <2>8. Len(p) <= Len(q) /\ 1 \in DOMAIN p
    BY <1>1, <2>3
  <2> QED
    BY <1>1, <1>2, <1>3, <1>7, <2>3, <2>4, <2>7, <2>8 DEF p, q
<1> QED
  BY <1>6, <1>7

\* The callback may put one event of its own type into the queue.
LEMMA CallbackQueue ==
  ASSUME TypeOK, QueueInv, Callback
  PROVE  /\ event_queue' \in Seq(Events)
         /\ Len(event_queue') <= MaxEvents
         /\ Sorted(event_queue')
         /\ \A i \in DOMAIN event_queue' :
              \/ \E j \in DOMAIN event_queue : event_queue'[i] = event_queue[j]
              \/ /\ timer.type \in SelfSched /\ event_queue'[i].type = timer.type
                 /\ event_queue'[i].reschedule_time = 0
                 /\ ~event_queue'[i].running
         /\ \A j \in DOMAIN event_queue : \E i \in DOMAIN event_queue' :
              event_queue'[i] = event_queue[j]
<1>1. event_queue \in Seq(Events) /\ Len(event_queue) <= MaxEvents /\ Sorted(event_queue)
  BY DEF TypeOK, QueueInv
<1>2. CASE timer.type \in SelfSched /\ Len(event_queue) < MaxEvents
  <2> DEFINE e == ScheduledAt(timer.type, now + 1, 0)
  <2>1. event_queue' = Emplace(event_queue, e)
    BY <1>2 DEF Callback
  <2>2. /\ e \in Events /\ e.type = timer.type /\ e.reschedule_time = 0
        /\ ~e.running
    <3>1. timer.type \in Types /\ now + 1 \in Nat
      BY <1>2, TimingAssumption DEF TypeOK, Types
    <3> QED
      BY <3>1, ScheduledIsEvent
  <2> HIDE DEF e
  <2>3. /\ event_queue' \in Seq(Events)
        /\ Len(event_queue') = Len(event_queue) + 1
        /\ Sorted(event_queue')
        /\ \A i \in DOMAIN event_queue' : event_queue'[i] = e
             \/ \E j \in DOMAIN event_queue : event_queue'[i] = event_queue[j]
        /\ \A j \in DOMAIN event_queue : \E i \in DOMAIN event_queue' :
             event_queue'[i] = event_queue[j]
    BY <1>1, <2>1, <2>2, EmplaceFacts
  <2>4. Len(event_queue') <= MaxEvents
    BY <1>1, <1>2, <2>3, TimingAssumption
  <2> QED
    BY <1>2, <2>2, <2>3, <2>4
<1>3. CASE ~(timer.type \in SelfSched /\ Len(event_queue) < MaxEvents)
  <2>1. event_queue' = event_queue
    BY <1>3 DEF Callback
  <2> QED
    BY <1>1, <2>1
<1> QED
  BY <1>2, <1>3

\* Schedule puts one event into the queue.
LEMMA ScheduleQueue ==
  ASSUME NEW type \in Types, NEW delay \in Delays, TypeOK, QueueInv,
         Schedule(type, delay)
  PROVE  /\ event_queue' \in Seq(Events)
         /\ Len(event_queue') <= MaxEvents
         /\ Sorted(event_queue')
         /\ \A i \in DOMAIN event_queue' :
              \/ \E j \in DOMAIN event_queue : event_queue'[i] = event_queue[j]
              \/ /\ event_queue'[i].type = type
                 /\ (event_queue'[i].reschedule_time # 0) <=> (type \in Looping)
                 /\ ~event_queue'[i].running
         /\ \A j \in DOMAIN event_queue : \E i \in DOMAIN event_queue' :
              event_queue'[i] = event_queue[j]
<1> DEFINE step == IF type \in Looping THEN delay ELSE 0
           e == ScheduledAt(type, now + delay, step)
<1>1. event_queue \in Seq(Events) /\ Len(event_queue) < MaxEvents /\ Sorted(event_queue)
  BY DEF TypeOK, QueueInv, Schedule
<1>2. event_queue' = Emplace(event_queue, e)
  BY DEF Schedule
<1>3. delay \in Nat /\ now + delay \in Nat /\ step \in Nat
  BY TimingAssumption DEF TypeOK
<1>4. (step # 0) <=> (type \in Looping)
  BY <1>3 DEF Schedule
<1> HIDE DEF step
<1>5. /\ e \in Events /\ e.type = type /\ e.reschedule_time = step
      /\ ~e.running
  BY <1>3, ScheduledIsEvent
<1> HIDE DEF e
<1>6. /\ event_queue' \in Seq(Events)
      /\ Len(event_queue') = Len(event_queue) + 1
      /\ Sorted(event_queue')
      /\ \A i \in DOMAIN event_queue' : event_queue'[i] = e
           \/ \E j \in DOMAIN event_queue : event_queue'[i] = event_queue[j]
      /\ \A j \in DOMAIN event_queue : \E i \in DOMAIN event_queue' :
           event_queue'[i] = event_queue[j]
  BY <1>1, <1>2, <1>5, EmplaceFacts
<1>7. Len(event_queue') <= MaxEvents
  BY <1>1, <1>6, TimingAssumption
<1> QED
  BY <1>4, <1>5, <1>6, <1>7

\* Unschedule keeps the events of the other types.
LEMMA UnscheduleQueue ==
  ASSUME NEW type \in Types, NEW wait \in BOOLEAN, TypeOK, QueueInv,
         Unschedule(type, wait)
  PROVE  /\ event_queue' \in Seq(Events)
         /\ Len(event_queue') <= MaxEvents
         /\ Sorted(event_queue')
         /\ \A i \in DOMAIN event_queue' : event_queue'[i].type # type
         /\ \A i \in DOMAIN event_queue' : \E j \in DOMAIN event_queue :
              event_queue'[i] = event_queue[j]
         /\ \A j \in DOMAIN event_queue : event_queue[j].type # type =>
              \E i \in DOMAIN event_queue' : event_queue'[i] = event_queue[j]
<1> DEFINE P == {i \in DOMAIN event_queue : event_queue[i].type # type}
<1>1. event_queue \in Seq(Events) /\ Len(event_queue) <= MaxEvents /\ Sorted(event_queue)
  BY DEF TypeOK, QueueInv
<1>2. event_queue' = Keep(event_queue, P)
  BY DEF Unschedule, Without
<1>3. /\ P \in SUBSET (DOMAIN event_queue)
      /\ \A i \in P : event_queue[i].type # type
      /\ \A i \in DOMAIN event_queue : event_queue[i].type # type => i \in P
  OBVIOUS
<1> HIDE DEF P
<1>4. /\ event_queue' \in Seq(Events)
      /\ Len(event_queue') <= Len(event_queue)
      /\ Sorted(event_queue')
      /\ \A i \in DOMAIN event_queue' : \E j \in P : event_queue'[i] = event_queue[j]
      /\ \A j \in P : \E i \in DOMAIN event_queue' : event_queue'[i] = event_queue[j]
  BY <1>1, <1>2, <1>3, KeepFacts
<1>5. Len(event_queue') <= MaxEvents
  <2>1. Len(event_queue) \in Int /\ Len(event_queue') \in Int
    BY <1>1, <1>4
  <2> QED
    BY <1>1, <1>4, <2>1, TimingAssumption
<1>6. \A i \in DOMAIN event_queue' : event_queue'[i].type # type
  BY <1>3, <1>4
<1>7. \A i \in DOMAIN event_queue' : \E j \in DOMAIN event_queue :
        event_queue'[i] = event_queue[j]
  BY <1>3, <1>4
<1>8. \A j \in DOMAIN event_queue : event_queue[j].type # type =>
        \E i \in DOMAIN event_queue' : event_queue'[i] = event_queue[j]
  BY <1>3, <1>4
<1> QED
  BY <1>4, <1>5, <1>6, <1>7, <1>8

\* After the callback no event is marked as running; the looping event is back in
\* the queue unless its type was unscheduled.
LEMMA AfterCallbackQueue ==
  ASSUME NEW d \in {0, 2}, TypeOK, QueueInv, AfterCallback(d)
  PROVE  /\ event_queue' \in Seq(Events)
         /\ Len(event_queue') <= MaxEvents
         /\ Sorted(event_queue')
         /\ \A i \in DOMAIN event_queue' :
              /\ ~event_queue'[i].running
              /\ \/ \E j \in DOMAIN event_queue : event_queue'[i] = event_queue[j]
                 \/ /\ timer.type \in Looping /\ ~timer.changed
                    /\ event_queue'[i].type = timer.type
                    /\ event_queue'[i].reschedule_time # 0
<1>1. event_queue \in Seq(Events) /\ Len(event_queue) <= MaxEvents /\ Sorted(event_queue)
  BY DEF TypeOK, QueueInv
<1>2. InCallback
  BY DEF AfterCallback, InCallback
<1>3. CASE timer.type \notin Looping \/ timer.changed
  <2>1. event_queue' = event_queue
    BY <1>3 DEF AfterCallback
  <2>2. \A i \in DOMAIN event_queue : ~event_queue[i].running
    BY <1>3 DEF QueueInv, RunningOK
  <2> QED
    BY <1>1, <2>1, <2>2
<1>4. CASE timer.type \in Looping /\ ~timer.changed
  <2> DEFINE i == CHOOSE j \in DOMAIN event_queue : event_queue[j].running
             evt == event_queue[i]
             step == IF d = 0 THEN evt.reschedule_time ELSE d
             base == IF evt.time < pause_end_time THEN pause_end_time ELSE evt.time
             P == {j \in DOMAIN event_queue : ~event_queue[j].running}
             rest == Keep(event_queue, P)
             e == ScheduledAt(timer.type, base + step, step)
  <2>1. event_queue' = Emplace(rest, e)
    BY <1>4 DEF AfterCallback
  <2>2. i \in DOMAIN event_queue /\ event_queue[i].running
    BY <1>2, <1>4 DEF QueueInv, RunningOK
  <2>3. /\ P \in SUBSET (DOMAIN event_queue) /\ i \notin P
        /\ \A j \in P : ~event_queue[j].running
    BY <2>2
  <2> HIDE DEF i, P
  <2>4. evt \in Events /\ evt.type = timer.type /\ evt.reschedule_time # 0
    BY <1>1, <1>4, <2>2 DEF QueueInv, RunningOK, LoopingOK
  <2>5. evt.time \in Nat /\ evt.reschedule_time \in Nat
    <3>1. evt.time \in 0..(Horizon + 1) /\ evt.reschedule_time \in Nat
      BY <2>4 DEF Events, Ticks
    <3> QED
      BY <3>1, TimingAssumption
  <2>6. pause_end_time \in Nat
    BY TimingAssumption DEF TypeOK
  <2> HIDE DEF evt
  <2>7. step \in Nat /\ step # 0 /\ base \in Nat
    BY <2>4, <2>5, <2>6
  <2> HIDE DEF step, base
  <2>8. e \in Events /\ e.type = timer.type /\ e.reschedule_time = step /\ ~e.running
    <3>1. timer.type \in Types /\ base + step \in Nat
      BY <1>4, <2>7 DEF Types
    <3> QED
      BY <2>7, <3>1, ScheduledIsEvent
  <2> HIDE DEF e
  <2>9. /\ rest \in Seq(Events)
        /\ Len(rest) < Len(event_queue)
        /\ Sorted(rest)
        /\ \A n \in DOMAIN rest : \E j \in P : rest[n] = event_queue[j]
    BY <1>1, <2>2, <2>3, KeepFacts
  <2> HIDE DEF rest
  <2>10. /\ event_queue' \in Seq(Events)
         /\ Len(event_queue') = Len(rest) + 1
         /\ Sorted(event_queue')
         /\ \A n \in DOMAIN event_queue' : event_queue'[n] = e
              \/ \E j \in DOMAIN rest : event_queue'[n] = rest[j]
    BY <2>1, <2>8, <2>9, EmplaceFacts
  <2>11. Len(event_queue') <= MaxEvents
    <3>1. Len(event_queue) \in Int /\ Len(rest) \in Int
      BY <1>1, <2>9
    <3> QED
      BY <1>1, <2>9, <2>10, <3>1, TimingAssumption
  <2>12. ASSUME NEW n \in DOMAIN event_queue'
         PROVE  /\ ~event_queue'[n].running
                /\ \/ \E j \in DOMAIN event_queue : event_queue'[n] = event_queue[j]
                   \/ /\ timer.type \in Looping /\ ~timer.changed
                      /\ event_queue'[n].type = timer.type
                      /\ event_queue'[n].reschedule_time # 0
    <3>1. CASE event_queue'[n] = e
      BY <1>4, <2>7, <2>8, <3>1
    <3>2. CASE event_queue'[n] # e
      <4>1. PICK j \in DOMAIN rest : event_queue'[n] = rest[j]
        BY <2>10, <3>2
      <4>2. PICK m \in P : rest[j] = event_queue[m]
        BY <2>9
      <4> QED
        BY <2>3, <4>1, <4>2
    <3> QED
      BY <3>1, <3>2
  <2> QED
    BY <2>10, <2>11, <2>12
<1> QED
  BY <1>3, <1>4

-----------------------------------------------------------------------------
(***************************************************************************)
(* The steps, one case per action and one lemma per part of the invariant. *)
(***************************************************************************)

\* The types are kept.
LEMMA TypeStep ==
  ASSUME TypeOK, QueueInv, Next
  PROVE  TypeOK'
<1> USE TimingAssumption
<1>1. CASE Tick
  BY <1>1 DEF TypeOK, Tick, clocks, pausing, others
<1>2. CASE LoopConditions
  <2>1. timer' \in Timers
    BY <1>2 DEF TypeOK, Timers, LoopConditions, Goto
  <2> QED
    BY <1>2, <2>1 DEF TypeOK, LoopConditions, clocks, pausing, others
<1>3. CASE StorePausedSet
  <2>1. timer' \in Timers
    BY <1>3 DEF TypeOK, Timers, StorePausedSet, Goto
  <2> QED
    BY <1>3, <2>1 DEF TypeOK, StorePausedSet, clocks, pausing, others
<1>4. CASE WaitForPauseEvent
  <2>1. timer' \in Timers
    BY <1>4 DEF TypeOK, Timers, WaitForPauseEvent, Goto
  <2> QED
    BY <1>4, <2>1 DEF TypeOK, WaitForPauseEvent, clocks, pausing, others
<1>5. CASE Advance
  <2>1. event_queue' \in Seq(Events) /\ Len(event_queue') <= MaxEvents
    BY <1>5, AdvanceQueue DEF TypeOK
  <2>2. timer' \in Timers
    BY <1>5 DEF TypeOK, Timers, Advance
  <2> QED
    BY <1>5, <2>1, <2>2 DEF TypeOK, Advance, clocks, pausing, others
<1>6. CASE AdvanceReturns
  <2>1. (IF event_queue = << >> THEN 0 ELSE Head(event_queue).time) \in Ticks
    <3>1. event_queue # << >> => Head(event_queue) \in Events
      BY DEF TypeOK
    <3> QED
      BY <3>1 DEF Events, Ticks
  <2>2. timer' \in Timers
    BY <1>6, <2>1 DEF TypeOK, Timers, AdvanceReturns
  <2> QED
    BY <1>6, <2>2 DEF TypeOK, AdvanceReturns, clocks, pausing, others
<1>7. CASE Callback
  <2>1. event_queue' \in Seq(Events) /\ Len(event_queue') <= MaxEvents
    BY <1>7, CallbackQueue DEF TypeOK
  <2>2. timer' \in Timers
    BY <1>7 DEF TypeOK, Timers, Callback, Goto
  <2> QED
    BY <1>7, <2>1, <2>2 DEF TypeOK, Callback, clocks, pausing, others
<1>8. ASSUME NEW d \in {0, 2}, AfterCallback(d)
      PROVE  TypeOK'
  <2>1. event_queue' \in Seq(Events) /\ Len(event_queue') <= MaxEvents
    BY <1>8, AfterCallbackQueue DEF TypeOK
  <2>2. timer' \in Timers
    BY <1>8 DEF TypeOK, Timers, AfterCallback
  <2> QED
    BY <1>8, <2>1, <2>2 DEF TypeOK, AfterCallback, clocks, pausing, others
<1>9. CASE SetWaitSet
  <2>1. timer' \in Timers
    BY <1>9 DEF TypeOK, Timers, SetWaitSet, Goto
  <2> QED
    BY <1>9, <2>1 DEF TypeOK, SetWaitSet, clocks, pausing, others
<1>10. CASE WaitForEvent
  <2>1. timer' \in Timers
    <3>1. timer' = [timer EXCEPT !.pc = "wake", !.next_time = 0] /\ 0 \in Ticks
      BY <1>10 DEF WaitForEvent, Ticks
    <3> QED
      BY <3>1 DEF TypeOK, Timers
  <2> QED
    BY <1>10, <2>1 DEF TypeOK, WaitForEvent, clocks, pausing, others
<1>11. CASE ClearWaitSet
  <2>1. timer' \in Timers
    BY <1>11 DEF TypeOK, Timers, ClearWaitSet, Goto
  <2> QED
    BY <1>11, <2>1 DEF TypeOK, ClearWaitSet, clocks, pausing, others
<1>12. ASSUME NEW type \in Types, NEW delay \in Delays, Schedule(type, delay)
      PROVE  TypeOK'
  <2>1. event_queue' \in Seq(Events) /\ Len(event_queue') <= MaxEvents
    BY <1>12, ScheduleQueue DEF TypeOK
  <2>2. client' \in Clients
    BY <1>12 DEF TypeOK, Clients, Schedule
  <2> QED
    BY <1>12, <2>1, <2>2 DEF TypeOK, Schedule, clocks, pausing, others
<1>13. CASE ScheduleSets
  <2>1. client' \in Clients
    BY <1>13 DEF TypeOK, Clients, ScheduleSets
  <2> QED
    BY <1>13, <2>1 DEF TypeOK, ScheduleSets, clocks, pausing, others
<1>14. ASSUME NEW type \in Types, NEW wait \in BOOLEAN, Unschedule(type, wait)
      PROVE  TypeOK'
  <2>1. event_queue' \in Seq(Events) /\ Len(event_queue') <= MaxEvents
    BY <1>14, UnscheduleQueue DEF TypeOK
  <2>2. timer' \in Timers
    BY <1>14 DEF TypeOK, Timers, Unschedule
  <2>3. client' \in Clients
    BY <1>14 DEF TypeOK, Clients, Unschedule
  <2> QED
    BY <1>14, <2>1, <2>2, <2>3 DEF TypeOK, Unschedule, clocks, pausing, others
<1>15. CASE UnscheduleWaits
  <2>1. client' \in Clients
    BY <1>15 DEF TypeOK, Clients, UnscheduleWaits
  <2>2. client.type \in Types
    BY <1>15 DEF UnscheduleWaits, QueueInv, LockOK
  <2> QED
    BY <1>15, <2>1, <2>2 DEF TypeOK, UnscheduleWaits, clocks, pausing, others
<1>16. ASSUME NEW type \in Types, Destroy(type)
      PROVE  TypeOK'
  BY <1>16 DEF TypeOK, Destroy, clocks, pausing, others
<1>17. CASE ClearPendingEvents
  BY <1>17 DEF TypeOK, ClearPendingEvents, clocks, pausing, others
<1>18. ASSUME NEW b \in BOOLEAN, SyncPause(b)
      PROVE  TypeOK'
  <2>1. control' \in Controls
    BY <1>18 DEF TypeOK, Controls, SyncPause
  <2> QED
    BY <1>18, <2>1 DEF TypeOK, SyncPause, clocks, pausing, others
<1>19. CASE PauseStores
  <2>1. control' \in Controls
    BY <1>19 DEF TypeOK, Controls, PauseStores
  <2>2. control.arg \in BOOLEAN
    BY DEF TypeOK, Controls
  <2> QED
    BY <1>19, <2>1, <2>2 DEF TypeOK, PauseStores, clocks, pausing, others
<1>20. CASE PauseSets
  <2>1. control' \in Controls
    BY <1>20 DEF TypeOK, Controls, PauseSets
  <2> QED
    BY <1>20, <2>1 DEF TypeOK, PauseSets, clocks, pausing, others
<1>21. CASE SyncPauseSets
  <2>1. control' \in Controls
    BY <1>21 DEF TypeOK, Controls, SyncPauseSets
  <2> QED
    BY <1>21, <2>1 DEF TypeOK, SyncPauseSets, clocks, pausing, others
<1>22. CASE SyncPauseSpins
  <2>1. control' \in Controls
    BY <1>22 DEF TypeOK, Controls, SyncPauseSpins
  <2> QED
    BY <1>22, <2>1 DEF TypeOK, SyncPauseSpins, clocks, pausing, others
<1>23. CASE ResetStores
  <2>1. control' \in Controls
    <3>1. CASE control.pc = "idle"
      <4>1. control' = [pc |-> "rstore", arg |-> TRUE]
        BY <1>23, <3>1 DEF ResetStores
      <4> QED
        BY <4>1 DEF Controls
    <3>2. CASE control.pc # "idle"
      BY <1>23, <3>2 DEF TypeOK, Controls, ResetStores
    <3> QED
      BY <3>1, <3>2
  <2> QED
    BY <1>23, <2>1 DEF TypeOK, ResetStores, clocks, pausing, others
<1>24. CASE ResetSets
  <2>1. control' \in Controls
    BY <1>24 DEF TypeOK, Controls, ResetSets
  <2> QED
    BY <1>24, <2>1 DEF TypeOK, ResetSets, clocks, pausing, others
<1>25. CASE ResetJoins
  <2>1. control' \in Controls
    BY <1>25 DEF TypeOK, Controls, ResetJoins
  <2> QED
    BY <1>25, <2>1 DEF TypeOK, ResetJoins, clocks, pausing, others
<1> QED
  BY <1>1, <1>2, <1>3, <1>4, <1>5, <1>6, <1>7, <1>8, <1>9, <1>10, <1>11, <1>12, <1>13, <1>14, <1>15, <1>16, <1>17, <1>18, <1>19, <1>20, <1>21, <1>22, <1>23, <1>24, <1>25 DEF Next, TimerThread

\* The steps that neither move the thread nor touch the queue.
LEMMA QueueRests ==
  ASSUME QueueInv, UNCHANGED <<event_queue, timer, advance_lock, wait_set>>,
         client'.pc = "uwait" => client'.type \in Types
  PROVE  QueueInv'
  BY DEF QueueInv, Sorted, LoopingOK, RunningOK, LockOK, InCallback, Advancing

\* The steps that move the thread, outside of a callback.
LEMMA QueueWaits ==
  ASSUME QueueInv, UNCHANGED <<event_queue, client>>, ~InCallback, ~InCallback',
         timer'.type = timer.type, timer'.changed = timer.changed,
         advance_lock' <=> Advancing',
         wait_set' => timer'.pc \in {"idle", "wake"}
  PROVE  QueueInv'
<1>1. Sorted(event_queue)' /\ LoopingOK'
  BY DEF QueueInv, Sorted, LoopingOK
<1>2. RunningOK'
  BY DEF QueueInv, RunningOK
<1>3. LockOK'
  BY DEF QueueInv, LockOK
<1> QED
  BY <1>1, <1>2, <1>3 DEF QueueInv

\* The order of the queue, and the places of the thread, are kept.
LEMMA QueueStep ==
  ASSUME TypeOK, QueueInv, Next
  PROVE  QueueInv'
<1>1. CASE Tick
  <2>1. client'.pc = "uwait" => client'.type \in Types
    BY <1>1 DEF Tick, others, QueueInv, LockOK
  <2> QED
    BY <1>1, <2>1, QueueRests DEF Tick
<1>2. CASE LoopConditions
  <2>1. /\ ~InCallback /\ ~InCallback'
        /\ timer'.type = timer.type /\ timer'.changed = timer.changed
    BY <1>2 DEF LoopConditions, Goto, InCallback, TypeOK, Timers
  <2>2. /\ advance_lock' <=> Advancing'
        /\ wait_set' => timer'.pc \in {"idle", "wake"}
    BY <1>2 DEF LoopConditions, Goto, Advancing, TypeOK, Timers, QueueInv, LockOK
  <2> QED
    BY <1>2, <2>1, <2>2, QueueWaits DEF LoopConditions, others
<1>3. CASE StorePausedSet
  <2>1. /\ ~InCallback /\ ~InCallback'
        /\ timer'.type = timer.type /\ timer'.changed = timer.changed
    BY <1>3 DEF StorePausedSet, Goto, InCallback, TypeOK, Timers
  <2>2. /\ advance_lock' <=> Advancing'
        /\ wait_set' => timer'.pc \in {"idle", "wake"}
    BY <1>3 DEF StorePausedSet, Goto, Advancing, TypeOK, Timers, QueueInv, LockOK
  <2> QED
    BY <1>3, <2>1, <2>2, QueueWaits DEF StorePausedSet, others
<1>4. CASE WaitForPauseEvent
  <2>1. /\ ~InCallback /\ ~InCallback'
        /\ timer'.type = timer.type /\ timer'.changed = timer.changed
    BY <1>4 DEF WaitForPauseEvent, Goto, InCallback, TypeOK, Timers
  <2>2. /\ advance_lock' <=> Advancing'
        /\ wait_set' => timer'.pc \in {"idle", "wake"}
    BY <1>4 DEF WaitForPauseEvent, Goto, Advancing, TypeOK, Timers, QueueInv, LockOK
  <2> QED
    BY <1>4, <2>1, <2>2, QueueWaits DEF WaitForPauseEvent, others
<1>5. CASE Advance
  <2> DEFINE evt == event_queue[1]
  <2>1. /\ evt \in Events /\ 1 \in DOMAIN event_queue
        /\ timer' = [timer EXCEPT !.pc = "callback", !.type = evt.type]
        /\ Sorted(event_queue)'
    BY <1>5, AdvanceQueue DEF TypeOK
  <2>2. \/ /\ evt.reschedule_time = 0
           /\ \A i \in DOMAIN event_queue' : \E j \in DOMAIN event_queue :
                event_queue'[i] = event_queue[j]
        \/ /\ evt.reschedule_time # 0
           /\ 1 \in DOMAIN event_queue'
           /\ event_queue'[1] = [evt EXCEPT !.running = TRUE]
           /\ \A i \in DOMAIN event_queue' :
                i # 1 => i \in DOMAIN event_queue /\ event_queue'[i] = event_queue[i]
    BY <1>5, AdvanceQueue
  <2>3. /\ ~InCallback /\ InCallback'
        /\ timer'.type = evt.type /\ timer'.changed = timer.changed
        /\ timer'.pc = "callback"
    BY <1>5, <2>1 DEF Advance, InCallback, TypeOK, Timers
  <2>4. (evt.reschedule_time # 0) <=> (evt.type \in Looping)
    BY <2>1 DEF QueueInv, LoopingOK
  <2>5. \A i \in DOMAIN event_queue : ~event_queue[i].running
    BY <2>3 DEF QueueInv, RunningOK
  <2>6. ~timer'.changed /\ timer'.type \in Types
    BY <2>1, <2>3 DEF QueueInv, RunningOK, Events
  <2>7. LockOK'
    BY <1>5, <2>3 DEF Advance, others, QueueInv, LockOK, Advancing
  <2> HIDE DEF evt
  <2>8. CASE evt.reschedule_time = 0
    <3>1. \A i \in DOMAIN event_queue' : \E j \in DOMAIN event_queue :
            event_queue'[i] = event_queue[j]
      BY <2>2, <2>8
    <3>2. LoopingOK'
      BY <3>1 DEF QueueInv, LoopingOK
    <3>3. RunningOK'
      BY <2>3, <2>4, <2>5, <2>6, <2>8, <3>1 DEF RunningOK
    <3> QED
      BY <2>1, <2>7, <3>2, <3>3 DEF QueueInv
  <2>9. CASE evt.reschedule_time # 0
    <3>1. /\ 1 \in DOMAIN event_queue'
          /\ event_queue'[1] = [evt EXCEPT !.running = TRUE]
          /\ \A i \in DOMAIN event_queue' :
               i # 1 => i \in DOMAIN event_queue /\ event_queue'[i] = event_queue[i]
      BY <2>2, <2>9
    <3>2. /\ event_queue'[1].running /\ event_queue'[1].type = evt.type
          /\ event_queue'[1].reschedule_time = evt.reschedule_time
      BY <2>1, <3>1 DEF Events
    <3>3. LoopingOK'
      BY <2>4, <3>1, <3>2 DEF QueueInv, LoopingOK
    <3>4. RunningOK'
      BY <2>3, <2>4, <2>5, <2>6, <2>9, <3>1, <3>2 DEF RunningOK
    <3> QED
      BY <2>1, <2>7, <3>3, <3>4 DEF QueueInv
  <2> QED
    BY <2>8, <2>9
<1>6. CASE AdvanceReturns
  <2>1. /\ ~InCallback /\ ~InCallback'
        /\ timer'.type = timer.type /\ timer'.changed = timer.changed
    BY <1>6 DEF AdvanceReturns, InCallback, TypeOK, Timers
  <2>2. /\ advance_lock' <=> Advancing'
        /\ wait_set' => timer'.pc \in {"idle", "wake"}
    BY <1>6 DEF AdvanceReturns, Advancing, TypeOK, Timers, QueueInv, LockOK
  <2> QED
    BY <1>6, <2>1, <2>2, QueueWaits DEF AdvanceReturns, others
<1>7. CASE Callback
  <2>1. /\ Sorted(event_queue)'
        /\ \A i \in DOMAIN event_queue' :
             \/ \E j \in DOMAIN event_queue : event_queue'[i] = event_queue[j]
             \/ /\ timer.type \in SelfSched /\ event_queue'[i].type = timer.type
                /\ event_queue'[i].reschedule_time = 0
                /\ ~event_queue'[i].running
        /\ \A j \in DOMAIN event_queue : \E i \in DOMAIN event_queue' :
             event_queue'[i] = event_queue[j]
    BY <1>7, CallbackQueue
  <2>2. /\ InCallback /\ InCallback' /\ timer'.pc = "relock"
        /\ timer'.type = timer.type /\ timer'.changed = timer.changed
    BY <1>7 DEF Callback, Goto, InCallback, TypeOK, Timers
  <2>3. timer.type \in SelfSched => timer.type \notin Looping
    BY TimingAssumption
  <2>4. LoopingOK'
    BY <2>1, <2>3 DEF QueueInv, LoopingOK
  <2>5. RunningOK'
    <3>1. \A i \in DOMAIN event_queue' : event_queue'[i].running =>
            \E j \in DOMAIN event_queue :
              event_queue'[i] = event_queue[j] /\ event_queue[j].running
      BY <2>1
    <3> QED
      BY <2>1, <2>2, <3>1 DEF QueueInv, RunningOK
  <2>6. LockOK'
    BY <1>7, <2>2 DEF Callback, others, InCallback, QueueInv, LockOK, Advancing
  <2> QED
    BY <2>1, <2>4, <2>5, <2>6 DEF QueueInv
<1>8. ASSUME NEW d \in {0, 2}, AfterCallback(d)
      PROVE  QueueInv'
  <2>1. /\ Sorted(event_queue)'
        /\ \A i \in DOMAIN event_queue' :
             /\ ~event_queue'[i].running
             /\ \/ \E j \in DOMAIN event_queue : event_queue'[i] = event_queue[j]
                \/ /\ timer.type \in Looping /\ ~timer.changed
                   /\ event_queue'[i].type = timer.type
                   /\ event_queue'[i].reschedule_time # 0
    BY <1>8, AfterCallbackQueue
  <2>2. /\ timer'.pc = "loop" /\ timer'.type = Nobody /\ ~timer'.changed
        /\ timer.pc = "relock" /\ ~InCallback'
    BY <1>8 DEF AfterCallback, InCallback, TypeOK, Timers
  <2>3. LoopingOK'
    BY <2>1 DEF QueueInv, LoopingOK
  <2>4. RunningOK'
    BY <2>1, <2>2 DEF RunningOK
  <2>5. LockOK'
    BY <1>8, <2>2 DEF AfterCallback, others, QueueInv, LockOK, Advancing
  <2> QED
    BY <2>1, <2>3, <2>4, <2>5 DEF QueueInv
<1>9. CASE SetWaitSet
  <2>1. /\ ~InCallback /\ ~InCallback'
        /\ timer'.type = timer.type /\ timer'.changed = timer.changed
    BY <1>9 DEF SetWaitSet, Goto, InCallback, TypeOK, Timers
  <2>2. /\ advance_lock' <=> Advancing'
        /\ wait_set' => timer'.pc \in {"idle", "wake"}
    BY <1>9 DEF SetWaitSet, Goto, Advancing, TypeOK, Timers, QueueInv, LockOK
  <2> QED
    BY <1>9, <2>1, <2>2, QueueWaits DEF SetWaitSet, others
<1>10. CASE WaitForEvent
  <2>1. /\ ~InCallback /\ ~InCallback'
        /\ timer'.type = timer.type /\ timer'.changed = timer.changed
    BY <1>10 DEF WaitForEvent, InCallback, TypeOK, Timers
  <2>2. /\ advance_lock' <=> Advancing'
        /\ wait_set' => timer'.pc \in {"idle", "wake"}
    BY <1>10 DEF WaitForEvent, Advancing, TypeOK, Timers, QueueInv, LockOK
  <2> QED
    BY <1>10, <2>1, <2>2, QueueWaits DEF WaitForEvent, others
<1>11. CASE ClearWaitSet
  <2>1. /\ ~InCallback /\ ~InCallback'
        /\ timer'.type = timer.type /\ timer'.changed = timer.changed
    BY <1>11 DEF ClearWaitSet, Goto, InCallback, TypeOK, Timers
  <2>2. /\ advance_lock' <=> Advancing'
        /\ wait_set' => timer'.pc \in {"idle", "wake"}
    BY <1>11 DEF ClearWaitSet, Goto, Advancing, TypeOK, Timers, QueueInv, LockOK
  <2> QED
    BY <1>11, <2>1, <2>2, QueueWaits DEF ClearWaitSet, others
<1>12. ASSUME NEW type \in Types, NEW delay \in Delays, Schedule(type, delay)
      PROVE  QueueInv'
  <2>1. /\ Sorted(event_queue)'
        /\ \A i \in DOMAIN event_queue' :
             \/ \E j \in DOMAIN event_queue : event_queue'[i] = event_queue[j]
             \/ /\ event_queue'[i].type = type
                /\ (event_queue'[i].reschedule_time # 0) <=> (type \in Looping)
                /\ ~event_queue'[i].running
        /\ \A j \in DOMAIN event_queue : \E i \in DOMAIN event_queue' :
             event_queue'[i] = event_queue[j]
    BY <1>12, ScheduleQueue
  <2>2. /\ UNCHANGED <<timer, advance_lock, wait_set>> /\ client'.pc = "set"
        /\ InCallback' <=> InCallback
    BY <1>12 DEF Schedule, InCallback
  <2>3. LoopingOK'
    BY <2>1 DEF QueueInv, LoopingOK
  <2>4. RunningOK'
    <3>1. \A i \in DOMAIN event_queue' : event_queue'[i].running =>
            \E j \in DOMAIN event_queue :
              event_queue'[i] = event_queue[j] /\ event_queue[j].running
      BY <2>1
    <3> QED
      BY <2>1, <2>2, <3>1 DEF QueueInv, RunningOK
  <2>5. LockOK'
    BY <2>2 DEF QueueInv, LockOK, Advancing
  <2> QED
    BY <2>1, <2>3, <2>4, <2>5 DEF QueueInv
<1>13. CASE ScheduleSets
  <2>1. client' = [client EXCEPT !.pc = "idle"]
    BY <1>13 DEF ScheduleSets
  <2>2. client'.pc # "uwait"
    BY <2>1 DEF TypeOK, Clients
  <2> QED
    BY <1>13, <2>2, QueueRests DEF ScheduleSets
<1>14. ASSUME NEW type \in Types, NEW wait \in BOOLEAN, Unschedule(type, wait)
      PROVE  QueueInv'
  <2>1. /\ Sorted(event_queue)'
        /\ \A i \in DOMAIN event_queue' : event_queue'[i].type # type
        /\ \A i \in DOMAIN event_queue' : \E j \in DOMAIN event_queue :
             event_queue'[i] = event_queue[j]
        /\ \A j \in DOMAIN event_queue : event_queue[j].type # type =>
             \E i \in DOMAIN event_queue' : event_queue'[i] = event_queue[j]
    BY <1>14, UnscheduleQueue
  <2>2. /\ timer'.pc = timer.pc /\ timer'.type = timer.type
        /\ timer'.changed <=> (timer.changed \/ timer.type = type)
        /\ InCallback' <=> InCallback
    BY <1>14 DEF Unschedule, InCallback, TypeOK, Timers
  <2>3. LoopingOK'
    BY <2>1 DEF QueueInv, LoopingOK
  <2>4. timer.type = Nobody => timer.type # type
    BY TimingAssumption
  <2>5. RunningOK'
    <3>1. \A i \in DOMAIN event_queue' : event_queue'[i].running =>
            InCallback /\ event_queue'[i].type = timer.type /\ timer.type \in Looping
      BY <2>1 DEF QueueInv, RunningOK
    <3>2. InCallback /\ timer.type \in Looping /\ ~timer.changed /\ timer.type # type =>
            \E i \in DOMAIN event_queue' : event_queue'[i].running
      BY <2>1 DEF QueueInv, RunningOK
    <3>3. timer.changed => \A i \in DOMAIN event_queue' : ~event_queue'[i].running
      BY <2>1 DEF QueueInv, RunningOK
    <3>4. IF InCallback THEN timer.type \in Types
          ELSE timer.type = Nobody /\ ~timer.changed
      BY DEF QueueInv, RunningOK
    <3> QED
      BY <2>1, <2>2, <2>4, <3>1, <3>2, <3>3, <3>4 DEF RunningOK
  <2>6. LockOK'
    BY <1>14, <2>2 DEF Unschedule, QueueInv, LockOK, Advancing
  <2> QED
    BY <2>1, <2>3, <2>5, <2>6 DEF QueueInv
<1>15. CASE UnscheduleWaits
  <2>1. client'.pc = "uwait" => client'.type \in Types
    BY <1>15 DEF UnscheduleWaits, others, QueueInv, LockOK
  <2> QED
    BY <1>15, <2>1, QueueRests DEF UnscheduleWaits
<1>16. ASSUME NEW type \in Types, Destroy(type)
      PROVE  QueueInv'
  <2>1. client'.pc = "uwait" => client'.type \in Types
    BY <1>16 DEF Destroy, others, QueueInv, LockOK
  <2> QED
    BY <1>16, <2>1, QueueRests DEF Destroy
<1>17. CASE ClearPendingEvents
  <2>1. event_queue' = << >> /\ UNCHANGED <<timer, advance_lock, wait_set, client>>
    BY <1>17 DEF ClearPendingEvents, others
  <2>2. ~InCallback /\ ~InCallback'
    BY <1>17, <2>1 DEF ClearPendingEvents, InCallback, QueueInv, LockOK, Advancing
  <2>3. Sorted(event_queue)' /\ LoopingOK'
    BY <2>1 DEF Sorted, LoopingOK
  <2>4. RunningOK'
    BY <2>1, <2>2 DEF QueueInv, RunningOK
  <2>5. LockOK'
    BY <2>1 DEF QueueInv, LockOK, Advancing
  <2> QED
    BY <2>3, <2>4, <2>5 DEF QueueInv
<1>18. ASSUME NEW b \in BOOLEAN, SyncPause(b)
      PROVE  QueueInv'
  <2>1. client'.pc = "uwait" => client'.type \in Types
    BY <1>18 DEF SyncPause, others, QueueInv, LockOK
  <2> QED
    BY <1>18, <2>1, QueueRests DEF SyncPause
<1>19. CASE PauseStores
  <2>1. client'.pc = "uwait" => client'.type \in Types
    BY <1>19 DEF PauseStores, others, QueueInv, LockOK
  <2> QED
    BY <1>19, <2>1, QueueRests DEF PauseStores
<1>20. CASE PauseSets
  <2>1. client'.pc = "uwait" => client'.type \in Types
    BY <1>20 DEF PauseSets, others, QueueInv, LockOK
  <2> QED
    BY <1>20, <2>1, QueueRests DEF PauseSets
<1>21. CASE SyncPauseSets
  <2>1. client'.pc = "uwait" => client'.type \in Types
    BY <1>21 DEF SyncPauseSets, others, QueueInv, LockOK
  <2> QED
    BY <1>21, <2>1, QueueRests DEF SyncPauseSets
<1>22. CASE SyncPauseSpins
  <2>1. client'.pc = "uwait" => client'.type \in Types
    BY <1>22 DEF SyncPauseSpins, others, QueueInv, LockOK
  <2> QED
    BY <1>22, <2>1, QueueRests DEF SyncPauseSpins
<1>23. CASE ResetStores
  <2>1. client'.pc = "uwait" => client'.type \in Types
    BY <1>23 DEF ResetStores, others, QueueInv, LockOK
  <2> QED
    BY <1>23, <2>1, QueueRests DEF ResetStores
<1>24. CASE ResetSets
  <2>1. client'.pc = "uwait" => client'.type \in Types
    BY <1>24 DEF ResetSets, others, QueueInv, LockOK
  <2> QED
    BY <1>24, <2>1, QueueRests DEF ResetSets
<1>25. CASE ResetJoins
  <2>1. client'.pc = "uwait" => client'.type \in Types
    BY <1>25 DEF ResetJoins, others, QueueInv, LockOK
  <2> QED
    BY <1>25, <2>1, QueueRests DEF ResetJoins
<1> QED
  BY <1>1, <1>2, <1>3, <1>4, <1>5, <1>6, <1>7, <1>8, <1>9, <1>10, <1>11, <1>12, <1>13, <1>14, <1>15, <1>16, <1>17, <1>18, <1>19, <1>20, <1>21, <1>22, <1>23, <1>24, <1>25 DEF Next, TimerThread

\* No step makes the thread sleep past an event.
LEMMA WakeupStep ==
  ASSUME TypeOK, QueueInv, NoLostWakeup, Next
  PROVE  NoLostWakeup'
<1>1. CASE Tick
  BY <1>1 DEF Tick, others, NoLostWakeup
<1>2. CASE LoopConditions
  <2>1. timer'.pc \notin {"idle0", "idle", "sleep"}
    BY <1>2 DEF LoopConditions, Goto, TypeOK, Timers
  <2> QED
    BY <2>1 DEF NoLostWakeup
<1>3. CASE StorePausedSet
  <2>1. timer'.pc \notin {"idle0", "idle", "sleep"}
    BY <1>3 DEF StorePausedSet, Goto, TypeOK, Timers
  <2> QED
    BY <2>1 DEF NoLostWakeup
<1>4. CASE WaitForPauseEvent
  <2>1. timer'.pc \notin {"idle0", "idle", "sleep"}
    BY <1>4 DEF WaitForPauseEvent, Goto, TypeOK, Timers
  <2> QED
    BY <2>1 DEF NoLostWakeup
<1>5. CASE Advance
  <2>1. timer'.pc \notin {"idle0", "idle", "sleep"}
    BY <1>5 DEF Advance, TypeOK, Timers
  <2> QED
    BY <2>1 DEF NoLostWakeup
<1>6. CASE AdvanceReturns
  <2>1. event_queue' = event_queue /\ timer \in Timers
    BY <1>6 DEF AdvanceReturns, TypeOK
  <2>2. CASE event_queue = << >>
    BY <2>1, <2>2 DEF NoLostWakeup
  <2>3. CASE event_queue # << >>
    <3>1. event_queue \in Seq(Events) /\ Sorted(event_queue)
      BY DEF TypeOK, QueueInv
    <3>2. timer'.pc = "sleep" /\ timer'.next_time = event_queue[1].time
      BY <1>6, <2>1, <2>3, <3>1 DEF AdvanceReturns, Timers
    <3>3. ASSUME NEW i \in DOMAIN event_queue
          PROVE  event_queue[1].time <= event_queue[i].time
      <4>1. 1 \in DOMAIN event_queue /\ i \in Int /\ (i = 1 \/ 1 < i)
        BY <3>1
      <4>2. event_queue[1].time \in Int
        BY <3>1, <4>1, EventTimes
      <4> QED
        BY <3>1, <4>1, <4>2 DEF Sorted
    <3> QED
      BY <2>1, <3>2, <3>3 DEF NoLostWakeup
  <2> QED
    BY <2>2, <2>3
<1>7. CASE Callback
  <2>1. timer'.pc \notin {"idle0", "idle", "sleep"}
    BY <1>7 DEF Callback, Goto, TypeOK, Timers
  <2> QED
    BY <2>1 DEF NoLostWakeup
<1>8. ASSUME NEW d \in {0, 2}, AfterCallback(d)
      PROVE  NoLostWakeup'
  <2>1. timer'.pc \notin {"idle0", "idle", "sleep"}
    BY <1>8 DEF AfterCallback, TypeOK, Timers
  <2> QED
    BY <2>1 DEF NoLostWakeup
<1>9. CASE SetWaitSet
  BY <1>9 DEF SetWaitSet, Goto, others, NoLostWakeup, TypeOK, Timers
<1>10. CASE WaitForEvent
  <2>1. timer'.pc \notin {"idle0", "idle", "sleep"}
    BY <1>10 DEF WaitForEvent, TypeOK, Timers
  <2> QED
    BY <2>1 DEF NoLostWakeup
<1>11. CASE ClearWaitSet
  <2>1. timer'.pc \notin {"idle0", "idle", "sleep"}
    BY <1>11 DEF ClearWaitSet, Goto, TypeOK, Timers
  <2> QED
    BY <2>1 DEF NoLostWakeup
<1>12. ASSUME NEW type \in Types, NEW delay \in Delays, Schedule(type, delay)
      PROVE  NoLostWakeup'
  BY <1>12 DEF Schedule, NoLostWakeup
<1>13. CASE ScheduleSets
  BY <1>13 DEF ScheduleSets, NoLostWakeup
<1>14. ASSUME NEW type \in Types, NEW wait \in BOOLEAN, Unschedule(type, wait)
      PROVE  NoLostWakeup'
  <2>1. \A i \in DOMAIN event_queue' : \E j \in DOMAIN event_queue :
          event_queue'[i] = event_queue[j]
    BY <1>14, UnscheduleQueue
  <2>2. /\ timer'.pc = timer.pc /\ timer'.next_time = timer.next_time
        /\ event' = event /\ client.pc = "idle"
    BY <1>14 DEF Unschedule, TypeOK, Timers
  <2> QED
    BY <2>1, <2>2 DEF NoLostWakeup
<1>15. CASE UnscheduleWaits
  BY <1>15 DEF UnscheduleWaits, others, NoLostWakeup
<1>16. ASSUME NEW type \in Types, Destroy(type)
      PROVE  NoLostWakeup'
  BY <1>16 DEF Destroy, others, NoLostWakeup
<1>17. CASE ClearPendingEvents
  BY <1>17 DEF ClearPendingEvents, others, NoLostWakeup
<1>18. ASSUME NEW b \in BOOLEAN, SyncPause(b)
      PROVE  NoLostWakeup'
  BY <1>18 DEF SyncPause, others, NoLostWakeup
<1>19. CASE PauseStores
  BY <1>19 DEF PauseStores, others, NoLostWakeup
<1>20. CASE PauseSets
  BY <1>20 DEF PauseSets, others, NoLostWakeup
<1>21. CASE SyncPauseSets
  BY <1>21 DEF SyncPauseSets, others, NoLostWakeup
<1>22. CASE SyncPauseSpins
  BY <1>22 DEF SyncPauseSpins, others, NoLostWakeup
<1>23. CASE ResetStores
  BY <1>23 DEF ResetStores, others, NoLostWakeup
<1>24. CASE ResetSets
  BY <1>24 DEF ResetSets, others, NoLostWakeup
<1>25. CASE ResetJoins
  BY <1>25 DEF ResetJoins, others, NoLostWakeup
<1> QED
  BY <1>1, <1>2, <1>3, <1>4, <1>5, <1>6, <1>7, <1>8, <1>9, <1>10, <1>11, <1>12, <1>13, <1>14, <1>15, <1>16, <1>17, <1>18, <1>19, <1>20, <1>21, <1>22, <1>23, <1>24, <1>25 DEF Next, TimerThread

\* The handshake is kept: the flags agree again only when the thread has passed
\* the place that stores its answer.
LEMMA HandshakeStep ==
  ASSUME TypeOK, HandshakeOK, Next
  PROVE  HandshakeOK'
<1>1. CASE Tick
  BY <1>1 DEF Tick, clocks, pausing, others, HandshakeOK, TypeOK, Timers, Controls
<1>2. CASE LoopConditions
  BY <1>2 DEF LoopConditions, Goto, clocks, pausing, others, HandshakeOK, TypeOK, Timers, Controls
<1>3. CASE StorePausedSet
  BY <1>3 DEF StorePausedSet, Goto, clocks, pausing, others, HandshakeOK, TypeOK, Timers, Controls
<1>4. CASE WaitForPauseEvent
  BY <1>4 DEF WaitForPauseEvent, Goto, clocks, pausing, others, HandshakeOK, TypeOK, Timers, Controls
<1>5. CASE Advance
  BY <1>5 DEF Advance, clocks, pausing, others, HandshakeOK, TypeOK, Timers, Controls
<1>6. CASE AdvanceReturns
  BY <1>6 DEF AdvanceReturns, clocks, pausing, others, HandshakeOK, TypeOK, Timers, Controls
<1>7. CASE Callback
  BY <1>7 DEF Callback, Goto, clocks, pausing, others, HandshakeOK, TypeOK, Timers, Controls
<1>8. ASSUME NEW d \in {0, 2}, AfterCallback(d)
      PROVE  HandshakeOK'
  BY <1>8 DEF AfterCallback, clocks, pausing, others, HandshakeOK, TypeOK, Timers, Controls
<1>9. CASE SetWaitSet
  BY <1>9 DEF SetWaitSet, Goto, clocks, pausing, others, HandshakeOK, TypeOK, Timers, Controls
<1>10. CASE WaitForEvent
  BY <1>10 DEF WaitForEvent, clocks, pausing, others, HandshakeOK, TypeOK, Timers, Controls
<1>11. CASE ClearWaitSet
  BY <1>11 DEF ClearWaitSet, Goto, clocks, pausing, others, HandshakeOK, TypeOK, Timers, Controls
<1>12. ASSUME NEW type \in Types, NEW delay \in Delays, Schedule(type, delay)
      PROVE  HandshakeOK'
  BY <1>12 DEF Schedule, clocks, pausing, others, HandshakeOK, TypeOK, Timers, Controls
<1>13. CASE ScheduleSets
  BY <1>13 DEF ScheduleSets, clocks, pausing, others, HandshakeOK, TypeOK, Timers, Controls
<1>14. ASSUME NEW type \in Types, NEW wait \in BOOLEAN, Unschedule(type, wait)
      PROVE  HandshakeOK'
  BY <1>14 DEF Unschedule, clocks, pausing, others, HandshakeOK, TypeOK, Timers, Controls
<1>15. CASE UnscheduleWaits
  BY <1>15 DEF UnscheduleWaits, clocks, pausing, others, HandshakeOK, TypeOK, Timers, Controls
<1>16. ASSUME NEW type \in Types, Destroy(type)
      PROVE  HandshakeOK'
  BY <1>16 DEF Destroy, clocks, pausing, others, HandshakeOK, TypeOK, Timers, Controls
<1>17. CASE ClearPendingEvents
  BY <1>17 DEF ClearPendingEvents, clocks, pausing, others, HandshakeOK, TypeOK, Timers, Controls
<1>18. ASSUME NEW b \in BOOLEAN, SyncPause(b)
      PROVE  HandshakeOK'
  BY <1>18 DEF SyncPause, clocks, pausing, others, HandshakeOK, TypeOK, Timers, Controls
<1>19. CASE PauseStores
  BY <1>19 DEF PauseStores, clocks, pausing, others, HandshakeOK, TypeOK, Timers, Controls
<1>20. CASE PauseSets
  BY <1>20 DEF PauseSets, clocks, pausing, others, HandshakeOK, TypeOK, Timers, Controls
<1>21. CASE SyncPauseSets
  BY <1>21 DEF SyncPauseSets, clocks, pausing, others, HandshakeOK, TypeOK, Timers, Controls
<1>22. CASE SyncPauseSpins
  BY <1>22 DEF SyncPauseSpins, clocks, pausing, others, HandshakeOK, TypeOK, Timers, Controls
<1>23. CASE ResetStores
  BY <1>23 DEF ResetStores, clocks, pausing, others, HandshakeOK, TypeOK, Timers, Controls
<1>24. CASE ResetSets
  BY <1>24 DEF ResetSets, clocks, pausing, others, HandshakeOK, TypeOK, Timers, Controls
<1>25. CASE ResetJoins
  BY <1>25 DEF ResetJoins, clocks, pausing, others, HandshakeOK, TypeOK, Timers, Controls
<1> QED
  BY <1>1, <1>2, <1>3, <1>4, <1>5, <1>6, <1>7, <1>8, <1>9, <1>10, <1>11, <1>12, <1>13, <1>14, <1>15, <1>16, <1>17, <1>18, <1>19, <1>20, <1>21, <1>22, <1>23, <1>24, <1>25 DEF Next, TimerThread

\* What UnscheduleIsFinal says of one type, in the terms of this module.
LEMMA FinalMeansSilent ==
  UnscheduleIsFinal <=>
    \A type \in unscheduled \ SelfSched :
      /\ \A i \in DOMAIN event_queue : event_queue[i].type # type
      /\ ~(InCallback /\ timer.type = type)
  BY DEF UnscheduleIsFinal, Advancing, InCallback

\* The same of the next state.
LEMMA FinalMeansSilentNext ==
  UnscheduleIsFinal' <=>
    \A type \in unscheduled' \ SelfSched :
      /\ \A i \in DOMAIN event_queue' : event_queue'[i].type # type
      /\ ~(InCallback' /\ timer'.type = type)
  BY DEF UnscheduleIsFinal, Advancing, InCallback

\* The steps that put no event into the queue and begin no callback.
LEMMA SilenceRests ==
  ASSUME SilenceOK, UNCHANGED <<client, unscheduled>>,
         \A i \in DOMAIN event_queue' : \E j \in DOMAIN event_queue :
           event_queue'[i] = event_queue[j],
         InCallback' => /\ InCallback /\ timer'.type = timer.type
                        /\ timer.changed => timer'.changed
  PROVE  SilenceOK'
  BY FinalMeansSilent, FinalMeansSilentNext DEF SilenceOK, Silent

\* A type that was unscheduled stays silent.
LEMMA SilenceStep ==
  ASSUME TypeOK, QueueInv, SilenceOK, Next
  PROVE  SilenceOK'
<1>1. CASE Tick
  <2>1. /\ event_queue' = event_queue \/ event_queue' = << >>
        /\ UNCHANGED <<client, unscheduled>>
    BY <1>1 DEF Tick, others
  <2>2. InCallback' => /\ InCallback /\ timer'.type = timer.type
                       /\ timer.changed => timer'.changed
    BY <1>1 DEF Tick, InCallback, TypeOK, Timers
  <2> QED
    BY <2>1, <2>2, SilenceRests
<1>2. CASE LoopConditions
  <2>1. /\ event_queue' = event_queue \/ event_queue' = << >>
        /\ UNCHANGED <<client, unscheduled>>
    BY <1>2 DEF LoopConditions, others
  <2>2. InCallback' => /\ InCallback /\ timer'.type = timer.type
                       /\ timer.changed => timer'.changed
    BY <1>2 DEF LoopConditions, Goto, InCallback, TypeOK, Timers
  <2> QED
    BY <2>1, <2>2, SilenceRests
<1>3. CASE StorePausedSet
  <2>1. /\ event_queue' = event_queue \/ event_queue' = << >>
        /\ UNCHANGED <<client, unscheduled>>
    BY <1>3 DEF StorePausedSet, others
  <2>2. InCallback' => /\ InCallback /\ timer'.type = timer.type
                       /\ timer.changed => timer'.changed
    BY <1>3 DEF StorePausedSet, Goto, InCallback, TypeOK, Timers
  <2> QED
    BY <2>1, <2>2, SilenceRests
<1>4. CASE WaitForPauseEvent
  <2>1. /\ event_queue' = event_queue \/ event_queue' = << >>
        /\ UNCHANGED <<client, unscheduled>>
    BY <1>4 DEF WaitForPauseEvent, others
  <2>2. InCallback' => /\ InCallback /\ timer'.type = timer.type
                       /\ timer.changed => timer'.changed
    BY <1>4 DEF WaitForPauseEvent, Goto, InCallback, TypeOK, Timers
  <2> QED
    BY <2>1, <2>2, SilenceRests
<1>5. CASE Advance
  <2>1. /\ 1 \in DOMAIN event_queue
        /\ timer' = [timer EXCEPT !.pc = "callback", !.type = event_queue[1].type]
    BY <1>5, AdvanceQueue DEF TypeOK
  <2>2. timer'.type = event_queue[1].type
    BY <2>1 DEF TypeOK, Timers
  <2>3. \A i \in DOMAIN event_queue' : \E j \in DOMAIN event_queue :
          event_queue'[i].type = event_queue[j].type
    <3>1. event_queue[1] \in Events
      BY <2>1 DEF TypeOK
    <3>2. [event_queue[1] EXCEPT !.running = TRUE].type = event_queue[1].type
      BY <3>1 DEF Events
    <3> QED
      BY <1>5, <2>1, <3>2, AdvanceQueue
  <2>4. UNCHANGED <<client, unscheduled>>
    BY <1>5 DEF Advance, others
  <2> QED
    BY <2>1, <2>2, <2>3, <2>4, FinalMeansSilent, FinalMeansSilentNext
    DEF SilenceOK, Silent
<1>6. CASE AdvanceReturns
  <2>1. /\ event_queue' = event_queue \/ event_queue' = << >>
        /\ UNCHANGED <<client, unscheduled>>
    BY <1>6 DEF AdvanceReturns, others
  <2>2. InCallback' => /\ InCallback /\ timer'.type = timer.type
                       /\ timer.changed => timer'.changed
    BY <1>6 DEF AdvanceReturns, InCallback, TypeOK, Timers
  <2> QED
    BY <2>1, <2>2, SilenceRests
<1>7. CASE Callback
  <2>1. \A i \in DOMAIN event_queue' :
          \/ \E j \in DOMAIN event_queue : event_queue'[i] = event_queue[j]
          \/ timer.type \in SelfSched /\ event_queue'[i].type = timer.type
    BY <1>7, CallbackQueue
  <2>2. /\ InCallback /\ timer'.type = timer.type /\ timer'.changed = timer.changed
        /\ UNCHANGED <<client, unscheduled>>
    BY <1>7 DEF Callback, Goto, others, InCallback, TypeOK, Timers
  <2> QED
    BY <2>1, <2>2, FinalMeansSilent, FinalMeansSilentNext DEF SilenceOK, Silent
<1>8. ASSUME NEW d \in {0, 2}, AfterCallback(d)
      PROVE  SilenceOK'
  <2>1. \A i \in DOMAIN event_queue' :
          \/ \E j \in DOMAIN event_queue : event_queue'[i] = event_queue[j]
          \/ ~timer.changed /\ event_queue'[i].type = timer.type
    BY <1>8, AfterCallbackQueue
  <2>2. /\ InCallback /\ ~InCallback'
        /\ UNCHANGED <<client, unscheduled>>
    BY <1>8 DEF AfterCallback, others, InCallback, TypeOK, Timers
  <2> QED
    BY <2>1, <2>2, FinalMeansSilent, FinalMeansSilentNext DEF SilenceOK, Silent
<1>9. CASE SetWaitSet
  <2>1. /\ event_queue' = event_queue \/ event_queue' = << >>
        /\ UNCHANGED <<client, unscheduled>>
    BY <1>9 DEF SetWaitSet, others
  <2>2. InCallback' => /\ InCallback /\ timer'.type = timer.type
                       /\ timer.changed => timer'.changed
    BY <1>9 DEF SetWaitSet, Goto, InCallback, TypeOK, Timers
  <2> QED
    BY <2>1, <2>2, SilenceRests
<1>10. CASE WaitForEvent
  <2>1. /\ event_queue' = event_queue \/ event_queue' = << >>
        /\ UNCHANGED <<client, unscheduled>>
    BY <1>10 DEF WaitForEvent, others
  <2>2. InCallback' => /\ InCallback /\ timer'.type = timer.type
                       /\ timer.changed => timer'.changed
    BY <1>10 DEF WaitForEvent, InCallback, TypeOK, Timers
  <2> QED
    BY <2>1, <2>2, SilenceRests
<1>11. CASE ClearWaitSet
  <2>1. /\ event_queue' = event_queue \/ event_queue' = << >>
        /\ UNCHANGED <<client, unscheduled>>
    BY <1>11 DEF ClearWaitSet, others
  <2>2. InCallback' => /\ InCallback /\ timer'.type = timer.type
                       /\ timer.changed => timer'.changed
    BY <1>11 DEF ClearWaitSet, Goto, InCallback, TypeOK, Timers
  <2> QED
    BY <2>1, <2>2, SilenceRests
<1>12. ASSUME NEW type \in Types, NEW delay \in Delays, Schedule(type, delay)
      PROVE  SilenceOK'
  <2>1. \A i \in DOMAIN event_queue' :
          \/ \E j \in DOMAIN event_queue : event_queue'[i] = event_queue[j]
          \/ event_queue'[i].type = type
    BY <1>12, ScheduleQueue
  <2>2. /\ timer' = timer /\ unscheduled' = unscheduled \ {type}
        /\ client'.pc = "set" /\ InCallback' = InCallback
    BY <1>12 DEF Schedule, InCallback
  <2> QED
    BY <2>1, <2>2, FinalMeansSilent, FinalMeansSilentNext DEF SilenceOK
<1>13. CASE ScheduleSets
  <2>1. /\ UNCHANGED <<event_queue, timer, unscheduled>> /\ client'.pc = "idle"
        /\ InCallback' = InCallback
    BY <1>13 DEF ScheduleSets, InCallback, TypeOK, Clients
  <2> QED
    BY <2>1, FinalMeansSilent, FinalMeansSilentNext DEF SilenceOK
<1>14. ASSUME NEW type \in Types, NEW wait \in BOOLEAN, Unschedule(type, wait)
      PROVE  SilenceOK'
  <2>1. /\ \A i \in DOMAIN event_queue' : event_queue'[i].type # type
        /\ \A i \in DOMAIN event_queue' : \E j \in DOMAIN event_queue :
             event_queue'[i] = event_queue[j]
    BY <1>14, UnscheduleQueue
  <2>2. /\ timer'.type = timer.type /\ InCallback' = InCallback
        /\ timer.type = type => timer'.changed
        /\ unscheduled' = unscheduled
    BY <1>14 DEF Unschedule, InCallback, TypeOK, Timers
  <2>3. client'.pc = "uwait" => client'.type = type
    BY <1>14 DEF Unschedule
  <2>4. UnscheduleIsFinal'
    BY <2>1, <2>2, FinalMeansSilent, FinalMeansSilentNext DEF SilenceOK
  <2> QED
    BY <2>1, <2>2, <2>3, <2>4 DEF SilenceOK, Silent
<1>15. CASE UnscheduleWaits
  <2>1. /\ UNCHANGED <<event_queue, timer>> /\ client.pc = "uwait"
        /\ client'.pc = "idle" /\ unscheduled' = unscheduled \cup {client.type}
        /\ InCallback' = InCallback
    BY <1>15 DEF UnscheduleWaits, InCallback
  <2>2. ~InCallback
    BY <1>15 DEF UnscheduleWaits, QueueInv, LockOK, InCallback, Advancing
  <2> QED
    BY <2>1, <2>2, FinalMeansSilent, FinalMeansSilentNext DEF SilenceOK, Silent
<1>16. ASSUME NEW type \in Types, Destroy(type)
      PROVE  SilenceOK'
  <2>1. /\ event_queue' = event_queue \/ event_queue' = << >>
        /\ UNCHANGED <<client, unscheduled>>
    BY <1>16 DEF Destroy, others
  <2>2. InCallback' => /\ InCallback /\ timer'.type = timer.type
                       /\ timer.changed => timer'.changed
    BY <1>16 DEF Destroy, InCallback, TypeOK, Timers
  <2> QED
    BY <2>1, <2>2, SilenceRests
<1>17. CASE ClearPendingEvents
  <2>1. /\ event_queue' = event_queue \/ event_queue' = << >>
        /\ UNCHANGED <<client, unscheduled>>
    BY <1>17 DEF ClearPendingEvents, others
  <2>2. InCallback' => /\ InCallback /\ timer'.type = timer.type
                       /\ timer.changed => timer'.changed
    BY <1>17 DEF ClearPendingEvents, InCallback, TypeOK, Timers
  <2> QED
    BY <2>1, <2>2, SilenceRests
<1>18. ASSUME NEW b \in BOOLEAN, SyncPause(b)
      PROVE  SilenceOK'
  <2>1. /\ event_queue' = event_queue \/ event_queue' = << >>
        /\ UNCHANGED <<client, unscheduled>>
    BY <1>18 DEF SyncPause, others
  <2>2. InCallback' => /\ InCallback /\ timer'.type = timer.type
                       /\ timer.changed => timer'.changed
    BY <1>18 DEF SyncPause, InCallback, TypeOK, Timers
  <2> QED
    BY <2>1, <2>2, SilenceRests
<1>19. CASE PauseStores
  <2>1. /\ event_queue' = event_queue \/ event_queue' = << >>
        /\ UNCHANGED <<client, unscheduled>>
    BY <1>19 DEF PauseStores, others
  <2>2. InCallback' => /\ InCallback /\ timer'.type = timer.type
                       /\ timer.changed => timer'.changed
    BY <1>19 DEF PauseStores, InCallback, TypeOK, Timers
  <2> QED
    BY <2>1, <2>2, SilenceRests
<1>20. CASE PauseSets
  <2>1. /\ event_queue' = event_queue \/ event_queue' = << >>
        /\ UNCHANGED <<client, unscheduled>>
    BY <1>20 DEF PauseSets, others
  <2>2. InCallback' => /\ InCallback /\ timer'.type = timer.type
                       /\ timer.changed => timer'.changed
    BY <1>20 DEF PauseSets, InCallback, TypeOK, Timers
  <2> QED
    BY <2>1, <2>2, SilenceRests
<1>21. CASE SyncPauseSets
  <2>1. /\ event_queue' = event_queue \/ event_queue' = << >>
        /\ UNCHANGED <<client, unscheduled>>
    BY <1>21 DEF SyncPauseSets, others
  <2>2. InCallback' => /\ InCallback /\ timer'.type = timer.type
                       /\ timer.changed => timer'.changed
    BY <1>21 DEF SyncPauseSets, InCallback, TypeOK, Timers
  <2> QED
    BY <2>1, <2>2, SilenceRests
<1>22. CASE SyncPauseSpins
  <2>1. /\ event_queue' = event_queue \/ event_queue' = << >>
        /\ UNCHANGED <<client, unscheduled>>
    BY <1>22 DEF SyncPauseSpins, others
  <2>2. InCallback' => /\ InCallback /\ timer'.type = timer.type
                       /\ timer.changed => timer'.changed
    BY <1>22 DEF SyncPauseSpins, InCallback, TypeOK, Timers
  <2> QED
    BY <2>1, <2>2, SilenceRests
<1>23. CASE ResetStores
  <2>1. /\ event_queue' = event_queue \/ event_queue' = << >>
        /\ UNCHANGED <<client, unscheduled>>
    BY <1>23 DEF ResetStores, others
  <2>2. InCallback' => /\ InCallback /\ timer'.type = timer.type
                       /\ timer.changed => timer'.changed
    BY <1>23 DEF ResetStores, InCallback, TypeOK, Timers
  <2> QED
    BY <2>1, <2>2, SilenceRests
<1>24. CASE ResetSets
  <2>1. /\ event_queue' = event_queue \/ event_queue' = << >>
        /\ UNCHANGED <<client, unscheduled>>
    BY <1>24 DEF ResetSets, others
  <2>2. InCallback' => /\ InCallback /\ timer'.type = timer.type
                       /\ timer.changed => timer'.changed
    BY <1>24 DEF ResetSets, InCallback, TypeOK, Timers
  <2> QED
    BY <2>1, <2>2, SilenceRests
<1>25. CASE ResetJoins
  <2>1. /\ event_queue' = event_queue \/ event_queue' = << >>
        /\ UNCHANGED <<client, unscheduled>>
    BY <1>25 DEF ResetJoins, others
  <2>2. InCallback' => /\ InCallback /\ timer'.type = timer.type
                       /\ timer.changed => timer'.changed
    BY <1>25 DEF ResetJoins, InCallback, TypeOK, Timers
  <2> QED
    BY <2>1, <2>2, SilenceRests
<1> QED
  BY <1>1, <1>2, <1>3, <1>4, <1>5, <1>6, <1>7, <1>8, <1>9, <1>10, <1>11, <1>12, <1>13, <1>14, <1>15, <1>16, <1>17, <1>18, <1>19, <1>20, <1>21, <1>22, <1>23, <1>24, <1>25 DEF Next, TimerThread

-----------------------------------------------------------------------------
(***************************************************************************)
(* The theorems.                                                           *)
(***************************************************************************)

\* The thread starts with an empty queue, outside of its loop.
LEMMA InvInit == Init => Inv
<1> SUFFICES ASSUME Init
             PROVE  Inv
  OBVIOUS
<1> USE TimingAssumption DEF Init
<1>1. TypeOK
  <2>1. timer \in Timers /\ client \in Clients /\ control \in Controls
    BY DEF Timers, Clients, Controls, Ticks
  <2>2. event_queue \in Seq(Events) /\ Len(event_queue) <= MaxEvents
    OBVIOUS
  <2>3. /\ now \in 0..Horizon /\ pause_end_time \in 0..Horizon
        /\ pauses \in 0..MaxPauses
    OBVIOUS
  <2>4. alive \subseteq Types /\ unscheduled \subseteq Types
    OBVIOUS
  <2> QED
    BY <2>1, <2>2, <2>3, <2>4 DEF TypeOK
<1>2. QueueInv
  BY DEF QueueInv, Sorted, LoopingOK, RunningOK, LockOK, InCallback, Advancing
<1>3. NoLostWakeup
  BY DEF NoLostWakeup
<1>4. SilenceOK
  BY DEF SilenceOK, UnscheduleIsFinal
<1>5. HandshakeOK
  BY DEF HandshakeOK
<1> QED
  BY <1>1, <1>2, <1>3, <1>4, <1>5 DEF Inv

\* Every step keeps the invariant.
LEMMA InvStep == Inv /\ [Next]_vars => Inv'
<1>1. ASSUME Inv, Next
      PROVE  Inv'
  BY <1>1, TypeStep, QueueStep, WakeupStep, SilenceStep, HandshakeStep DEF Inv
<1>2. ASSUME Inv, UNCHANGED vars
      PROVE  Inv'
  <2> USE <1>2 DEF vars
  <2>1. TypeOK'
    BY DEF Inv, TypeOK
  <2>2. QueueInv'
    BY QueueRests DEF Inv, QueueInv, LockOK
  <2>3. NoLostWakeup'
    BY DEF Inv, NoLostWakeup
  <2>4. SilenceOK'
    BY DEF Inv, SilenceOK, Silent, UnscheduleIsFinal, InCallback, Advancing
  <2>5. HandshakeOK'
    BY DEF Inv, HandshakeOK
  <2> QED
    BY <2>1, <2>2, <2>3, <2>4, <2>5 DEF Inv
<1> QED
  BY <1>1, <1>2

\* What the callers were told follows from where the thread can be.
LEMMA InvAnswers == Inv => AnswersHold
<1> SUFFICES ASSUME Inv
             PROVE  AnswersHold
  OBVIOUS
<1>1. UnscheduleIsFinal
  BY DEF Inv, SilenceOK
<1>2. NoPendingMeansDone
  BY DEF Inv, QueueInv, LockOK, NoPendingMeansDone, Advancing
<1>3. PauseHolds
  BY DEF Inv, TypeOK, HandshakeOK, PauseHolds, PauseReturnsPaused, Advancing
<1> QED
  BY <1>1, <1>2, <1>3 DEF AnswersHold

\* ThreadLoop(), Advance() and ScheduleEvent(): while the timing thread sleeps,
\* the queue holds nothing earlier than the time it sleeps for, unless event is
\* set or the client that scheduled it is about to set it.
THEOREM NothingIsOverlooked == Spec => []NoLostWakeup
<1>1. Inv => NoLostWakeup
  BY DEF Inv
<1> QED
  BY InvInit, InvStep, <1>1, PTL DEF Spec

\* UnscheduleEvent(Wait), HasPendingEvents() and SyncPause(true): what a caller
\* was told holds, whatever the thread, the client and the system thread do.
THEOREM AnswersAreKept == Spec => []AnswersHold
  BY InvInit, InvStep, InvAnswers, PTL DEF Spec

-----------------------------------------------------------------------------
(***************************************************************************)
(* Every thread is linked where its fields say, and the cores' choices are *)
(* right: proofs for every number of cores, every set of threads, and any  *)
(* priorities, masks and processes.                                        *)
(*                                                                         *)
(* The invariant has these parts.  Valid: the queues link exactly the      *)
(* threads that belong into them, ordered by priority.  Owned: a core's    *)
(* choice is active there, or may run nowhere else, so that no two cores   *)
(* choose the same thread.  Placed, while nothing is pinned: choices are   *)
(* fronts of queues, and an idle core has nothing to take, or a later one  *)
(* took the thread from under it.  The rest says what pinning relies on: a *)
(* pinned thread is its process's, may run on its core only and runs on no *)
(* other, and knows the mask it will get back.                             *)
(*                                                                         *)
(* The yields rely on two more.  SeatInv: a thread that may call the       *)
(* kernel, or is a core's choice, is active on a core or pinned.           *)
(* MatchInv, for one process: a thread whose yield count matches has a     *)
(* core, and no other thread of its priority is there.  The second holds   *)
(* because a step counts whom it brings to a core, or finds the core idle. *)
(***************************************************************************)

-----------------------------------------------------------------------------
(* Queues of threads.                                                      *)

Orders == [Threads -> Int]

\* A queue that links each thread of a set once, ordered by priority.
Ordered(q, p) == \A i, j \in 1..Len(q) : i < j => q[i] # q[j] /\ p[q[i]] <= p[q[j]]

Links(q, S, p) == q \in Seq(Threads) /\ Range(q) = S /\ Ordered(q, p)

\* What is kept of a queue.
LEMMA KeptThreads ==
  ASSUME NEW q \in Seq(Threads), NEW P \in SUBSET (DOMAIN q), NEW p
  PROVE  /\ Keep(q, P) \in Seq(Threads)
         /\ Ordered(q, p) => Ordered(Keep(q, P), p)
         /\ Range(Keep(q, P)) = {q[i] : i \in P}
<1> DEFINE c == Cardinality(P)
           k == Keep(q, P)
           At(n) == CHOOSE i \in P : Rank(P, i) = n
<1>1. DOMAIN q = 1..Len(q) /\ Len(q) \in Nat
  OBVIOUS
<1>2. P \in SUBSET (1..Len(q))
  BY <1>1
<1>5. k = [n \in 1..c |-> q[At(n)]]
  BY DEF Keep
<1>6. /\ IsFiniteSet(P) /\ c \in Nat /\ c <= Len(q)
      /\ \A i, j \in P : i < j => Rank(P, i) < Rank(P, j)
      /\ \A i \in P : Rank(P, i) \in 1..c
      /\ \A n \in 1..c : \E i \in P : Rank(P, i) = n
  BY <1>1, <1>2, RanksAreTheNumbers
<1>7. \A n \in 1..c : At(n) \in P /\ Rank(P, At(n)) = n
  BY <1>6
<1>8. \A i \in P : At(Rank(P, i)) = i
  <2> SUFFICES ASSUME NEW i \in P PROVE At(Rank(P, i)) = i
    OBVIOUS
  <2>1. At(Rank(P, i)) \in P /\ Rank(P, At(Rank(P, i))) = Rank(P, i)
    BY <1>6, <1>7
  <2> DEFINE a == At(Rank(P, i))
  <2> HIDE DEF a, At
  <2>2. a \in P /\ Rank(P, a) = Rank(P, i)
    BY <2>1 DEF a
  <2>3. a \in Int /\ i \in Int /\ Rank(P, a) \in Int
    BY <1>2, <1>6, <2>2
  <2>4. ~(a < i) /\ ~(i < a)
    BY <1>6, <2>2, <2>3
  <2> QED
    BY <2>3, <2>4 DEF a
<1> HIDE DEF At, c, k
<1>9. k \in Seq(Threads) /\ Len(k) = c /\ DOMAIN k = 1..c
  <2>1. \A n \in 1..c : q[At(n)] \in Threads
    BY <1>1, <1>2, <1>7
  <2>2. k \in [1..c -> Threads]
    BY <1>5, <2>1
  <2> QED
    BY <1>6, <2>2
<1>11. ASSUME Ordered(q, p) PROVE Ordered(k, p)
  <2> SUFFICES ASSUME NEW n \in 1..c, NEW m \in 1..c, n < m
               PROVE  k[n] # k[m] /\ p[k[n]] <= p[k[m]]
    BY <1>9 DEF Ordered
  <2>1. k[n] = q[At(n)] /\ k[m] = q[At(m)]
    BY <1>5
  <2>2. At(n) \in P /\ Rank(P, At(n)) = n /\ At(m) \in P /\ Rank(P, At(m)) = m
    BY <1>7
  <2>3. At(n) \in Int /\ At(m) \in Int
    BY <1>2, <2>2
  <2>4. At(n) # At(m)
    BY <2>2, <1>6
  <2>5. ~(At(m) < At(n))
    <3>1. At(m) < At(n) => m < n
      BY <1>6, <2>2
    <3> QED
      BY <1>6, <3>1
  <2>6. At(n) < At(m)
    BY <2>3, <2>4, <2>5
  <2>7. At(n) \in 1..Len(q) /\ At(m) \in 1..Len(q)
    BY <1>2, <2>2
  <2> QED
    BY <1>11, <2>1, <2>6, <2>7 DEF Ordered
<1>12. ASSUME NEW n \in 1..c PROVE \E i \in P : k[n] = q[i]
  BY <1>5, <1>7
<1>13. ASSUME NEW i \in P PROVE \E n \in 1..c : k[n] = q[i]
  <2>1. Rank(P, i) \in 1..c /\ At(Rank(P, i)) = i
    BY <1>6, <1>8
  <2>2. k[Rank(P, i)] = q[i]
    BY <1>5, <2>1
  <2> QED
    BY <2>1, <2>2
<1>14. Range(k) = {q[i] : i \in P}
  <2>1. Range(k) = {k[n] : n \in 1..c}
    BY <1>9 DEF Range
  <2>2. \A n \in 1..c : k[n] \in {q[i] : i \in P}
    BY <1>12
  <2>3. \A i \in P : q[i] \in {k[n] : n \in 1..c}
    BY <1>13
  <2> QED BY <2>1, <2>2, <2>3
<1> QED
  BY <1>9, <1>11, <1>14 DEF k

\* Selecting the threads of a set.
LEMMA Selected ==
  ASSUME NEW q, NEW S, NEW p, Links(q, S, p), NEW P \in SUBSET (DOMAIN q), NEW T,
         \A i \in DOMAIN q : i \in P <=> q[i] \in T
  PROVE  Links(Keep(q, P), S \cap T, p)
<1>1. q \in Seq(Threads) /\ Range(q) = S /\ Ordered(q, p)
  BY DEF Links
<1>2. {q[i] : i \in P} = S \cap T
  BY <1>1 DEF Range
<1> QED BY <1>1, <1>2, KeptThreads DEF Links

LEMMA RemovedLinks ==
  ASSUME NEW q, NEW S, NEW p, Links(q, S, p), NEW t
  PROVE  Links(Removed(q, t), S \ {t}, p)
<1> DEFINE P == {i \in DOMAIN q : q[i] # t}
           T == S \ {t}
<1>1. \A i \in DOMAIN q : i \in P <=> q[i] \in T
  <2>1. \A i \in DOMAIN q : q[i] \in S
    BY DEF Links, Range
  <2> QED BY <2>1
<1>2. P \in SUBSET (DOMAIN q)
  OBVIOUS
<1>3. Removed(q, t) = Keep(q, P)
  BY DEF Removed
<1>4. S \cap T = S \ {t}
  OBVIOUS
<1> HIDE DEF P, T
<1> QED BY <1>1, <1>2, <1>3, <1>4, Selected

\* A thread between the threads before it and those behind it.
LEMMA Joined ==
  ASSUME NEW p \in Orders, NEW t \in Threads,
         NEW a, NEW A, Links(a, A, p), NEW b, NEW B, Links(b, B, p),
         A \cap B = {}, t \notin A, t \notin B,
         \A x \in A : p[x] <= p[t], \A y \in B : p[t] <= p[y]
  PROVE  Links(a \o <<t>> \o b, A \cup {t} \cup B, p)
<1> DEFINE q == a \o <<t>> \o b
           m == Len(a)
           n == Len(b)
<1>1. /\ a \in Seq(Threads) /\ b \in Seq(Threads) /\ Range(a) = A /\ Range(b) = B
      /\ Ordered(a, p) /\ Ordered(b, p)
  BY DEF Links
<1>2. /\ q \in Seq(Threads) /\ Len(q) = m + 1 + n /\ m \in Nat /\ n \in Nat
      /\ DOMAIN a = 1..m /\ DOMAIN b = 1..n /\ DOMAIN q = 1..(m + 1 + n)
  BY <1>1
<1>3. \A i \in 1..(m + 1 + n) :
         /\ i <= m => q[i] = a[i]
         /\ i = m + 1 => q[i] = t
         /\ i > m + 1 => q[i] = b[i - (m + 1)]
  BY <1>1
<1>4. \A i \in 1..m : a[i] \in A
  BY <1>1, <1>2 DEF Range
<1>5. \A i \in 1..n : b[i] \in B
  BY <1>1, <1>2 DEF Range
<1>6. A \subseteq Threads /\ B \subseteq Threads
  BY <1>1 DEF Range
<1>7. p[t] \in Int /\ (\A x \in A : p[x] \in Int) /\ (\A y \in B : p[y] \in Int)
  BY <1>6 DEF Orders
<1> HIDE DEF q, m, n
<1>8. Ordered(q, p)
  <2> SUFFICES ASSUME NEW i \in 1..(m + 1 + n), NEW j \in 1..(m + 1 + n), i < j
               PROVE  q[i] # q[j] /\ p[q[i]] <= p[q[j]]
    BY <1>2 DEF Ordered
  <2>1. CASE j <= m
    <3>1. i \in 1..m /\ j \in 1..m /\ i <= m
      BY <1>2, <2>1
    <3>2. q[i] = a[i] /\ q[j] = a[j]
      BY <1>3, <3>1
    <3> QED BY <1>1, <3>1, <3>2 DEF Ordered, m
  <2>2. CASE j = m + 1
    <3>1. i \in 1..m /\ i <= m
      BY <1>2, <2>2
    <3>2. q[i] = a[i] /\ q[j] = t /\ a[i] \in A
      BY <1>3, <1>4, <3>1, <2>2
    <3> QED BY <3>2
  <2>3. CASE j > m + 1 /\ i <= m
    <3>1. i \in 1..m /\ j - (m + 1) \in 1..n
      BY <1>2, <2>3
    <3>2. q[i] = a[i] /\ q[j] = b[j - (m + 1)] /\ a[i] \in A /\ b[j - (m + 1)] \in B
      BY <1>3, <1>4, <1>5, <3>1, <2>3
    <3>3. p[q[i]] <= p[t] /\ p[t] <= p[q[j]] /\ p[q[i]] \in Int /\ p[q[j]] \in Int
      BY <1>7, <3>2
    <3>4. p[q[i]] <= p[q[j]]
      BY <1>7, <3>3
    <3> QED BY <3>2, <3>4
  <2>4. CASE j > m + 1 /\ i = m + 1
    <3>1. j - (m + 1) \in 1..n
      BY <1>2, <2>4
    <3>2. q[i] = t /\ q[j] = b[j - (m + 1)] /\ b[j - (m + 1)] \in B
      BY <1>3, <1>5, <3>1, <2>4
    <3> QED BY <3>2
  <2>5. CASE j > m + 1 /\ i > m + 1
    <3>1. j - (m + 1) \in 1..n /\ i - (m + 1) \in 1..n /\ i - (m + 1) < j - (m + 1)
      BY <1>2, <2>5
    <3>2. q[i] = b[i - (m + 1)] /\ q[j] = b[j - (m + 1)]
      BY <1>3, <2>5
    <3> QED BY <1>1, <3>1, <3>2 DEF Ordered, n
  <2> QED BY <1>2, <2>1, <2>2, <2>3, <2>4, <2>5
<1>9. Range(q) = A \cup {t} \cup B
  <2>1. ASSUME NEW i \in 1..(m + 1 + n) PROVE q[i] \in A \cup {t} \cup B
    <3>1. CASE i <= m
      BY <1>2, <1>3, <1>4, <3>1
    <3>2. CASE i = m + 1
      BY <1>2, <1>3, <3>2
    <3>3. CASE i > m + 1
      <4>1. i - (m + 1) \in 1..n
        BY <1>2, <3>3
      <4> QED BY <1>3, <1>5, <4>1, <3>3
    <3> QED BY <1>2, <3>1, <3>2, <3>3
  <2>2. ASSUME NEW x \in A PROVE \E i \in 1..(m + 1 + n) : q[i] = x
    <3>1. PICK i \in 1..m : a[i] = x
      BY <1>1, <1>2 DEF Range
    <3>2. i \in 1..(m + 1 + n) /\ i <= m
      BY <1>2
    <3> QED BY <1>3, <3>1, <3>2
  <2>3. ASSUME NEW x \in B PROVE \E i \in 1..(m + 1 + n) : q[i] = x
    <3>1. PICK i \in 1..n : b[i] = x
      BY <1>1, <1>2 DEF Range
    <3>2. i + (m + 1) \in 1..(m + 1 + n) /\ i + (m + 1) > m + 1 /\ (i + (m + 1)) - (m + 1) = i
      BY <1>2
    <3>3. q[i + (m + 1)] = b[i]
      BY <1>3, <3>2
    <3> QED BY <3>1, <3>2, <3>3
  <2>4. m + 1 \in 1..(m + 1 + n) /\ q[m + 1] = t
    BY <1>2, <1>3
  <2>5. Range(q) = {q[i] : i \in 1..(m + 1 + n)}
    BY <1>2 DEF Range
  <2>6. Range(q) \subseteq A \cup {t} \cup B
    BY <2>1, <2>5
  <2>7. A \cup {t} \cup B \subseteq Range(q)
    BY <2>2, <2>3, <2>4, <2>5
  <2> QED BY <2>6, <2>7
<1> QED BY <1>2, <1>8, <1>9 DEF Links, q

LEMMA PutBackLinks ==
  ASSUME NEW q, NEW S, NEW p \in Orders, Links(q, S, p), NEW t \in Threads, t \notin S
  PROVE  Links(PutBack(q, t, p), S \cup {t}, p)
<1> DEFINE P == {i \in DOMAIN q : p[q[i]] <= p[t]}
           Q == {i \in DOMAIN q : p[q[i]] > p[t]}
           A == {x \in Threads : p[x] <= p[t]}
           B == {x \in Threads : p[x] > p[t]}
<1>1. q \in Seq(Threads) /\ Range(q) = S /\ (\A i \in DOMAIN q : q[i] \in S) /\ S \subseteq Threads
  BY DEF Links, Range
<1>2. /\ P \in SUBSET (DOMAIN q) /\ Q \in SUBSET (DOMAIN q)
      /\ \A i \in DOMAIN q : i \in P <=> q[i] \in A
      /\ \A i \in DOMAIN q : i \in Q <=> q[i] \in B
  BY <1>1
<1>3. PutBack(q, t, p) = Keep(q, P) \o <<t>> \o Keep(q, Q)
  BY DEF PutBack
<1>4. \A x \in Threads : p[x] \in Int
  BY DEF Orders
<1>5. /\ \A x \in Threads : p[x] <= p[t] <=> ~(p[x] > p[t])
      /\ \A x \in Threads : p[x] > p[t] => p[t] <= p[x]
  BY <1>4
<1>6. /\ A \cap B = {} /\ (\A x \in A : p[x] <= p[t]) /\ (\A x \in B : p[t] <= p[x])
      /\ \A x \in Threads : x \in A \/ x \in B
  BY <1>5
<1> HIDE DEF P, Q, A, B
<1>7. Links(Keep(q, P), S \cap A, p) /\ Links(Keep(q, Q), S \cap B, p)
  BY <1>2, Selected
<1>8. Links(Keep(q, P) \o <<t>> \o Keep(q, Q), (S \cap A) \cup {t} \cup (S \cap B), p)
  <2>1. /\ (S \cap A) \cap (S \cap B) = {} /\ t \notin S \cap A /\ t \notin S \cap B
        /\ \A x \in S \cap A : p[x] <= p[t]
        /\ \A y \in S \cap B : p[t] <= p[y]
    BY <1>6
  <2> QED BY <1>7, <2>1, Joined
<1>9. (S \cap A) \cup {t} \cup (S \cap B) = S \cup {t}
  BY <1>1, <1>6
<1> QED BY <1>3, <1>8, <1>9

LEMMA PutFrontLinks ==
  ASSUME NEW q, NEW S, NEW p \in Orders, Links(q, S, p), NEW t \in Threads, t \notin S
  PROVE  Links(PutFront(q, t, p), S \cup {t}, p)
<1> DEFINE P == {i \in DOMAIN q : p[q[i]] < p[t]}
           Q == {i \in DOMAIN q : p[q[i]] >= p[t]}
           A == {x \in Threads : p[x] < p[t]}
           B == {x \in Threads : p[x] >= p[t]}
<1>1. q \in Seq(Threads) /\ Range(q) = S /\ (\A i \in DOMAIN q : q[i] \in S) /\ S \subseteq Threads
  BY DEF Links, Range
<1>2. /\ P \in SUBSET (DOMAIN q) /\ Q \in SUBSET (DOMAIN q)
      /\ \A i \in DOMAIN q : i \in P <=> q[i] \in A
      /\ \A i \in DOMAIN q : i \in Q <=> q[i] \in B
  BY <1>1
<1>3. PutFront(q, t, p) = Keep(q, P) \o <<t>> \o Keep(q, Q)
  BY DEF PutFront
<1>4. \A x \in Threads : p[x] \in Int
  BY DEF Orders
<1>5. /\ \A x \in Threads : p[x] < p[t] <=> ~(p[x] >= p[t])
      /\ \A x \in Threads : p[x] < p[t] => p[x] <= p[t]
      /\ \A x \in Threads : p[x] >= p[t] => p[t] <= p[x]
  BY <1>4
<1>6. /\ A \cap B = {} /\ (\A x \in A : p[x] <= p[t]) /\ (\A x \in B : p[t] <= p[x])
      /\ \A x \in Threads : x \in A \/ x \in B
  BY <1>5
<1> HIDE DEF P, Q, A, B
<1>7. Links(Keep(q, P), S \cap A, p) /\ Links(Keep(q, Q), S \cap B, p)
  BY <1>2, Selected
<1>8. Links(Keep(q, P) \o <<t>> \o Keep(q, Q), (S \cap A) \cup {t} \cup (S \cap B), p)
  <2>1. /\ (S \cap A) \cap (S \cap B) = {} /\ t \notin S \cap A /\ t \notin S \cap B
        /\ \A x \in S \cap A : p[x] <= p[t]
        /\ \A y \in S \cap B : p[t] <= p[y]
    BY <1>6
  <2> QED BY <1>7, <2>1, Joined
<1>9. (S \cap A) \cup {t} \cup (S \cap B) = S \cup {t}
  BY <1>1, <1>6
<1> QED BY <1>3, <1>8, <1>9

LEMMA PutLinks ==
  ASSUME NEW q, NEW S, NEW p \in Orders, Links(q, S, p), NEW t \in Threads, t \notin S, NEW end
  PROVE  Links(Put(q, t, p, end), S \cup {t}, p)
BY PutBackLinks, PutFrontLinks DEF Put

\* A queue does not depend on the priorities of other threads.
LEMMA OtherPriorities ==
  ASSUME NEW q, NEW S, NEW p, Links(q, S, p), NEW r, \A x \in S : r[x] = p[x]
  PROVE  Links(q, S, r)
<1>1. q \in Seq(Threads) /\ Range(q) = S /\ Ordered(q, p)
  BY DEF Links
<1>2. \A i \in 1..Len(q) : q[i] \in S
  BY <1>1 DEF Range
<1> QED BY <1>1, <1>2 DEF Links, Ordered

\* The front of a queue is one of its threads, if there is one; so is the first
\* of some of them.
LEMMA FrontIsLinked ==
  ASSUME NEW q, NEW S, NEW p, Links(q, S, p)
  PROVE  /\ GetFront(q) # NoThread => GetFront(q) \in S
         /\ S = {} => q = << >>
         /\ S # {} => q # << >>
<1>1. q \in Seq(Threads) /\ Range(q) = S
  BY DEF Links
<1>2. CASE q = << >>
  <2>1. DOMAIN q = {}
    BY <1>2
  <2> QED BY <1>1, <1>2, <2>1 DEF GetFront, Range
<1>3. CASE q # << >>
  <2>1. 1 \in DOMAIN q /\ Head(q) = q[1]
    BY <1>1, <1>3
  <2> QED BY <1>1, <1>3, <2>1 DEF GetFront, Range
<1> QED BY <1>2, <1>3

LEMMA FirstIsLinked ==
  ASSUME NEW q, NEW S, NEW p, Links(q, S, p), NEW T
  PROVE  /\ FirstIn(q, T) # NoThread => FirstIn(q, T) \in S /\ FirstIn(q, T) \in T
         /\ S \subseteq Threads /\ FirstIn(q, T) = NoThread => S \cap T = {}
<1> DEFINE P == {i \in DOMAIN q : q[i] \in T}
<1>1. P \in SUBSET (DOMAIN q) /\ \A i \in DOMAIN q : i \in P <=> q[i] \in T
  OBVIOUS
<1>2. FirstIn(q, T) = GetFront(Keep(q, P))
  BY DEF FirstIn
<1> HIDE DEF P
<1>3. Links(Keep(q, P), S \cap T, p)
  BY <1>1, Selected
<1>4. S \cap T # {} => Keep(q, P) # << >>
  BY <1>3, FrontIsLinked
<1>5. Keep(q, P) \in Seq(Threads)
  BY <1>3 DEF Links
<1>6. ASSUME Keep(q, P) # << >> PROVE GetFront(Keep(q, P)) # NoThread
  <2>1. Head(Keep(q, P)) \in Threads
    BY <1>5, <1>6
  <2> QED BY <1>6, <2>1, PriorityQueueAssumption DEF GetFront
<1> QED BY <1>2, <1>3, <1>4, <1>6, FrontIsLinked

LEMMA OfPriorityIsLinked ==
  ASSUME NEW q, NEW S, NEW p, Links(q, S, p), NEW r, NEW k
  PROVE  Links(OfPriority(q, r, k), {x \in S : r[x] = k}, p)
<1> DEFINE P == {i \in DOMAIN q : r[q[i]] = k}
           T == {x \in S : r[x] = k}
<1>1. P \in SUBSET (DOMAIN q) /\ \A i \in DOMAIN q : i \in P <=> q[i] \in T
  BY DEF Links, Range
<1>2. OfPriority(q, r, k) = Keep(q, P) /\ S \cap T = T
  BY DEF OfPriority
<1> HIDE DEF P, T
<1>3. Links(Keep(q, P), S \cap T, p)
  BY <1>1, Selected
<1> QED BY <1>2, <1>3 DEF T

\* So is the thread behind another.
LEMMA NextIsLinked ==
  ASSUME NEW q, NEW S, NEW p, Links(q, S, p), NEW t
  PROVE  GetNext(q, t) # NoThread => GetNext(q, t) \in S \ {t}
<1> SUFFICES ASSUME t \in Range(q), t # Last(q) PROVE GetNext(q, t) \in S \ {t}
  BY DEF GetNext
<1> DEFINE k == CHOOSE i \in 1..Len(q) : q[i] = t
<1>1. q \in Seq(Threads) /\ Range(q) = S /\ Len(q) \in Nat /\ DOMAIN q = 1..Len(q)
  BY DEF Links
<1>2. k \in 1..Len(q) /\ q[k] = t
  BY <1>1 DEF Range
<1>3. GetNext(q, t) = q[k + 1]
  BY DEF GetNext
<1> HIDE DEF k
<1>4. k # Len(q)
  BY <1>2 DEF Last
<1>5. k + 1 \in 1..Len(q)
  <2>1. Len(q) \in Nat /\ k \in 1..Len(q)
    BY <1>1, <1>2
  <2> QED BY <2>1, <1>4
<1>6. q[k + 1] # t
  <2>1. k < k + 1 /\ Ordered(q, p)
    BY <1>1, <1>2 DEF Links
  <2> QED BY <1>2, <1>5, <2>1 DEF Ordered
<1> QED BY <1>1, <1>3, <1>5, <1>6 DEF Range

-----------------------------------------------------------------------------
(* The state of the queues.                                                *)

\* A state of the queues, with fields that fit together.
IsState(s) ==
  /\ s = [run |-> s.run, active |-> s.active, aff |-> s.aff, prio |-> s.prio,
          sched |-> s.sched, sugg |-> s.sugg, top |-> s.top, bumped |-> s.bumped]
  /\ s.run \in SUBSET Threads
  /\ s.active \in [Threads -> Cores \cup {NoCore}]
  /\ s.aff \in [Threads -> (SUBSET Cores) \ {{}}]
  /\ \A t \in Threads : s.active[t] \in s.aff[t] \cup {NoCore}
  /\ s.prio \in [Threads -> Priorities]
  /\ s.top \in [Cores -> Threads \cup {NoThread}]

\* The threads of R that belong into the queues of a core.
Scheduled(s, R, c) == {t \in R : s.active[t] = c}
Suggested(s, R, c) == {t \in R : s.active[t] # c /\ c \in s.aff[t]}

Queued(s, R) ==
  /\ s.sched \in [Cores -> Seq(Threads)]
  /\ s.sugg \in [Cores -> Seq(Threads)]
  /\ \A c \in Cores : /\ Links(s.sched[c], Scheduled(s, R, c), s.prio)
                      /\ Links(s.sugg[c], Suggested(s, R, c), s.prio)

Valid(s) == IsState(s) /\ Queued(s, s.run)

\* Priorities order threads, and NoCore is no core.
LEMMA StateFacts ==
  ASSUME NEW s, IsState(s)
  PROVE  /\ s.prio \in Orders
         /\ NoCore \notin Cores
         /\ s.run \subseteq Threads
         /\ \A c \in Cores : \A R \in SUBSET Threads :
              Scheduled(s, R, c) \subseteq Threads /\ Suggested(s, R, c) \subseteq Threads
<1>1. Priorities \subseteq Int
  BY PriorityQueueAssumption DEF Priorities
<1>2. s.prio \in Orders
  BY <1>1 DEF IsState, Orders
<1>3. NoCore \notin Cores
  BY PriorityQueueAssumption DEF NoCore, Cores
<1> QED BY <1>2, <1>3 DEF IsState, Scheduled, Suggested

\* Counting a thread changes no queue.
LEMMA BumpKeeps ==
  ASSUME NEW s, NEW R, IsState(s), NEW T
  PROVE  /\ IsState(Bump(s, T)) /\ Bump(s, T).run = s.run
         /\ Queued(s, R) => Queued(Bump(s, T), R)
         /\ Bump(s, T).sched = s.sched /\ Bump(s, T).sugg = s.sugg
         /\ Bump(s, T).active = s.active /\ Bump(s, T).aff = s.aff
         /\ Bump(s, T).prio = s.prio /\ Bump(s, T).top = s.top
<1> DEFINE b == s.bumped \cup (T \ {NoThread})
           r == Bump(s, T)
<1>1. r = [s EXCEPT !.bumped = b]
  BY DEF Bump
<1>2. /\ r = [run |-> r.run, active |-> r.active, aff |-> r.aff, prio |-> r.prio,
              sched |-> r.sched, sugg |-> r.sugg, top |-> r.top, bumped |-> r.bumped]
      /\ r.run = s.run /\ r.active = s.active /\ r.aff = s.aff /\ r.prio = s.prio
      /\ r.sched = s.sched /\ r.sugg = s.sugg /\ r.top = s.top
  <2> HIDE DEF r, b
  <2> QED BY <1>1 DEF IsState
<1> HIDE DEF r
<1>3. IsState(r)
  BY <1>2 DEF IsState
<1>4. Queued(s, R) => Queued(r, R)
  BY <1>2 DEF Queued, Scheduled, Suggested
<1> QED BY <1>2, <1>3, <1>4 DEF r

\* PushBack and PushFront.
LEMMA PushLinks ==
  ASSUME NEW s, IsState(s), NEW R \in SUBSET Threads, Queued(s, R),
         NEW t \in Threads, t \notin R, NEW end
  PROVE  /\ IsState(Push(s, t, end)) /\ Push(s, t, end).run = s.run
         /\ Queued(Push(s, t, end), R \cup {t})
<1> DEFINE r == Push(s, t, end)
           sc == [c \in Cores |-> IF c = s.active[t]
                                  THEN Put(s.sched[c], t, s.prio, end) ELSE s.sched[c]]
           su == [c \in Cores |-> IF c \in s.aff[t] \ {s.active[t]}
                                  THEN PutBack(s.sugg[c], t, s.prio) ELSE s.sugg[c]]
<1>1. r = [s EXCEPT !.sched = sc, !.sugg = su]
  BY DEF Push
<1>2. /\ r = [run |-> r.run, active |-> r.active, aff |-> r.aff, prio |-> r.prio,
              sched |-> r.sched, sugg |-> r.sugg, top |-> r.top, bumped |-> r.bumped]
      /\ r.run = s.run /\ r.active = s.active /\ r.aff = s.aff /\ r.prio = s.prio
      /\ r.sched = sc /\ r.sugg = su /\ r.top = s.top
  <2> HIDE DEF r, sc, su
  <2> QED BY <1>1 DEF IsState
<1> HIDE DEF r
<1>3. IsState(r)
  BY <1>2 DEF IsState
<1>4. s.prio \in Orders
  BY StateFacts
<1>5. ASSUME NEW c \in Cores
      PROVE  /\ Links(sc[c], Scheduled(r, R \cup {t}, c), s.prio)
             /\ Links(su[c], Suggested(r, R \cup {t}, c), s.prio)
  <2>1. /\ Links(s.sched[c], Scheduled(s, R, c), s.prio)
        /\ Links(s.sugg[c], Suggested(s, R, c), s.prio)
    BY DEF Queued
  <2>2. t \notin Scheduled(s, R, c) /\ t \notin Suggested(s, R, c)
    BY DEF Scheduled, Suggested
  <2>3. CASE c = s.active[t]
    <3>1. /\ Scheduled(r, R \cup {t}, c) = Scheduled(s, R, c) \cup {t}
          /\ Suggested(r, R \cup {t}, c) = Suggested(s, R, c)
      BY <1>2, <2>3 DEF Scheduled, Suggested
    <3>2. sc[c] = Put(s.sched[c], t, s.prio, end) /\ su[c] = s.sugg[c]
      BY <2>3
    <3>3. Links(Put(s.sched[c], t, s.prio, end), Scheduled(s, R, c) \cup {t}, s.prio)
      BY <1>4, <2>1, <2>2, PutLinks
    <3> QED BY <2>1, <3>1, <3>2, <3>3
  <2>4. CASE c # s.active[t] /\ c \in s.aff[t]
    <3>1. /\ Scheduled(r, R \cup {t}, c) = Scheduled(s, R, c)
          /\ Suggested(r, R \cup {t}, c) = Suggested(s, R, c) \cup {t}
      BY <1>2, <2>4 DEF Scheduled, Suggested
    <3>2. sc[c] = s.sched[c] /\ su[c] = PutBack(s.sugg[c], t, s.prio)
      BY <2>4
    <3> QED BY <1>4, <2>1, <2>2, <3>1, <3>2, PutBackLinks
  <2>5. CASE c # s.active[t] /\ c \notin s.aff[t]
    <3>1. /\ Scheduled(r, R \cup {t}, c) = Scheduled(s, R, c)
          /\ Suggested(r, R \cup {t}, c) = Suggested(s, R, c)
      BY <1>2, <2>5 DEF Scheduled, Suggested
    <3>2. sc[c] = s.sched[c] /\ su[c] = s.sugg[c]
      BY <2>5
    <3> QED BY <2>1, <3>1, <3>2
  <2> QED BY <2>3, <2>4, <2>5
<1>6. sc \in [Cores -> Seq(Threads)] /\ su \in [Cores -> Seq(Threads)]
  <2>1. \A c \in Cores : sc[c] \in Seq(Threads) /\ su[c] \in Seq(Threads)
    BY <1>5 DEF Links
  <2> QED BY <2>1
<1> HIDE DEF sc, su
<1>7. Queued(r, R \cup {t})
  BY <1>2, <1>5, <1>6 DEF Queued
<1> QED BY <1>2, <1>3, <1>7 DEF r

\* Remove.
LEMMA DequeueLinks ==
  ASSUME NEW s, IsState(s), NEW R \in SUBSET Threads, Queued(s, R), NEW t \in Threads
  PROVE  /\ IsState(Dequeue(s, t)) /\ Dequeue(s, t).run = s.run
         /\ Queued(Dequeue(s, t), R \ {t})
<1> DEFINE r == Dequeue(s, t)
           sc == [c \in Cores |-> IF c = s.active[t] THEN Removed(s.sched[c], t) ELSE s.sched[c]]
           su == [c \in Cores |-> IF c \in s.aff[t] \ {s.active[t]}
                                  THEN Removed(s.sugg[c], t) ELSE s.sugg[c]]
<1>1. r = [s EXCEPT !.sched = sc, !.sugg = su]
  BY DEF Dequeue
<1>2. /\ r = [run |-> r.run, active |-> r.active, aff |-> r.aff, prio |-> r.prio,
              sched |-> r.sched, sugg |-> r.sugg, top |-> r.top, bumped |-> r.bumped]
      /\ r.run = s.run /\ r.active = s.active /\ r.aff = s.aff /\ r.prio = s.prio
      /\ r.sched = sc /\ r.sugg = su /\ r.top = s.top
  <2> HIDE DEF r, sc, su
  <2> QED BY <1>1 DEF IsState
<1> HIDE DEF r
<1>3. IsState(r)
  BY <1>2 DEF IsState
<1>5. ASSUME NEW c \in Cores
      PROVE  /\ Links(sc[c], Scheduled(r, R \ {t}, c), s.prio)
             /\ Links(su[c], Suggested(r, R \ {t}, c), s.prio)
  <2>1. /\ Links(s.sched[c], Scheduled(s, R, c), s.prio)
        /\ Links(s.sugg[c], Suggested(s, R, c), s.prio)
    BY DEF Queued
  <2>2. /\ Scheduled(r, R \ {t}, c) = Scheduled(s, R, c) \ {t}
        /\ Suggested(r, R \ {t}, c) = Suggested(s, R, c) \ {t}
    BY <1>2 DEF Scheduled, Suggested
  <2>3. Links(sc[c], Scheduled(s, R, c) \ {t}, s.prio)
    <3>1. CASE c = s.active[t]
      <4>1. sc[c] = Removed(s.sched[c], t)
        BY <3>1
      <4> QED BY <2>1, <4>1, RemovedLinks
    <3>2. CASE c # s.active[t]
      <4>1. sc[c] = s.sched[c] /\ Scheduled(s, R, c) \ {t} = Scheduled(s, R, c)
        BY <3>2 DEF Scheduled
      <4> QED BY <2>1, <4>1
    <3> QED BY <3>1, <3>2
  <2>4. Links(su[c], Suggested(s, R, c) \ {t}, s.prio)
    <3>1. CASE c \in s.aff[t] \ {s.active[t]}
      <4>1. su[c] = Removed(s.sugg[c], t)
        BY <3>1
      <4> QED BY <2>1, <4>1, RemovedLinks
    <3>2. CASE c \notin s.aff[t] \ {s.active[t]}
      <4>1. su[c] = s.sugg[c] /\ Suggested(s, R, c) \ {t} = Suggested(s, R, c)
        BY <3>2 DEF Suggested
      <4> QED BY <2>1, <4>1
    <3> QED BY <3>1, <3>2
  <2> QED BY <2>2, <2>3, <2>4
<1>6. sc \in [Cores -> Seq(Threads)] /\ su \in [Cores -> Seq(Threads)]
  <2>1. \A c \in Cores : sc[c] \in Seq(Threads) /\ su[c] \in Seq(Threads)
    BY <1>5 DEF Links
  <2> QED BY <2>1
<1> HIDE DEF sc, su
<1>7. Queued(r, R \ {t})
  BY <1>2, <1>5, <1>6 DEF Queued
<1> QED BY <1>2, <1>3, <1>7 DEF r

\* The queues depend on the fields of the threads in them only.
LEMMA OtherFields ==
  ASSUME NEW s, NEW R, Queued(s, R), NEW r, r.sched = s.sched, r.sugg = s.sugg,
         \A u \in R : r.active[u] = s.active[u] /\ r.aff[u] = s.aff[u] /\ r.prio[u] = s.prio[u]
  PROVE  Queued(r, R)
<1>1. ASSUME NEW c \in Cores
      PROVE  /\ Links(r.sched[c], Scheduled(r, R, c), r.prio)
             /\ Links(r.sugg[c], Suggested(r, R, c), r.prio)
  <2>1. /\ Links(s.sched[c], Scheduled(s, R, c), s.prio)
        /\ Links(s.sugg[c], Suggested(s, R, c), s.prio)
    BY DEF Queued
  <2>2. Scheduled(r, R, c) = Scheduled(s, R, c) /\ Suggested(r, R, c) = Suggested(s, R, c)
    BY DEF Scheduled, Suggested
  <2>3. \A u \in R : r.prio[u] = s.prio[u]
    OBVIOUS
  <2>4. Scheduled(s, R, c) \subseteq R /\ Suggested(s, R, c) \subseteq R
    BY DEF Scheduled, Suggested
  <2>5. Links(s.sched[c], Scheduled(s, R, c), r.prio)
    BY <2>1, <2>3, <2>4, OtherPriorities
  <2>6. Links(s.sugg[c], Suggested(s, R, c), r.prio)
    BY <2>1, <2>3, <2>4, OtherPriorities
  <2> QED BY <2>2, <2>5, <2>6
<1> QED BY <1>1 DEF Queued

\* Setting core and mask, the priority or the state of a thread that is in no queue.
LEMMA SetFields ==
  ASSUME NEW s, IsState(s), NEW R \in SUBSET Threads, Queued(s, R), NEW t \in Threads,
         NEW mask \in (SUBSET Cores) \ {{}}, NEW core \in mask \cup {NoCore},
         t \notin R \/ (core = s.active[t] /\ mask = s.aff[t])
  PROVE  /\ IsState(Assign(s, t, core, mask)) /\ Queued(Assign(s, t, core, mask), R)
         /\ Assign(s, t, core, mask).run = s.run
<1> DEFINE a == [s.active EXCEPT ![t] = core]
           f == [s.aff EXCEPT ![t] = mask]
           r == Assign(s, t, core, mask)
<1>1. r = [s EXCEPT !.active = a, !.aff = f]
  <2>1. DOMAIN s = {"run", "active", "aff", "prio", "sched", "sugg", "top", "bumped"}
    BY DEF IsState
  <2> QED BY <2>1 DEF Assign
<1> HIDE DEF r
<1>2. /\ a \in [Threads -> Cores \cup {NoCore}] /\ f \in [Threads -> (SUBSET Cores) \ {{}}]
      /\ a[t] = core /\ f[t] = mask
      /\ \A u \in Threads \ {t} : a[u] = s.active[u] /\ f[u] = s.aff[u]
  BY DEF IsState
<1> HIDE DEF a, f
<1>3. /\ r = [run |-> r.run, active |-> r.active, aff |-> r.aff, prio |-> r.prio,
              sched |-> r.sched, sugg |-> r.sugg, top |-> r.top, bumped |-> r.bumped]
      /\ r.run = s.run /\ r.active = a /\ r.aff = f /\ r.prio = s.prio
      /\ r.sched = s.sched /\ r.sugg = s.sugg /\ r.top = s.top
  BY <1>1 DEF IsState
<1>4. \A u \in Threads : a[u] \in f[u] \cup {NoCore}
  <2>1. \A u \in Threads \ {t} : s.active[u] \in s.aff[u] \cup {NoCore}
    BY DEF IsState
  <2> QED BY <1>2, <2>1
<1>5. IsState(r)
  BY <1>2, <1>3, <1>4 DEF IsState
<1>6. \A u \in R : r.active[u] = s.active[u] /\ r.aff[u] = s.aff[u] /\ r.prio[u] = s.prio[u]
  BY <1>2, <1>3
<1>7. Queued(r, R)
  <2>1. r.sched = s.sched /\ r.sugg = s.sugg
    BY <1>3
  <2> QED BY <1>6, <2>1, OtherFields
<1> QED BY <1>3, <1>5, <1>7 DEF r

LEMMA SetPriority ==
  ASSUME NEW s, IsState(s), NEW R \in SUBSET Threads, Queued(s, R), NEW t \in Threads,
         NEW k \in Priorities, t \notin R,
         NEW r, r = [s EXCEPT !.prio[t] = k]
  PROVE  IsState(r) /\ Queued(r, R) /\ r.run = s.run
<1> DEFINE a == [s.prio EXCEPT ![t] = k]
<1>1. r = [s EXCEPT !.prio = a]
  BY DEF IsState
<1>2. a \in [Threads -> Priorities] /\ \A u \in Threads \ {t} : a[u] = s.prio[u]
  BY DEF IsState
<1> HIDE DEF a
<1>3. /\ r = [run |-> r.run, active |-> r.active, aff |-> r.aff, prio |-> r.prio,
              sched |-> r.sched, sugg |-> r.sugg, top |-> r.top, bumped |-> r.bumped]
      /\ r.run = s.run /\ r.active = s.active /\ r.aff = s.aff /\ r.prio = a
      /\ r.sched = s.sched /\ r.sugg = s.sugg /\ r.top = s.top
  BY <1>1 DEF IsState
<1>5. IsState(r)
  BY <1>2, <1>3 DEF IsState
<1>6. \A u \in R : r.active[u] = s.active[u] /\ r.aff[u] = s.aff[u] /\ r.prio[u] = s.prio[u]
  BY <1>2, <1>3
<1>7. Queued(r, R)
  <2>1. r.sched = s.sched /\ r.sugg = s.sugg
    BY <1>3
  <2> QED BY <1>6, <2>1, OtherFields
<1> QED BY <1>1, <1>3, <1>5, <1>7

LEMMA SetRun ==
  ASSUME NEW s, IsState(s), NEW R \in SUBSET Threads, Queued(s, R), NEW X \in SUBSET Threads,
         NEW r, r = [s EXCEPT !.run = X]
  PROVE  IsState(r) /\ Queued(r, R) /\ r.run = X
<1>3. /\ r = [run |-> r.run, active |-> r.active, aff |-> r.aff, prio |-> r.prio,
              sched |-> r.sched, sugg |-> r.sugg, top |-> r.top, bumped |-> r.bumped]
      /\ r.run = X /\ r.active = s.active /\ r.aff = s.aff /\ r.prio = s.prio
      /\ r.sched = s.sched /\ r.sugg = s.sugg /\ r.top = s.top
  BY DEF IsState
<1>5. IsState(r)
  BY <1>3 DEF IsState
<1>7. Queued(r, R)
  BY <1>3, OtherFields
<1> QED BY <1>3, <1>5, <1>7

LEMMA SetTop ==
  ASSUME NEW s, Valid(s), NEW h \in [Cores -> Threads \cup {NoThread}]
  PROVE  Valid([s EXCEPT !.top = h])
<1> DEFINE r == [s EXCEPT !.top = h]
<1>3. /\ r = [run |-> r.run, active |-> r.active, aff |-> r.aff, prio |-> r.prio,
              sched |-> r.sched, sugg |-> r.sugg, top |-> r.top, bumped |-> r.bumped]
      /\ r.run = s.run /\ r.active = s.active /\ r.aff = s.aff /\ r.prio = s.prio
      /\ r.sched = s.sched /\ r.sugg = s.sugg /\ r.top = h
  BY DEF IsState, Valid
<1> HIDE DEF r
<1>5. IsState(r)
  BY <1>3 DEF IsState, Valid
<1>7. Queued(r, r.run)
  BY <1>3, OtherFields DEF Valid
<1> QED BY <1>3, <1>5, <1>7 DEF r, Valid

\* ChangeAffinityMask.
LEMMA ChangeAffinityMaskLinks ==
  ASSUME NEW s, Valid(s), NEW t \in s.run,
         NEW mask \in (SUBSET Cores) \ {{}}, NEW core \in mask \cup {NoCore}
  PROVE  Valid(ChangeAffinityMask(s, t, core, mask))
<1> DEFINE d == Dequeue(s, t)
           e == Assign(d, t, core, mask)
<1>1. IsState(s) /\ Queued(s, s.run) /\ s.run \in SUBSET Threads /\ t \in Threads
  BY DEF Valid, IsState
<1>2. IsState(d) /\ d.run = s.run /\ Queued(d, s.run \ {t})
  BY <1>1, DequeueLinks
<1> HIDE DEF d
<1>3. IsState(e) /\ Queued(e, s.run \ {t}) /\ e.run = s.run
  <2>1. s.run \ {t} \in SUBSET Threads /\ t \notin s.run \ {t}
    BY <1>1
  <2>2. e.run = d.run /\ IsState(e) /\ Queued(e, s.run \ {t})
    BY <1>1, <1>2, <2>1, SetFields
  <2> QED BY <1>2, <2>2
<1> HIDE DEF e
<1>4. /\ IsState(Push(e, t, "back")) /\ Push(e, t, "back").run = s.run
      /\ Queued(Push(e, t, "back"), (s.run \ {t}) \cup {t})
  <2>1. s.run \ {t} \in SUBSET Threads /\ t \notin s.run \ {t}
    BY <1>1
  <2> QED BY <1>1, <1>3, <2>1, PushLinks
<1>5. (s.run \ {t}) \cup {t} = s.run
  OBVIOUS
<1>6. ChangeAffinityMask(s, t, core, mask) = Push(e, t, "back")
  BY DEF ChangeAffinityMask, d, e
<1> QED BY <1>4, <1>5, <1>6 DEF Valid

\* What a change of core does to the queues.
CoreChanged(s, r, t, core, end) ==
  /\ r.active = [s.active EXCEPT ![t] = core]
  /\ \A e \in Cores \ {s.active[t], core} : r.sched[e] = s.sched[e] /\ r.sugg[e] = s.sugg[e]
  /\ s.active[t] \in Cores \ {core} => r.sched[s.active[t]] = Removed(s.sched[s.active[t]], t)
  /\ core \in Cores \ {s.active[t]} => r.sched[core] = Put(s.sched[core], t, s.prio, end)

\* SetActiveCore and ChangeCore.
LEMMA ChangeCoreLinks ==
  ASSUME NEW s, Valid(s), NEW t \in s.run, NEW core \in s.aff[t] \cup {NoCore}, NEW end,
         NEW r, r = ChangeCore(s, t, core, end)
  PROVE  /\ Valid(r) /\ r.run = s.run /\ r.aff = s.aff /\ r.prio = s.prio /\ r.top = s.top
         /\ CoreChanged(s, r, t, core, end)
<1> DEFINE prev == s.active[t]
           a == [s.active EXCEPT ![t] = core]
           sc == [c \in Cores |-> IF c = prev THEN Removed(s.sched[c], t)
                                  ELSE IF c = core THEN Put(s.sched[c], t, s.prio, end)
                                  ELSE s.sched[c]]
           su == [c \in Cores |-> IF c = prev THEN PutBack(s.sugg[c], t, s.prio)
                                  ELSE IF c = core THEN Removed(s.sugg[c], t) ELSE s.sugg[c]]
<1>0. IsState(s) /\ Queued(s, s.run) /\ s.run \in SUBSET Threads /\ t \in Threads
  BY DEF Valid, IsState
<1>1. /\ a \in [Threads -> Cores \cup {NoCore}] /\ a[t] = core
      /\ \A u \in Threads \ {t} : a[u] = s.active[u]
      /\ s.active \in [Threads -> Cores \cup {NoCore}]
      /\ prev \in s.aff[t] \cup {NoCore} /\ s.aff[t] \subseteq Cores
  <2>1. s.active \in [Threads -> Cores \cup {NoCore}] /\ s.aff \in [Threads -> (SUBSET Cores) \ {{}}]
    BY <1>0 DEF IsState
  <2>2. s.aff[t] \subseteq Cores /\ prev \in s.aff[t] \cup {NoCore}
    BY <1>0, <2>1 DEF IsState
  <2>3. core \in Cores \cup {NoCore}
    BY <2>2
  <2> QED BY <1>0, <2>1, <2>2, <2>3
<1>2. CASE prev = core
  <2>1. r = s
    BY <1>2 DEF ChangeCore
  <2>2. a = s.active
    BY <1>0, <1>1, <1>2
  <2> HIDE DEF a
  <2> QED BY <1>2, <2>1, <2>2 DEF a, CoreChanged
<1>3. CASE prev # core
  <2>1. r = [s EXCEPT !.active = a, !.sched = sc, !.sugg = su]
    <3>1. DOMAIN s = {"run", "active", "aff", "prio", "sched", "sugg", "top", "bumped"}
      BY <1>0 DEF IsState
    <3> QED BY <1>3, <3>1 DEF ChangeCore
  <2> HIDE DEF a, sc, su
  <2>2. /\ r = [run |-> r.run, active |-> r.active, aff |-> r.aff, prio |-> r.prio,
                sched |-> r.sched, sugg |-> r.sugg, top |-> r.top, bumped |-> r.bumped]
        /\ r.run = s.run /\ r.active = a /\ r.aff = s.aff /\ r.prio = s.prio
        /\ r.sched = sc /\ r.sugg = su /\ r.top = s.top
    BY <1>0, <2>1 DEF IsState
  <2>3. \A u \in Threads : a[u] \in s.aff[u] \cup {NoCore}
    BY <1>0, <1>1 DEF IsState
  <2>4. IsState(r)
    BY <1>0, <1>1, <2>2, <2>3 DEF IsState
  <2>5. s.prio \in Orders /\ NoCore \notin Cores
    BY <1>0, StateFacts
  <2>6. ASSUME NEW c \in Cores
        PROVE  /\ Links(sc[c], Scheduled(r, r.run, c), s.prio)
               /\ Links(su[c], Suggested(r, r.run, c), s.prio)
    <3>1. /\ Links(s.sched[c], Scheduled(s, s.run, c), s.prio)
          /\ Links(s.sugg[c], Suggested(s, s.run, c), s.prio)
      BY <1>0 DEF Queued
    <3>2. CASE c = prev
      <4>1. c # core /\ c \in s.aff[t]
        BY <1>1, <1>3, <2>5, <3>2
      <4>2. /\ Scheduled(r, r.run, c) = Scheduled(s, s.run, c) \ {t}
            /\ Suggested(r, r.run, c) = Suggested(s, s.run, c) \cup {t}
            /\ t \notin Suggested(s, s.run, c)
        BY <1>0, <1>1, <2>2, <3>2, <4>1 DEF Scheduled, Suggested
      <4>3. sc[c] = Removed(s.sched[c], t) /\ su[c] = PutBack(s.sugg[c], t, s.prio)
        BY <3>2 DEF sc, su
      <4>4. Links(Removed(s.sched[c], t), Scheduled(s, s.run, c) \ {t}, s.prio)
        BY <3>1, RemovedLinks
      <4>5. Links(PutBack(s.sugg[c], t, s.prio), Suggested(s, s.run, c) \cup {t}, s.prio)
        BY <1>0, <2>5, <3>1, <4>2, PutBackLinks
      <4> QED BY <4>2, <4>3, <4>4, <4>5
    <3>3. CASE c = core
      <4>1. c # prev /\ c \in s.aff[t]
        BY <1>1, <1>3, <2>5, <3>3
      <4>2. /\ Scheduled(r, r.run, c) = Scheduled(s, s.run, c) \cup {t}
            /\ Suggested(r, r.run, c) = Suggested(s, s.run, c) \ {t}
            /\ t \notin Scheduled(s, s.run, c)
        BY <1>0, <1>1, <2>2, <3>3, <4>1 DEF Scheduled, Suggested
      <4>3. sc[c] = Put(s.sched[c], t, s.prio, end) /\ su[c] = Removed(s.sugg[c], t)
        BY <3>3, <4>1 DEF sc, su
      <4>4. Links(Removed(s.sugg[c], t), Suggested(s, s.run, c) \ {t}, s.prio)
        BY <3>1, RemovedLinks
      <4>5. Links(Put(s.sched[c], t, s.prio, end), Scheduled(s, s.run, c) \cup {t}, s.prio)
        BY <1>0, <2>5, <3>1, <4>2, PutLinks
      <4> QED BY <4>2, <4>3, <4>4, <4>5
    <3>4. CASE c # prev /\ c # core
      <4>1. /\ Scheduled(r, r.run, c) = Scheduled(s, s.run, c)
            /\ Suggested(r, r.run, c) = Suggested(s, s.run, c)
        BY <1>0, <1>1, <2>2, <3>4 DEF Scheduled, Suggested
      <4>2. sc[c] = s.sched[c] /\ su[c] = s.sugg[c]
        BY <3>4 DEF sc, su
      <4> QED BY <3>1, <4>1, <4>2
    <3> QED BY <3>2, <3>3, <3>4
  <2>7. sc \in [Cores -> Seq(Threads)] /\ su \in [Cores -> Seq(Threads)]
    <3>1. \A c \in Cores : sc[c] \in Seq(Threads) /\ su[c] \in Seq(Threads)
      BY <2>6 DEF Links
    <3> QED BY <3>1 DEF sc, su
  <2>8. Queued(r, r.run)
    BY <2>2, <2>6, <2>7 DEF Queued
  <2>9. /\ \A e \in Cores \ {prev, core} : r.sched[e] = s.sched[e] /\ r.sugg[e] = s.sugg[e]
        /\ prev \in Cores => r.sched[prev] = Removed(s.sched[prev], t)
        /\ core \in Cores => r.sched[core] = Put(s.sched[core], t, s.prio, end)
    BY <1>3, <2>2 DEF sc, su
  <2>10. CoreChanged(s, r, t, core, end)
    BY <2>2, <2>9 DEF CoreChanged, a
  <2> QED BY <2>2, <2>4, <2>8, <2>10 DEF Valid
<1> QED BY <1>2, <1>3

\* MoveToScheduledBack.
LEMMA MoveToBackLinks ==
  ASSUME NEW s, Valid(s), NEW t \in s.run, s.active[t] # NoCore,
         NEW r, r = MoveToBack(s, t)
  PROVE  /\ Valid(r) /\ r.run = s.run /\ r.aff = s.aff /\ r.prio = s.prio /\ r.top = s.top
         /\ r.active = s.active /\ r.sugg = s.sugg
<1> DEFINE core == s.active[t]
           q == PutBack(Removed(s.sched[core], t), t, s.prio)
           sc == [s.sched EXCEPT ![core] = q]
<1>0. IsState(s) /\ Queued(s, s.run) /\ s.run \in SUBSET Threads /\ t \in Threads
  BY DEF Valid, IsState
<1>1. core \in Cores
  BY <1>0 DEF IsState
<1>2. Links(q, Scheduled(s, s.run, core), s.prio)
  <2>1. Links(s.sched[core], Scheduled(s, s.run, core), s.prio)
    BY <1>0, <1>1 DEF Queued
  <2>2. Links(Removed(s.sched[core], t), Scheduled(s, s.run, core) \ {t}, s.prio)
    BY <2>1, RemovedLinks
  <2>3. t \notin Scheduled(s, s.run, core) \ {t} /\ s.prio \in Orders
    BY <1>0, StateFacts
  <2>4. Links(q, (Scheduled(s, s.run, core) \ {t}) \cup {t}, s.prio)
    BY <1>0, <2>2, <2>3, PutBackLinks
  <2>5. (Scheduled(s, s.run, core) \ {t}) \cup {t} = Scheduled(s, s.run, core)
    BY <1>0 DEF Scheduled
  <2> QED BY <2>4, <2>5
<1>3. r = [s EXCEPT !.sched = sc]
  <2>1. DOMAIN s = {"run", "active", "aff", "prio", "sched", "sugg", "top", "bumped"}
    BY <1>0 DEF IsState
  <2> QED BY <2>1 DEF MoveToBack
<1> HIDE DEF q
<1>4. /\ sc \in [Cores -> Seq(Threads)] /\ sc[core] = q
      /\ \A c \in Cores \ {core} : sc[c] = s.sched[c]
  <2>1. s.sched \in [Cores -> Seq(Threads)] /\ q \in Seq(Threads)
    BY <1>0, <1>2 DEF Queued, Links
  <2> QED BY <1>1, <2>1
<1> HIDE DEF sc, core
<1>5. /\ r = [run |-> r.run, active |-> r.active, aff |-> r.aff, prio |-> r.prio,
              sched |-> r.sched, sugg |-> r.sugg, top |-> r.top, bumped |-> r.bumped]
      /\ r.run = s.run /\ r.active = s.active /\ r.aff = s.aff /\ r.prio = s.prio
      /\ r.sched = sc /\ r.sugg = s.sugg /\ r.top = s.top
  BY <1>0, <1>3 DEF IsState
<1>6. IsState(r)
  BY <1>0, <1>5 DEF IsState
<1>7. ASSUME NEW c \in Cores
      PROVE  /\ Links(sc[c], Scheduled(r, r.run, c), s.prio)
             /\ Links(s.sugg[c], Suggested(r, r.run, c), s.prio)
  <2>1. /\ Scheduled(r, r.run, c) = Scheduled(s, s.run, c)
        /\ Suggested(r, r.run, c) = Suggested(s, s.run, c)
    BY <1>5 DEF Scheduled, Suggested
  <2>2. /\ Links(s.sched[c], Scheduled(s, s.run, c), s.prio)
        /\ Links(s.sugg[c], Suggested(s, s.run, c), s.prio)
    BY <1>0 DEF Queued
  <2>3. CASE c = core
    BY <1>2, <1>4, <2>1, <2>2, <2>3
  <2>4. CASE c # core
    BY <1>4, <2>1, <2>2, <2>4
  <2> QED BY <2>3, <2>4
<1>8. Queued(r, r.run)
  <2>1. s.sugg \in [Cores -> Seq(Threads)]
    BY <1>0 DEF Queued
  <2> QED BY <1>4, <1>5, <1>7, <2>1 DEF Queued
<1> QED BY <1>5, <1>6, <1>8 DEF Valid

\* Every nonempty set of natural numbers has a least element.
LEMMA LeastNatural ==
  ASSUME NEW S, S \subseteq Nat, S # {}
  PROVE  \E x \in S : \A y \in S : x <= y
<1>1. PICK x \in S : \A y \in S : <<y, x>> \notin OpToRel(<, Nat)
  BY WFMin, NatLessThanWellFounded
<1>2. \A y \in S : ~(y < x)
  BY <1>1 DEF OpToRel
<1> QED BY <1>2

-----------------------------------------------------------------------------
(* The front of a queue.                                                   *)

\* Keeping the places of P, the first of them comes to the front.
LEMMA KeptFront ==
  ASSUME NEW q \in Seq(Threads), NEW P \in SUBSET (DOMAIN q), NEW i \in P, \A j \in P : i <= j
  PROVE  Keep(q, P) # << >> /\ Head(Keep(q, P)) = q[i]
<1>1. DOMAIN q = 1..Len(q) /\ Len(q) \in Nat /\ P \in SUBSET (1..Len(q))
  OBVIOUS
<1>2. /\ IsFiniteSet(P) /\ Cardinality(P) \in Nat
      /\ \A k, l \in P : k < l => Rank(P, k) < Rank(P, l)
      /\ \A k \in P : Rank(P, k) \in 1..Cardinality(P)
  BY <1>1, RanksAreTheNumbers
<1>3. Rank(P, i) = 1
  <2>1. {j \in P : j <= i} = {i}
    <3>1. \A j \in P : j \in Int
      BY <1>1
    <3>2. \A j \in P : j <= i => j = i
      BY <3>1
    <3>3. i <= i
      BY <3>1
    <3> QED BY <3>2, <3>3
  <2> QED BY <2>1, FS_Singleton DEF Rank
<1>4. \A k \in P : Rank(P, k) = 1 => k = i
  <2> SUFFICES ASSUME NEW k \in P, Rank(P, k) = 1, k # i PROVE FALSE
    OBVIOUS
  <2>1. k \in Int /\ i \in Int /\ i <= k
    BY <1>1
  <2>2. i < k
    BY <2>1
  <2>3. Rank(P, i) < Rank(P, k)
    BY <1>2, <2>2
  <2> QED BY <1>3, <2>3
<1>5. (CHOOSE k \in P : Rank(P, k) = 1) = i
  BY <1>3, <1>4
<1>6. 1 \in 1..Cardinality(P)
  BY <1>2, <1>3
<1>7. Keep(q, P)[1] = q[i]
  BY <1>5, <1>6 DEF Keep
<1>8. Keep(q, P) \in Seq(Threads) /\ DOMAIN Keep(q, P) = 1..Cardinality(P)
  BY KeptThreads DEF Keep
<1>9. Keep(q, P) # << >>
  <2>1. 1 \in DOMAIN Keep(q, P)
    BY <1>6, <1>8
  <2>2. DOMAIN << >> = {}
    OBVIOUS
  <2> QED BY <2>1, <2>2
<1> QED BY <1>7, <1>8, <1>9

\* A queue has a front exactly if it links a thread.
LEMMA FrontOfSome ==
  ASSUME NEW q, NEW S, NEW p, Links(q, S, p)
  PROVE  /\ GetFront(q) = NoThread <=> S = {}
         /\ S # {} => q # << >> /\ GetFront(q) = Head(q) /\ Head(q) = q[1] /\ 1 \in DOMAIN q
<1>1. q \in Seq(Threads)
  BY DEF Links
<1>2. CASE S = {}
  BY <1>2, FrontIsLinked DEF GetFront
<1>3. CASE S # {}
  <2>1. q # << >>
    BY <1>3, FrontIsLinked
  <2>2. Head(q) \in Threads /\ Head(q) = q[1] /\ 1 \in DOMAIN q
    BY <1>1, <2>1
  <2> QED BY <1>3, <2>1, <2>2, PriorityQueueAssumption DEF GetFront
<1> QED BY <1>2, <1>3

\* The first thread of a set is the first of any smaller set it is in.
LEMMA FirstOfFewer ==
  ASSUME NEW q, NEW S, NEW p, Links(q, S, p), NEW T, FirstIn(q, T) # NoThread,
         NEW U, FirstIn(q, T) \in U, \A x \in S : x \in U => x \in T
  PROVE  FirstIn(q, U) = FirstIn(q, T)
<1> DEFINE P == {i \in DOMAIN q : q[i] \in T}
           Q == {i \in DOMAIN q : q[i] \in U}
<1>1. q \in Seq(Threads) /\ DOMAIN q = 1..Len(q) /\ (\A i \in DOMAIN q : q[i] \in S)
  BY DEF Links, Range
<1>2. FirstIn(q, T) = GetFront(Keep(q, P)) /\ FirstIn(q, U) = GetFront(Keep(q, Q))
  BY DEF FirstIn
<1>3. FirstIn(q, T) \in S /\ FirstIn(q, T) \in T
  BY FirstIsLinked
<1>4. P # {}
  <2>1. PICK i \in DOMAIN q : q[i] = FirstIn(q, T)
    BY <1>3 DEF Links, Range
  <2> QED BY <1>3, <2>1
<1>5. PICK i \in P : \A j \in P : i <= j
  <2>1. P \subseteq Nat
    BY <1>1
  <2> HIDE DEF P
  <2> QED BY <1>4, <2>1, LeastNatural
<1>6. Keep(q, P) # << >> /\ Head(Keep(q, P)) = q[i]
  <2>1. P \in SUBSET (DOMAIN q)
    OBVIOUS
  <2> HIDE DEF P
  <2> QED BY <1>1, <1>5, <2>1, KeptFront
<1>7. FirstIn(q, T) = q[i]
  <2> HIDE DEF P
  <2> QED BY <1>2, <1>6 DEF GetFront
<1>8. i \in Q /\ \A j \in Q : i <= j
  <2>1. i \in DOMAIN q /\ q[i] \in U
    BY <1>5, <1>7
  <2>2. \A j \in Q : j \in P
    BY <1>1
  <2> QED BY <1>5, <2>1, <2>2
<1>9. Keep(q, Q) # << >> /\ Head(Keep(q, Q)) = q[i]
  <2>1. Q \in SUBSET (DOMAIN q)
    OBVIOUS
  <2> HIDE DEF Q
  <2> QED BY <1>1, <1>8, <2>1, KeptFront
<1> HIDE DEF P, Q
<1> QED BY <1>2, <1>7, <1>9 DEF GetFront

\* Taking out another thread than the front leaves the front.
LEMMA FrontStays ==
  ASSUME NEW q, NEW S, NEW p, Links(q, S, p), NEW t, S # {}, GetFront(q) # t
  PROVE  GetFront(Removed(q, t)) = GetFront(q)
<1> DEFINE P == {i \in DOMAIN q : q[i] # t}
<1>1. q \in Seq(Threads) /\ DOMAIN q = 1..Len(q) /\ Len(q) \in Nat
  BY DEF Links
<1>2. GetFront(q) = q[1] /\ 1 \in DOMAIN q
  BY FrontOfSome
<1>3. P \in SUBSET (DOMAIN q) /\ 1 \in P /\ \A j \in P : 1 <= j
  BY <1>1, <1>2
<1>4. Removed(q, t) = Keep(q, P)
  BY DEF Removed
<1> HIDE DEF P
<1>5. Keep(q, P) # << >> /\ Head(Keep(q, P)) = q[1]
  BY <1>1, <1>3, KeptFront
<1> QED BY <1>2, <1>4, <1>5 DEF GetFront

\* Taking out the front leaves the next one at the front.
LEMMA NextIsFront ==
  ASSUME NEW q, NEW S, NEW p, Links(q, S, p), NEW t \in S, GetFront(q) = t
  PROVE  GetNext(q, t) = GetFront(Removed(q, t))
<1> DEFINE P == {i \in DOMAIN q : q[i] # t}
           n == Len(q)
<1>1. q \in Seq(Threads) /\ DOMAIN q = 1..n /\ n \in Nat /\ Range(q) = S /\ Ordered(q, p)
  BY DEF Links
<1>2. q[1] = t /\ 1 \in 1..n /\ q # << >>
  BY <1>1, FrontOfSome
<1>3. \A i \in 1..n : q[i] = t => i = 1
  <2> SUFFICES ASSUME NEW i \in 1..n, q[i] = t, i # 1 PROVE FALSE
    OBVIOUS
  <2>1. 1 < i
    BY <1>1
  <2> QED BY <1>1, <1>2, <2>1 DEF Ordered
<1>4. Removed(q, t) = Keep(q, P) /\ P \in SUBSET (DOMAIN q)
  BY DEF Removed
<1>5. CASE n = 1
  <2>1. S = {t}
    BY <1>1, <1>2, <1>5 DEF Range
  <2>2. Links(Removed(q, t), S \ {t}, p)
    BY RemovedLinks
  <2>3. GetFront(Removed(q, t)) = NoThread
    BY <2>1, <2>2, FrontOfSome
  <2>4. Last(q) = t
    BY <1>2, <1>5 DEF Last
  <2> QED BY <2>3, <2>4 DEF GetNext
<1>6. CASE n # 1
  <2>1. 2 \in 1..n /\ n >= 2
    BY <1>1, <1>2, <1>6
  <2>2. q[2] # t /\ q[n] # t
    BY <1>3, <2>1, <1>1
  <2>3. Last(q) # t
    BY <2>2 DEF Last
  <2>4. t \in Range(q)
    BY <1>1
  <2>5. (CHOOSE i \in 1..n : q[i] = t) = 1
    BY <1>2, <1>3
  <2>6. GetNext(q, t) = q[1 + 1]
    BY <2>3, <2>4, <2>5 DEF GetNext
  <2>7. 2 \in P /\ \A j \in P : 2 <= j
    BY <1>1, <1>2, <2>1, <2>2
  <2> HIDE DEF P
  <2>8. Keep(q, P) # << >> /\ Head(Keep(q, P)) = q[2]
    BY <1>1, <1>4, <2>7, KeptFront
  <2>9. GetFront(Removed(q, t)) = q[2]
    BY <1>4, <2>8 DEF GetFront
  <2>10. q[1 + 1] = q[2]
    OBVIOUS
  <2> QED BY <2>6, <2>9, <2>10
<1> QED BY <1>5, <1>6

-----------------------------------------------------------------------------
(* Migration to an idle core.                                              *)

\* The choices of the cores: each is a thread that is active there, or one that
\* may run nowhere else.
Owned(s) ==
  \A d \in Cores : s.top[d] # NoThread =>
    /\ s.top[d] \in s.run
    /\ s.active[s.top[d]] = d \/ s.aff[s.top[d]] = {d}

\* A runnable thread was moved to core c, and the rest is as before.
Moved(s, r, x, c) ==
  /\ Valid(r) /\ r.run = s.run /\ r.aff = s.aff /\ r.prio = s.prio
  /\ r.active = [s.active EXCEPT ![x] = c]
  /\ \A e \in Cores \ {s.active[x], c} : r.sched[e] = s.sched[e] /\ r.sugg[e] = s.sugg[e]
  /\ s.active[x] \in Cores => r.sched[s.active[x]] = Removed(s.sched[s.active[x]], x)

\* One that is not its core's top thread, and that may be taken away from it ...
TakesWaiting(s, r, x, c) ==
  /\ Moved(s, r, x, c)
  /\ TopOn(s.top, s.active[x]) # x
  /\ Movable(s, TopOn(s.top, s.active[x]))
  /\ r.top = [s.top EXCEPT ![c] = x]

\* ... or the top thread of a core that has another one.
TakesTop(s, r, x, c) ==
  LET d == s.active[x]
      next == GetNext(s.sched[d], x)
  IN  /\ Moved(s, r, x, c)
      /\ d \in Cores /\ s.top[d] = x
      /\ next \in Scheduled(s, s.run, d) \ {x}
      /\ r.top = [[s.top EXCEPT ![c] = x] EXCEPT ![d] = next]

\* The threads suggested to a core are those it could run and does not.
LEMMA SuggestedRange ==
  ASSUME NEW s, Valid(s), NEW c \in Cores
  PROVE  /\ Range(s.sugg[c]) = Suggested(s, s.run, c)
         /\ Range(s.sched[c]) = Scheduled(s, s.run, c)
         /\ Links(s.sugg[c], Suggested(s, s.run, c), s.prio)
         /\ Links(s.sched[c], Scheduled(s, s.run, c), s.prio)
         /\ \A x \in Suggested(s, s.run, c) :
               /\ x \in s.run /\ x \in Threads /\ x # NoThread
               /\ c \in s.aff[x] /\ s.active[x] # c /\ s.active[x] \in Cores \cup {NoCore}
         /\ \A x \in Scheduled(s, s.run, c) :
               x \in s.run /\ x \in Threads /\ x # NoThread /\ s.active[x] = c
<1>1. IsState(s) /\ Queued(s, s.run) /\ s.run \subseteq Threads
  BY DEF Valid, IsState
<1>2. /\ Links(s.sugg[c], Suggested(s, s.run, c), s.prio)
      /\ Links(s.sched[c], Scheduled(s, s.run, c), s.prio)
  BY <1>1 DEF Queued
<1>3. Range(s.sugg[c]) = Suggested(s, s.run, c) /\ Range(s.sched[c]) = Scheduled(s, s.run, c)
  BY <1>2 DEF Links
<1>4. \A x \in Threads : s.active[x] \in Cores \cup {NoCore}
  BY <1>1 DEF IsState
<1>5. \A x \in s.run : x \in Threads /\ x # NoThread
  BY <1>1, PriorityQueueAssumption
<1> QED BY <1>2, <1>3, <1>4, <1>5 DEF Scheduled, Suggested

LEMMA MovedTo ==
  ASSUME NEW s, Valid(s), NEW c \in Cores, NEW x \in Suggested(s, s.run, c), NEW end,
         NEW r, IsState(r), r.run = s.run, r.aff = s.aff, r.prio = s.prio,
         r.active = ChangeCore(s, x, c, end).active,
         r.sched = ChangeCore(s, x, c, end).sched, r.sugg = ChangeCore(s, x, c, end).sugg
  PROVE  Moved(s, r, x, c)
<1> DEFINE m == ChangeCore(s, x, c, end)
<1>1. x \in s.run /\ c \in s.aff[x] /\ s.active[x] # c
  BY SuggestedRange
<1>2. /\ Valid(m) /\ m.run = s.run /\ m.aff = s.aff /\ m.prio = s.prio
      /\ m.active = [s.active EXCEPT ![x] = c]
      /\ \A e \in Cores \ {s.active[x], c} : m.sched[e] = s.sched[e] /\ m.sugg[e] = s.sugg[e]
      /\ s.active[x] \in Cores \ {c} => m.sched[s.active[x]] = Removed(s.sched[s.active[x]], x)
  <2>1. c \in s.aff[x] \cup {NoCore}
    BY <1>1
  <2>2. Valid(m) /\ m.run = s.run /\ m.aff = s.aff /\ m.prio = s.prio /\ CoreChanged(s, m, x, c, end)
    BY <1>1, <2>1, ChangeCoreLinks
  <2> HIDE DEF m
  <2> QED BY <2>2 DEF CoreChanged
<1>3. r.active = m.active /\ r.sched = m.sched /\ r.sugg = m.sugg
  OBVIOUS
<1> HIDE DEF m
<1>4. Queued(r, r.run)
  <2>1. \A u \in m.run : r.active[u] = m.active[u] /\ r.aff[u] = m.aff[u] /\ r.prio[u] = m.prio[u]
    BY <1>2, <1>3
  <2>2. Queued(m, m.run)
    BY <1>2 DEF Valid
  <2>3. Queued(r, m.run)
    BY <1>3, <2>1, <2>2, OtherFields
  <2> QED BY <1>2, <2>3
<1>5. Valid(r)
  BY <1>4 DEF Valid
<1> QED BY <1>1, <1>2, <1>3, <1>5 DEF Moved

\* What MigrateToIdle does.
LEMMA MigrateCases ==
  ASSUME NEW s, Valid(s), NEW c \in Cores, NEW r, r = MigrateToIdle(s, c)
  PROVE  \/ r = s /\ Settled(s, c)
         \/ \E x \in Suggested(s, s.run, c) : TakesWaiting(s, r, x, c)
         \/ \E x \in Suggested(s, s.run, c) : TakesTop(s, r, x, c)
<1> DEFINE T == {u \in Range(s.sugg[c]) : TopOn(s.top, s.active[u]) # u}
           U == {v \in Range(s.sugg[c]) : GetNext(s.sched[s.active[v]], v) # NoThread}
           t == FirstIn(s.sugg[c], T)
           u == FirstIn(s.sugg[c], U)
<1>1. r = IF t # NoThread
          THEN IF ~Movable(s, TopOn(s.top, s.active[t])) THEN s
               ELSE [ChangeCore(s, t, c, "back") EXCEPT !.top[c] = t]
          ELSE IF u = NoThread THEN s
          ELSE Bump([ChangeCore(s, u, c, "back") EXCEPT
                   !.top[c] = u, !.top[s.active[u]] = GetNext(s.sched[s.active[u]], u)], {u})
  BY DEF MigrateToIdle
<1>2. Settled(s, c) <=> IF t # NoThread THEN ~Movable(s, TopOn(s.top, s.active[t]))
                        ELSE \A v \in Range(s.sugg[c]) : GetNext(s.sched[s.active[v]], v) = NoThread
  BY DEF Settled
<1>3. /\ Range(s.sugg[c]) = Suggested(s, s.run, c)
      /\ Links(s.sugg[c], Suggested(s, s.run, c), s.prio)
      /\ Suggested(s, s.run, c) \subseteq Threads
  BY SuggestedRange
<1>4. /\ t # NoThread => t \in Suggested(s, s.run, c) /\ t \in T
      /\ t = NoThread => Suggested(s, s.run, c) \cap T = {}
      /\ u # NoThread => u \in Suggested(s, s.run, c) /\ u \in U
      /\ u = NoThread => Suggested(s, s.run, c) \cap U = {}
  <2> HIDE DEF T, U
  <2>1. /\ t # NoThread => t \in Suggested(s, s.run, c) /\ t \in T
        /\ t = NoThread => Suggested(s, s.run, c) \cap T = {}
    BY <1>3, FirstIsLinked
  <2>2. /\ u # NoThread => u \in Suggested(s, s.run, c) /\ u \in U
        /\ u = NoThread => Suggested(s, s.run, c) \cap U = {}
    BY <1>3, FirstIsLinked
  <2> QED BY <2>1, <2>2
<1>5. s.top \in [Cores -> Threads \cup {NoThread}]
  BY DEF Valid, IsState
<1> HIDE DEF t, u
<1>6. CASE t # NoThread /\ ~Movable(s, TopOn(s.top, s.active[t]))
  BY <1>1, <1>2, <1>6
<1>7. CASE t # NoThread /\ Movable(s, TopOn(s.top, s.active[t]))
  <2> DEFINE m == ChangeCore(s, t, c, "back")
             h == [s.top EXCEPT ![c] = t]
  <2>1. t \in Suggested(s, s.run, c) /\ TopOn(s.top, s.active[t]) # t
    BY <1>4, <1>7
  <2>2. t \in s.run /\ c \in s.aff[t]
    BY <2>1, SuggestedRange
  <2>3. Valid(m) /\ m.run = s.run /\ m.aff = s.aff /\ m.prio = s.prio /\ m.top = s.top
    <3>1. c \in s.aff[t] \cup {NoCore}
      BY <2>2
    <3>2. m = ChangeCore(s, t, c, "back")
      OBVIOUS
    <3> HIDE DEF m, T, U
    <3> QED BY <2>2, <3>1, <3>2, ChangeCoreLinks
  <2>4. r = [m EXCEPT !.top[c] = t]
    BY <1>1, <1>7
  <2> HIDE DEF m
  <2>5. h \in [Cores -> Threads \cup {NoThread}]
    BY <1>3, <1>5, <2>1
  <2>6. r = [m EXCEPT !.top = h]
    <3>1. DOMAIN m = {"run", "active", "aff", "prio", "sched", "sugg", "top", "bumped"}
      BY <2>3 DEF Valid, IsState
    <3> QED BY <2>3, <2>4, <3>1
  <2> HIDE DEF h
  <2>7. Valid(r)
    BY <2>3, <2>5, <2>6, SetTop
  <2>8. /\ r.run = m.run /\ r.aff = m.aff /\ r.prio = m.prio /\ r.active = m.active
        /\ r.sched = m.sched /\ r.sugg = m.sugg /\ r.top = h
    BY <2>3, <2>6 DEF Valid, IsState
  <2>9. Moved(s, r, t, c)
    <3>1. IsState(r) /\ r.run = s.run /\ r.aff = s.aff /\ r.prio = s.prio
      BY <2>3, <2>7, <2>8 DEF Valid
    <3>2. /\ r.active = ChangeCore(s, t, c, "back").active
          /\ r.sched = ChangeCore(s, t, c, "back").sched
          /\ r.sugg = ChangeCore(s, t, c, "back").sugg
      BY <2>8 DEF m
    <3> QED BY <2>1, <3>1, <3>2, MovedTo
  <2>10. TakesWaiting(s, r, t, c)
    BY <1>7, <2>1, <2>8, <2>9 DEF TakesWaiting, h
  <2> QED BY <2>1, <2>10
<1>8. CASE t = NoThread /\ u = NoThread
  <2>1. \A v \in Range(s.sugg[c]) : v \notin U
    BY <1>3, <1>4, <1>8
  <2>2. \A v \in Range(s.sugg[c]) : GetNext(s.sched[s.active[v]], v) = NoThread
    BY <2>1
  <2>3. r = s
    BY <1>1, <1>8
  <2> QED BY <1>2, <1>8, <2>2, <2>3
<1>9. CASE t = NoThread /\ u # NoThread
  <2> DEFINE m == ChangeCore(s, u, c, "back")
             d == s.active[u]
             y == GetNext(s.sched[d], u)
             h == [[s.top EXCEPT ![c] = u] EXCEPT ![d] = y]
  <2>1. u \in Suggested(s, s.run, c) /\ y # NoThread
    BY <1>4, <1>9
  <2>2. u \in s.run /\ c \in s.aff[u] /\ u \in Threads /\ u # NoThread /\ d \in Cores \cup {NoCore} /\ d # c
    BY <2>1, SuggestedRange
  <2>3. TopOn(s.top, d) = u
    BY <1>3, <1>4, <1>9, <2>1
  <2>4. d \in Cores /\ s.top[d] = u
    BY <2>2, <2>3 DEF TopOn
  <2>5. y \in Scheduled(s, s.run, d) \ {u} /\ y \in Threads
    <3>1. Links(s.sched[d], Scheduled(s, s.run, d), s.prio) /\ Scheduled(s, s.run, d) \subseteq Threads
      BY <2>4, SuggestedRange
    <3> QED BY <2>1, <3>1, NextIsLinked
  <2>6. Valid(m) /\ m.run = s.run /\ m.aff = s.aff /\ m.prio = s.prio /\ m.top = s.top
    <3>1. c \in s.aff[u] \cup {NoCore}
      BY <2>2
    <3>2. m = ChangeCore(s, u, c, "back")
      OBVIOUS
    <3> HIDE DEF m, T, U
    <3> QED BY <2>2, <3>1, <3>2, ChangeCoreLinks
  <2>7. r = Bump([m EXCEPT !.top[c] = u, !.top[d] = y], {u})
    BY <1>1, <1>9
  <2> HIDE DEF m, y, d
  <2>8. h \in [Cores -> Threads \cup {NoThread}]
    BY <1>5, <2>2, <2>4, <2>5
  <2> DEFINE k == [m EXCEPT !.top = h]
  <2>9. r = Bump(k, {u})
    <3>1. DOMAIN m = {"run", "active", "aff", "prio", "sched", "sugg", "top", "bumped"}
      BY <2>6 DEF Valid, IsState
    <3>2. [m EXCEPT !.top[c] = u, !.top[d] = y] = k
      BY <2>6, <3>1
    <3> QED BY <2>7, <3>2
  <2> HIDE DEF h
  <2>10. Valid(k)
    BY <2>6, <2>8, SetTop
  <2>11. /\ k.run = m.run /\ k.aff = m.aff /\ k.prio = m.prio /\ k.active = m.active
         /\ k.sched = m.sched /\ k.sugg = m.sugg /\ k.top = h
    BY <2>6 DEF Valid, IsState
  <2> HIDE DEF k
  <2>12. /\ IsState(r) /\ r.run = m.run /\ r.aff = m.aff /\ r.prio = m.prio
         /\ r.active = m.active /\ r.sched = m.sched /\ r.sugg = m.sugg /\ r.top = h
    BY <2>9, <2>10, <2>11, BumpKeeps DEF Valid
  <2>13. Moved(s, r, u, c)
    <3>1. IsState(r) /\ r.run = s.run /\ r.aff = s.aff /\ r.prio = s.prio
      BY <2>6, <2>12
    <3>2. /\ r.active = ChangeCore(s, u, c, "back").active
          /\ r.sched = ChangeCore(s, u, c, "back").sched
          /\ r.sugg = ChangeCore(s, u, c, "back").sugg
      BY <2>12 DEF m
    <3> QED BY <2>1, <3>1, <3>2, MovedTo
  <2>14. TakesTop(s, r, u, c)
    BY <2>4, <2>5, <2>12, <2>13 DEF TakesTop, h, d, y
  <2> QED BY <2>1, <2>14
<1> QED BY <1>6, <1>7, <1>8, <1>9

\* A thread that was moved is active on its new core, the others where they were.
LEMMA MovedFields ==
  ASSUME NEW s, Valid(s), NEW c \in Cores, NEW x \in Suggested(s, s.run, c), NEW r, Moved(s, r, x, c)
  PROVE  /\ r.active[x] = c
         /\ \A v \in Threads \ {x} : r.active[v] = s.active[v]
         /\ x \in s.run /\ x \in Threads /\ c \in s.aff[x] /\ s.active[x] # c
<1>1. x \in s.run /\ x \in Threads /\ c \in s.aff[x] /\ s.active[x] # c
  BY SuggestedRange
<1>2. s.active \in [Threads -> Cores \cup {NoCore}]
  BY DEF Valid, IsState
<1>3. r.active = [s.active EXCEPT ![x] = c]
  BY DEF Moved
<1> QED BY <1>1, <1>2, <1>3

LEMMA TakesOwned ==
  ASSUME NEW s, Valid(s), Owned(s), NEW c \in Cores, NEW x \in Suggested(s, s.run, c), NEW r,
         TakesWaiting(s, r, x, c) \/ TakesTop(s, r, x, c)
  PROVE  Valid(r) /\ Owned(r) /\ r.run = s.run /\ r.aff = s.aff /\ r.prio = s.prio
<1>1. Moved(s, r, x, c)
  BY DEF TakesWaiting, TakesTop
<1>2. Valid(r) /\ r.run = s.run /\ r.aff = s.aff /\ r.prio = s.prio
  BY <1>1 DEF Moved
<1>3. /\ r.active[x] = c
      /\ \A v \in Threads \ {x} : r.active[v] = s.active[v]
      /\ x \in s.run /\ x \in Threads /\ c \in s.aff[x] /\ s.active[x] # c
  BY <1>1, MovedFields
<1>4. s.top \in [Cores -> Threads \cup {NoThread}] /\ s.run \subseteq Threads
  BY DEF Valid, IsState
<1>5. ASSUME NEW d \in Cores \ {c}, s.top[d] = x PROVE d = s.active[x]
  BY <1>3, <1>5, PriorityQueueAssumption DEF Owned
<1>6. ASSUME NEW d \in Cores, s.top[d] # NoThread, s.top[d] # x
      PROVE  s.top[d] \in r.run /\ (r.active[s.top[d]] = d \/ r.aff[s.top[d]] = {d})
  <2>1. s.top[d] \in s.run /\ s.top[d] \in Threads /\ (s.active[s.top[d]] = d \/ s.aff[s.top[d]] = {d})
    BY <1>4, <1>6 DEF Owned
  <2> QED BY <1>2, <1>3, <1>6, <2>1
<1>7. CASE TakesWaiting(s, r, x, c)
  <2>1. r.top = [s.top EXCEPT ![c] = x] /\ TopOn(s.top, s.active[x]) # x
    BY <1>7 DEF TakesWaiting
  <2>2. ASSUME NEW d \in Cores, r.top[d] # NoThread
        PROVE  r.top[d] \in r.run /\ (r.active[r.top[d]] = d \/ r.aff[r.top[d]] = {d})
    <3>1. CASE d = c
      BY <1>2, <1>3, <1>4, <2>1, <3>1
    <3>2. CASE d # c
      <4>1. r.top[d] = s.top[d]
        BY <1>4, <2>1, <3>2
      <4>2. s.top[d] # x
        <5>1. ASSUME s.top[d] = x PROVE FALSE
          <6>1. d = s.active[x]
            BY <1>5, <3>2, <5>1
          <6>2. NoCore \notin Cores
            BY StateFacts DEF Valid
          <6> QED BY <2>1, <5>1, <6>1, <6>2 DEF TopOn
        <5> QED BY <5>1
      <4> QED BY <1>6, <2>2, <4>1, <4>2
    <3> QED BY <3>1, <3>2
  <2> QED BY <1>2, <2>2 DEF Owned
<1>8. CASE TakesTop(s, r, x, c)
  <2> DEFINE e == s.active[x]
             y == GetNext(s.sched[e], x)
  <2>1. /\ e \in Cores /\ s.top[e] = x /\ y \in Scheduled(s, s.run, e) \ {x}
        /\ r.top = [[s.top EXCEPT ![c] = x] EXCEPT ![e] = y]
    BY <1>8 DEF TakesTop
  <2>2. y \in s.run /\ y \in Threads /\ s.active[y] = e /\ y # x
    BY <2>1, SuggestedRange
  <2> HIDE DEF y
  <2>3. r.top[c] = x /\ r.top[e] = y /\ \A d \in Cores \ {c, e} : r.top[d] = s.top[d]
    BY <1>3, <1>4, <2>1
  <2>4. ASSUME NEW d \in Cores, r.top[d] # NoThread
        PROVE  r.top[d] \in r.run /\ (r.active[r.top[d]] = d \/ r.aff[r.top[d]] = {d})
    <3>1. CASE d = c
      BY <1>2, <1>3, <2>3, <3>1
    <3>2. CASE d = e
      BY <1>2, <1>3, <2>2, <2>3, <3>2
    <3>3. CASE d # c /\ d # e
      <4>1. r.top[d] = s.top[d] /\ s.top[d] # x
        BY <1>5, <2>3, <3>3
      <4> QED BY <1>6, <2>4, <4>1
    <3> QED BY <3>1, <3>2, <3>3
  <2> QED BY <1>2, <2>4 DEF Owned
<1> QED BY <1>2, <1>7, <1>8

LEMMA MigrateKeeps ==
  ASSUME NEW s, Valid(s), Owned(s), NEW c \in Cores, NEW r, r = MigrateToIdle(s, c)
  PROVE  Valid(r) /\ Owned(r) /\ r.run = s.run /\ r.aff = s.aff /\ r.prio = s.prio
BY MigrateCases, TakesOwned

-----------------------------------------------------------------------------
(* While no thread is pinned: the choices are the fronts of the queues, and *)
(* idle cores have nothing to take.                                        *)

Current(s) == \A c \in Cores : s.top[c] = GetFront(s.sched[c])

\* No thread is active on the core.
Idle(s, c) == Scheduled(s, s.run, c) = {}

\* Settled and TookLater, by the sets of threads and not by their order.
FirstWaiting(s, c) ==
  FirstIn(s.sugg[c], {u \in Range(s.sugg[c]) : TopOn(s.top, s.active[u]) # u})

NothingToTake(s, c) ==
  IF FirstWaiting(s, c) # NoThread
  THEN ~Movable(s, TopOn(s.top, s.active[FirstWaiting(s, c)]))
  ELSE \A u \in Suggested(s, s.run, c) : Scheduled(s, s.run, s.active[u]) = {u}

TakenLater(s, c) ==
  \E d \in Cores : d > c /\ \E v \in s.run : /\ Scheduled(s, s.run, d) = {v}
                                             /\ s.aff[v] \ {c, d} # {}

\* If no suggested thread waits, each is the front of its core's queue.
LEMMA NobodyWaits ==
  ASSUME NEW s, Valid(s), Current(s), NEW c \in Cores, FirstWaiting(s, c) = NoThread,
         NEW u \in Suggested(s, s.run, c)
  PROVE  /\ s.active[u] \in Cores /\ GetFront(s.sched[s.active[u]]) = u
         /\ s.top[s.active[u]] = u
         /\ u \in Scheduled(s, s.run, s.active[u])
         /\ GetNext(s.sched[s.active[u]], u) = NoThread <=> Scheduled(s, s.run, s.active[u]) = {u}
<1> DEFINE T == {v \in Range(s.sugg[c]) : TopOn(s.top, s.active[v]) # v}
           d == s.active[u]
<1>1. /\ Range(s.sugg[c]) = Suggested(s, s.run, c)
      /\ Links(s.sugg[c], Suggested(s, s.run, c), s.prio)
      /\ Suggested(s, s.run, c) \subseteq Threads
      /\ u # NoThread /\ u \in s.run /\ d \in Cores \cup {NoCore}
  BY SuggestedRange
<1>2. FirstIn(s.sugg[c], T) = NoThread
  BY DEF FirstWaiting
<1>3. Suggested(s, s.run, c) \cap T = {}
  <2> HIDE DEF T
  <2> QED BY <1>1, <1>2, FirstIsLinked
<1>4. TopOn(s.top, d) = u
  BY <1>1, <1>3
<1>5. d \in Cores /\ s.top[d] = u
  BY <1>1, <1>4 DEF TopOn
<1>6. GetFront(s.sched[d]) = u
  BY <1>5 DEF Current
<1>7. u \in Scheduled(s, s.run, d)
  BY <1>1 DEF Scheduled
<1>8. Links(s.sched[d], Scheduled(s, s.run, d), s.prio)
  BY <1>5, SuggestedRange
<1> HIDE DEF d
<1>9. GetNext(s.sched[d], u) = GetFront(Removed(s.sched[d], u))
  BY <1>6, <1>7, <1>8, NextIsFront
<1>10. GetNext(s.sched[d], u) = NoThread <=> Scheduled(s, s.run, d) \ {u} = {}
  <2>1. Links(Removed(s.sched[d], u), Scheduled(s, s.run, d) \ {u}, s.prio)
    BY <1>8, RemovedLinks
  <2> QED BY <1>9, <2>1, FrontOfSome
<1>11. GetNext(s.sched[d], u) = NoThread <=> Scheduled(s, s.run, d) = {u}
  BY <1>7, <1>10
<1> QED BY <1>5, <1>6, <1>7, <1>11 DEF d

LEMMA SettledMeans ==
  ASSUME NEW s, Valid(s), Current(s), NEW c \in Cores
  PROVE  Settled(s, c) <=> NothingToTake(s, c)
<1>1. Range(s.sugg[c]) = Suggested(s, s.run, c)
  BY SuggestedRange
<1>2. CASE FirstWaiting(s, c) # NoThread
  BY <1>2 DEF Settled, NothingToTake, FirstWaiting
<1>3. CASE FirstWaiting(s, c) = NoThread
  <2>1. \A u \in Suggested(s, s.run, c) :
          GetNext(s.sched[s.active[u]], u) = NoThread <=> Scheduled(s, s.run, s.active[u]) = {u}
    BY <1>3, NobodyWaits
  <2>2. Settled(s, c) <=> \A u \in Range(s.sugg[c]) : GetNext(s.sched[s.active[u]], u) = NoThread
    BY <1>3 DEF Settled, FirstWaiting
  <2>3. NothingToTake(s, c) <=>
          \A u \in Suggested(s, s.run, c) : Scheduled(s, s.run, s.active[u]) = {u}
    BY <1>3 DEF NothingToTake
  <2> QED BY <1>1, <2>1, <2>2, <2>3
<1> QED BY <1>2, <1>3

LEMMA TakenMeans ==
  ASSUME NEW s, Valid(s), NEW c \in Cores, TakenLater(s, c)
  PROVE  TookLater(s, c)
<1>1. PICK d \in Cores, v \in s.run : d > c /\ Scheduled(s, s.run, d) = {v} /\ s.aff[v] \ {c, d} # {}
  BY DEF TakenLater
<1> DEFINE q == s.sched[d]
<1>2. Links(q, {v}, s.prio)
  <2>1. Links(s.sched[d], Scheduled(s, s.run, d), s.prio)
    BY SuggestedRange
  <2> QED BY <1>1, <2>1
<1> HIDE DEF q
<1>3. q \in Seq(Threads) /\ Range(q) = {v} /\ Ordered(q, s.prio) /\ Len(q) \in Nat /\ DOMAIN q = 1..Len(q)
  BY <1>2 DEF Links
<1>4. Head(q) = q[1] /\ 1 \in DOMAIN q /\ q[1] = v
  BY <1>2, <1>3, FrontOfSome DEF Range
<1>5. Len(q) = 1
  <2> SUFFICES ASSUME Len(q) # 1 PROVE FALSE
    OBVIOUS
  <2>1. 2 \in 1..Len(q) /\ 1 \in 1..Len(q)
    BY <1>3, <1>4
  <2>2. q[2] = v
    BY <1>3, <2>1 DEF Range
  <2> QED BY <1>3, <1>4, <2>1, <2>2 DEF Ordered
<1>6. d > c /\ Len(s.sched[d]) = 1 /\ s.aff[Head(s.sched[d])] \ {c, d} # {}
  BY <1>1, <1>4, <1>5 DEF q
<1> QED BY <1>6 DEF TookLater

\* The cores of the threads after one was moved.
LEMMA MovedSets ==
  ASSUME NEW s, Valid(s), NEW c \in Cores, NEW x \in Suggested(s, s.run, c), Idle(s, c),
         NEW r, Moved(s, r, x, c)
  PROVE  /\ Scheduled(r, r.run, c) = {x}
         /\ \A e \in Cores \ {c} : Scheduled(r, r.run, e) = Scheduled(s, s.run, e) \ {x}
<1>1. /\ r.active[x] = c /\ x \in s.run
      /\ \A v \in Threads \ {x} : r.active[v] = s.active[v]
  BY MovedFields
<1>2. r.run = s.run /\ s.run \subseteq Threads
  BY DEF Moved, Valid, IsState
<1>3. \A v \in s.run \ {x} : r.active[v] = s.active[v]
  BY <1>1, <1>2
<1>4. \A v \in s.run : s.active[v] # c
  BY DEF Idle, Scheduled
<1>5. Scheduled(r, r.run, c) = {x}
  BY <1>1, <1>2, <1>3, <1>4 DEF Scheduled
<1>6. ASSUME NEW e \in Cores \ {c}
      PROVE  Scheduled(r, r.run, e) = Scheduled(s, s.run, e) \ {x}
  BY <1>1, <1>2, <1>3 DEF Scheduled
<1> QED BY <1>5, <1>6

\* The core a thread is taken from keeps another, which becomes its front.
LEMMA OthersStay ==
  ASSUME NEW s, Valid(s), Current(s), NEW c \in Cores, NEW x \in Suggested(s, s.run, c),
         NEW r, TakesWaiting(s, r, x, c) \/ TakesTop(s, r, x, c), s.active[x] \in Cores
  PROVE  /\ Scheduled(s, s.run, s.active[x]) \ {x} # {}
         /\ x \in Scheduled(s, s.run, s.active[x])
         /\ s.active[x] # c
         /\ r.top[s.active[x]] = GetFront(r.sched[s.active[x]])
<1> DEFINE d == s.active[x]
           S == Scheduled(s, s.run, d)
<1>1. x \in s.run /\ d # c
  BY SuggestedRange
<1>2. Links(s.sched[d], S, s.prio)
  BY SuggestedRange
<1>3. x \in S
  BY <1>1 DEF Scheduled
<1>4. s.top[d] = GetFront(s.sched[d])
  BY DEF Current
<1>5. r.sched[d] = Removed(s.sched[d], x)
  BY DEF TakesWaiting, TakesTop, Moved
<1>6. s.top \in [Cores -> Threads \cup {NoThread}]
  BY DEF Valid, IsState
<1>7. CASE TakesWaiting(s, r, x, c)
  <2>1. r.top = [s.top EXCEPT ![c] = x] /\ TopOn(s.top, d) # x
    BY <1>7 DEF TakesWaiting
  <2>2. s.top[d] # x
    <3>1. NoCore \notin Cores
      BY StateFacts DEF Valid
    <3> QED BY <2>1, <3>1 DEF TopOn
  <2>3. r.top[d] = s.top[d]
    BY <1>1, <1>6, <2>1
  <2> HIDE DEF S, d
  <2>4. GetFront(s.sched[d]) \in S
    BY <1>2, <1>3, FrontOfSome, FrontIsLinked
  <2>5. GetFront(Removed(s.sched[d], x)) = GetFront(s.sched[d])
    BY <1>2, <1>3, <1>4, <2>2, FrontStays
  <2>6. S \ {x} # {}
    BY <1>4, <2>2, <2>4
  <2> QED BY <1>1, <1>3, <1>4, <1>5, <2>3, <2>5, <2>6 DEF S, d
<1>8. CASE TakesTop(s, r, x, c)
  <2>1. /\ s.top[d] = x /\ GetNext(s.sched[d], x) \in S \ {x}
        /\ r.top = [[s.top EXCEPT ![c] = x] EXCEPT ![d] = GetNext(s.sched[d], x)]
    BY <1>8 DEF TakesTop
  <2>2. r.top[d] = GetNext(s.sched[d], x)
    BY <1>6, <2>1
  <2> HIDE DEF S, d
  <2>3. GetNext(s.sched[d], x) = GetFront(Removed(s.sched[d], x))
    BY <1>2, <1>3, <1>4, <2>1, NextIsFront
  <2> QED BY <1>1, <1>3, <1>5, <2>1, <2>2, <2>3 DEF S, d
<1> QED BY <1>7, <1>8

\* A thread that waits goes to core c: an idle core before it has nothing to take
\* as before.
LEMMA WaitingTakenElsewhere ==
  ASSUME NEW s, Valid(s), Current(s), NEW c \in Cores, Idle(s, c),
         NEW x \in Suggested(s, s.run, c), NEW r, TakesWaiting(s, r, x, c),
         NEW b \in Cores, b # c, Idle(s, b), NothingToTake(s, b)
  PROVE  NothingToTake(r, b)
<1> DEFINE d == s.active[x]
           q == s.sugg[b]
           W == {u \in Range(s.sugg[b]) : TopOn(s.top, s.active[u]) # u}
           V == {u \in Range(r.sugg[b]) : TopOn(r.top, r.active[u]) # u}
           f == FirstWaiting(s, b)
<1>1. /\ Moved(s, r, x, c) /\ TopOn(s.top, d) # x /\ Movable(s, TopOn(s.top, d))
      /\ r.top = [s.top EXCEPT ![c] = x]
  BY DEF TakesWaiting
<1>2. /\ r.active[x] = c /\ x \in s.run /\ x \in Threads
      /\ \A v \in Threads \ {x} : r.active[v] = s.active[v]
  BY <1>1, MovedFields
<1>3. r.run = s.run /\ s.run \subseteq Threads /\ r.prio = s.prio /\ Valid(r)
  BY <1>1 DEF Moved, Valid, IsState
<1>4. \A v \in s.run : s.active[v] # c /\ s.active[v] # b
  BY DEF Idle, Scheduled
<1>5. r.sugg[b] = q
  BY <1>1, <1>2, <1>4 DEF Moved
<1>6. /\ Range(q) = Suggested(s, s.run, b) /\ Links(q, Suggested(s, s.run, b), s.prio)
      /\ Suggested(s, s.run, b) \subseteq s.run
      /\ \A v \in Suggested(s, s.run, b) : s.active[v] \in Cores \cup {NoCore}
  BY SuggestedRange
<1>7. Suggested(r, r.run, b) = Suggested(s, s.run, b)
  <2>1. Range(r.sugg[b]) = Suggested(r, r.run, b)
    BY <1>3, SuggestedRange
  <2> QED BY <1>5, <1>6, <2>1
<1>8. s.top \in [Cores -> Threads \cup {NoThread}] /\ NoCore \notin Cores
  BY StateFacts DEF Valid, IsState
<1>9. ASSUME NEW u \in Suggested(s, s.run, b), u # x
      PROVE  r.active[u] = s.active[u] /\ TopOn(r.top, r.active[u]) = TopOn(s.top, s.active[u])
  <2>1. r.active[u] = s.active[u] /\ s.active[u] # c /\ s.active[u] \in Cores \cup {NoCore}
    BY <1>2, <1>3, <1>4, <1>6, <1>9
  <2> QED BY <1>1, <1>8, <2>1 DEF TopOn
<1>10. TopOn(r.top, r.active[x]) = x
  <2>1. c # NoCore
    BY <1>8
  <2> QED BY <1>1, <1>2, <1>8, <2>1 DEF TopOn
<1>11. \A u \in Suggested(s, s.run, b) : u \in V <=> u \in W /\ u # x
  BY <1>5, <1>6, <1>9, <1>10
<1>12. f = FirstIn(q, W) /\ FirstWaiting(r, b) = FirstIn(q, V)
  BY <1>5 DEF FirstWaiting
<1>13. CASE f # NoThread
  <2>1. ~Movable(s, TopOn(s.top, s.active[f]))
    BY <1>13 DEF NothingToTake
  <2>2. f # x
    BY <1>1, <2>1
  <2> HIDE DEF W, V, f, q
  <2>3. f \in Suggested(s, s.run, b) /\ f \in W
    BY <1>6, <1>12, <1>13, FirstIsLinked
  <2>4. f \in V
    BY <1>11, <2>2, <2>3
  <2>5. FirstIn(q, V) = f
    BY <1>6, <1>11, <1>12, <1>13, <2>4, FirstOfFewer
  <2>6. TopOn(r.top, r.active[f]) = TopOn(s.top, s.active[f])
    BY <1>9, <2>2, <2>3
  <2>7. ~Movable(r, TopOn(r.top, r.active[f]))
    BY <1>3, <2>1, <2>6 DEF Movable
  <2> QED BY <1>12, <1>13, <2>5, <2>7 DEF NothingToTake
<1>14. CASE f = NoThread
  <2>1. \A u \in Suggested(s, s.run, b) : Scheduled(s, s.run, s.active[u]) = {u}
    BY <1>14 DEF NothingToTake
  <2>2. \A u \in Suggested(s, s.run, b) : u \notin W
    <3>2. Suggested(s, s.run, b) \subseteq Threads
      BY <1>3, <1>6
    <3>3. Links(q, Suggested(s, s.run, b), s.prio) /\ FirstIn(q, W) = NoThread
      BY <1>6, <1>12, <1>14
    <3> HIDE DEF W, f, q
    <3>1. Suggested(s, s.run, b) \cap W = {}
      BY <3>2, <3>3, FirstIsLinked
    <3> QED BY <3>1
  <2>3. x \notin Suggested(s, s.run, b)
    BY <1>1, <1>6, <2>2
  <2>4. FirstWaiting(r, b) = NoThread
    <3> HIDE DEF W, V, f, q
    <3> QED BY <1>6, <1>11, <1>12, <2>2, FirstIsLinked
  <2>5. ASSUME NEW u \in Suggested(r, r.run, b)
        PROVE  Scheduled(r, r.run, r.active[u]) = {u}
    <3>1. u \in Suggested(s, s.run, b) /\ u # x
      BY <1>7, <2>3
    <3>2. s.active[u] \in Cores /\ u \in s.run
      BY <1>6, <1>14, <3>1, NobodyWaits
    <3>3. r.active[u] = s.active[u] /\ s.active[u] # c
      BY <1>4, <1>9, <3>1, <3>2
    <3>4. Scheduled(r, r.run, s.active[u]) = Scheduled(s, s.run, s.active[u]) \ {x}
      BY <1>1, <3>2, <3>3, MovedSets
    <3> QED BY <2>1, <3>1, <3>3, <3>4
  <2> QED BY <2>4, <2>5 DEF NothingToTake
<1> QED BY <1>13, <1>14

LEMMA MigrateIdle ==
  ASSUME NEW s, Valid(s), Current(s), NEW c \in Cores, Idle(s, c), NEW r, r = MigrateToIdle(s, c)
  PROVE  /\ Valid(r) /\ Current(r)
         /\ \A e \in Cores \ {c} : Idle(r, e) <=> Idle(s, e)
         /\ Idle(r, c) => NothingToTake(r, c)
         /\ \A b \in Cores : /\ b < c /\ Idle(s, b)
                             /\ NothingToTake(s, b) \/ TakenLater(s, b)
                             => NothingToTake(r, b) \/ TakenLater(r, b)
<1>1. CASE r = s /\ Settled(s, c)
  BY <1>1, SettledMeans
<1>2. ASSUME NEW x \in Suggested(s, s.run, c), TakesWaiting(s, r, x, c) \/ TakesTop(s, r, x, c)
      PROVE  /\ Valid(r) /\ Current(r)
             /\ \A e \in Cores \ {c} : Idle(r, e) <=> Idle(s, e)
             /\ Idle(r, c) => NothingToTake(r, c)
             /\ \A b \in Cores : /\ b < c /\ Idle(s, b)
                                 /\ NothingToTake(s, b) \/ TakenLater(s, b)
                                 => NothingToTake(r, b) \/ TakenLater(r, b)
  <2> DEFINE d == s.active[x]
  <2>1. Moved(s, r, x, c)
    BY <1>2 DEF TakesWaiting, TakesTop
  <2>2. /\ Valid(r) /\ r.run = s.run /\ r.aff = s.aff /\ r.prio = s.prio
        /\ \A e \in Cores \ {d, c} : r.sched[e] = s.sched[e]
    BY <2>1 DEF Moved
  <2>3. /\ Scheduled(r, r.run, c) = {x}
        /\ \A e \in Cores \ {c} : Scheduled(r, r.run, e) = Scheduled(s, s.run, e) \ {x}
    BY <2>1, MovedSets
  <2>4. x \in s.run /\ x # NoThread /\ d \in Cores \cup {NoCore} /\ d # c
    BY SuggestedRange
  <2>5. d \in Cores => /\ Scheduled(s, s.run, d) \ {x} # {}
                       /\ r.top[d] = GetFront(r.sched[d])
    BY <1>2, OthersStay
  <2>6. s.top \in [Cores -> Threads \cup {NoThread}] /\ NoCore \notin Cores
    BY StateFacts DEF Valid, IsState
  <2>7. r.top[c] = x /\ \A e \in Cores \ {c, d} : r.top[e] = s.top[e]
    <3>1. CASE TakesWaiting(s, r, x, c)
      BY <2>6, <3>1 DEF TakesWaiting
    <3>2. CASE TakesTop(s, r, x, c)
      <4>1. /\ d \in Cores
            /\ r.top = [[s.top EXCEPT ![c] = x] EXCEPT ![d] = GetNext(s.sched[d], x)]
        BY <3>2 DEF TakesTop
      <4> QED BY <2>4, <2>6, <4>1
    <3> QED BY <1>2, <3>1, <3>2
  <2> HIDE DEF d
  <2>8. Current(r)
    <3>1. ASSUME NEW e \in Cores PROVE r.top[e] = GetFront(r.sched[e])
      <4>1. CASE e = c
        <5>1. Links(r.sched[c], {x}, r.prio)
          <6>1. Links(r.sched[c], Scheduled(r, r.run, c), r.prio)
            BY <2>2, SuggestedRange
          <6> QED BY <2>3, <6>1
        <5>2. GetFront(r.sched[c]) = x
          BY <5>1, FrontOfSome, FrontIsLinked
        <5> QED BY <2>7, <4>1, <5>2
      <4>2. CASE e = d
        BY <2>5, <4>2
      <4>3. CASE e # c /\ e # d
        BY <2>2, <2>7, <4>3 DEF Current
      <4> QED BY <4>1, <4>2, <4>3
    <3> QED BY <3>1 DEF Current
  <2>9. ASSUME NEW e \in Cores \ {c} PROVE Idle(r, e) <=> Idle(s, e)
    <3>1. CASE e = d
      BY <2>3, <2>5, <3>1 DEF Idle
    <3>2. CASE e # d
      <4>1. x \notin Scheduled(s, s.run, e)
        BY <3>2 DEF Scheduled, d
      <4> QED BY <2>3, <4>1 DEF Idle
    <3> QED BY <3>1, <3>2
  <2>10. ~Idle(r, c)
    BY <2>3 DEF Idle
  <2>11. ASSUME NEW b \in Cores, b < c, Idle(s, b), NothingToTake(s, b) \/ TakenLater(s, b)
         PROVE  NothingToTake(r, b) \/ TakenLater(r, b)
    <3>0. b # c
      <4>1. c \in Int
        BY PriorityQueueAssumption DEF Cores
      <4> QED BY <2>11, <4>1
    <3>1. CASE TakenLater(s, b)
      <4>1. PICK e \in Cores, v \in s.run : e > b /\ Scheduled(s, s.run, e) = {v} /\ s.aff[v] \ {b, e} # {}
        BY <3>1 DEF TakenLater
      <4>2. e # c
        BY <4>1 DEF Idle
      <4>3. Scheduled(r, r.run, e) = {v}
        <5>1. CASE v = x
          <6>1. e = d
            BY <4>1, <5>1 DEF Scheduled, d
          <6> QED BY <2>5, <4>1, <5>1, <6>1
        <5>2. CASE v # x
          BY <2>3, <4>1, <4>2, <5>2
        <5> QED BY <5>1, <5>2
      <4> QED BY <2>2, <4>1, <4>3 DEF TakenLater
    <3>2. CASE TakesTop(s, r, x, c)
      <4>1. d \in Cores
        BY <3>2 DEF TakesTop, d
      <4>2. d \in s.aff[x]
        <5>1. d \in s.aff[x] \cup {NoCore}
          BY <2>4 DEF Valid, IsState, d
        <5> QED BY <2>6, <4>1, <5>1
      <4>3. d # b
        BY <2>4, <2>11 DEF Idle, Scheduled, d
      <4>4. r.aff[x] \ {b, c} # {}
        BY <2>2, <2>4, <4>2, <4>3
      <4>5. c > b
        <5>1. c \in Int /\ b \in Int
          BY PriorityQueueAssumption DEF Cores
        <5> QED BY <2>11, <5>1
      <4>6. x \in r.run
        BY <2>2, <2>4
      <4>7. c > b /\ Scheduled(r, r.run, c) = {x} /\ r.aff[x] \ {b, c} # {}
        BY <2>3, <4>4, <4>5
      <4> QED BY <4>6, <4>7 DEF TakenLater
    <3>3. CASE TakesWaiting(s, r, x, c) /\ NothingToTake(s, b)
      BY <2>11, <3>0, <3>3, WaitingTakenElsewhere
    <3> QED BY <1>2, <2>11, <3>1, <3>2, <3>3
  <2> QED BY <2>2, <2>8, <2>9, <2>10, <2>11
<1> QED BY <1>1, <1>2, MigrateCases

\* The loop over the idle cores, up to core n.
Migration(F, s, idle, n) ==
  F = [k \in 0..n |-> IF k = 0 THEN s
                      ELSE IF k - 1 \in idle THEN MigrateToIdle(F[k - 1], k - 1) ELSE F[k - 1]]

LEMMA MigrationExists ==
  ASSUME NEW s, NEW idle, NEW m \in Nat
  PROVE  \E F : Migration(F, s, idle, m)
<1> DEFINE B == {n \in Nat : ~ \E F : Migration(F, s, idle, n)}
<1>1. 0 \notin B
  <2> DEFINE F == [k \in 0..0 |-> s]
  <2>1. Migration(F, s, idle, 0)
    BY DEF Migration
  <2> QED BY <2>1
<1>2. ASSUME NEW n \in Nat, n \notin B PROVE n + 1 \notin B
  <2>1. PICK F : Migration(F, s, idle, n)
    BY <1>2
  <2> DEFINE G == [k \in 0..(n + 1) |->
                     IF k = 0 THEN s
                     ELSE IF k - 1 \in idle THEN MigrateToIdle(F[k - 1], k - 1) ELSE F[k - 1]]
  <2>2. \A k \in 0..n : G[k] = F[k]
    BY <2>1 DEF Migration
  <2>3. \A k \in 0..(n + 1) : k # 0 => k - 1 \in 0..n
    OBVIOUS
  <2>4. \A k \in 0..(n + 1) :
          G[k] = IF k = 0 THEN s
                 ELSE IF k - 1 \in idle THEN MigrateToIdle(G[k - 1], k - 1) ELSE G[k - 1]
    BY <2>2, <2>3
  <2>5. Migration(G, s, idle, n + 1)
    BY <2>4 DEF Migration
  <2> QED BY <2>5
<1>3. B = {}
  <2> SUFFICES ASSUME B # {} PROVE FALSE
    OBVIOUS
  <2>1. B \subseteq Nat
    OBVIOUS
  <2> HIDE DEF B
  <2>2. PICK n \in B : \A k \in B : n <= k
    BY <2>1, LeastNatural
  <2>3. n \in Nat /\ n # 0 /\ n - 1 \in Nat /\ n - 1 \notin B
    BY <1>1, <2>1, <2>2
  <2> QED BY <1>2, <2>2, <2>3
<1> QED BY <1>3

LEMMA MigrationSolves ==
  ASSUME NEW s, NEW idle
  PROVE  \E F : Migration(F, s, idle, NumCores) /\ Migrated(s, idle) = F[NumCores]
<1> DEFINE F == CHOOSE G : Migration(G, s, idle, NumCores)
<1>1. Migration(F, s, idle, NumCores)
  BY MigrationExists, PriorityQueueAssumption
<1>2. Migrated(s, idle) = F[NumCores]
  BY DEF Migrated, Migration
<1> QED BY <1>1, <1>2

\* What the loop keeps, and what it has achieved before core n.
KeptSoFar(s, r) ==
  Valid(r) /\ Owned(r) /\ r.run = s.run /\ r.aff = s.aff /\ r.prio = s.prio

SettledSoFar(s, r, n) ==
  /\ Current(r)
  /\ \A e \in Cores : e >= n => (Idle(r, e) <=> Idle(s, e))
  /\ \A b \in Cores : b < n /\ Idle(r, b) => NothingToTake(r, b) \/ TakenLater(r, b)

LEMMA SettledStep ==
  ASSUME NEW s, NEW c \in Cores, NEW r, Valid(r), SettledSoFar(s, r, c),
         NEW x, x = IF Idle(s, c) THEN MigrateToIdle(r, c) ELSE r
  PROVE  SettledSoFar(s, x, c + 1)
<1>1. c \in Int /\ \A e \in Cores : e \in Int
  BY PriorityQueueAssumption DEF Cores
<1>2. \A e \in Cores : /\ e < c + 1 => e < c \/ e = c
                       /\ e >= c + 1 => e >= c /\ e # c
  BY <1>1
<1>3. Idle(r, c) <=> Idle(s, c)
  BY <1>1 DEF SettledSoFar
<1>4. Current(r)
  BY DEF SettledSoFar
<1>5. CASE ~Idle(s, c)
  BY <1>2, <1>3, <1>5 DEF SettledSoFar
<1>6. CASE Idle(s, c)
  <2>1. x = MigrateToIdle(r, c) /\ Idle(r, c)
    BY <1>3, <1>6
  <2>2. /\ Current(x)
        /\ \A e \in Cores \ {c} : Idle(x, e) <=> Idle(r, e)
        /\ Idle(x, c) => NothingToTake(x, c)
        /\ \A b \in Cores : /\ b < c /\ Idle(r, b)
                            /\ NothingToTake(r, b) \/ TakenLater(r, b)
                            => NothingToTake(x, b) \/ TakenLater(x, b)
    BY <1>4, <2>1, MigrateIdle
  <2>3. ASSUME NEW e \in Cores, e >= c + 1 PROVE Idle(x, e) <=> Idle(s, e)
    BY <1>2, <2>2, <2>3 DEF SettledSoFar
  <2>4. ASSUME NEW b \in Cores, b < c + 1, Idle(x, b)
        PROVE  NothingToTake(x, b) \/ TakenLater(x, b)
    <3>1. CASE b = c
      BY <2>2, <2>4, <3>1
    <3>2. CASE b # c
      <4>1. b < c /\ Idle(r, b)
        BY <1>2, <2>2, <2>4, <3>2
      <4>2. NothingToTake(r, b) \/ TakenLater(r, b)
        BY <4>1 DEF SettledSoFar
      <4> QED BY <2>2, <4>1, <4>2
    <3> QED BY <3>1, <3>2
  <2> QED BY <2>2, <2>3, <2>4 DEF SettledSoFar
<1> QED BY <1>5, <1>6

LEMMA MigratedIs ==
  ASSUME NEW s, Valid(s), Owned(s), NEW idle, idle = {c \in Cores : Idle(s, c)},
         NEW r, r = Migrated(s, idle)
  PROVE  /\ KeptSoFar(s, r)
         /\ Current(s) => SettledSoFar(s, r, NumCores)
<1> DEFINE Fine(x, n) == KeptSoFar(s, x) /\ (Current(s) => SettledSoFar(s, x, n))
<1>1. PICK F : Migration(F, s, idle, NumCores) /\ Migrated(s, idle) = F[NumCores]
  BY MigrationSolves
<1>2. NumCores \in Nat
  BY PriorityQueueAssumption
<1>3. F[0] = s
  BY <1>1, <1>2 DEF Migration
<1>4. \A n \in 0..NumCores : n # 0 =>
        /\ n - 1 \in Cores /\ n - 1 \in 0..NumCores
        /\ F[n] = IF Idle(s, n - 1) THEN MigrateToIdle(F[n - 1], n - 1) ELSE F[n - 1]
  <2>1. \A n \in 0..NumCores : n # 0 => n - 1 \in Cores /\ n - 1 \in 0..NumCores
    BY <1>2 DEF Cores
  <2>2. \A n \in 0..NumCores : n # 0 =>
          F[n] = IF n - 1 \in idle THEN MigrateToIdle(F[n - 1], n - 1) ELSE F[n - 1]
    BY <1>1 DEF Migration
  <2>3. \A c \in Cores : c \in idle <=> Idle(s, c)
    OBVIOUS
  <2> QED BY <2>1, <2>2, <2>3
<1>5. Fine(s, 0)
  <2>1. \A b \in Cores : ~(b < 0)
    BY <1>2 DEF Cores
  <2> QED BY <2>1 DEF KeptSoFar, SettledSoFar
<1>6. ASSUME NEW n \in 0..NumCores, n # 0, Fine(F[n - 1], n - 1)
      PROVE  Fine(F[n], n)
  <2>1. PICK c \in Cores : c = n - 1
    BY <1>4, <1>6
  <2>2. c + 1 = n
    BY <1>2, <2>1
  <2>3. PICK x : x = F[n - 1]
    OBVIOUS
  <2>4. PICK y : y = F[n]
    OBVIOUS
  <2>5. y = IF Idle(s, c) THEN MigrateToIdle(x, c) ELSE x
    BY <1>4, <1>6, <2>1, <2>3, <2>4
  <2>6. KeptSoFar(s, x) /\ (Current(s) => SettledSoFar(s, x, c))
    BY <1>6, <2>1, <2>3
  <2>7. KeptSoFar(s, y)
    <3>1. CASE ~Idle(s, c)
      BY <2>5, <2>6, <3>1
    <3>2. CASE Idle(s, c)
      <4>1. y = MigrateToIdle(x, c) /\ Valid(x) /\ Owned(x)
        BY <2>5, <2>6, <3>2 DEF KeptSoFar
      <4>2. Valid(y) /\ Owned(y) /\ y.run = x.run /\ y.aff = x.aff /\ y.prio = x.prio
        BY <4>1, MigrateKeeps
      <4> QED BY <2>6, <4>2 DEF KeptSoFar
    <3> QED BY <3>1, <3>2
  <2>8. Current(s) => SettledSoFar(s, y, c + 1)
    <3>1. Valid(x)
      BY <2>6 DEF KeptSoFar
    <3> QED BY <2>5, <2>6, <3>1, SettledStep
  <2> QED BY <2>2, <2>4, <2>7, <2>8
<1> HIDE DEF Fine
<1>7. \A n \in 0..NumCores : Fine(F[n], n)
  <2> DEFINE B == {n \in 0..NumCores : ~Fine(F[n], n)}
  <2> SUFFICES ASSUME B # {} PROVE FALSE
    OBVIOUS
  <2>1. B \subseteq Nat
    BY <1>2
  <2>2. PICK n \in B : \A k \in B : n <= k
    <3> HIDE DEF B
    <3> QED BY <2>1, LeastNatural
  <2>3. n # 0
    BY <1>3, <1>5, <2>2
  <2>4. n \in 0..NumCores /\ n - 1 \in 0..NumCores /\ n - 1 \notin B
    BY <1>2, <2>2, <2>3
  <2>5. Fine(F[n - 1], n - 1)
    BY <2>4
  <2> QED BY <1>6, <2>2, <2>3, <2>4, <2>5
<1>8. Fine(F[NumCores], NumCores)
  BY <1>2, <1>7
<1> QED BY <1>1, <1>8 DEF Fine

-----------------------------------------------------------------------------
(* The update.                                                             *)

\* Pinned threads are their process's own, and may run on the core they are pinned
\* to only.
PinsHold(pins, masks) ==
  /\ pins \in [Processes -> [Cores -> Threads \cup {NoThread}]]
  /\ \A p \in Processes, c \in Cores : pins[p][c] # NoThread =>
       masks[pins[p][c]] = {c} /\ Process[pins[p][c]] = p

Unpinned(pins) == \A p \in Processes, c \in Cores : pins[p][c] = NoThread

\* Every core's choice is up to date, and idle cores have nothing to take.
Placed(s) ==
  /\ Current(s)
  /\ \A c \in Cores : Idle(s, c) => NothingToTake(s, c) \/ TakenLater(s, c)

LEMMA TopThreadIsOwned ==
  ASSUME NEW s, Valid(s), NEW pins, PinsHold(pins, s.aff), NEW c \in Cores, NEW kept,
         NEW x, x = TopThread(s, c, pins, kept)
  PROVE  /\ x \in Threads \cup {NoThread}
         /\ x # NoThread => x \in s.run /\ (s.active[x] = c \/ s.aff[x] = {c})
         /\ Unpinned(pins) => x = GetFront(s.sched[c])
<1> DEFINE front == GetFront(s.sched[c])
           pin == IF front = NoThread THEN NoThread ELSE pins[Process[front]][c]
<1>1. x = IF pin \in {NoThread, front} \/ front \in kept THEN front
          ELSE IF pin \in s.run THEN pin ELSE NoThread
  BY DEF TopThread
<1>2. front # NoThread => front \in s.run /\ front \in Threads /\ s.active[front] = c
  <2>1. Links(s.sched[c], Scheduled(s, s.run, c), s.prio)
    BY SuggestedRange
  <2>2. front # NoThread => front \in Scheduled(s, s.run, c)
    BY <2>1, FrontIsLinked
  <2> QED BY <2>2, SuggestedRange
<1> HIDE DEF front
<1>3. pin # NoThread => pin \in Threads /\ s.aff[pin] = {c}
  <2> SUFFICES ASSUME pin # NoThread PROVE pin \in Threads /\ s.aff[pin] = {c}
    OBVIOUS
  <2>1. front # NoThread /\ pin = pins[Process[front]][c]
    OBVIOUS
  <2>2. Process[front] \in Processes
    BY <1>2, <2>1 DEF Processes
  <2> HIDE DEF pin
  <2>3. PICK p \in Processes : p = Process[front]
    BY <2>2
  <2>4. pins[p][c] \in Threads \cup {NoThread}
    BY DEF PinsHold
  <2>5. pins[p][c] # NoThread => s.aff[pins[p][c]] = {c}
    BY DEF PinsHold
  <2>6. pin = pins[p][c] /\ pin # NoThread
    BY <2>1, <2>3
  <2> QED BY <2>4, <2>5, <2>6
<1>4. Unpinned(pins) => pin = NoThread
  <2>1. front # NoThread => Process[front] \in Processes
    BY <1>2 DEF Processes
  <2> QED BY <2>1 DEF Unpinned
<1> HIDE DEF pin
<1> QED BY <1>1, <1>2, <1>3, <1>4 DEF front

LEMMA UpdateIs ==
  ASSUME NEW s, Valid(s), NEW pins, PinsHold(pins, s.aff), NEW kept,
         NEW r, r = Update(s, pins, kept)
  PROVE  /\ KeptSoFar(s, r)
         /\ Unpinned(pins) => Placed(r)
<1> DEFINE tops == [c \in Cores |-> TopThread(s, c, pins, kept)]
           B == {highest[c] : c \in {d \in Cores : highest[d] # tops[d]}}
           b == Bump(s, B)
           u == [b EXCEPT !.top = tops]
           idle == {c \in Cores : u.sched[c] = << >>}
<1>1. r = Migrated(u, idle)
  BY DEF Update
<1>2. ASSUME NEW c \in Cores
      PROVE  /\ tops[c] \in Threads \cup {NoThread}
             /\ tops[c] # NoThread => /\ tops[c] \in s.run
                                      /\ s.active[tops[c]] = c \/ s.aff[tops[c]] = {c}
             /\ Unpinned(pins) => tops[c] = GetFront(s.sched[c])
  BY TopThreadIsOwned
<1>3. tops \in [Cores -> Threads \cup {NoThread}]
  BY <1>2
<1> HIDE DEF tops, B
<1>4. /\ Valid(b) /\ b.run = s.run /\ b.active = s.active /\ b.aff = s.aff /\ b.prio = s.prio
      /\ b.sched = s.sched
  BY BumpKeeps DEF Valid
<1> HIDE DEF b
<1>5. /\ Valid(u) /\ u.run = s.run /\ u.active = s.active /\ u.aff = s.aff /\ u.prio = s.prio
      /\ u.sched = s.sched /\ u.top = tops
  <2>1. Valid(u)
    BY <1>3, <1>4, SetTop
  <2>2. /\ u.run = b.run /\ u.active = b.active /\ u.aff = b.aff /\ u.prio = b.prio
        /\ u.sched = b.sched /\ u.top = tops
    BY <1>4 DEF Valid, IsState
  <2> QED BY <1>4, <2>1, <2>2
<1> HIDE DEF u
<1>6. Owned(u)
  BY <1>2, <1>5 DEF Owned
<1>7. idle = {c \in Cores : Idle(u, c)}
  <2>1. ASSUME NEW c \in Cores PROVE u.sched[c] = << >> <=> Idle(u, c)
    <3>1. Links(u.sched[c], Scheduled(u, u.run, c), u.prio)
      BY <1>5, SuggestedRange
    <3> QED BY <3>1, FrontIsLinked DEF Idle
  <2> QED BY <2>1
<1> HIDE DEF idle
<1>8. KeptSoFar(u, r) /\ (Current(u) => SettledSoFar(u, r, NumCores))
  BY <1>1, <1>5, <1>6, <1>7, MigratedIs
<1>9. Unpinned(pins) => Current(u)
  BY <1>2, <1>5 DEF Current
<1>10. \A c \in Cores : c < NumCores
  BY PriorityQueueAssumption DEF Cores
<1>11. SettledSoFar(u, r, NumCores) => Placed(r)
  BY <1>10 DEF SettledSoFar, Placed
<1> QED BY <1>5, <1>8, <1>9, <1>11 DEF KeptSoFar

-----------------------------------------------------------------------------
(* Rotation.                                                               *)

\* Threads may have changed places and cores, nothing else.
Rearranged(s, r) == Valid(r) /\ r.run = s.run /\ r.aff = s.aff /\ r.prio = s.prio

LEMMA BumpRearranges ==
  ASSUME NEW s, NEW m, Rearranged(s, m), NEW T
  PROVE  Rearranged(s, Bump(m, T))
BY BumpKeeps DEF Rearranged, Valid

LEMMA TakeRearranges ==
  ASSUME NEW s, Valid(s), NEW c \in Cores, NEW x \in Suggested(s, s.run, c), NEW end, NEW T
  PROVE  Rearranged(s, Bump(ChangeCore(s, x, c, end), T))
<1>1. x \in s.run /\ c \in s.aff[x] \cup {NoCore}
  BY SuggestedRange
<1>2. Rearranged(s, ChangeCore(s, x, c, end))
  BY <1>1, ChangeCoreLinks DEF Rearranged
<1> QED BY <1>2, BumpRearranges

LEMMA RotateFrontRearranges ==
  ASSUME NEW s, Valid(s), NEW c \in Cores
  PROVE  Rearranged(s, RotateFront(s, c))
<1> DEFINE front == FrontAt(s, c)
           q == OfPriority(s.sched[c], s.prio, PreemptPriority[c])
           S == Scheduled(s, s.run, c)
           m == IF front = NoThread THEN s ELSE MoveToBack(s, front)
<1>1. Links(s.sched[c], S, s.prio)
  BY SuggestedRange
<1>2. front # NoThread => front \in S
  <2>1. Links(q, {x \in S : s.prio[x] = PreemptPriority[c]}, s.prio)
    <3> HIDE DEF S
    <3> QED BY <1>1, OfPriorityIsLinked
  <2>2. front = GetFront(q)
    BY DEF FrontAt
  <2> HIDE DEF q, front, S
  <2> QED BY <2>1, <2>2, FrontIsLinked
<1>3. front # NoThread => front \in s.run /\ s.active[front] # NoCore
  <2>1. NoCore \notin Cores
    BY StateFacts DEF Valid
  <2> QED BY <1>2, <2>1, SuggestedRange
<1>4. Rearranged(s, m)
  <2> HIDE DEF front
  <2>1. CASE front = NoThread
    BY <2>1 DEF Rearranged
  <2>2. CASE front # NoThread
    BY <1>3, <2>2, MoveToBackLinks DEF Rearranged
  <2> QED BY <2>1, <2>2
<1>5. RotateFront(s, c) = IF FrontAt(m, c) = front THEN m ELSE Bump(m, {front, FrontAt(m, c)})
  BY DEF RotateFront
<1> HIDE DEF m, front
<1> QED BY <1>4, <1>5, BumpRearranges

LEMMA TakeEqualRearranges ==
  ASSUME NEW s, Valid(s), NEW c \in Cores, NEW waits
  PROVE  Rearranged(s, TakeEqual(s, c, waits))
<1> DEFINE Stops == {u \in Range(s.sugg[c]) :
                       /\ FrontOn(s, s.active[u]) # u
                       /\ u \in waits \/ Movable(s, FrontOn(s, s.active[u]))}
           q == OfPriority(s.sugg[c], s.prio, PreemptPriority[c])
           t == FirstIn(q, Stops)
           S == Suggested(s, s.run, c)
<1>1. TakeEqual(s, c, waits) =
        IF t \in waits \cup {NoThread} THEN s ELSE Bump(ChangeCore(s, t, c, "front"), {t})
  BY DEF TakeEqual
<1>2. Links(s.sugg[c], S, s.prio)
  BY SuggestedRange
<1>3. Links(q, {x \in S : s.prio[x] = PreemptPriority[c]}, s.prio)
  <2> HIDE DEF S
  <2> QED BY <1>2, OfPriorityIsLinked
<1> HIDE DEF Stops, q
<1>4. t # NoThread => t \in S
  <2> HIDE DEF S
  <2> QED BY <1>3, FirstIsLinked
<1> HIDE DEF t
<1>5. CASE t \in waits \cup {NoThread}
  BY <1>1, <1>5 DEF Rearranged
<1>6. CASE t \notin waits \cup {NoThread}
  <2>1. t \in Suggested(s, s.run, c)
    BY <1>4, <1>6
  <2> QED BY <1>1, <1>6, <2>1, TakeRearranges
<1> QED BY <1>5, <1>6

LEMMA TakeBetterRearranges ==
  ASSUME NEW s, Valid(s), NEW c \in Cores
  PROVE  Rearranged(s, TakeBetter(s, c))
<1> DEFINE best == GetFront(s.sched[c])
           Better == {u \in Range(s.sugg[c]) :
                        /\ s.prio[u] < s.prio[best]
                        /\ FrontOn(s, s.active[u]) # u
                        /\ Movable(s, FrontOn(s, s.active[u]))}
           b == IF best # NoThread /\ s.prio[best] >= PreemptPriority[c]
                THEN FirstIn(s.sugg[c], Better) ELSE NoThread
           S == Suggested(s, s.run, c)
<1>1. TakeBetter(s, c) = IF b = NoThread THEN s ELSE Bump(ChangeCore(s, b, c, "front"), {b})
  BY DEF TakeBetter
<1>2. Links(s.sugg[c], S, s.prio)
  BY SuggestedRange
<1> HIDE DEF Better, best
<1>3. b # NoThread => b \in S
  <2> HIDE DEF S
  <2>1. FirstIn(s.sugg[c], Better) # NoThread => FirstIn(s.sugg[c], Better) \in S
    BY <1>2, FirstIsLinked
  <2> QED BY <2>1
<1> HIDE DEF b
<1>4. CASE b = NoThread
  BY <1>1, <1>4 DEF Rearranged
<1>5. CASE b # NoThread
  <2>1. b \in Suggested(s, s.run, c)
    BY <1>3, <1>5
  <2> QED BY <1>1, <1>5, <2>1, TakeRearranges
<1> QED BY <1>4, <1>5

LEMMA RotateRearranges ==
  ASSUME NEW s, Valid(s), NEW c \in Cores, NEW older
  PROVE  Rearranged(s, RotateScheduledQueue(s, c, older))
<1> DEFINE f == RotateFront(s, c)
           w == IF FrontAt(f, c) = FrontAt(s, c) THEN {} ELSE older
           e == TakeEqual(f, c, w)
           b == TakeBetter(e, c)
<1>1. RotateScheduledQueue(s, c, older) = b
  BY DEF RotateScheduledQueue
<1>2. Rearranged(s, f)
  BY RotateFrontRearranges
<1> HIDE DEF f
<1>3. Rearranged(f, e)
  <2> HIDE DEF w
  <2> QED BY <1>2, TakeEqualRearranges DEF Rearranged
<1> HIDE DEF e
<1>4. Rearranged(e, b)
  BY <1>3, TakeBetterRearranges DEF Rearranged
<1> HIDE DEF b
<1> QED BY <1>1, <1>2, <1>3, <1>4 DEF Rearranged

\* The loop over the cores, up to core n.
Rotation(F, s, older, n) ==
  F = [k \in 0..n |-> IF k = 0 THEN s ELSE RotateScheduledQueue(F[k - 1], k - 1, older)]

LEMMA RotationExists ==
  ASSUME NEW s, NEW older, NEW m \in Nat
  PROVE  \E F : Rotation(F, s, older, m)
<1> DEFINE B == {n \in Nat : ~ \E F : Rotation(F, s, older, n)}
<1>1. 0 \notin B
  <2> DEFINE F == [k \in 0..0 |-> s]
  <2>1. Rotation(F, s, older, 0)
    BY DEF Rotation
  <2> QED BY <2>1
<1>2. ASSUME NEW n \in Nat, n \notin B PROVE n + 1 \notin B
  <2>1. PICK F : Rotation(F, s, older, n)
    BY <1>2
  <2> DEFINE G == [k \in 0..(n + 1) |->
                     IF k = 0 THEN s ELSE RotateScheduledQueue(F[k - 1], k - 1, older)]
  <2>2. \A k \in 0..n : G[k] = F[k]
    BY <2>1 DEF Rotation
  <2>3. \A k \in 0..(n + 1) : k # 0 => k - 1 \in 0..n
    OBVIOUS
  <2>4. \A k \in 0..(n + 1) :
          G[k] = IF k = 0 THEN s ELSE RotateScheduledQueue(G[k - 1], k - 1, older)
    BY <2>2, <2>3
  <2>5. Rotation(G, s, older, n + 1)
    BY <2>4 DEF Rotation
  <2> QED BY <2>5
<1>3. B = {}
  <2> SUFFICES ASSUME B # {} PROVE FALSE
    OBVIOUS
  <2>1. B \subseteq Nat
    OBVIOUS
  <2> HIDE DEF B
  <2>2. PICK n \in B : \A k \in B : n <= k
    BY <2>1, LeastNatural
  <2>3. n \in Nat /\ n # 0 /\ n - 1 \in Nat /\ n - 1 \notin B
    BY <1>1, <2>1, <2>2
  <2> QED BY <1>2, <2>2, <2>3
<1> QED BY <1>3

LEMMA RotatedRearranges ==
  ASSUME NEW s, Valid(s), NEW older
  PROVE  Rearranged(s, Rotated(s, older))
<1> DEFINE G == CHOOSE H : Rotation(H, s, older, NumCores)
<1>1. Rotation(G, s, older, NumCores)
  BY RotationExists, PriorityQueueAssumption
<1>2. Rotated(s, older) = G[NumCores]
  BY DEF Rotated, Rotation
<1> HIDE DEF G
<1>3. NumCores \in Nat
  BY PriorityQueueAssumption
<1>4. G[0] = s
  BY <1>1, <1>3 DEF Rotation
<1>5. \A n \in 0..NumCores : n # 0 =>
        /\ n - 1 \in Cores /\ n - 1 \in 0..NumCores
        /\ G[n] = RotateScheduledQueue(G[n - 1], n - 1, older)
  BY <1>1, <1>3 DEF Rotation, Cores
<1>6. ASSUME NEW n \in 0..NumCores, n # 0, Rearranged(s, G[n - 1])
      PROVE  Rearranged(s, G[n])
  <2>1. PICK c \in Cores : c = n - 1
    BY <1>5, <1>6
  <2>2. PICK x : x = G[n - 1]
    OBVIOUS
  <2>3. PICK y : y = G[n]
    OBVIOUS
  <2>4. y = RotateScheduledQueue(x, c, older) /\ Rearranged(s, x)
    BY <1>5, <1>6, <2>1, <2>2, <2>3
  <2>5. Rearranged(x, y)
    BY <2>4, RotateRearranges DEF Rearranged
  <2> QED BY <2>3, <2>4, <2>5 DEF Rearranged
<1>7. \A n \in 0..NumCores : Rearranged(s, G[n])
  <2> DEFINE B == {n \in 0..NumCores : ~Rearranged(s, G[n])}
  <2> SUFFICES ASSUME B # {} PROVE FALSE
    OBVIOUS
  <2>1. B \subseteq Nat
    BY <1>3
  <2>2. PICK n \in B : \A k \in B : n <= k
    <3> HIDE DEF B
    <3> QED BY <2>1, LeastNatural
  <2>3. n # 0
    BY <1>4, <2>2 DEF Rearranged
  <2>4. n \in 0..NumCores /\ n - 1 \in 0..NumCores /\ n - 1 \notin B
    BY <1>3, <2>2, <2>3
  <2>5. Rearranged(s, G[n - 1])
    BY <2>4
  <2> QED BY <1>6, <2>2, <2>3, <2>4, <2>5
<1> QED BY <1>2, <1>3, <1>7

-----------------------------------------------------------------------------
(* Steps without an update.                                                *)

\* A thread on a core, and no other thread of its priority is.
Alone(s, t) ==
  /\ s.active[t] # NoCore
  /\ \A u \in s.run \ {t} : s.active[u] = s.active[t] => s.prio[u] # s.prio[t]

\* No thread has lost its core.
Seated(s, r) == \A t \in Threads : s.active[t] # NoCore => r.active[t] # NoCore

\* The queues of idle cores, the choices and the fields of the threads in the
\* queues are as before.
Alike(s, r) ==
  /\ r.run = s.run /\ r.top = s.top
  /\ \A u \in s.run : r.active[u] = s.active[u] /\ r.aff[u] = s.aff[u] /\ r.prio[u] = s.prio[u]
  /\ \A c \in Cores : Idle(s, c) => r.sugg[c] = s.sugg[c]

LEMMA AlikeOwned ==
  ASSUME NEW s, Owned(s), NEW r, Alike(s, r)
  PROVE  Owned(r)
BY DEF Owned, Alike

LEMMA AlikeTakes ==
  ASSUME NEW s, Valid(s), Owned(s), NEW r, Alike(s, r), NEW c \in Cores, Idle(s, c)
  PROVE  NothingToTake(s, c) => NothingToTake(r, c)
<1> DEFINE S == Suggested(s, s.run, c)
           T == {u \in Range(s.sugg[c]) : TopOn(s.top, s.active[u]) # u}
           U == {u \in Range(r.sugg[c]) : TopOn(r.top, r.active[u]) # u}
           f == FirstWaiting(s, c)
<1>1. /\ Links(s.sugg[c], S, s.prio) /\ Range(s.sugg[c]) = S
      /\ \A u \in S : u \in s.run /\ s.active[u] \in Cores \cup {NoCore}
  BY SuggestedRange
<1>2. /\ r.run = s.run /\ r.top = s.top /\ r.sugg[c] = s.sugg[c]
      /\ \A u \in s.run : r.active[u] = s.active[u] /\ r.aff[u] = s.aff[u] /\ r.prio[u] = s.prio[u]
  BY DEF Alike
<1>3. U = T
  BY <1>1, <1>2
<1>4. FirstWaiting(r, c) = f
  <2>1. FirstWaiting(r, c) = FirstIn(s.sugg[c], U) /\ f = FirstIn(s.sugg[c], T)
    BY <1>2 DEF FirstWaiting
  <2> QED BY <1>3, <2>1
<1>5. f # NoThread => f \in S
  <2>1. f = FirstIn(s.sugg[c], T)
    BY DEF FirstWaiting
  <2> HIDE DEF f, T, S
  <2> QED BY <1>1, <2>1, FirstIsLinked
<1> HIDE DEF f, T, U
<1>6. CASE f # NoThread
  <2>1. r.active[f] = s.active[f] /\ s.active[f] \in Cores \cup {NoCore}
    BY <1>1, <1>2, <1>5, <1>6
  <2> DEFINE h == TopOn(s.top, s.active[f])
  <2>2. TopOn(r.top, r.active[f]) = h
    BY <1>2, <2>1
  <2>3. h # NoThread => h \in s.run
    BY <2>1 DEF Owned, TopOn
  <2> HIDE DEF h
  <2>4. Movable(r, h) <=> Movable(s, h)
    BY <1>2, <2>3 DEF Movable
  <2>5. NothingToTake(s, c) <=> ~Movable(s, h)
    BY <1>6 DEF NothingToTake, f, h
  <2>6. NothingToTake(r, c) <=> ~Movable(r, h)
    BY <1>4, <1>6, <2>2 DEF NothingToTake
  <2> QED BY <2>4, <2>5, <2>6
<1>7. CASE f = NoThread
  <2>1. \A d : Scheduled(r, r.run, d) = Scheduled(s, s.run, d)
    BY <1>2 DEF Scheduled
  <2>2. Suggested(r, r.run, c) = S
    BY <1>2 DEF Suggested
  <2>3. NothingToTake(s, c) <=> \A u \in S : Scheduled(s, s.run, s.active[u]) = {u}
    BY <1>7 DEF NothingToTake, f
  <2>4. NothingToTake(r, c) <=> \A u \in S : Scheduled(r, r.run, r.active[u]) = {u}
    BY <1>4, <1>7, <2>2 DEF NothingToTake
  <2> QED BY <1>1, <1>2, <2>1, <2>3, <2>4
<1> QED BY <1>6, <1>7

LEMMA AlikePlaced ==
  ASSUME NEW s, Valid(s), Owned(s), Placed(s), NEW r, Alike(s, r), Current(r)
  PROVE  Placed(r)
<1>1. \A d : Scheduled(r, r.run, d) = Scheduled(s, s.run, d)
  BY DEF Alike, Scheduled
<1>2. \A u \in s.run : r.aff[u] = s.aff[u]
  BY DEF Alike
<1>3. r.run = s.run
  BY DEF Alike
<1>4. ASSUME NEW c \in Cores, Idle(r, c) PROVE NothingToTake(r, c) \/ TakenLater(r, c)
  <2>1. Idle(s, c)
    BY <1>1, <1>4 DEF Idle
  <2>2. TakenLater(s, c) => TakenLater(r, c)
    BY <1>1, <1>2, <1>3 DEF TakenLater
  <2> QED BY <2>1, <2>2, AlikeTakes DEF Placed
<1> QED BY <1>4 DEF Placed

\* In particular when no queue and no choice changes.
LEMMA SameQueues ==
  ASSUME NEW s, Valid(s), Owned(s), NEW r, IsState(r), r.run = s.run, r.top = s.top,
         r.sched = s.sched, r.sugg = s.sugg,
         \A u \in s.run : r.active[u] = s.active[u] /\ r.aff[u] = s.aff[u] /\ r.prio[u] = s.prio[u]
  PROVE  Valid(r) /\ Owned(r) /\ (Placed(s) => Placed(r))
<1>1. Queued(s, s.run)
  BY DEF Valid
<1>2. Queued(r, r.run)
  BY <1>1, OtherFields
<1>3. Alike(s, r)
  BY DEF Alike
<1>4. Placed(s) => Current(r)
  BY DEF Placed, Current
<1> QED BY <1>2, <1>3, <1>4, AlikeOwned, AlikePlaced DEF Valid

\* What PutBack puts in comes behind those of at least its priority, and leaves
\* their front.
LEMMA PutBackIsBehind ==
  ASSUME NEW q, NEW S, NEW p \in Orders, Links(q, S, p), NEW t \in Threads, t \notin S,
         NEW x \in S, p[x] <= p[t]
  PROVE  \E i, j \in DOMAIN PutBack(q, t, p) :
           i < j /\ PutBack(q, t, p)[i] = x /\ PutBack(q, t, p)[j] = t
<1> DEFINE P == {i \in DOMAIN q : p[q[i]] <= p[t]}
           Q == {i \in DOMAIN q : p[q[i]] > p[t]}
           T == {y \in Threads : p[y] <= p[t]}
           a == Keep(q, P)
           b == Keep(q, Q)
           r == PutBack(q, t, p)
<1>1. q \in Seq(Threads) /\ Range(q) = S /\ (\A i \in DOMAIN q : q[i] \in S) /\ S \subseteq Threads
  BY DEF Links, Range
<1>2. r = a \o <<t>> \o b
  BY DEF PutBack
<1>3. Links(a, S \cap T, p)
  <2>1. P \in SUBSET (DOMAIN q) /\ \A i \in DOMAIN q : i \in P <=> q[i] \in T
    BY <1>1
  <2> HIDE DEF P, T
  <2> QED BY <2>1, Selected
<1>4. a \in Seq(Threads) /\ b \in Seq(Threads)
  <2>1. P \in SUBSET (DOMAIN q) /\ Q \in SUBSET (DOMAIN q)
    OBVIOUS
  <2> HIDE DEF P, Q
  <2> QED BY <1>1, <2>1, KeptThreads
<1>5. PICK i \in DOMAIN a : a[i] = x
  BY <1>1, <1>3 DEF Links, Range
<1> HIDE DEF a, b, r
<1> DEFINE j == Len(a) + 1
<1>6. i \in 1..Len(a) /\ Len(a) \in Nat /\ Len(b) \in Nat
  BY <1>4, <1>5
<1>7. Len(r) = Len(a) + 1 + Len(b) /\ DOMAIN r = 1..Len(r) /\ r[i] = a[i] /\ r[j] = t
  BY <1>2, <1>4, <1>6
<1>8. i \in DOMAIN r /\ j \in DOMAIN r /\ i < j
  BY <1>6, <1>7
<1> QED BY <1>5, <1>7, <1>8 DEF r

LEMMA PutBackFront ==
  ASSUME NEW q, NEW S, NEW p \in Orders, Links(q, S, p), NEW t \in Threads, S # {},
         p[GetFront(q)] <= p[t]
  PROVE  GetFront(PutBack(q, t, p)) = GetFront(q)
<1> DEFINE P == {i \in DOMAIN q : p[q[i]] <= p[t]}
           Q == {i \in DOMAIN q : p[q[i]] > p[t]}
           a == Keep(q, P)
           b == Keep(q, Q)
           r == PutBack(q, t, p)
<1>1. q \in Seq(Threads) /\ DOMAIN q = 1..Len(q) /\ Len(q) \in Nat
  BY DEF Links
<1>2. GetFront(q) = q[1] /\ 1 \in DOMAIN q
  BY FrontOfSome
<1>3. r = a \o <<t>> \o b
  BY DEF PutBack
<1>4. P \in SUBSET (DOMAIN q) /\ Q \in SUBSET (DOMAIN q) /\ 1 \in P /\ \A i \in P : 1 <= i
  BY <1>1, <1>2
<1> HIDE DEF P, Q
<1>5. a \in Seq(Threads) /\ b \in Seq(Threads)
  BY <1>1, <1>4, KeptThreads
<1>6. a # << >> /\ Head(a) = q[1]
  BY <1>1, <1>4, KeptFront
<1> HIDE DEF a, b, r
<1>7. r # << >> /\ Head(r) = Head(a)
  <2>1. Len(a) \in Nat /\ Len(a) >= 1 /\ Len(b) \in Nat
    BY <1>5, <1>6
  <2>2. r \in Seq(Threads) /\ Len(r) = Len(a) + 1 + Len(b) /\ r[1] = a[1]
    BY <1>3, <1>5, <2>1
  <2>3. Len(r) # 0
    BY <2>1, <2>2
  <2>4. r # << >>
    BY <2>3
  <2> QED BY <1>5, <1>6, <2>2, <2>4
<1> QED BY <1>2, <1>6, <1>7 DEF GetFront, r

\* The front of a queue has the best priority of all.
LEMMA FrontIsBest ==
  ASSUME NEW q, NEW S, NEW p \in Orders, Links(q, S, p), NEW x \in S
  PROVE  GetFront(q) \in S /\ p[GetFront(q)] <= p[x]
<1>1. q \in Seq(Threads) /\ Range(q) = S /\ Ordered(q, p) /\ DOMAIN q = 1..Len(q) /\ Len(q) \in Nat
  BY DEF Links
<1>2. GetFront(q) = q[1] /\ 1 \in DOMAIN q
  BY FrontOfSome
<1>3. PICK i \in 1..Len(q) : q[i] = x
  BY <1>1 DEF Range
<1>4. q[1] \in S /\ S \subseteq Threads
  BY <1>1, <1>2 DEF Range
<1>5. i \in Int /\ (i = 1 \/ 1 < i)
  BY <1>3
<1>6. CASE i = 1
  BY <1>2, <1>3, <1>4, <1>6 DEF Orders
<1>7. CASE 1 < i
  BY <1>1, <1>2, <1>3, <1>4, <1>7 DEF Ordered
<1> QED BY <1>5, <1>6, <1>7

\* A thread that is still the first of its priority after it went to the back has no
\* equal ...
LEMMA NoEqual ==
  ASSUME NEW q, NEW S, NEW p \in Orders, Links(q, S, p), NEW t \in S,
         NEW v, v = PutBack(Removed(q, t), t, p), GetFront(OfPriority(v, p, p[t])) = t
  PROVE  /\ Links(Removed(q, t), S \ {t}, p) /\ Links(v, S, p)
         /\ \A x \in S \ {t} : p[x] # p[t]
<1> DEFINE w == Removed(q, t)
<1>1. t \in Threads /\ S \subseteq Threads
  BY DEF Links, Range
<1>2. Links(w, S \ {t}, p)
  BY RemovedLinks
<1> HIDE DEF w
<1>3. v = PutBack(w, t, p)
  BY DEF w
<1>4. Links(v, S, p)
  <2>1. Links(v, (S \ {t}) \cup {t}, p)
    BY <1>1, <1>2, <1>3, PutBackLinks
  <2>2. (S \ {t}) \cup {t} = S
    OBVIOUS
  <2> QED BY <2>1, <2>2
<1>5. ASSUME NEW x \in S \ {t}, p[x] = p[t] PROVE FALSE
  <2> DEFINE M == {n \in DOMAIN v : p[v[n]] = p[t]}
  <2>1. p[x] <= p[t]
    BY <1>1, <1>5 DEF Orders
  <2>2. PICK i, j \in DOMAIN v : i < j /\ v[i] = x /\ v[j] = t
    BY <1>1, <1>2, <1>3, <2>1, PutBackIsBehind
  <2>3. v \in Seq(Threads) /\ DOMAIN v = 1..Len(v) /\ Len(v) \in Nat /\ Ordered(v, p)
    BY <1>4 DEF Links
  <2>4. i \in M /\ M \subseteq Nat /\ M \in SUBSET (DOMAIN v)
    BY <1>5, <2>2, <2>3
  <2>5. OfPriority(v, p, p[t]) = Keep(v, M)
    BY DEF OfPriority
  <2> HIDE DEF M
  <2>6. PICK m \in M : \A n \in M : m <= n
    BY <2>4, LeastNatural
  <2>7. Keep(v, M) # << >> /\ Head(Keep(v, M)) = v[m]
    BY <2>3, <2>4, <2>6, KeptFront
  <2>8. v[m] = t
    BY <2>5, <2>7 DEF GetFront
  <2>9. m \in 1..Len(v) /\ j \in 1..Len(v) /\ m < j
    <3>1. m \in Int /\ i \in Int /\ j \in Int /\ m <= i
      BY <2>2, <2>3, <2>4, <2>6
    <3>2. m < j
      BY <2>2, <3>1
    <3> QED BY <2>2, <2>3, <2>4, <3>2
  <2> QED BY <2>2, <2>3, <2>8, <2>9 DEF Ordered
<1> QED BY <1>2, <1>4, <1>5 DEF w

\* ... and the front of the queue is as before.
LEMMA FrontWhenAlone ==
  ASSUME NEW q, NEW S, NEW p \in Orders, Links(q, S, p), NEW t \in S,
         NEW v, v = PutBack(Removed(q, t), t, p), GetFront(OfPriority(v, p, p[t])) = t
  PROVE  GetFront(v) = GetFront(q)
<1> DEFINE w == Removed(q, t)
<1>1. t \in Threads /\ S \subseteq Threads
  BY DEF Links, Range
<1>2. Links(w, S \ {t}, p) /\ Links(v, S, p)
  BY NoEqual
<1>3. v = PutBack(w, t, p)
  OBVIOUS
<1>4. Links(v, S, p)
  BY <1>2
<1>5. \A x \in S \ {t} : p[x] # p[t]
  BY NoEqual
<1> HIDE DEF w
<1> DEFINE h == GetFront(q)
<1>6. h \in S /\ p[h] <= p[t]
  BY FrontIsBest
<1>7. CASE h = t
  <2> DEFINE g == GetFront(v)
  <2>1. g \in S /\ p[g] <= p[t]
    BY <1>4, FrontIsBest
  <2>2. p[t] <= p[g]
    BY <1>7, <2>1, FrontIsBest
  <2> HIDE DEF g, h
  <2>3. p[g] = p[t]
    BY <1>1, <2>1, <2>2 DEF Orders
  <2>4. g = t
    BY <1>5, <2>1, <2>3
  <2> QED BY <1>7, <2>4 DEF g, h
<1>8. CASE h # t
  <2>1. GetFront(w) = h
    BY <1>8, FrontStays DEF w
  <2>2. S \ {t} # {}
    BY <1>6, <1>8
  <2> HIDE DEF h
  <2>3. GetFront(PutBack(w, t, p)) = GetFront(w)
    BY <1>1, <1>2, <1>6, <2>1, <2>2, PutBackFront
  <2> QED BY <1>3, <2>1, <2>3 DEF h
<1> QED BY <1>7, <1>8

\* A yield that finds no equal leaves every choice as good as it was.
LEMMA MoveWithoutUpdate ==
  ASSUME NEW s, Valid(s), Owned(s), NEW t \in s.run, s.active[t] # NoCore,
         NEW r, r = MoveToBack(s, t),
         GetFront(OfPriority(r.sched[s.active[t]], s.prio, s.prio[t])) = t
  PROVE  Rearranged(s, r) /\ Owned(r) /\ (Placed(s) => Placed(r))
<1> DEFINE d == s.active[t]
           q == s.sched[d]
           v == PutBack(Removed(q, t), t, s.prio)
<1>1. /\ Valid(r) /\ r.run = s.run /\ r.aff = s.aff /\ r.prio = s.prio /\ r.top = s.top
      /\ r.active = s.active /\ r.sugg = s.sugg
  BY MoveToBackLinks
<1>2. /\ IsState(s) /\ t \in Threads /\ d \in Cores /\ s.sched \in [Cores -> Seq(Threads)]
      /\ s.prio \in Orders
  BY StateFacts DEF Valid, IsState, Queued
<1>3. r.sched = [s.sched EXCEPT ![d] = v]
  <2>1. DOMAIN s = {"run", "active", "aff", "prio", "sched", "sugg", "top", "bumped"}
    BY <1>2 DEF IsState
  <2> QED BY <2>1 DEF MoveToBack
<1> HIDE DEF v, d
<1>4. r.sched[d] = v /\ \A c \in Cores \ {d} : r.sched[c] = s.sched[c]
  BY <1>2, <1>3
<1>5. GetFront(v) = GetFront(q)
  <2>1. Links(q, Scheduled(s, s.run, d), s.prio)
    BY <1>2, SuggestedRange
  <2>2. t \in Scheduled(s, s.run, d)
    BY DEF Scheduled, d
  <2>3. GetFront(OfPriority(v, s.prio, s.prio[t])) = t
    BY <1>4 DEF d
  <2>4. v = PutBack(Removed(q, t), t, s.prio)
    BY DEF v
  <2> HIDE DEF q
  <2> QED BY <1>2, <2>1, <2>2, <2>3, <2>4, FrontWhenAlone
<1>6. Alike(s, r)
  BY <1>1 DEF Alike
<1>7. Placed(s) => Current(r)
  BY <1>1, <1>4, <1>5 DEF Placed, Current
<1> QED BY <1>1, <1>6, <1>7, AlikeOwned, AlikePlaced DEF Rearranged

LEMMA MoveAlone ==
  ASSUME NEW s, Valid(s), NEW t \in s.run, s.active[t] # NoCore,
         NEW r, r = MoveToBack(s, t),
         GetFront(OfPriority(r.sched[s.active[t]], s.prio, s.prio[t])) = t
  PROVE  Alone(r, t)
<1> DEFINE d == s.active[t]
           q == s.sched[d]
           S == Scheduled(s, s.run, d)
           v == PutBack(Removed(q, t), t, s.prio)
<1>1. r.run = s.run /\ r.prio = s.prio /\ r.active = s.active
  BY MoveToBackLinks
<1>2. IsState(s) /\ d \in Cores /\ s.sched \in [Cores -> Seq(Threads)] /\ s.prio \in Orders
  BY StateFacts DEF Valid, IsState, Queued
<1>3. r.sched[d] = v
  <2>1. DOMAIN s = {"run", "active", "aff", "prio", "sched", "sugg", "top", "bumped"}
    BY <1>2 DEF IsState
  <2>2. r.sched = [s.sched EXCEPT ![d] = v]
    BY <2>1 DEF MoveToBack
  <2> HIDE DEF v, d
  <2> QED BY <1>2, <2>2
<1>4. Links(q, S, s.prio) /\ t \in S
  BY <1>2, SuggestedRange DEF Scheduled
<1>5. GetFront(OfPriority(v, s.prio, s.prio[t])) = t
  BY <1>3
<1>6. \A x \in S \ {t} : s.prio[x] # s.prio[t]
  <2> HIDE DEF q, S
  <2> QED BY <1>2, <1>4, <1>5, NoEqual
<1> QED BY <1>1, <1>6 DEF Alone, Scheduled

\* A queue of one thread.
LEMMA FrontOfOne ==
  ASSUME NEW q, NEW t, NEW p, Links(q, {t}, p)
  PROVE  GetFront(q) = t
BY FrontOfSome, FrontIsLinked

\* YieldToAnyThread takes its caller back when nobody else is there.
LEMMA BackWithoutUpdate ==
  ASSUME NEW s, Valid(s), Owned(s), NEW t \in s.run, NEW d \in Cores, s.active[t] = d, NEW T,
         NEW m, m = Bump(ChangeCore(s, t, NoCore, "back"), T), GetFront(m.sched[d]) = NoThread,
         NEW r, r = Bump(ChangeCore(m, t, d, "back"), T)
  PROVE  /\ Rearranged(s, r) /\ Owned(r) /\ (Placed(s) => Placed(r))
         /\ r.active = s.active /\ r.top = s.top /\ Alone(r, t)
<1>1. t \in Threads /\ d \in s.aff[t] /\ d # NoCore /\ s.run \subseteq Threads
      /\ s.active \in [Threads -> Cores \cup {NoCore}]
  <2>1. s.active[t] \in s.aff[t] \cup {NoCore} /\ t \in Threads /\ s.run \subseteq Threads
        /\ s.active \in [Threads -> Cores \cup {NoCore}]
    BY DEF Valid, IsState
  <2>2. NoCore \notin Cores
    BY StateFacts DEF Valid
  <2> QED BY <2>1, <2>2
<1>2. /\ Valid(m) /\ m.run = s.run /\ m.aff = s.aff /\ m.prio = s.prio /\ m.top = s.top
      /\ CoreChanged(s, m, t, NoCore, "back")
  <2> DEFINE n == ChangeCore(s, t, NoCore, "back")
  <2>1. /\ Valid(n) /\ n.run = s.run /\ n.aff = s.aff /\ n.prio = s.prio /\ n.top = s.top
        /\ CoreChanged(s, n, t, NoCore, "back")
    BY ChangeCoreLinks
  <2> HIDE DEF n
  <2>2. /\ Valid(m) /\ m.run = n.run /\ m.aff = n.aff /\ m.prio = n.prio /\ m.top = n.top
        /\ m.active = n.active /\ m.sched = n.sched /\ m.sugg = n.sugg
    BY <2>1, BumpKeeps DEF Valid, n
  <2> QED BY <2>1, <2>2 DEF CoreChanged
<1>3. /\ m.active = [s.active EXCEPT ![t] = NoCore]
      /\ \A e \in Cores \ {d} : m.sched[e] = s.sched[e] /\ m.sugg[e] = s.sugg[e]
  <2>1. \A e \in Cores \ {d} : e \in Cores \ {s.active[t], NoCore}
    BY StateFacts DEF Valid
  <2> QED BY <1>2, <2>1 DEF CoreChanged
<1>4. m.active[t] = NoCore
  BY <1>1, <1>3
<1>5. /\ Valid(r) /\ r.run = m.run /\ r.aff = m.aff /\ r.prio = m.prio /\ r.top = m.top
      /\ CoreChanged(m, r, t, d, "back")
  <2> DEFINE n == ChangeCore(m, t, d, "back")
  <2>1. /\ Valid(n) /\ n.run = m.run /\ n.aff = m.aff /\ n.prio = m.prio /\ n.top = m.top
        /\ CoreChanged(m, n, t, d, "back")
    <3>1. t \in m.run /\ d \in m.aff[t] \cup {NoCore}
      BY <1>1, <1>2
    <3> QED BY <1>2, <3>1, ChangeCoreLinks
  <2> HIDE DEF n
  <2>2. /\ Valid(r) /\ r.run = n.run /\ r.aff = n.aff /\ r.prio = n.prio /\ r.top = n.top
        /\ r.active = n.active /\ r.sched = n.sched /\ r.sugg = n.sugg
    BY <2>1, BumpKeeps DEF Valid, n
  <2> QED BY <2>1, <2>2 DEF CoreChanged
<1>6. /\ r.active = [m.active EXCEPT ![t] = d]
      /\ \A e \in Cores \ {d} : r.sched[e] = m.sched[e] /\ r.sugg[e] = m.sugg[e]
  <2>1. \A e \in Cores \ {d} : e \in Cores \ {m.active[t], d}
    BY <1>4, StateFacts DEF Valid
  <2> QED BY <1>5, <2>1 DEF CoreChanged
<1>7. r.active = s.active
  BY <1>1, <1>3, <1>6
<1>8. \A u \in s.run \ {t} : m.active[u] = s.active[u]
  BY <1>1, <1>3
<1>9. Scheduled(s, s.run, d) = {t}
  <2>1. Links(m.sched[d], Scheduled(m, m.run, d), m.prio)
    BY <1>2, SuggestedRange
  <2>2. Scheduled(m, m.run, d) = {}
    BY <2>1, FrontOfSome
  <2> QED BY <1>2, <1>8, <2>2 DEF Scheduled
<1>10. Scheduled(r, r.run, d) = {t}
  BY <1>2, <1>5, <1>7, <1>9 DEF Scheduled
<1>11. GetFront(s.sched[d]) = t /\ GetFront(r.sched[d]) = t
  <2>1. Links(s.sched[d], {t}, s.prio)
    BY <1>9, SuggestedRange
  <2>2. Links(r.sched[d], {t}, r.prio)
    <3>1. Links(r.sched[d], Scheduled(r, r.run, d), r.prio)
      BY <1>5, SuggestedRange
    <3> QED BY <1>10, <3>1
  <2> QED BY <2>1, <2>2, FrontOfOne
<1>12. \A c \in Cores : GetFront(r.sched[c]) = GetFront(s.sched[c])
  BY <1>3, <1>6, <1>11
<1>13. Alike(s, r)
  <2>1. \A c \in Cores : Idle(s, c) => c # d
    BY <1>9 DEF Idle
  <2> QED BY <1>2, <1>3, <1>5, <1>6, <1>7, <2>1 DEF Alike
<1>14. Placed(s) => Current(r)
  BY <1>2, <1>5, <1>12 DEF Placed, Current
<1>15. Alone(r, t)
  BY <1>1, <1>7, <1>10 DEF Alone, Scheduled
<1> QED BY <1>2, <1>5, <1>7, <1>13, <1>14, <1>15, AlikeOwned, AlikePlaced DEF Rearranged

-----------------------------------------------------------------------------
(* The invariant.                                                          *)

\* No thread runs on two cores, and a pinned one on its own core only.
RunsHold(runs, pins) ==
  /\ runs \in [Cores -> Threads \cup {NoThread}]
  /\ \A c, d \in Cores : c # d /\ runs[c] = runs[d] => runs[c] = NoThread
  /\ \A p \in Processes, c, d \in Cores : c # d /\ pins[p][c] # NoThread => runs[d] # pins[p][c]

\* A pinned thread has a mask to go back to.
OriginalsHold(orig, pins) ==
  /\ orig \in [Threads -> SUBSET Cores]
  /\ \A p \in Processes, c \in Cores : pins[p][c] # NoThread => orig[pins[p][c]] # {}

ChoiceInv ==
  /\ Valid(Now) /\ Owned(Now)
  /\ Unpinned(pinned) => Placed(Now)
  /\ PinsHold(pinned, aff)
  /\ RunsHold(running, pinned)
  /\ OriginalsHold(original, pinned)
  /\ created \subseteq Threads

LEMMA ChoiceInvInit == PriorityQueueInit => ChoiceInv
<1> SUFFICES ASSUME PriorityQueueInit PROVE ChoiceInv
  OBVIOUS
<1> USE DEF PriorityQueueInit
<1>1. /\ runnable = {} /\ active \in [Threads -> Cores] /\ aff \in [Threads -> Masks]
      /\ prio \in [Threads -> Priorities] /\ created \in Guests
      /\ sched = [c \in Cores |-> << >>] /\ sugg = sched /\ highest = [c \in Cores |-> NoThread]
      /\ pinned = [p \in Processes |-> [c \in Cores |-> NoThread]]
      /\ running = highest /\ original = [t \in Threads |-> {}]
  OBVIOUS
<1>2. \A t \in Threads : active[t] \in aff[t]
  <2>1. \A t \in created : active[t] \in aff[t]
    OBVIOUS
  <2>2. \A t \in Threads \ created : aff[t] = Cores
    OBVIOUS
  <2> QED BY <1>1, <2>1, <2>2
<1>3. aff \in [Threads -> (SUBSET Cores) \ {{}}] /\ created \subseteq Threads
  BY <1>1, PriorityQueueAssumption
<1>4. /\ Now = [run |-> Now.run, active |-> Now.active, aff |-> Now.aff, prio |-> Now.prio,
                sched |-> Now.sched, sugg |-> Now.sugg, top |-> Now.top, bumped |-> Now.bumped]
      /\ Now.run = runnable /\ Now.active = active /\ Now.aff = aff /\ Now.prio = prio
      /\ Now.sched = sched /\ Now.sugg = sugg /\ Now.top = highest
  BY DEF Now
<1>5. IsState(Now)
  BY <1>1, <1>2, <1>3, <1>4 DEF IsState
<1>6. \A p : Links(<< >>, {}, p)
  <2>1. << >> \in Seq(Threads) /\ Range(<< >>) = {} /\ Len(<< >>) = 0
    BY DEF Range
  <2> QED BY <2>1 DEF Links, Ordered
<1>7. \A c \in Cores : /\ Scheduled(Now, {}, c) = {} /\ Suggested(Now, {}, c) = {}
                       /\ sched[c] = << >> /\ sugg[c] = << >>
  BY <1>1 DEF Scheduled, Suggested
<1>8. Queued(Now, {})
  <2>1. sched \in [Cores -> Seq(Threads)] /\ sugg \in [Cores -> Seq(Threads)]
    BY <1>1
  <2>2. \A c \in Cores : Links(<< >>, Scheduled(Now, {}, c), Now.prio)
                        /\ Links(<< >>, Suggested(Now, {}, c), Now.prio)
    BY <1>6, <1>7
  <2>3. \A c \in Cores : Now.sched[c] = << >> /\ Now.sugg[c] = << >>
    BY <1>4, <1>7
  <2> QED BY <1>4, <2>1, <2>2, <2>3 DEF Queued
<1>9. Valid(Now)
  BY <1>1, <1>4, <1>5, <1>8 DEF Valid
<1>10. Owned(Now)
  BY <1>1, <1>4 DEF Owned
<1>11. Current(Now)
  BY <1>1, <1>4 DEF Current, GetFront
<1>12. \A c \in Cores : NothingToTake(Now, c)
  <2> TAKE c \in Cores
  <2>1. Suggested(Now, Now.run, c) = {} /\ Now.sugg[c] = << >> /\ Range(<< >>) = {}
    BY <1>1, <1>4, <1>7 DEF Range
  <2>2. Links(Now.sugg[c], {}, Now.prio)
    BY <1>6, <2>1
  <2>3. FirstWaiting(Now, c) = NoThread
    BY <2>2, FirstIsLinked DEF FirstWaiting
  <2> QED BY <2>1, <2>3 DEF NothingToTake
<1>13. Placed(Now)
  BY <1>11, <1>12 DEF Placed
<1>14. PinsHold(pinned, aff)
  BY <1>1 DEF PinsHold
<1>15. RunsHold(running, pinned)
  BY <1>1 DEF RunsHold
<1>16. OriginalsHold(original, pinned)
  BY <1>1 DEF OriginalsHold
<1> QED BY <1>3, <1>9, <1>10, <1>13, <1>14, <1>15, <1>16 DEF ChoiceInv

\* The state of the queues as a value.
LEMMA NowFields ==
  /\ Now.run = runnable /\ Now.active = active /\ Now.aff = aff /\ Now.prio = prio
  /\ Now.sched = sched /\ Now.sugg = sugg /\ Now.top = highest /\ Now.bumped = {}
BY DEF Now

\* A step that leaves the queues as in r.
LEMMA CommitKeeps ==
  ASSUME NEW r, Valid(r), Owned(r), NEW own, Commit(r, own)
  PROVE  /\ Valid(Now)' /\ Owned(Now)' /\ (Placed(r) => Placed(Now)')
         /\ aff' = r.aff /\ running' = running
<1>1. /\ runnable' = r.run /\ active' = r.active /\ aff' = r.aff /\ prio' = r.prio
      /\ sched' = r.sched /\ sugg' = r.sugg /\ highest' = r.top /\ running' = running
  BY DEF Commit
<1>2. PICK n : n = Now'
  OBVIOUS
<1>3. n = [run |-> r.run, active |-> r.active, aff |-> r.aff, prio |-> r.prio,
           sched |-> r.sched, sugg |-> r.sugg, top |-> r.top, bumped |-> {}]
  BY <1>1, <1>2 DEF Now
<1>4. /\ n = [run |-> n.run, active |-> n.active, aff |-> n.aff, prio |-> n.prio,
              sched |-> n.sched, sugg |-> n.sugg, top |-> n.top, bumped |-> n.bumped]
      /\ n.run = r.run /\ n.active = r.active /\ n.aff = r.aff /\ n.prio = r.prio
      /\ n.sched = r.sched /\ n.sugg = r.sugg /\ n.top = r.top
  BY <1>3
<1>5. IsState(n)
  BY <1>4 DEF IsState, Valid
<1>6. Valid(n) /\ Owned(n) /\ (Placed(r) => Placed(n))
  BY <1>4, <1>5, SameQueues
<1>7. Valid(Now)' /\ Owned(Now)' /\ (Placed(r) => Placed(Now)')
  BY <1>2, <1>6
<1> QED BY <1>1, <1>7

\* A step that leaves pinning alone: the queues are as in r, which fits the pins.
LEMMA CommitInv ==
  ASSUME ChoiceInv, NEW r, Valid(r), Owned(r), PinsHold(pinned, r.aff),
         Unpinned(pinned) => Placed(r), NEW own, Commit(r, own),
         UNCHANGED <<pinned, original, created>>
  PROVE  ChoiceInv'
<1>1. /\ Valid(Now)' /\ Owned(Now)' /\ (Placed(r) => Placed(Now)')
      /\ aff' = r.aff /\ running' = running
  BY CommitKeeps
<1>2. pinned' = pinned /\ original' = original /\ created' = created
  OBVIOUS
<1>3. (Unpinned(pinned) => Placed(Now))'
  BY <1>1, <1>2
<1>4. PinsHold(pinned, aff)' /\ RunsHold(running, pinned)' /\ OriginalsHold(original, pinned)'
      /\ (created \subseteq Threads)'
  BY <1>1, <1>2 DEF ChoiceInv
<1> QED BY <1>1, <1>3, <1>4 DEF ChoiceInv

LEMMA UpdateInv ==
  ASSUME ChoiceInv, NEW s, Valid(s), PinsHold(pinned, s.aff), NEW kept, NEW own,
         Commit(Update(s, pinned, kept), own), UNCHANGED <<pinned, original, created>>
  PROVE  ChoiceInv'
<1> DEFINE r == Update(s, pinned, kept)
<1>1. KeptSoFar(s, r) /\ (Unpinned(pinned) => Placed(r))
  BY UpdateIs
<1>2. Commit(r, own)
  OBVIOUS
<1> HIDE DEF r
<1> QED BY <1>1, <1>2, CommitInv DEF KeptSoFar

LEMMA FinishInv ==
  ASSUME ChoiceInv, NEW s, Valid(s), PinsHold(pinned, s.aff), NEW callers,
         Finish(s, callers), UNCHANGED created
  PROVE  ChoiceInv'
<1>1. PICK own : Commit(Update(s, pinned, waited), own)
  BY DEF Finish
<1>2. UNCHANGED <<pinned, original, created>>
  BY DEF Finish
<1> QED BY <1>1, <1>2, UpdateInv

\* Threads have only been moved.
LEMMA RearrangedInv ==
  ASSUME ChoiceInv, NEW s, Rearranged(Now, s), NEW callers,
         Finish(s, callers), UNCHANGED created
  PROVE  ChoiceInv'
<1>1. Valid(s) /\ s.aff = aff /\ PinsHold(pinned, aff)
  BY NowFields DEF Rearranged, ChoiceInv
<1> QED BY <1>1, FinishInv

LEMMA NoUpdateInv ==
  ASSUME ChoiceInv, NEW s, Rearranged(Now, s), Owned(s), Placed(Now) => Placed(s),
         NEW c, NEW T, NoUpdate(s, c, T), UNCHANGED created
  PROVE  ChoiceInv'
<1>1. Valid(s) /\ s.aff = aff /\ PinsHold(pinned, s.aff) /\ (Unpinned(pinned) => Placed(s))
  BY NowFields DEF Rearranged, ChoiceInv
<1>2. Commit(s, {c}) /\ UNCHANGED <<pinned, original, created>>
  BY DEF NoUpdate
<1> QED BY <1>1, <1>2, CommitInv

\* The fields that the operations on queues leave alone.
LEMMA QueueOperations ==
  ASSUME NEW s, IsState(s), NEW t, NEW end, NEW T
  PROVE  /\ Push(s, t, end).aff = s.aff /\ Dequeue(s, t).aff = s.aff /\ Bump(s, T).aff = s.aff
         /\ Push(s, t, end).run = s.run /\ Dequeue(s, t).run = s.run /\ Bump(s, T).run = s.run
         /\ Push(s, t, end).active = s.active /\ Dequeue(s, t).active = s.active
         /\ Push(s, t, end).bumped = s.bumped /\ Dequeue(s, t).bumped = s.bumped
<1>1. DOMAIN s = {"run", "active", "aff", "prio", "sched", "sugg", "top", "bumped"}
  BY DEF IsState
<1>2. /\ Push(s, t, end).aff = s.aff /\ Push(s, t, end).run = s.run
      /\ Push(s, t, end).active = s.active /\ Push(s, t, end).bumped = s.bumped
  BY <1>1 DEF Push
<1>3. /\ Dequeue(s, t).aff = s.aff /\ Dequeue(s, t).run = s.run
      /\ Dequeue(s, t).active = s.active /\ Dequeue(s, t).bumped = s.bumped
  BY <1>1 DEF Dequeue
<1>4. Bump(s, T).aff = s.aff /\ Bump(s, T).run = s.run
  BY <1>1 DEF Bump
<1> QED BY <1>2, <1>3, <1>4

LEMMA BumpValid ==
  ASSUME NEW s, Valid(s), NEW T
  PROVE  Valid(Bump(s, T)) /\ Bump(s, T).aff = s.aff
BY BumpKeeps DEF Valid

LEMMA BumpedIs ==
  ASSUME NEW s, IsState(s), NEW T
  PROVE  Bump(s, T).bumped = s.bumped \cup (T \ {NoThread})
BY DEF Bump, IsState

\* The choices, and the threads in the queues, are as they were.
SameThreads(s, r) ==
  /\ r.top = s.top /\ r.run = s.run
  /\ \A u \in s.run : r.active[u] = s.active[u] /\ r.prio[u] = s.prio[u]

\* A thread has joined or left its queues or changed its place there, and is counted.
Requeued(s, t) == Valid(s) /\ s.aff = aff /\ s.active = active /\ s.bumped = {t}

LEMMA RequeuedIs ==
  ASSUME NEW p, Valid(p), p.aff = aff, p.active = active, p.bumped = {}, NEW t \in Threads
  PROVE  Requeued(Bump(p, {t}), t)
<1>1. Bump(p, {t}).bumped = p.bumped \cup ({t} \ {NoThread})
  BY BumpedIs DEF Valid
<1>2. Bump(p, {t}).active = p.active
  BY BumpKeeps DEF Valid
<1>3. Bump(p, {t}).bumped = {t}
  BY <1>1, PriorityQueueAssumption
<1> QED BY <1>2, <1>3, BumpValid DEF Requeued

LEMMA RequeuedInv ==
  ASSUME ChoiceInv, NEW s, NEW t, Requeued(s, t), NEW callers, Finish(s, callers), UNCHANGED created
  PROVE  ChoiceInv'
<1>1. PinsHold(pinned, s.aff)
  BY DEF ChoiceInv, Requeued
<1> QED BY <1>1, FinishInv DEF Requeued

LEMMA WakeIs ==
  ASSUME ChoiceInv, NEW t \in Threads, Wake(t)
  PROVE  \E s, callers : Requeued(s, t) /\ Finish(s, callers)
<1>0. PICK n : n = Now
  OBVIOUS
<1>1. /\ IsState(n) /\ Queued(n, n.run) /\ n.run = runnable /\ n.aff = aff /\ n.run \in SUBSET Threads
      /\ n.active = active /\ n.bumped = {}
  BY <1>0, NowFields DEF ChoiceInv, Valid, IsState
<1>2. t \notin n.run /\ n.run \cup {t} \in SUBSET Threads
  BY <1>1 DEF Wake
<1>3. PICK w : w = [n EXCEPT !.run = n.run \cup {t}]
  OBVIOUS
<1>4. /\ IsState(w) /\ Queued(w, n.run) /\ w.run = n.run \cup {t} /\ w.aff = aff
      /\ w.active = active /\ w.bumped = {}
  <2>1. IsState(w) /\ Queued(w, n.run) /\ w.run = n.run \cup {t}
    <3>1. PICK R : R = n.run
      OBVIOUS
    <3>2. PICK X : X = n.run \cup {t}
      OBVIOUS
    <3>3. IsState(n) /\ R \in SUBSET Threads /\ Queued(n, R) /\ X \in SUBSET Threads
      BY <1>1, <1>2, <3>1, <3>2
    <3>4. w = [n EXCEPT !.run = X]
      BY <1>3, <3>2
    <3>5. IsState(w) /\ Queued(w, R) /\ w.run = X
      BY <3>3, <3>4, SetRun
    <3> QED BY <3>1, <3>2, <3>5
  <2>2. w.aff = n.aff /\ w.active = n.active /\ w.bumped = n.bumped
    BY <1>1, <1>3 DEF IsState
  <2> QED BY <1>1, <2>1, <2>2
<1>5. PICK p : p = Push(w, t, "back")
  OBVIOUS
<1>6. Valid(p) /\ p.aff = aff /\ p.active = active /\ p.bumped = {}
  <2>1. IsState(p) /\ p.run = w.run /\ Queued(p, n.run \cup {t})
    BY <1>1, <1>2, <1>4, <1>5, PushLinks
  <2>2. p.aff = w.aff /\ p.active = w.active /\ p.bumped = w.bumped
    BY <1>4, <1>5, QueueOperations
  <2> QED BY <1>4, <2>1, <2>2 DEF Valid
<1>7. Requeued(Bump(p, {t}), t)
  BY <1>6, RequeuedIs
<1>8. Finish(Bump(p, {t}), Callers)
  <2>1. Finish(Bump(Push([Now EXCEPT !.run = Now.run \cup {t}], t, "back"), {t}), Callers)
    BY DEF Wake
  <2> QED BY <1>0, <1>3, <1>5, <2>1
<1> QED BY <1>7, <1>8

LEMMA WakeInv ==
  ASSUME ChoiceInv, NEW t \in Threads, Wake(t), UNCHANGED created
  PROVE  ChoiceInv'
BY WakeIs, RequeuedInv

LEMMA BlockIs ==
  ASSUME ChoiceInv, NEW t \in Threads, Block(t)
  PROVE  \E s, callers : Requeued(s, t) /\ Finish(s, callers)
<1>0. PICK n : n = Now
  OBVIOUS
<1>1. /\ IsState(n) /\ Queued(n, n.run) /\ n.aff = aff /\ n.run \in SUBSET Threads
      /\ n.active = active /\ n.bumped = {}
  BY <1>0, NowFields DEF ChoiceInv, Valid, IsState
<1>2. n.run \ {t} \in SUBSET Threads
  BY <1>1
<1>3. PICK w : w = [n EXCEPT !.run = n.run \ {t}]
  OBVIOUS
<1>4. /\ IsState(w) /\ Queued(w, n.run) /\ w.run = n.run \ {t} /\ w.aff = aff
      /\ w.active = active /\ w.bumped = {}
  <2>1. IsState(w) /\ Queued(w, n.run) /\ w.run = n.run \ {t}
    <3>1. PICK R : R = n.run
      OBVIOUS
    <3>2. PICK X : X = n.run \ {t}
      OBVIOUS
    <3>3. IsState(n) /\ R \in SUBSET Threads /\ Queued(n, R) /\ X \in SUBSET Threads
      BY <1>1, <1>2, <3>1, <3>2
    <3>4. w = [n EXCEPT !.run = X]
      BY <1>3, <3>2
    <3>5. IsState(w) /\ Queued(w, R) /\ w.run = X
      BY <3>3, <3>4, SetRun
    <3> QED BY <3>1, <3>2, <3>5
  <2>2. w.aff = n.aff /\ w.active = n.active /\ w.bumped = n.bumped
    BY <1>1, <1>3 DEF IsState
  <2> QED BY <1>1, <2>1, <2>2
<1>5. PICK p : p = Dequeue(w, t)
  OBVIOUS
<1>6. Valid(p) /\ p.aff = aff /\ p.active = active /\ p.bumped = {}
  <2>1. IsState(p) /\ p.run = w.run /\ Queued(p, n.run \ {t})
    BY <1>1, <1>4, <1>5, DequeueLinks
  <2>2. p.aff = w.aff /\ p.active = w.active /\ p.bumped = w.bumped
    BY <1>4, <1>5, QueueOperations
  <2> QED BY <1>4, <2>1, <2>2 DEF Valid
<1>7. Requeued(Bump(p, {t}), t)
  BY <1>6, RequeuedIs
<1>8. Finish(Bump(p, {t}), Callers)
  <2>1. Finish(Bump(Dequeue([Now EXCEPT !.run = Now.run \ {t}], t), {t}), Callers)
    BY DEF Block
  <2> QED BY <1>0, <1>3, <1>5, <2>1
<1> QED BY <1>7, <1>8

LEMMA BlockInv ==
  ASSUME ChoiceInv, NEW t \in Threads, Block(t), UNCHANGED created
  PROVE  ChoiceInv'
BY BlockIs, RequeuedInv

LEMMA ChangePriorityIs ==
  ASSUME ChoiceInv, NEW t \in Threads, NEW k \in Priorities, ChangePriority(t, k), t \in runnable
  PROVE  \E s, callers : Requeued(s, t) /\ Finish(s, callers)
<1>0. PICK n : n = Now
  OBVIOUS
<1>1. /\ IsState(n) /\ Queued(n, n.run) /\ n.run = runnable /\ n.aff = aff
      /\ n.run \in SUBSET Threads /\ n.active = active /\ n.bumped = {}
  BY <1>0, NowFields DEF ChoiceInv, Valid, IsState
<1>2. PICK d : d = Dequeue(n, t)
  OBVIOUS
<1>3. PICK s : s = [d EXCEPT !.prio[t] = k]
  OBVIOUS
<1>4. PICK end, callers : Finish(Bump(Push(s, t, end), {t}), callers)
  <2> DEFINE own == {{c} : c \in {e \in Cores : Caller(e) = t}}
  <2>1. \/ Finish(Bump(Push(s, t, "front"), {t}), own)
        \/ Finish(Bump(Push(s, t, "back"), {t}), Callers \ own)
    BY <1>0, <1>2, <1>3 DEF ChangePriority
  <2> QED BY <2>1
<1>5. /\ IsState(d) /\ d.run = n.run /\ Queued(d, n.run \ {t}) /\ d.aff = aff
      /\ d.active = active /\ d.bumped = {}
  BY <1>1, <1>2, DequeueLinks, QueueOperations
<1>6. n.run \ {t} \in SUBSET Threads /\ t \notin n.run \ {t} /\ (n.run \ {t}) \cup {t} = n.run
  BY <1>1
<1>7. /\ IsState(s) /\ Queued(s, n.run \ {t}) /\ s.run = n.run /\ s.aff = aff
      /\ s.active = active /\ s.bumped = {}
  <2>1. IsState(s) /\ Queued(s, n.run \ {t}) /\ s.run = d.run
    BY <1>3, <1>5, <1>6, SetPriority
  <2>2. s.aff = d.aff /\ s.active = d.active /\ s.bumped = d.bumped
    BY <1>3, <1>5 DEF IsState
  <2> QED BY <1>5, <2>1, <2>2
<1>8. PICK p : p = Push(s, t, end)
  OBVIOUS
<1>9. Valid(p) /\ p.aff = aff /\ p.active = active /\ p.bumped = {}
  <2>1. IsState(p) /\ p.run = s.run /\ Queued(p, (n.run \ {t}) \cup {t})
    BY <1>6, <1>7, <1>8, PushLinks
  <2>2. p.aff = s.aff /\ p.active = s.active /\ p.bumped = s.bumped
    BY <1>7, <1>8, QueueOperations
  <2> QED BY <1>6, <1>7, <2>1, <2>2 DEF Valid
<1>10. Requeued(Bump(p, {t}), t)
  BY <1>9, RequeuedIs
<1> QED BY <1>4, <1>8, <1>10

\* A thread that is not queued gets another priority.
LEMMA OtherPriorityIs ==
  ASSUME ChoiceInv, NEW t \in Threads, NEW k \in Priorities, ChangePriority(t, k), t \notin runnable
  PROVE  \E r : /\ Commit(r, {}) /\ UNCHANGED <<match, pinned, original>>
                /\ Valid(r) /\ Owned(r) /\ (Placed(Now) => Placed(r))
                /\ r.aff = aff /\ SameThreads(Now, r) /\ Seated(Now, r)
<1>0. PICK n : n = Now
  OBVIOUS
<1>1. /\ Valid(n) /\ Owned(n) /\ IsState(n) /\ Queued(n, n.run) /\ n.run = runnable /\ n.aff = aff
      /\ n.run \in SUBSET Threads /\ n.active = active /\ n.top = highest /\ n.prio = prio
  BY <1>0, NowFields DEF ChoiceInv, Valid, IsState
<1>2. PICK r : r = [n EXCEPT !.prio[t] = k]
  OBVIOUS
<1>3. Commit(r, {}) /\ UNCHANGED <<match, pinned, original>>
  BY <1>0, <1>2 DEF ChangePriority
<1>4. IsState(r) /\ r.run = n.run
  BY <1>1, <1>2, SetPriority
<1>5. /\ r.top = n.top /\ r.sched = n.sched /\ r.sugg = n.sugg
      /\ r.active = n.active /\ r.aff = n.aff
  BY <1>1, <1>2 DEF IsState
<1>6. r.prio = [n.prio EXCEPT ![t] = k] /\ n.prio \in [Threads -> Priorities]
  BY <1>1, <1>2 DEF IsState
<1>7. \A u \in n.run : r.active[u] = n.active[u] /\ r.aff[u] = n.aff[u] /\ r.prio[u] = n.prio[u]
  BY <1>1, <1>5, <1>6
<1>8. Valid(r) /\ Owned(r) /\ (Placed(n) => Placed(r))
  BY <1>1, <1>4, <1>5, <1>7, SameQueues
<1>9. SameThreads(n, r) /\ Seated(n, r)
  BY <1>1, <1>4, <1>5, <1>7 DEF SameThreads, Seated
<1> QED BY <1>0, <1>1, <1>3, <1>5, <1>8, <1>9

LEMMA ChangePriorityInv ==
  ASSUME ChoiceInv, NEW t \in Threads, NEW k \in Priorities, ChangePriority(t, k), UNCHANGED created
  PROVE  ChoiceInv'
<1>1. CASE t \in runnable
  BY <1>1, ChangePriorityIs, RequeuedInv
<1>2. CASE t \notin runnable
  <2>1. PICK r : /\ Commit(r, {}) /\ UNCHANGED <<match, pinned, original>>
                 /\ Valid(r) /\ Owned(r) /\ (Placed(Now) => Placed(r)) /\ r.aff = aff
    BY <1>2, OtherPriorityIs
  <2>2. PinsHold(pinned, r.aff) /\ (Unpinned(pinned) => Placed(r))
    BY <2>1 DEF ChoiceInv
  <2> QED BY <2>1, <2>2, CommitInv
<1> QED BY <1>1, <1>2

LEMMA ChangeKernelWaitersInv ==
  ASSUME ChoiceInv, NEW t, ChangeKernelWaiters(t), UNCHANGED created
  PROVE  ChoiceInv'
<1>1. PICK kept : Commit(Update(Now, pinned, kept), {})
  BY DEF ChangeKernelWaiters
<1>2. UNCHANGED <<pinned, original, created>>
  BY DEF ChangeKernelWaiters
<1>3. Valid(Now) /\ PinsHold(pinned, Now.aff)
  BY NowFields DEF ChoiceInv
<1> QED BY <1>1, <1>2, <1>3, UpdateInv

\* A thread gets a core and a mask.
Masked(s, r, t, core, mask) ==
  /\ r.aff = [s.aff EXCEPT ![t] = mask]
  /\ r.active = [s.active EXCEPT ![t] = core]

\* The threads of T are counted.
Counts(s, r, T) == r.bumped = s.bumped \cup (T \ {NoThread})

LEMMA AssignIs ==
  ASSUME NEW s, Valid(s), NEW t \in Threads,
         NEW mask \in (SUBSET Cores) \ {{}}, NEW core \in mask \cup {NoCore},
         t \notin s.run \/ (core = s.active[t] /\ mask = s.aff[t]),
         NEW r, r = Assign(s, t, core, mask)
  PROVE  /\ Valid(r) /\ Masked(s, r, t, core, mask)
         /\ Owned(s) => Owned(r) /\ (Placed(s) => Placed(r))
         /\ SameThreads(s, r) /\ r.bumped = s.bumped
<1>1. IsState(s) /\ Queued(s, s.run) /\ s.run \in SUBSET Threads
  BY DEF Valid, IsState
<1>2. IsState(r) /\ Queued(r, s.run) /\ r.run = s.run
  BY <1>1, SetFields
<1>3. DOMAIN s = {"run", "active", "aff", "prio", "sched", "sugg", "top", "bumped"}
  BY <1>1 DEF IsState
<1>4. /\ r.aff = [s.aff EXCEPT ![t] = mask] /\ r.active = [s.active EXCEPT ![t] = core]
      /\ r.top = s.top /\ r.sched = s.sched /\ r.sugg = s.sugg /\ r.prio = s.prio
      /\ r.bumped = s.bumped
  BY <1>3 DEF Assign
<1>5. s.active \in [Threads -> Cores \cup {NoCore}] /\ s.aff \in [Threads -> (SUBSET Cores) \ {{}}]
  BY <1>1 DEF IsState
<1>6. \A u \in s.run : r.active[u] = s.active[u] /\ r.aff[u] = s.aff[u] /\ r.prio[u] = s.prio[u]
  BY <1>1, <1>4, <1>5
<1>7. Owned(s) => Owned(r) /\ (Placed(s) => Placed(r))
  BY <1>2, <1>4, <1>6, SameQueues
<1> QED BY <1>2, <1>4, <1>6, <1>7 DEF Valid, Masked, SameThreads

LEMMA ChangeMaskIs ==
  ASSUME NEW s, Valid(s), NEW t \in s.run,
         NEW mask \in (SUBSET Cores) \ {{}}, NEW core \in mask \cup {NoCore}, NEW T,
         NEW r, r = Bump(ChangeAffinityMask(s, t, core, mask), T)
  PROVE  Valid(r) /\ Masked(s, r, t, core, mask) /\ Counts(s, r, T)
<1>1. PICK m : m = ChangeAffinityMask(s, t, core, mask)
  OBVIOUS
<1>2. Valid(m)
  BY <1>1, ChangeAffinityMaskLinks
<1>3. IsState(s) /\ Queued(s, s.run) /\ s.run \in SUBSET Threads /\ t \in Threads
  BY DEF Valid, IsState
<1>4. PICK d : d = Dequeue(s, t)
  OBVIOUS
<1>5. /\ IsState(d) /\ d.aff = s.aff /\ Queued(d, s.run \ {t})
      /\ d.active = s.active /\ d.bumped = s.bumped
  BY <1>3, <1>4, DequeueLinks, QueueOperations
<1>6. PICK e : e = Assign(d, t, core, mask)
  OBVIOUS
<1>7. IsState(e)
  <2>1. s.run \ {t} \in SUBSET Threads /\ t \notin s.run \ {t}
    BY <1>3
  <2> QED BY <1>3, <1>5, <1>6, <2>1, SetFields
<1>8. /\ e.aff = [d.aff EXCEPT ![t] = mask] /\ e.active = [d.active EXCEPT ![t] = core]
      /\ e.bumped = d.bumped
  <2>1. DOMAIN d = {"run", "active", "aff", "prio", "sched", "sugg", "top", "bumped"}
    BY <1>5 DEF IsState
  <2> QED BY <1>6, <2>1 DEF Assign
<1>9. m = Push(e, t, "back")
  BY <1>1, <1>4, <1>6 DEF ChangeAffinityMask
<1>10. m.aff = e.aff /\ m.active = e.active /\ m.bumped = e.bumped
  BY <1>7, <1>9, QueueOperations
<1>11. /\ Valid(Bump(m, T)) /\ Bump(m, T).aff = m.aff /\ Bump(m, T).active = m.active
       /\ Bump(m, T).bumped = m.bumped \cup (T \ {NoThread})
  <2>1. Bump(m, T).bumped = m.bumped \cup (T \ {NoThread})
    BY <1>2, BumpedIs DEF Valid
  <2> QED BY <1>2, <2>1, BumpKeeps DEF Valid
<1> QED BY <1>1, <1>5, <1>8, <1>10, <1>11 DEF Masked, Counts

\* The mask of a thread that is not pinned does not matter to the pins.
LEMMA MaskOfOther ==
  ASSUME NEW pins, NEW masks \in [Threads -> (SUBSET Cores) \ {{}}], PinsHold(pins, masks),
         NEW t \in Threads, \A p \in Processes, c \in Cores : pins[p][c] # t, NEW mask
  PROVE  PinsHold(pins, [masks EXCEPT ![t] = mask])
<1>1. ASSUME NEW p \in Processes, NEW c \in Cores, pins[p][c] # NoThread
      PROVE  [masks EXCEPT ![t] = mask][pins[p][c]] = {c} /\ Process[pins[p][c]] = p
  <2>1. pins[p][c] \in Threads \ {t}
    BY <1>1 DEF PinsHold
  <2>2. masks[pins[p][c]] = {c} /\ Process[pins[p][c]] = p
    BY <1>1 DEF PinsHold
  <2> QED BY <2>1, <2>2
<1> QED BY <1>1 DEF PinsHold

\* A thread that is not pinned gets a mask.
LEMMA SetCoreMaskIs ==
  ASSUME ChoiceInv, NEW t \in Threads, NEW mask \in Masks, SetCoreMask(t, mask), ~IsPinned(t)
  PROVE  \E r : /\ Valid(r) /\ PinsHold(pinned, r.aff) /\ Seated(Now, r)
                /\ \/ Finish(r, Callers) /\ r.bumped = {t}
                   \/ /\ Commit(r, {}) /\ UNCHANGED <<match, pinned, original>>
                      /\ Owned(r) /\ (Placed(Now) => Placed(r)) /\ SameThreads(Now, r)
<1>0. mask \in (SUBSET Cores) \ {{}}
  BY PriorityQueueAssumption
<1>1. PICK n : n = Now
  OBVIOUS
<1>2. PICK core \in NewActive(t, mask) :
        IF t \in runnable
        THEN Finish(Bump(ChangeAffinityMask(Now, t, core, mask), {t}), Callers)
        ELSE /\ Commit(Assign(Now, t, core, mask), {})
             /\ UNCHANGED <<match, waited, pinned, original>>
  BY DEF SetCoreMask
<1>3. /\ Valid(n) /\ Owned(n) /\ n.run = runnable /\ n.aff = aff /\ n.active = active /\ n.prio = prio
      /\ n.top = highest /\ n.bumped = {}
  BY <1>1, NowFields DEF ChoiceInv
<1>4. aff \in [Threads -> (SUBSET Cores) \ {{}}] /\ active \in [Threads -> Cores \cup {NoCore}]
      /\ NoCore \notin Cores
  BY <1>3, StateFacts DEF Valid, IsState
<1>5. core \in mask \cup {NoCore}
  BY <1>2 DEF NewActive
<1>6. core = NoCore => active[t] = NoCore
  BY <1>0, <1>2, <1>4 DEF NewActive
<1>7. PinsHold(pinned, [aff EXCEPT ![t] = mask])
  <2>1. \A p \in Processes, c \in Cores : pinned[p][c] # t
    BY DEF IsPinned
  <2> QED BY <1>4, <2>1, MaskOfOther DEF ChoiceInv
<1>8. ASSUME NEW r, r.active = [n.active EXCEPT ![t] = core] PROVE Seated(n, r)
  BY <1>3, <1>4, <1>6, <1>8 DEF Seated
<1>9. CASE t \in runnable
  <2>1. PICK r : r = Bump(ChangeAffinityMask(n, t, core, mask), {t})
    OBVIOUS
  <2>2. Valid(n) /\ t \in n.run
    BY <1>3, <1>9
  <2>3. Valid(r) /\ Masked(n, r, t, core, mask) /\ Counts(n, r, {t})
    BY <1>0, <1>5, <2>1, <2>2, ChangeMaskIs
  <2>4. r.bumped = {t} /\ PinsHold(pinned, r.aff) /\ Seated(n, r)
    BY <1>3, <1>7, <1>8, <2>3, PriorityQueueAssumption DEF Masked, Counts
  <2>5. Finish(r, Callers)
    BY <1>1, <1>2, <1>9, <2>1
  <2> QED BY <1>1, <2>3, <2>4, <2>5
<1>10. CASE t \notin runnable
  <2>1. PICK r : r = Assign(n, t, core, mask)
    OBVIOUS
  <2>2. Valid(n) /\ t \notin n.run
    BY <1>3, <1>10
  <2>3. /\ Valid(r) /\ Masked(n, r, t, core, mask)
        /\ Owned(n) => Owned(r) /\ (Placed(n) => Placed(r))
        /\ SameThreads(n, r)
    BY <1>0, <1>5, <2>1, <2>2, AssignIs
  <2>4. PinsHold(pinned, r.aff) /\ Seated(n, r)
    BY <1>3, <1>7, <1>8, <2>3 DEF Masked
  <2>5. Commit(r, {}) /\ UNCHANGED <<match, pinned, original>>
    BY <1>1, <1>2, <1>10, <2>1
  <2> QED BY <1>1, <1>3, <2>3, <2>4, <2>5
<1> QED BY <1>9, <1>10

LEMMA SetCoreMaskInv ==
  ASSUME ChoiceInv, NEW t \in Threads, NEW mask \in Masks, SetCoreMask(t, mask), UNCHANGED created
  PROVE  ChoiceInv'
<1>0. mask \in (SUBSET Cores) \ {{}}
  BY PriorityQueueAssumption
<1>1. CASE IsPinned(t)
  <2>1. /\ original' = [original EXCEPT ![t] = mask]
        /\ UNCHANGED <<queueVars, highest, running, pinned>>
    BY <1>1 DEF SetCoreMask
  <2>2. Now' = Now /\ pinned' = pinned /\ aff' = aff /\ running' = running
    BY <2>1 DEF Now, queueVars
  <2>3. OriginalsHold(original', pinned)
    <3>1. OriginalsHold(original, pinned) /\ original' = [original EXCEPT ![t] = mask]
      BY <2>1 DEF ChoiceInv
    <3>2. PICK o : o = original'
      OBVIOUS
    <3>3. o \in [Threads -> SUBSET Cores] /\ o[t] = mask /\ \A u \in Threads \ {t} : o[u] = original[u]
      BY <1>0, <3>1, <3>2 DEF OriginalsHold
    <3>4. ASSUME NEW p \in Processes, NEW c \in Cores, pinned[p][c] # NoThread
          PROVE  o[pinned[p][c]] # {}
      <4>1. pinned[p][c] \in Threads /\ original[pinned[p][c]] # {}
        BY <3>1, <3>4 DEF OriginalsHold, ChoiceInv, PinsHold
      <4>2. o[t] # {}
        BY <1>0, <3>3
      <4>3. CASE pinned[p][c] = t
        BY <4>2, <4>3
      <4>4. CASE pinned[p][c] # t
        BY <3>3, <4>1, <4>4
      <4> QED BY <4>3, <4>4
    <3>5. OriginalsHold(o, pinned)
      BY <3>3, <3>4 DEF OriginalsHold
    <3> QED BY <3>2, <3>5
  <2>4. Valid(Now)' /\ Owned(Now)' /\ (Unpinned(pinned) => Placed(Now))' /\ PinsHold(pinned, aff)'
        /\ RunsHold(running, pinned)' /\ (created \subseteq Threads)'
    BY <2>2 DEF ChoiceInv
  <2>5. OriginalsHold(original, pinned)'
    BY <2>2, <2>3
  <2> QED BY <2>4, <2>5 DEF ChoiceInv
<1>2. CASE ~IsPinned(t)
  <2>1. PICK r : /\ Valid(r) /\ PinsHold(pinned, r.aff)
                 /\ \/ Finish(r, Callers)
                    \/ /\ Commit(r, {}) /\ UNCHANGED <<pinned, original>>
                       /\ Owned(r) /\ (Placed(Now) => Placed(r))
    BY <1>2, SetCoreMaskIs
  <2>2. CASE Finish(r, Callers)
    BY <2>1, <2>2, FinishInv
  <2>3. CASE /\ Commit(r, {}) /\ UNCHANGED <<pinned, original>>
             /\ Owned(r) /\ (Placed(Now) => Placed(r))
    <3>1. Unpinned(pinned) => Placed(r)
      BY <2>3 DEF ChoiceInv
    <3> QED BY <2>1, <2>3, <3>1, CommitInv
  <2> QED BY <2>1, <2>2, <2>3
<1> QED BY <1>1, <1>2

PinnedBy(pins, t) == \E p \in Processes, c \in Cores : pins[p][c] = t

\* A step of the thread of core c that changes a pin of its own.
PinStep(s, c) ==
  /\ Valid(s) /\ PinsHold(pinned', s.aff)
  /\ RunsHold(running, pinned') /\ OriginalsHold(original', pinned')
  /\ Commit(Update(s, pinned', waited), {c})
  /\ match' = StillMatch(Update(s, pinned', waited))
  /\ running[c] \in Threads
  /\ \A u \in Threads \ {running[c]} :
       s.active[u] = active[u] /\ (PinnedBy(pinned, u) => PinnedBy(pinned', u))
  /\ s.bumped = {running[c]} \/ (SameThreads(Now, s) /\ s.bumped = {})

LEMMA PinStepInv ==
  ASSUME ChoiceInv, NEW s, NEW c, PinStep(s, c), UNCHANGED created
  PROVE  ChoiceInv'
<1> USE DEF PinStep
<1>0. PICK pins : pins = pinned'
  OBVIOUS
<1>1. PICK r : r = Update(s, pins, waited)
  OBVIOUS
<1>2. KeptSoFar(s, r) /\ (Unpinned(pins) => Placed(r))
  BY <1>0, <1>1, UpdateIs
<1>3. Commit(r, {c})
  BY <1>0, <1>1
<1>4. Valid(r) /\ Owned(r) /\ r.aff = s.aff
  BY <1>2 DEF KeptSoFar
<1>5. /\ Valid(Now)' /\ Owned(Now)' /\ (Placed(r) => Placed(Now)')
      /\ aff' = r.aff /\ running' = running
  BY <1>3, <1>4, CommitKeeps
<1>6. (Unpinned(pinned) => Placed(Now))'
  BY <1>0, <1>2, <1>5
<1>7. PinsHold(pinned, aff)' /\ RunsHold(running, pinned)' /\ OriginalsHold(original, pinned)'
      /\ (created \subseteq Threads)'
  BY <1>4, <1>5 DEF ChoiceInv
<1> QED BY <1>5, <1>6, <1>7 DEF ChoiceInv

LEMMA PinChanged ==
  ASSUME NEW pins \in [Processes -> [Cores -> Threads \cup {NoThread}]], NEW p \in Processes,
         NEW c \in Cores, NEW x \in Threads \cup {NoThread},
         NEW r, r = [pins EXCEPT ![p][c] = x]
  PROVE  /\ r \in [Processes -> [Cores -> Threads \cup {NoThread}]] /\ r[p][c] = x
         /\ \A o \in Processes, d \in Cores : o # p \/ d # c => r[o][d] = pins[o][d]
<1> DEFINE f == [pins[p] EXCEPT ![c] = x]
<1>1. f \in [Cores -> Threads \cup {NoThread}] /\ f[c] = x /\ \A d \in Cores \ {c} : f[d] = pins[p][d]
  OBVIOUS
<1>2. r = [pins EXCEPT ![p] = f]
  OBVIOUS
<1> HIDE DEF f
<1>3. r \in [Processes -> [Cores -> Threads \cup {NoThread}]] /\ r[p] = f
      /\ \A o \in Processes \ {p} : r[o] = pins[o]
  BY <1>1, <1>2
<1> QED BY <1>1, <1>3

LEMMA PinCurrentThreadIs ==
  ASSUME ChoiceInv, NEW c \in Cores, PinCurrentThread(c)
  PROVE  \E s : PinStep(s, c)
<1>0. PICK n : n = Now
  OBVIOUS
<1>1. PICK t : t = Caller(c)
  OBVIOUS
<1>2. /\ t \in Threads /\ pinned[Process[t]][c] = NoThread
      /\ pinned' = [pinned EXCEPT ![Process[t]][c] = t]
      /\ original' = [original EXCEPT ![t] = aff[t]]
  BY <1>1, PriorityQueueAssumption DEF PinCurrentThread
<1>3. t # NoThread /\ running[c] = t /\ Process[t] \in Processes
  BY <1>1, <1>2, PriorityQueueAssumption DEF Caller, Processes
<1>4. /\ PinsHold(pinned, aff) /\ RunsHold(running, pinned) /\ OriginalsHold(original, pinned)
      /\ Valid(n) /\ n.run = runnable /\ n.aff = aff /\ n.active = active
  BY <1>0, NowFields DEF ChoiceInv
<1>5. aff \in [Threads -> (SUBSET Cores) \ {{}}]
  BY <1>4 DEF Valid, IsState
<1>6. ASSUME NEW p \in Processes, NEW d \in Cores, pinned[p][d] = t PROVE FALSE
  <2>1. d = c
    BY <1>3, <1>4, <1>6 DEF RunsHold
  <2>2. Process[t] = p
    BY <1>3, <1>4, <1>6 DEF PinsHold
  <2> QED BY <1>2, <1>3, <1>6, <2>1, <2>2
<1>7. PICK np : np = pinned'
  OBVIOUS
<1>8. /\ np \in [Processes -> [Cores -> Threads \cup {NoThread}]] /\ np[Process[t]][c] = t
      /\ \A o \in Processes, d \in Cores : o # Process[t] \/ d # c => np[o][d] = pinned[o][d]
  <2>1. pinned \in [Processes -> [Cores -> Threads \cup {NoThread}]]
    BY <1>4 DEF PinsHold
  <2> QED BY <1>2, <1>3, <1>7, <2>1, PinChanged
<1>9. PICK na : na = [aff EXCEPT ![t] = {c}]
  OBVIOUS
<1>10. PinsHold(np, na)
  <2>1. PinsHold(pinned, na)
    BY <1>2, <1>4, <1>5, <1>6, <1>9, MaskOfOther
  <2>2. na[t] = {c}
    BY <1>2, <1>5, <1>9
  <2>3. ASSUME NEW o \in Processes, NEW d \in Cores, np[o][d] # NoThread
        PROVE  na[np[o][d]] = {d} /\ Process[np[o][d]] = o
    <3>1. CASE o = Process[t] /\ d = c
      BY <1>8, <2>2, <3>1
    <3>2. CASE o # Process[t] \/ d # c
      <4>1. np[o][d] = pinned[o][d]
        BY <1>8, <3>2
      <4>2. pinned[o][d] # NoThread => na[pinned[o][d]] = {d} /\ Process[pinned[o][d]] = o
        BY <2>1 DEF PinsHold
      <4> QED BY <2>3, <4>1, <4>2
    <3> QED BY <3>1, <3>2
  <2> QED BY <1>8, <2>3 DEF PinsHold
<1>11. RunsHold(running, np)
  <2>1. ASSUME NEW o \in Processes, NEW d \in Cores, NEW e \in Cores, d # e, np[o][d] # NoThread
        PROVE  running[e] # np[o][d]
    <3>1. CASE o = Process[t] /\ d = c
      BY <1>3, <1>4, <1>8, <2>1, <3>1 DEF RunsHold
    <3>2. CASE o # Process[t] \/ d # c
      BY <1>4, <1>8, <2>1, <3>2 DEF RunsHold
    <3> QED BY <3>1, <3>2
  <2> QED BY <1>4, <2>1 DEF RunsHold
<1>12. OriginalsHold(original', np)
  <2>1. PICK no : no = original'
    OBVIOUS
  <2>2. /\ no \in [Threads -> SUBSET Cores] /\ no[t] = aff[t]
        /\ \A u \in Threads \ {t} : no[u] = original[u]
    BY <1>2, <1>4, <1>5, <2>1 DEF OriginalsHold
  <2>3. no[t] # {}
    BY <1>2, <1>5, <2>2
  <2>4. ASSUME NEW o \in Processes, NEW d \in Cores, np[o][d] # NoThread
        PROVE  no[np[o][d]] # {}
    <3>1. CASE np[o][d] = t
      BY <2>3, <3>1
    <3>2. CASE np[o][d] # t
      <4>1. np[o][d] = pinned[o][d] /\ np[o][d] \in Threads
        BY <1>8, <2>4, <3>2
      <4>2. original[np[o][d]] # {}
        BY <1>4, <2>4, <4>1 DEF OriginalsHold
      <4> QED BY <2>2, <3>2, <4>1, <4>2
    <3> QED BY <3>1, <3>2
  <2> QED BY <2>1, <2>2, <2>4 DEF OriginalsHold
<1>13. PICK s : /\ Commit(Update(s, pinned', waited), {c})
                /\ match' = StillMatch(Update(s, pinned', waited))
                /\ s = IF (active[t] # c \/ aff[t] # {c}) /\ t \in runnable
                       THEN Bump(ChangeAffinityMask(Now, t, c, {c}), {t})
                       ELSE Assign(Now, t, c, {c})
  BY <1>1 DEF PinCurrentThread
<1>14. /\ Valid(s) /\ Masked(n, s, t, c, {c})
       /\ s.bumped = {t} \/ (SameThreads(n, s) /\ s.bumped = {})
  <2>0. {c} \in (SUBSET Cores) \ {{}} /\ c \in {c} \cup {NoCore} /\ n.bumped = {}
    BY <1>0, NowFields
  <2>1. CASE (active[t] # c \/ aff[t] # {c}) /\ t \in runnable
    <3>1. s = Bump(ChangeAffinityMask(n, t, c, {c}), {t}) /\ t \in n.run
      BY <1>0, <1>4, <1>13, <2>1
    <3>2. Valid(s) /\ Masked(n, s, t, c, {c}) /\ Counts(n, s, {t})
      BY <1>4, <2>0, <3>1, ChangeMaskIs
    <3> QED BY <1>3, <2>0, <3>2 DEF Counts
  <2>2. CASE ~((active[t] # c \/ aff[t] # {c}) /\ t \in runnable)
    <3>1. s = Assign(n, t, c, {c}) /\ (t \notin n.run \/ (c = n.active[t] /\ {c} = n.aff[t]))
      BY <1>0, <1>4, <1>13, <2>2
    <3>2. Valid(s) /\ Masked(n, s, t, c, {c}) /\ SameThreads(n, s) /\ s.bumped = n.bumped
      <4>1. t \in Threads /\ Valid(n)
        BY <1>2, <1>4
      <4>2. PICK k \in (SUBSET Cores) \ {{}} : k = {c}
        BY <2>0
      <4>3. /\ s = Assign(n, t, c, k) /\ c \in k \cup {NoCore}
            /\ t \notin n.run \/ (c = n.active[t] /\ k = n.aff[t])
        BY <3>1, <4>2
      <4>4. Valid(s) /\ Masked(n, s, t, c, k) /\ SameThreads(n, s) /\ s.bumped = n.bumped
        BY <4>1, <4>3, AssignIs
      <4> QED BY <4>2, <4>4
    <3> QED BY <2>0, <3>2
  <2> QED BY <2>1, <2>2
<1>15. PinsHold(np, s.aff)
  BY <1>4, <1>9, <1>10, <1>14 DEF Masked
<1>16. ASSUME NEW u \in Threads \ {t}
       PROVE  s.active[u] = active[u] /\ (PinnedBy(pinned, u) => PinnedBy(np, u))
  <2>1. s.active[u] = active[u]
    BY <1>2, <1>4, <1>14, <1>16 DEF Masked, Valid, IsState
  <2>2. u # NoThread
    BY <1>16, PriorityQueueAssumption
  <2>3. \A o \in Processes, d \in Cores : pinned[o][d] = u => np[o][d] = u
    BY <1>2, <1>8, <2>2
  <2> QED BY <2>1, <2>3 DEF PinnedBy
<1> QED BY <1>0, <1>2, <1>3, <1>7, <1>11, <1>12, <1>13, <1>14, <1>15, <1>16 DEF PinStep

LEMMA PinCurrentThreadInv ==
  ASSUME ChoiceInv, NEW c \in Cores, PinCurrentThread(c), UNCHANGED created
  PROVE  ChoiceInv'
BY PinCurrentThreadIs, PinStepInv

LEMMA UnpinCurrentThreadIs ==
  ASSUME ChoiceInv, NEW c \in Cores, UnpinCurrentThread(c)
  PROVE  \E s : PinStep(s, c)
<1>0. PICK n : n = Now
  OBVIOUS
<1>1. PICK t : t = Caller(c)
  OBVIOUS
<1>2. /\ t # NoThread /\ pinned[Process[t]][c] = t
      /\ pinned' = [pinned EXCEPT ![Process[t]][c] = NoThread]
      /\ original' = original
  BY <1>1 DEF UnpinCurrentThread
<1>4. /\ PinsHold(pinned, aff) /\ RunsHold(running, pinned) /\ OriginalsHold(original, pinned)
      /\ Valid(n) /\ n.run = runnable /\ n.aff = aff /\ n.active = active
  BY <1>0, NowFields DEF ChoiceInv
<1>3. t \in Threads /\ Process[t] \in Processes
  BY <1>1, <1>2, <1>4 DEF Caller, Processes, RunsHold
<1>5. /\ aff \in [Threads -> (SUBSET Cores) \ {{}}] /\ active[t] \in aff[t] \cup {NoCore}
  BY <1>3, <1>4 DEF Valid, IsState
<1>7. PICK np : np = pinned'
  OBVIOUS
<1>8. /\ np \in [Processes -> [Cores -> Threads \cup {NoThread}]] /\ np[Process[t]][c] = NoThread
      /\ \A o \in Processes, d \in Cores : o # Process[t] \/ d # c => np[o][d] = pinned[o][d]
  <2>1. pinned \in [Processes -> [Cores -> Threads \cup {NoThread}]]
    BY <1>4 DEF PinsHold
  <2> QED BY <1>2, <1>3, <1>7, <2>1, PinChanged
<1>9. \A o \in Processes, d \in Cores : np[o][d] # NoThread => np[o][d] = pinned[o][d]
  BY <1>8
<1>10. PICK mask : mask = original[t]
  OBVIOUS
<1>11. mask \in (SUBSET Cores) \ {{}}
  BY <1>2, <1>3, <1>4, <1>10 DEF OriginalsHold
<1>12. PICK na : na = [aff EXCEPT ![t] = mask]
  OBVIOUS
<1>13. PinsHold(np, na)
  <2>1. PinsHold(np, aff)
    <3>1. ASSUME NEW o \in Processes, NEW d \in Cores, np[o][d] # NoThread
          PROVE  aff[np[o][d]] = {d} /\ Process[np[o][d]] = o
      <4>1. np[o][d] = pinned[o][d]
        BY <1>9, <3>1
      <4>2. pinned[o][d] # NoThread => aff[pinned[o][d]] = {d} /\ Process[pinned[o][d]] = o
        BY <1>4 DEF PinsHold
      <4> QED BY <3>1, <4>1, <4>2
    <3> QED BY <1>8, <3>1 DEF PinsHold
  <2>2. ASSUME NEW o \in Processes, NEW d \in Cores, np[o][d] = t PROVE FALSE
    <3>1. pinned[o][d] = t
      BY <1>2, <1>9, <2>2
    <3>2. aff[t] = {d} /\ Process[t] = o /\ aff[t] = {c}
      <4>1. \A e \in Cores, p \in Processes : pinned[p][e] # NoThread =>
              aff[pinned[p][e]] = {e} /\ Process[pinned[p][e]] = p
        BY <1>4 DEF PinsHold
      <4>2. aff[t] = {d} /\ Process[t] = o
        BY <1>2, <3>1, <4>1
      <4>3. aff[t] = {c}
        BY <1>2, <1>3, <4>1
      <4> QED BY <4>2, <4>3
    <3>3. d = c
      BY <3>2
    <3> QED BY <1>2, <1>8, <2>2, <3>2, <3>3
  <2> QED BY <1>3, <1>5, <1>12, <2>1, <2>2, MaskOfOther
<1>14. RunsHold(running, np)
  BY <1>4, <1>9 DEF RunsHold
<1>15. OriginalsHold(original', np)
  BY <1>2, <1>4, <1>9 DEF OriginalsHold
<1>16. PICK core, s : /\ core \in IF mask = aff[t] \/ active[t] \in mask THEN {active[t]} ELSE mask
                      /\ Commit(Update(s, pinned', waited), {c})
                      /\ match' = StillMatch(Update(s, pinned', waited))
                      /\ s = IF mask # aff[t] /\ t \in runnable
                             THEN Bump(ChangeAffinityMask(Now, t, core, mask), {t})
                             ELSE Assign(Now, t, core, mask)
  BY <1>1, <1>10 DEF UnpinCurrentThread
<1>17. core \in mask \cup {NoCore} /\ (mask = aff[t] => core = active[t])
  BY <1>5, <1>16
<1>18. /\ Valid(s) /\ Masked(n, s, t, core, mask)
       /\ s.bumped = {t} \/ (SameThreads(n, s) /\ s.bumped = {})
  <2>0. n.bumped = {}
    BY <1>0, NowFields
  <2>1. CASE mask # aff[t] /\ t \in runnable
    <3>1. s = Bump(ChangeAffinityMask(n, t, core, mask), {t}) /\ t \in n.run
      BY <1>0, <1>4, <1>16, <2>1
    <3>2. Valid(s) /\ Masked(n, s, t, core, mask) /\ Counts(n, s, {t})
      BY <1>4, <1>11, <1>17, <3>1, ChangeMaskIs
    <3> QED BY <1>2, <2>0, <3>2 DEF Counts
  <2>2. CASE ~(mask # aff[t] /\ t \in runnable)
    <3>1. s = Assign(n, t, core, mask) /\ (t \notin n.run \/ (core = n.active[t] /\ mask = n.aff[t]))
      BY <1>0, <1>4, <1>16, <1>17, <2>2
    <3>2. Valid(s) /\ Masked(n, s, t, core, mask) /\ SameThreads(n, s) /\ s.bumped = n.bumped
      BY <1>3, <1>4, <1>11, <1>17, <3>1, AssignIs
    <3> QED BY <2>0, <3>2
  <2> QED BY <2>1, <2>2
<1>19. PinsHold(np, s.aff)
  BY <1>4, <1>12, <1>13, <1>18 DEF Masked
<1>20. ASSUME NEW u \in Threads \ {t}
       PROVE  s.active[u] = active[u] /\ (PinnedBy(pinned, u) => PinnedBy(np, u))
  <2>1. s.active[u] = active[u]
    BY <1>3, <1>4, <1>18, <1>20 DEF Masked, Valid, IsState
  <2>2. \A o \in Processes, d \in Cores : pinned[o][d] = u => np[o][d] = u
    BY <1>2, <1>8, <1>20
  <2> QED BY <2>1, <2>2 DEF PinnedBy
<1>21. running[c] = t
  BY <1>1, <1>2 DEF Caller
<1> QED BY <1>0, <1>3, <1>7, <1>14, <1>15, <1>16, <1>18, <1>19, <1>20, <1>21 DEF PinStep

LEMMA UnpinCurrentThreadInv ==
  ASSUME ChoiceInv, NEW c \in Cores, UnpinCurrentThread(c), UNCHANGED created
  PROVE  ChoiceInv'
BY UnpinCurrentThreadIs, PinStepInv

LEMMA PreemptThreadsInv ==
  ASSUME ChoiceInv, PreemptThreads, UNCHANGED created
  PROVE  ChoiceInv'
<1>1. PICK older : Finish(Rotated(Now, older), {{}})
  BY DEF PreemptThreads
<1>2. Rearranged(Now, Rotated(Now, older))
  BY RotatedRearranges DEF ChoiceInv
<1> QED BY <1>1, <1>2, RearrangedInv

\* The thread that yields.
LEMMA YielderIs ==
  ASSUME ChoiceInv, NEW c \in Cores, NEW t, t = Yielder(c), t # NoThread, active[t] # NoCore
  PROVE  /\ Valid(Now) /\ Owned(Now) /\ t \in Now.run /\ Now.active[t] # NoCore
         /\ Now.active[t] \in Cores /\ Now.active[t] = active[t] /\ Now.prio = prio
<1>1. t \in runnable
  BY DEF Yielder
<1>2. PICK n : n = Now
  OBVIOUS
<1>3. Valid(n) /\ Owned(n) /\ n.run = runnable /\ n.active = active /\ n.prio = prio
  BY <1>2, NowFields DEF ChoiceInv
<1>4. n.active[t] \in Cores
  BY <1>1, <1>3 DEF Valid, IsState
<1> QED BY <1>1, <1>2, <1>3, <1>4

\* The yield without an update.
LEMMA YieldStays ==
  ASSUME ChoiceInv, NEW c \in Cores, NEW t, t = Yielder(c), t # NoThread, active[t] # NoCore,
         NEW s, s = Bump(MoveToBack(Now, t), {t})
  PROVE  /\ Rearranged(Now, s) /\ Valid(s)
         /\ GetFront(OfPriority(s.sched[active[t]], prio, prio[t])) = t =>
              Owned(s) /\ (Placed(Now) => Placed(s))
<1>0. PICK n : n = Now
  OBVIOUS
<1>1. /\ Valid(n) /\ Owned(n) /\ t \in n.run /\ n.active[t] # NoCore
      /\ n.active[t] = active[t] /\ n.prio = prio
  BY <1>0, YielderIs
<1>2. PICK m : m = MoveToBack(n, t)
  OBVIOUS
<1>3. Rearranged(n, m)
  BY <1>1, <1>2, MoveToBackLinks DEF Rearranged
<1>4. s = Bump(m, {t})
  BY <1>0, <1>2
<1>5. Rearranged(n, s)
  BY <1>3, <1>4, BumpRearranges
<1>6. /\ IsState(s) /\ s.run = m.run /\ s.sched = m.sched /\ s.sugg = m.sugg
      /\ s.active = m.active /\ s.aff = m.aff /\ s.prio = m.prio /\ s.top = m.top
  BY <1>3, <1>4, BumpKeeps DEF Rearranged, Valid
<1>7. ASSUME GetFront(OfPriority(s.sched[active[t]], prio, prio[t])) = t
      PROVE  Owned(s) /\ (Placed(n) => Placed(s))
  <2>1. GetFront(OfPriority(m.sched[n.active[t]], n.prio, n.prio[t])) = t
    BY <1>1, <1>6, <1>7
  <2>2. Owned(m) /\ (Placed(n) => Placed(m))
    BY <1>1, <1>2, <2>1, MoveWithoutUpdate
  <2>3. Valid(m)
    BY <1>3 DEF Rearranged
  <2>4. Owned(s) /\ (Placed(m) => Placed(s))
    BY <1>6, <2>2, <2>3, SameQueues
  <2> QED BY <2>2, <2>4
<1> QED BY <1>0, <1>5, <1>7 DEF Rearranged

LEMMA YieldWithoutCoreMigrationInv ==
  ASSUME ChoiceInv, NEW c \in Cores, YieldWithoutCoreMigration(c), UNCHANGED created
  PROVE  ChoiceInv'
<1>1. PICK t : t = Yielder(c)
  OBVIOUS
<1>2. PICK s : s = Bump(MoveToBack(Now, t), {t})
  OBVIOUS
<1>3. PICK next : next = GetFront(OfPriority(s.sched[active[t]], prio, prio[t]))
  OBVIOUS
<1>4. /\ t # NoThread /\ active[t] # NoCore
      /\ IF next # t THEN Finish(s, {{c}}) ELSE NoUpdate(s, c, {t})
  BY <1>1, <1>2, <1>3 DEF YieldWithoutCoreMigration
<1>5. /\ Rearranged(Now, s)
      /\ next = t => Owned(s) /\ (Placed(Now) => Placed(s))
  BY <1>1, <1>2, <1>3, <1>4, YieldStays
<1>6. CASE next # t
  BY <1>4, <1>5, <1>6, RearrangedInv
<1>7. CASE next = t
  BY <1>4, <1>5, <1>7, NoUpdateInv
<1> QED BY <1>6, <1>7

LEMMA YieldWithCoreMigrationInv ==
  ASSUME ChoiceInv, NEW c \in Cores, YieldWithCoreMigration(c), UNCHANGED created
  PROVE  ChoiceInv'
<1> DEFINE t == Yielder(c)
           s == Bump(MoveToBack(Now, t), {t})
           next == GetFront(OfPriority(s.sched[active[t]], prio, prio[t]))
<1>4. PICK older \in SUBSET UNION {Range(sugg[d]) : d \in Cores} :
    LET core == active[t]
        On(u) == TopOn(highest, active[u])
        Prefer(u) == prio[u] > prio[t] \/ (prio[u] = prio[t] /\ next # t /\ u \in older)
        u == FirstIn(s.sugg[core],
                     {v \in Range(s.sugg[core]) :
                        On(v) # v /\ (Prefer(v) \/ Movable(s, On(v)))})
        recheck == \E v \in Range(s.sugg[core]) :
                     On(v) # v /\ ~Prefer(v) /\ ~Movable(s, On(v))
    IN  /\ t # NoThread
        /\ active[t] # NoCore
        /\ IF u # NoThread /\ ~Prefer(u)
           THEN Finish(Bump(ChangeCore(s, u, core, "front"), {u}), {{c}})
           ELSE IF next # t THEN Finish(s, {{c}})
           ELSE NoUpdate(s, c, IF recheck THEN {} ELSE {t})
  BY DEF YieldWithCoreMigration
<1> HIDE DEF t, s, next
<1>5. PICK Stops, T :
        LET u == FirstIn(s.sugg[active[t]], Stops)
        IN  \/ u # NoThread /\ Finish(Bump(ChangeCore(s, u, active[t], "front"), {u}), {{c}})
            \/ Finish(s, {{c}})
            \/ next = t /\ NoUpdate(s, c, T)
  BY <1>4
<1>6. t # NoThread /\ active[t] # NoCore
  BY <1>4
<1>7. /\ Rearranged(Now, s) /\ Valid(s)
      /\ next = t => Owned(s) /\ (Placed(Now) => Placed(s))
  BY <1>6, YieldStays DEF t, s, next
<1>8. PICK d \in Cores : d = active[t]
  BY <1>6, YielderIs DEF t
<1>9. PICK u : u = FirstIn(s.sugg[d], Stops)
  OBVIOUS
<1>10. CASE u # NoThread /\ Finish(Bump(ChangeCore(s, u, d, "front"), {u}), {{c}})
  <2>1. Links(s.sugg[d], Suggested(s, s.run, d), s.prio)
    BY <1>7, SuggestedRange
  <2>2. u \in Suggested(s, s.run, d)
    BY <1>9, <1>10, <2>1, FirstIsLinked
  <2>3. PICK r : r = Bump(ChangeCore(s, u, d, "front"), {u})
    OBVIOUS
  <2>4. Rearranged(s, r)
    BY <1>7, <2>2, <2>3, TakeRearranges
  <2>5. Rearranged(Now, r)
    BY <1>7, <2>4 DEF Rearranged
  <2>6. Finish(r, {{c}})
    BY <1>10, <2>3
  <2> QED BY <2>5, <2>6, RearrangedInv
<1>11. CASE Finish(s, {{c}})
  BY <1>7, <1>11, RearrangedInv
<1>12. CASE next = t /\ NoUpdate(s, c, T)
  BY <1>7, <1>12, NoUpdateInv
<1> QED BY <1>5, <1>8, <1>9, <1>10, <1>11, <1>12

LEMMA YieldToAnyThreadInv ==
  ASSUME ChoiceInv, NEW c \in Cores, YieldToAnyThread(c), UNCHANGED created
  PROVE  ChoiceInv'
<1> DEFINE t == Yielder(c)
           core == active[t]
           s == Bump(ChangeCore(Now, t, NoCore, "back"), {t})
           Free == {v \in Range(s.sugg[core]) : FrontOn(s, s.active[v]) # v}
           u == FirstIn(s.sugg[core], Free)
           r == IF u # NoThread /\ Movable(s, FrontOn(s, s.active[u]))
                THEN Bump(ChangeCore(s, u, core, "back"), {u}) ELSE s
<1>1. /\ t # NoThread
      /\ active[t] # NoCore
      /\ IF GetFront(s.sched[core]) # NoThread THEN Finish(s, {{c}})
         ELSE IF u # t THEN Finish(r, {{c}})
         ELSE NoUpdate(r, c, {t})
  BY DEF YieldToAnyThread
<1>2. PICK n : n = Now
  OBVIOUS
<1>3. Valid(n) /\ Owned(n) /\ t \in n.run /\ core \in Cores /\ n.active[t] = core
  BY <1>1, <1>2, YielderIs
<1>4. s = Bump(ChangeCore(n, t, NoCore, "back"), {t})
  BY <1>2
<1> HIDE DEF s, t, core
<1>5. Rearranged(n, s) /\ s.active[t] = NoCore
  <2>1. PICK m : m = ChangeCore(n, t, NoCore, "back")
    OBVIOUS
  <2>2. Rearranged(n, m) /\ CoreChanged(n, m, t, NoCore, "back")
    BY <1>3, <2>1, ChangeCoreLinks DEF Rearranged
  <2>3. s = Bump(m, {t})
    BY <1>4, <2>1
  <2>4. s.active = m.active
    BY <2>2, <2>3, BumpKeeps DEF Rearranged, Valid
  <2>5. m.active = [n.active EXCEPT ![t] = NoCore]
    BY <2>2 DEF CoreChanged
  <2>6. t \in Threads /\ n.active \in [Threads -> Cores \cup {NoCore}]
    BY <1>3 DEF Valid, IsState
  <2> QED BY <2>2, <2>3, <2>4, <2>5, <2>6, BumpRearranges
<1>6. Valid(s)
  BY <1>5 DEF Rearranged
<1> HIDE DEF Free
<1>7. u # NoThread => u \in Suggested(s, s.run, core)
  <2>1. Links(s.sugg[core], Suggested(s, s.run, core), s.prio)
    BY <1>3, <1>6, SuggestedRange
  <2> QED BY <2>1, FirstIsLinked
<1> HIDE DEF u
<1>8. Rearranged(n, r)
  <2>1. CASE u # NoThread
    <3>1. Rearranged(s, Bump(ChangeCore(s, u, core, "back"), {u}))
      BY <1>3, <1>6, <1>7, <2>1, TakeRearranges
    <3> QED BY <1>5, <3>1 DEF Rearranged
  <2>2. CASE u = NoThread
    BY <1>5, <2>2
  <2> QED BY <2>1, <2>2
<1>9. CASE GetFront(s.sched[core]) # NoThread
  BY <1>1, <1>2, <1>5, <1>9, RearrangedInv
<1>10. CASE GetFront(s.sched[core]) = NoThread /\ u # t
  <2>1. Finish(r, {{c}})
    BY <1>1, <1>10
  <2> HIDE DEF r
  <2> QED BY <1>2, <1>8, <2>1, RearrangedInv
<1>11. CASE GetFront(s.sched[core]) = NoThread /\ u = t
  <2>1. NoUpdate(r, c, {t})
    BY <1>1, <1>11
  <2>2. Movable(s, FrontOn(s, s.active[t]))
    BY <1>5 DEF FrontOn, Movable
  <2>3. r = Bump(ChangeCore(s, t, core, "back"), {t})
    BY <1>1, <1>11, <2>2
  <2> HIDE DEF r
  <2>4. Owned(r) /\ (Placed(n) => Placed(r))
    BY <1>3, <1>4, <1>11, <2>3, BackWithoutUpdate
  <2> QED BY <1>2, <1>8, <2>1, <2>4, NoUpdateInv
<1> QED BY <1>9, <1>10, <1>11

LEMMA SwitchThreadInv ==
  ASSUME ChoiceInv, NEW c \in Cores, SwitchThread(c), UNCHANGED created
  PROVE  ChoiceInv'
<1>1. /\ highest[c] # NoThread => \A d \in Cores \ {c} : running[d] # highest[c]
      /\ running' = [running EXCEPT ![c] = highest[c]]
      /\ UNCHANGED <<queueVars, highest, pinned, original>>
  BY DEF SwitchThread
<1>2. Now' = Now /\ pinned' = pinned /\ aff' = aff /\ original' = original
  BY <1>1 DEF Now, queueVars
<1>3. /\ Valid(Now)' /\ Owned(Now)' /\ (Unpinned(pinned) => Placed(Now))' /\ PinsHold(pinned, aff)'
      /\ OriginalsHold(original, pinned)' /\ (created \subseteq Threads)'
  BY <1>2 DEF ChoiceInv
<1>4. RunsHold(running, pinned) /\ PinsHold(pinned, aff)
  BY DEF ChoiceInv
<1>5. PICK n : n = Now
  OBVIOUS
<1>6. Valid(n) /\ Owned(n) /\ n.top = highest /\ n.aff = aff
  BY <1>5, NowFields DEF ChoiceInv
<1>7. PICK h : h = highest[c]
  OBVIOUS
<1>8. h \in Threads \cup {NoThread}
  BY <1>6, <1>7 DEF Valid, IsState
<1>9. ASSUME NEW p \in Processes, NEW d \in Cores, d # c, pinned[p][d] = h, h # NoThread PROVE FALSE
  <2>1. aff[h] = {d}
    BY <1>4, <1>9 DEF PinsHold
  <2>2. n.active[h] = c \/ n.aff[h] = {c}
    BY <1>6, <1>7, <1>9 DEF Owned
  <2>3. n.active[h] \in n.aff[h] \cup {NoCore}
    BY <1>6, <1>8, <1>9 DEF Valid, IsState
  <2>4. c # NoCore
    BY <1>6, StateFacts DEF Valid
  <2> QED BY <1>6, <1>9, <2>1, <2>2, <2>3, <2>4
<1>10. PICK x : x = running'
  OBVIOUS
<1>11. x \in [Cores -> Threads \cup {NoThread}] /\ x[c] = h /\ \A d \in Cores \ {c} : x[d] = running[d]
  BY <1>1, <1>4, <1>7, <1>8, <1>10 DEF RunsHold
<1>12. ASSUME NEW d \in Cores, NEW e \in Cores, d # e, x[d] = x[e] PROVE x[d] = NoThread
  <2>1. CASE d = c
    BY <1>1, <1>7, <1>11, <1>12, <2>1
  <2>2. CASE e = c
    BY <1>1, <1>7, <1>11, <1>12, <2>2
  <2>3. CASE d # c /\ e # c
    BY <1>4, <1>11, <1>12, <2>3 DEF RunsHold
  <2> QED BY <2>1, <2>2, <2>3
<1>13. ASSUME NEW p \in Processes, NEW d \in Cores, NEW e \in Cores, d # e, pinned[p][d] # NoThread
       PROVE  x[e] # pinned[p][d]
  <2>1. CASE e = c
    BY <1>9, <1>11, <1>13, <2>1
  <2>2. CASE e # c
    BY <1>4, <1>11, <1>13, <2>2 DEF RunsHold
  <2> QED BY <2>1, <2>2
<1>14. RunsHold(x, pinned)
  BY <1>11, <1>12, <1>13 DEF RunsHold
<1>15. RunsHold(running, pinned)'
  BY <1>2, <1>10, <1>14
<1> QED BY <1>3, <1>15 DEF ChoiceInv

LEMMA ChoiceInvNext == ChoiceInv /\ [PriorityQueueNext]_priorityQueueVars => ChoiceInv'
<1> SUFFICES ASSUME ChoiceInv, [PriorityQueueNext]_priorityQueueVars PROVE ChoiceInv'
  OBVIOUS
<1>1. CASE UNCHANGED priorityQueueVars
  <2>1. Now' = Now /\ pinned' = pinned /\ aff' = aff /\ original' = original /\ running' = running
        /\ created' = created
    BY <1>1 DEF priorityQueueVars, queueVars, Now
  <2> QED BY <2>1 DEF ChoiceInv
<1>2. CASE PriorityQueueNext
  <2>0. UNCHANGED created /\ created \subseteq Threads
    BY <1>2 DEF PriorityQueueNext, ChoiceInv
  <2>1. ASSUME NEW t \in created, Wake(t) PROVE ChoiceInv'
    BY <2>0, <2>1, WakeInv
  <2>2. ASSUME NEW t \in created, Block(t) PROVE ChoiceInv'
    BY <2>0, <2>2, BlockInv
  <2>3. ASSUME NEW t \in created, ChangeKernelWaiters(t) PROVE ChoiceInv'
    BY <2>0, <2>3, ChangeKernelWaitersInv
  <2>4. ASSUME NEW t \in created, NEW p \in Priorities, ChangePriority(t, p) PROVE ChoiceInv'
    BY <2>0, <2>4, ChangePriorityInv
  <2>5. ASSUME NEW t \in created, NEW mask \in Masks, SetCoreMask(t, mask) PROVE ChoiceInv'
    BY <2>0, <2>5, SetCoreMaskInv
  <2>6. CASE PreemptThreads
    BY <2>0, <2>6, PreemptThreadsInv
  <2>7. ASSUME NEW c \in Cores, PinCurrentThread(c) PROVE ChoiceInv'
    BY <2>0, <2>7, PinCurrentThreadInv
  <2>8. ASSUME NEW c \in Cores, UnpinCurrentThread(c) PROVE ChoiceInv'
    BY <2>0, <2>8, UnpinCurrentThreadInv
  <2>9. ASSUME NEW c \in Cores, YieldWithoutCoreMigration(c) PROVE ChoiceInv'
    BY <2>0, <2>9, YieldWithoutCoreMigrationInv
  <2>10. ASSUME NEW c \in Cores, YieldWithCoreMigration(c) PROVE ChoiceInv'
    BY <2>0, <2>10, YieldWithCoreMigrationInv
  <2>11. ASSUME NEW c \in Cores, YieldToAnyThread(c) PROVE ChoiceInv'
    BY <2>0, <2>11, YieldToAnyThreadInv
  <2>12. ASSUME NEW c \in Cores, SwitchThread(c) PROVE ChoiceInv'
    BY <2>0, <2>12, SwitchThreadInv
  <2> QED
    BY <1>2, <2>1, <2>2, <2>3, <2>4, <2>5, <2>6, <2>7, <2>8, <2>9, <2>10, <2>11, <2>12
       DEF PriorityQueueNext
<1> QED BY <1>1, <1>2

LEMMA ChoiceInvHolds == PriorityQueueSpec => []ChoiceInv
BY ChoiceInvInit, ChoiceInvNext, PTL DEF PriorityQueueSpec

-----------------------------------------------------------------------------
(* Yields.  What they rely on changes in two ways only: by steps that count *)
(* a thread of the process, and by moves to idle cores.                    *)

\* The threads of the guest have one owner.
SingleProcess == \A t, u \in Threads : Process[t] = Process[u]

\* From s to r somebody was counted, or the threads that were alone are so.
Counted(s, r) ==
  /\ s.bumped \subseteq r.bumped
  /\ s.bumped \subseteq Threads => r.bumped \subseteq Threads
  /\ r.bumped = {} => r.run = s.run /\ \A t \in s.run : Alone(s, t) => Alone(r, t)

\* A core's choice is on a core, unless it is pinned.
TopsSeated(s, pins) ==
  \A c \in Cores : s.top[c] # NoThread =>
    s.active[s.top[c]] # NoCore \/ PinnedBy(pins, s.top[c])

LEMMA CountedOnward ==
  ASSUME NEW s, NEW r, NEW x, Counted(s, r), Counted(r, x)
  PROVE  Counted(s, x)
BY DEF Counted

LEMMA CountedSame ==
  ASSUME NEW s, NEW r, r.bumped = s.bumped, r.run = s.run,
         \A t \in s.run : r.active[t] = s.active[t] /\ r.prio[t] = s.prio[t]
  PROVE  Counted(s, r)
BY DEF Counted, Alone

LEMMA CoreNotCounted ==
  ASSUME NEW s, IsState(s), NEW t, NEW end, NEW core
  PROVE  ChangeCore(s, t, core, end).bumped = s.bumped
BY DEF ChangeCore, IsState

\* A thread is counted.
LEMMA CountedThread ==
  ASSUME NEW s, NEW m, IsState(m), m.bumped = s.bumped, NEW t \in Threads
  PROVE  Counted(s, Bump(m, {t})) /\ Bump(m, {t}).bumped # {}
<1>1. Bump(m, {t}).bumped = s.bumped \cup {t}
  <2>1. Bump(m, {t}).bumped = m.bumped \cup ({t} \ {NoThread})
    BY BumpedIs
  <2> QED BY <2>1, PriorityQueueAssumption
<1> QED BY <1>1 DEF Counted

\* A runnable thread that comes to an idle core is alone there, and leaves nobody
\* with more company than before.
LEMMA MovedCounted ==
  ASSUME NEW s, Valid(s), NEW c \in Cores, NEW x \in Suggested(s, s.run, c), NEW r,
         Moved(s, r, x, c), Idle(s, c), s.bumped \subseteq r.bumped,
         r.bumped \subseteq s.bumped \cup Threads
  PROVE  Counted(s, r) /\ Seated(s, r)
<1>1. /\ r.active[x] = c
      /\ \A v \in Threads \ {x} : r.active[v] = s.active[v]
      /\ x \in s.run /\ x \in Threads
  BY MovedFields
<1>2. r.run = s.run /\ r.prio = s.prio /\ s.run \subseteq Threads
  BY DEF Moved, Valid, IsState
<1>3. \A v \in s.run : s.active[v] # c
  BY DEF Idle, Scheduled
<1>4. c # NoCore
  BY StateFacts DEF Valid
<1>5. ASSUME NEW t \in s.run, Alone(s, t) PROVE Alone(r, t)
  <2>1. CASE t = x
    BY <1>1, <1>2, <1>3, <1>4, <2>1 DEF Alone
  <2>2. CASE t # x
    <3>1. r.active[t] = s.active[t] /\ r.active[t] # c
      BY <1>1, <1>2, <1>3, <2>2
    <3>2. \A u \in s.run \ {t} : r.active[u] = r.active[t] => s.active[u] = s.active[t]
      BY <1>1, <1>2, <3>1
    <3> QED BY <1>2, <1>5, <3>1, <3>2 DEF Alone
  <2> QED BY <2>1, <2>2
<1>6. Counted(s, r)
  BY <1>1, <1>2, <1>5 DEF Counted
<1>7. Seated(s, r)
  BY <1>1, <1>4 DEF Seated
<1> QED BY <1>6, <1>7

LEMMA MigrateBumps ==
  ASSUME NEW s, Valid(s), NEW c \in Cores, NEW r, r = MigrateToIdle(s, c)
  PROVE  s.bumped \subseteq r.bumped /\ r.bumped \subseteq s.bumped \cup Threads
<1> DEFINE T == {u \in Range(s.sugg[c]) : TopOn(s.top, s.active[u]) # u}
           U == {v \in Range(s.sugg[c]) : GetNext(s.sched[s.active[v]], v) # NoThread}
           t == FirstIn(s.sugg[c], T)
           u == FirstIn(s.sugg[c], U)
           mt == ChangeCore(s, t, c, "back")
           mu == ChangeCore(s, u, c, "back")
           d == s.active[u]
           y == GetNext(s.sched[d], u)
           k == [mu EXCEPT !.top[c] = u, !.top[d] = y]
<1>1. \/ r = s \/ (t # NoThread /\ r = [mt EXCEPT !.top[c] = t])
      \/ (u # NoThread /\ r = Bump(k, {u}))
  BY DEF MigrateToIdle
<1>2. (t # NoThread => t \in s.run) /\ (u # NoThread => u \in s.run)
      /\ (t # NoThread => c \in s.aff[t]) /\ (u # NoThread => c \in s.aff[u])
  <2> HIDE DEF T, U
  <2>1. Links(s.sugg[c], Suggested(s, s.run, c), s.prio)
    BY SuggestedRange
  <2>2. (t # NoThread => t \in Suggested(s, s.run, c)) /\ (u # NoThread => u \in Suggested(s, s.run, c))
    BY <2>1, FirstIsLinked
  <2> HIDE DEF t, u
  <2> QED BY <2>2, SuggestedRange
<1> HIDE DEF t, u, y, d
<1>3. IsState(s) /\ s.run \subseteq Threads
  BY DEF Valid, IsState
<1>4. mt.bumped = s.bumped /\ mu.bumped = s.bumped
  BY <1>3, CoreNotCounted
<1>5. (t # NoThread => IsState(mt)) /\ (u # NoThread => IsState(mu))
  <2>1. t # NoThread => Valid(mt)
    BY <1>2, ChangeCoreLinks
  <2>2. u # NoThread => Valid(mu)
    BY <1>2, ChangeCoreLinks
  <2> QED BY <2>1, <2>2 DEF Valid
<1> HIDE DEF mt, mu
<1>6. CASE r = s
  BY <1>6
<1>7. CASE t # NoThread /\ r = [mt EXCEPT !.top[c] = t]
  <2>1. r.bumped = mt.bumped
    BY <1>5, <1>7 DEF IsState
  <2> QED BY <1>4, <2>1
<1>8. CASE u # NoThread /\ r = Bump(k, {u})
  <2>1. DOMAIN mu = {"run", "active", "aff", "prio", "sched", "sugg", "top", "bumped"}
    BY <1>5, <1>8 DEF IsState
  <2>2. k.bumped = mu.bumped /\ DOMAIN k = DOMAIN mu
    BY <2>1
  <2> HIDE DEF k
  <2>3. r.bumped = k.bumped \cup ({u} \ {NoThread})
    BY <1>8, <2>1, <2>2 DEF Bump
  <2> QED BY <1>2, <1>3, <1>4, <1>8, <2>2, <2>3
<1> QED BY <1>1, <1>6, <1>7, <1>8

\* What the update keeps for the yields.
LEMMA MigrateSeats ==
  ASSUME NEW s, Valid(s), NEW c \in Cores, Idle(s, c), NEW r, r = MigrateToIdle(s, c),
         NEW pins, TopsSeated(s, pins)
  PROVE  /\ Counted(s, r) /\ Seated(s, r) /\ TopsSeated(r, pins)
         /\ \A e \in Cores \ {c} : Idle(s, e) => Idle(r, e)
<1>1. s.bumped \subseteq r.bumped /\ r.bumped \subseteq s.bumped \cup Threads
  BY MigrateBumps
<1>2. CASE r = s
  BY <1>2 DEF Counted, Seated
<1>3. ASSUME NEW x \in Suggested(s, s.run, c), TakesWaiting(s, r, x, c) \/ TakesTop(s, r, x, c)
      PROVE  /\ Counted(s, r) /\ Seated(s, r) /\ TopsSeated(r, pins)
             /\ \A e \in Cores \ {c} : Idle(s, e) => Idle(r, e)
  <2>1. Moved(s, r, x, c)
    BY <1>3 DEF TakesWaiting, TakesTop
  <2>2. Counted(s, r) /\ Seated(s, r)
    BY <1>1, <2>1, MovedCounted
  <2>3. /\ r.active[x] = c
        /\ \A v \in Threads \ {x} : r.active[v] = s.active[v]
        /\ x \in s.run /\ x \in Threads
    BY <2>1, MovedFields
  <2>4. r.run = s.run /\ s.run \subseteq Threads /\ s.top \in [Cores -> Threads \cup {NoThread}]
    BY <2>1 DEF Moved, Valid, IsState
  <2>5. \A e \in Cores \ {c} : Idle(s, e) => Idle(r, e)
    BY <2>3, <2>4 DEF Idle, Scheduled
  <2>6. NoCore \notin Cores
    BY StateFacts DEF Valid
  <2>7. ASSUME NEW e \in Cores, r.top[e] # NoThread
        PROVE  r.active[r.top[e]] # NoCore \/ PinnedBy(pins, r.top[e])
    <3>1. CASE r.top[e] = s.top[e]
      <4>1. s.top[e] \in Threads /\ (s.active[s.top[e]] # NoCore \/ PinnedBy(pins, s.top[e]))
        BY <2>4, <2>7, <3>1 DEF TopsSeated
      <4> QED BY <2>2, <3>1, <4>1 DEF Seated
    <3>2. CASE r.top[e] = x
      BY <2>3, <2>6, <3>2
    <3>3. CASE r.top[e] \in s.run /\ s.active[r.top[e]] # NoCore
      BY <2>2, <2>4, <3>3 DEF Seated
    <3>4. r.top[e] = s.top[e] \/ r.top[e] = x \/ (r.top[e] \in s.run /\ s.active[r.top[e]] # NoCore)
      <4>1. CASE TakesWaiting(s, r, x, c)
        <5>1. r.top = [s.top EXCEPT ![c] = x]
          BY <4>1 DEF TakesWaiting
        <5> QED BY <2>4, <5>1
      <4>2. CASE TakesTop(s, r, x, c)
        <5> DEFINE d == s.active[x]
                   y == GetNext(s.sched[d], x)
        <5>1. /\ d \in Cores /\ y \in Scheduled(s, s.run, d)
              /\ r.top = [[s.top EXCEPT ![c] = x] EXCEPT ![d] = y]
          BY <4>2 DEF TakesTop
        <5>2. y \in s.run /\ s.active[y] = d
          BY <5>1 DEF Scheduled
        <5> HIDE DEF d, y
        <5> QED BY <2>4, <2>6, <5>1, <5>2
      <4> QED BY <1>3, <4>1, <4>2
    <3> QED BY <3>1, <3>2, <3>3, <3>4
  <2> QED BY <2>2, <2>5, <2>7 DEF TopsSeated
<1>4. \/ r = s
      \/ \E x \in Suggested(s, s.run, c) : TakesWaiting(s, r, x, c) \/ TakesTop(s, r, x, c)
  BY MigrateCases
<1> QED BY <1>2, <1>3, <1>4

LEMMA MigratedSeats ==
  ASSUME NEW s, Valid(s), Owned(s), NEW idle, idle = {c \in Cores : Idle(s, c)},
         NEW r, r = Migrated(s, idle), NEW pins, TopsSeated(s, pins)
  PROVE  Counted(s, r) /\ Seated(s, r) /\ TopsSeated(r, pins)
<1> DEFINE Fine(x, n) == /\ KeptSoFar(s, x) /\ Counted(s, x) /\ Seated(s, x) /\ TopsSeated(x, pins)
                         /\ \A e \in Cores : e >= n /\ Idle(s, e) => Idle(x, e)
<1>1. PICK F : Migration(F, s, idle, NumCores) /\ Migrated(s, idle) = F[NumCores]
  BY MigrationSolves
<1>2. NumCores \in Nat
  BY PriorityQueueAssumption
<1>3. F[0] = s
  BY <1>1, <1>2 DEF Migration
<1>4. \A n \in 0..NumCores : n # 0 =>
        /\ n - 1 \in Cores /\ n - 1 \in 0..NumCores
        /\ F[n] = IF Idle(s, n - 1) THEN MigrateToIdle(F[n - 1], n - 1) ELSE F[n - 1]
  <2>1. \A n \in 0..NumCores : n # 0 => n - 1 \in Cores /\ n - 1 \in 0..NumCores
    BY <1>2 DEF Cores
  <2>2. \A n \in 0..NumCores : n # 0 =>
          F[n] = IF n - 1 \in idle THEN MigrateToIdle(F[n - 1], n - 1) ELSE F[n - 1]
    BY <1>1 DEF Migration
  <2>3. \A c \in Cores : c \in idle <=> Idle(s, c)
    OBVIOUS
  <2> QED BY <2>1, <2>2, <2>3
<1>5. Fine(s, 0)
  BY DEF KeptSoFar, Counted, Seated
<1>6. ASSUME NEW n \in 0..NumCores, n # 0, Fine(F[n - 1], n - 1)
      PROVE  Fine(F[n], n)
  <2>1. PICK c \in Cores : c = n - 1
    BY <1>4, <1>6
  <2>2. PICK x : x = F[n - 1]
    OBVIOUS
  <2>3. PICK y : y = F[n]
    OBVIOUS
  <2>4. y = IF Idle(s, c) THEN MigrateToIdle(x, c) ELSE x
    BY <1>4, <1>6, <2>1, <2>2, <2>3
  <2>5. /\ KeptSoFar(s, x) /\ Counted(s, x) /\ Seated(s, x) /\ TopsSeated(x, pins)
        /\ \A e \in Cores : e >= c /\ Idle(s, e) => Idle(x, e)
    BY <1>6, <2>1, <2>2
  <2>6. \A e \in Cores : (e >= n => e >= c /\ e # c) /\ c >= c
    BY <1>2, <2>1 DEF Cores
  <2>7. CASE ~Idle(s, c)
    BY <2>3, <2>4, <2>5, <2>6, <2>7
  <2>8. CASE Idle(s, c)
    <3>1. Valid(x) /\ Owned(x) /\ Idle(x, c) /\ y = MigrateToIdle(x, c)
      BY <2>4, <2>5, <2>6, <2>8 DEF KeptSoFar
    <3>2. /\ Counted(x, y) /\ Seated(x, y) /\ TopsSeated(y, pins)
          /\ \A e \in Cores \ {c} : Idle(x, e) => Idle(y, e)
      BY <2>5, <3>1, MigrateSeats
    <3>3. Valid(y) /\ Owned(y) /\ y.run = x.run /\ y.aff = x.aff /\ y.prio = x.prio
      BY <3>1, MigrateKeeps
    <3>4. KeptSoFar(s, y)
      BY <2>5, <3>3 DEF KeptSoFar
    <3>5. Counted(s, y) /\ Seated(s, y)
      BY <2>5, <3>2, CountedOnward DEF Seated
    <3>6. \A e \in Cores : e >= n /\ Idle(s, e) => Idle(y, e)
      BY <2>5, <2>6, <3>2
    <3> QED BY <2>3, <3>2, <3>4, <3>5, <3>6
  <2> QED BY <2>7, <2>8
<1> HIDE DEF Fine
<1>7. \A n \in 0..NumCores : Fine(F[n], n)
  <2> DEFINE B == {n \in 0..NumCores : ~Fine(F[n], n)}
  <2> SUFFICES ASSUME B # {} PROVE FALSE
    OBVIOUS
  <2>1. B \subseteq Nat
    BY <1>2
  <2>2. PICK n \in B : \A k \in B : n <= k
    <3> HIDE DEF B
    <3> QED BY <2>1, LeastNatural
  <2>3. n # 0
    BY <1>3, <1>5, <2>2
  <2>4. n \in 0..NumCores /\ n - 1 \in 0..NumCores /\ n - 1 \notin B
    BY <1>2, <2>2, <2>3
  <2>5. Fine(F[n - 1], n - 1)
    BY <2>4
  <2> QED BY <1>6, <2>2, <2>3, <2>4, <2>5
<1>8. Fine(F[NumCores], NumCores)
  BY <1>2, <1>7
<1> QED BY <1>1, <1>8 DEF Fine

\* The update takes no core from a thread, chooses threads that have one, and
\* counts whom it changes.
LEMMA UpdateSeats ==
  ASSUME NEW s, Valid(s), NEW pins, PinsHold(pins, s.aff), NEW kept,
         NEW r, r = Update(s, pins, kept), highest \in [Cores -> Threads \cup {NoThread}]
  PROVE  KeptSoFar(s, r) /\ Counted(s, r) /\ Seated(s, r) /\ TopsSeated(r, pins)
<1> DEFINE tops == [c \in Cores |-> TopThread(s, c, pins, kept)]
           B == {highest[c] : c \in {d \in Cores : highest[d] # tops[d]}}
           b == Bump(s, B)
           u == [b EXCEPT !.top = tops]
           idle == {c \in Cores : u.sched[c] = << >>}
<1>1. r = Migrated(u, idle)
  BY DEF Update
<1>2. ASSUME NEW c \in Cores
      PROVE  /\ tops[c] \in Threads \cup {NoThread}
             /\ tops[c] # NoThread => /\ tops[c] \in s.run
                                      /\ s.active[tops[c]] = c \/ s.aff[tops[c]] = {c}
             /\ tops[c] # NoThread => s.active[tops[c]] # NoCore \/ PinnedBy(pins, tops[c])
  <2>1. /\ tops[c] \in Threads \cup {NoThread}
        /\ tops[c] # NoThread => /\ tops[c] \in s.run
                                 /\ s.active[tops[c]] = c \/ s.aff[tops[c]] = {c}
    BY TopThreadIsOwned
  <2> DEFINE front == GetFront(s.sched[c])
             pin == IF front = NoThread THEN NoThread ELSE pins[Process[front]][c]
  <2>2. tops[c] = IF pin \in {NoThread, front} \/ front \in kept THEN front
                  ELSE IF pin \in s.run THEN pin ELSE NoThread
    BY DEF TopThread
  <2>3. front # NoThread => front \in s.run /\ front \in Threads /\ s.active[front] = c
    <3>1. Links(s.sched[c], Scheduled(s, s.run, c), s.prio)
      BY SuggestedRange
    <3>2. front # NoThread => front \in Scheduled(s, s.run, c)
      BY <3>1, FrontIsLinked
    <3> QED BY <3>2, SuggestedRange
  <2>4. c # NoCore
    BY StateFacts DEF Valid
  <2>5. pin # NoThread => PinnedBy(pins, pin)
    <3>1. front # NoThread => Process[front] \in Processes
      BY <2>3 DEF Processes
    <3> QED BY <3>1 DEF PinnedBy
  <2> HIDE DEF tops, front, pin
  <2> QED BY <2>1, <2>2, <2>3, <2>4, <2>5
<1>3. tops \in [Cores -> Threads \cup {NoThread}]
  BY <1>2
<1>4. B \ {NoThread} \subseteq Threads
  OBVIOUS
<1> HIDE DEF tops, B
<1>5. /\ Valid(b) /\ b.run = s.run /\ b.active = s.active /\ b.aff = s.aff /\ b.prio = s.prio
      /\ b.sched = s.sched /\ b.bumped = s.bumped \cup (B \ {NoThread})
  <2>1. b.bumped = s.bumped \cup (B \ {NoThread})
    BY BumpedIs DEF Valid
  <2> QED BY <2>1, BumpKeeps DEF Valid
<1> HIDE DEF b
<1>6. /\ Valid(u) /\ u.run = s.run /\ u.active = s.active /\ u.aff = s.aff /\ u.prio = s.prio
      /\ u.sched = s.sched /\ u.top = tops /\ u.bumped = b.bumped
  <2>1. Valid(u)
    BY <1>3, <1>5, SetTop
  <2>2. /\ u.run = b.run /\ u.active = b.active /\ u.aff = b.aff /\ u.prio = b.prio
        /\ u.sched = b.sched /\ u.top = tops /\ u.bumped = b.bumped
    BY <1>5 DEF Valid, IsState
  <2> QED BY <1>5, <2>1, <2>2
<1> HIDE DEF u
<1>7. Owned(u) /\ TopsSeated(u, pins)
  BY <1>2, <1>6 DEF Owned, TopsSeated
<1>8. idle = {c \in Cores : Idle(u, c)}
  <2>1. ASSUME NEW c \in Cores PROVE u.sched[c] = << >> <=> Idle(u, c)
    <3>1. Links(u.sched[c], Scheduled(u, u.run, c), u.prio)
      BY <1>6, SuggestedRange
    <3> QED BY <3>1, FrontIsLinked DEF Idle
  <2> QED BY <2>1
<1> HIDE DEF idle
<1>9. Counted(u, r) /\ Seated(u, r) /\ TopsSeated(r, pins) /\ KeptSoFar(u, r)
  BY <1>1, <1>6, <1>7, <1>8, MigratedSeats, MigratedIs
<1>10. Counted(s, u) /\ Seated(s, u)
  BY <1>4, <1>5, <1>6 DEF Counted, Seated, Alone
<1>11. KeptSoFar(s, r) /\ Seated(s, r)
  BY <1>6, <1>9, <1>10 DEF KeptSoFar, Seated
<1> QED BY <1>9, <1>10, <1>11, CountedOnward

\* Rotation: whoever changes the core is counted.
LEMMA TakeCounts ==
  ASSUME NEW s, Valid(s), NEW c \in Cores, NEW x \in Suggested(s, s.run, c), NEW end,
         NEW r, r = Bump(ChangeCore(s, x, c, end), {x})
  PROVE  /\ Rearranged(s, r) /\ Counted(s, r) /\ Seated(s, r) /\ x \in r.bumped
         /\ r.bumped = s.bumped \cup {x}
<1> DEFINE m == ChangeCore(s, x, c, end)
<1>1. x \in s.run /\ x \in Threads /\ c \in s.aff[x] \cup {NoCore} /\ c # NoCore
  BY SuggestedRange, StateFacts DEF Valid
<1>2. Valid(m) /\ CoreChanged(s, m, x, c, end)
  BY <1>1, ChangeCoreLinks
<1>3. m.bumped = s.bumped
  BY CoreNotCounted DEF Valid
<1>4. Rearranged(s, r)
  BY TakeRearranges
<1> HIDE DEF m
<1>5. IsState(m)
  BY <1>2 DEF Valid
<1>6. r = Bump(m, {x})
  BY DEF m
<1>7. r.bumped = s.bumped \cup {x} /\ Counted(s, r)
  <2>1. r.bumped = m.bumped \cup ({x} \ {NoThread})
    BY <1>5, <1>6, BumpedIs
  <2>2. r.bumped = s.bumped \cup {x}
    BY <1>1, <1>3, <2>1, PriorityQueueAssumption
  <2> QED BY <1>1, <2>2 DEF Counted
<1>8. r.active = [s.active EXCEPT ![x] = c]
  BY <1>2, <1>5, <1>6, BumpKeeps DEF CoreChanged
<1>9. Seated(s, r)
  <2>1. s.active \in [Threads -> Cores \cup {NoCore}]
    BY DEF Valid, IsState
  <2> QED BY <1>1, <1>8, <2>1 DEF Seated
<1> QED BY <1>4, <1>7, <1>9

LEMMA MoveCounts ==
  ASSUME NEW s, Valid(s), NEW t \in s.run, s.active[t] # NoCore, NEW r, r = MoveToBack(s, t)
  PROVE  r.bumped = s.bumped /\ Counted(s, r) /\ Seated(s, r)
<1>1. Valid(r) /\ r.run = s.run /\ r.prio = s.prio /\ r.active = s.active
  BY MoveToBackLinks
<1>2. r.bumped = s.bumped
  BY DEF MoveToBack, Valid, IsState
<1> QED BY <1>1, <1>2, CountedSame DEF Seated

LEMMA RotateFrontCounts ==
  ASSUME NEW s, Valid(s), NEW c \in Cores, NEW r, r = RotateFront(s, c)
  PROVE  Counted(s, r) /\ Seated(s, r)
<1> DEFINE front == FrontAt(s, c)
           m == IF front = NoThread THEN s ELSE MoveToBack(s, front)
           next == FrontAt(m, c)
<1>1. ASSUME NEW x, Valid(x), FrontAt(x, c) # NoThread
      PROVE  FrontAt(x, c) \in x.run /\ x.active[FrontAt(x, c)] # NoCore
  <2> DEFINE q == OfPriority(x.sched[c], x.prio, PreemptPriority[c])
             S == Scheduled(x, x.run, c)
  <2>1. Links(x.sched[c], S, x.prio)
    BY <1>1, SuggestedRange
  <2>2. Links(q, {y \in S : x.prio[y] = PreemptPriority[c]}, x.prio)
    <3> HIDE DEF S
    <3> QED BY <2>1, OfPriorityIsLinked
  <2>3. FrontAt(x, c) = GetFront(q)
    BY DEF FrontAt
  <2>4. FrontAt(x, c) \in S
    <3> HIDE DEF q, S
    <3> QED BY <1>1, <2>2, <2>3, FrontIsLinked
  <2>5. NoCore \notin Cores
    BY <1>1, StateFacts DEF Valid
  <2> QED BY <1>1, <2>4, <2>5, SuggestedRange
<1>2. front # NoThread => front \in s.run /\ s.active[front] # NoCore
  BY <1>1
<1>3. r = IF next = front THEN m ELSE Bump(m, {front, next})
  BY DEF RotateFront
<1> HIDE DEF front
<1>4. Valid(m) /\ m.run = s.run /\ Counted(s, m) /\ Seated(s, m)
  <2>1. CASE front = NoThread
    BY <2>1 DEF Counted, Seated
  <2>2. CASE front # NoThread
    BY <1>2, <2>2, MoveCounts, MoveToBackLinks
  <2> QED BY <2>1, <2>2
<1> HIDE DEF m
<1>5. next # NoThread => next \in m.run
  BY <1>1, <1>4
<1> HIDE DEF next
<1>6. CASE next = front
  BY <1>3, <1>4, <1>6
<1>7. CASE next # front
  <2>1. r = Bump(m, {front, next})
    BY <1>3, <1>7
  <2>2. r.run = m.run /\ r.active = m.active /\ r.prio = m.prio
    BY <1>4, <2>1, BumpKeeps DEF Valid
  <2>3. r.bumped = m.bumped \cup ({front, next} \ {NoThread})
    BY <1>4, <2>1, BumpedIs DEF Valid
  <2>4. {front, next} \ {NoThread} \subseteq Threads
    BY <1>2, <1>4, <1>5 DEF Valid, IsState
  <2>5. Counted(m, r)
    BY <2>2, <2>3, <2>4 DEF Counted, Alone
  <2> QED BY <1>4, <2>2, <2>5, CountedOnward DEF Seated
<1> QED BY <1>6, <1>7

LEMMA TakeEqualCounts ==
  ASSUME NEW s, Valid(s), NEW c \in Cores, NEW waits, NEW r, r = TakeEqual(s, c, waits)
  PROVE  Counted(s, r) /\ Seated(s, r)
<1> DEFINE Stops == {u \in Range(s.sugg[c]) :
                       /\ FrontOn(s, s.active[u]) # u
                       /\ u \in waits \/ Movable(s, FrontOn(s, s.active[u]))}
           q == OfPriority(s.sugg[c], s.prio, PreemptPriority[c])
           t == FirstIn(q, Stops)
           S == Suggested(s, s.run, c)
<1>1. r = IF t \in waits \cup {NoThread} THEN s ELSE Bump(ChangeCore(s, t, c, "front"), {t})
  BY DEF TakeEqual
<1>2. Links(s.sugg[c], S, s.prio)
  BY SuggestedRange
<1>3. Links(q, {x \in S : s.prio[x] = PreemptPriority[c]}, s.prio)
  <2> HIDE DEF S
  <2> QED BY <1>2, OfPriorityIsLinked
<1> HIDE DEF Stops, q
<1>4. t # NoThread => t \in S
  <2> HIDE DEF S
  <2> QED BY <1>3, FirstIsLinked
<1> HIDE DEF t
<1>5. CASE t \in waits \cup {NoThread}
  BY <1>1, <1>5 DEF Counted, Seated
<1>6. CASE t \notin waits \cup {NoThread}
  <2>1. t \in Suggested(s, s.run, c)
    BY <1>4, <1>6
  <2> QED BY <1>1, <1>6, <2>1, TakeCounts
<1> QED BY <1>5, <1>6

LEMMA TakeBetterCounts ==
  ASSUME NEW s, Valid(s), NEW c \in Cores, NEW r, r = TakeBetter(s, c)
  PROVE  Counted(s, r) /\ Seated(s, r)
<1> DEFINE best == GetFront(s.sched[c])
           Better == {u \in Range(s.sugg[c]) :
                        /\ s.prio[u] < s.prio[best]
                        /\ FrontOn(s, s.active[u]) # u
                        /\ Movable(s, FrontOn(s, s.active[u]))}
           b == IF best # NoThread /\ s.prio[best] >= PreemptPriority[c]
                THEN FirstIn(s.sugg[c], Better) ELSE NoThread
           S == Suggested(s, s.run, c)
<1>1. r = IF b = NoThread THEN s ELSE Bump(ChangeCore(s, b, c, "front"), {b})
  BY DEF TakeBetter
<1>2. Links(s.sugg[c], S, s.prio)
  BY SuggestedRange
<1> HIDE DEF Better, best
<1>3. b # NoThread => b \in S
  <2> HIDE DEF S
  <2>1. FirstIn(s.sugg[c], Better) # NoThread => FirstIn(s.sugg[c], Better) \in S
    BY <1>2, FirstIsLinked
  <2> QED BY <2>1
<1> HIDE DEF b
<1>4. CASE b = NoThread
  BY <1>1, <1>4 DEF Counted, Seated
<1>5. CASE b # NoThread
  <2>1. b \in Suggested(s, s.run, c)
    BY <1>3, <1>5
  <2> QED BY <1>1, <1>5, <2>1, TakeCounts
<1> QED BY <1>4, <1>5

LEMMA RotateCounts ==
  ASSUME NEW s, Valid(s), NEW c \in Cores, NEW older, NEW r, r = RotateScheduledQueue(s, c, older)
  PROVE  Counted(s, r) /\ Seated(s, r)
<1> DEFINE f == RotateFront(s, c)
           w == IF FrontAt(f, c) = FrontAt(s, c) THEN {} ELSE older
           e == TakeEqual(f, c, w)
           b == TakeBetter(e, c)
<1>1. r = b
  BY DEF RotateScheduledQueue
<1>2. Rearranged(s, f) /\ Counted(s, f) /\ Seated(s, f)
  BY RotateFrontRearranges, RotateFrontCounts
<1> HIDE DEF f
<1>3. Rearranged(f, e) /\ Counted(f, e) /\ Seated(f, e)
  <2> HIDE DEF w
  <2> QED BY <1>2, TakeEqualRearranges, TakeEqualCounts DEF Rearranged
<1> HIDE DEF e
<1>4. Counted(e, b) /\ Seated(e, b)
  BY <1>3, TakeBetterCounts DEF Rearranged
<1> HIDE DEF b
<1>5. Counted(s, b)
  BY <1>2, <1>3, <1>4, CountedOnward
<1> QED BY <1>1, <1>2, <1>3, <1>4, <1>5 DEF Seated

LEMMA RotatedCounts ==
  ASSUME NEW s, Valid(s), NEW older, NEW r, r = Rotated(s, older)
  PROVE  Counted(s, r) /\ Seated(s, r)
<1> DEFINE G == CHOOSE H : Rotation(H, s, older, NumCores)
           Fine(x) == Rearranged(s, x) /\ Counted(s, x) /\ Seated(s, x)
<1>1. Rotation(G, s, older, NumCores)
  BY RotationExists, PriorityQueueAssumption
<1>2. r = G[NumCores]
  BY DEF Rotated, Rotation
<1> HIDE DEF G
<1>3. NumCores \in Nat
  BY PriorityQueueAssumption
<1>4. G[0] = s
  BY <1>1, <1>3 DEF Rotation
<1>5. \A n \in 0..NumCores : n # 0 =>
        /\ n - 1 \in Cores /\ n - 1 \in 0..NumCores
        /\ G[n] = RotateScheduledQueue(G[n - 1], n - 1, older)
  BY <1>1, <1>3 DEF Rotation, Cores
<1>6. ASSUME NEW n \in 0..NumCores, n # 0, Fine(G[n - 1])
      PROVE  Fine(G[n])
  <2>1. PICK c \in Cores : c = n - 1
    BY <1>5, <1>6
  <2>2. PICK x : x = G[n - 1]
    OBVIOUS
  <2>3. PICK y : y = G[n]
    OBVIOUS
  <2>4. y = RotateScheduledQueue(x, c, older) /\ Fine(x)
    BY <1>5, <1>6, <2>1, <2>2, <2>3
  <2>5. Valid(x)
    BY <2>4 DEF Rearranged
  <2>6. Rearranged(x, y) /\ Counted(x, y) /\ Seated(x, y)
    BY <2>4, <2>5, RotateRearranges, RotateCounts
  <2>7. Rearranged(s, y) /\ Seated(s, y)
    BY <2>4, <2>6 DEF Rearranged, Seated
  <2>8. Counted(s, y)
    BY <2>4, <2>6, CountedOnward
  <2> QED BY <2>3, <2>7, <2>8
<1>7. Fine(s)
  BY DEF Rearranged, Counted, Seated
<1> HIDE DEF Fine
<1>8. \A n \in 0..NumCores : Fine(G[n])
  <2> DEFINE B == {n \in 0..NumCores : ~Fine(G[n])}
  <2> SUFFICES ASSUME B # {} PROVE FALSE
    OBVIOUS
  <2>1. B \subseteq Nat
    BY <1>3
  <2>2. PICK n \in B : \A k \in B : n <= k
    <3> HIDE DEF B
    <3> QED BY <2>1, LeastNatural
  <2>3. n # 0
    BY <1>4, <1>7, <2>2
  <2>4. n \in 0..NumCores /\ n - 1 \in 0..NumCores /\ n - 1 \notin B
    BY <1>3, <2>2, <2>3
  <2>5. Fine(G[n - 1])
    BY <2>4
  <2> QED BY <1>6, <2>2, <2>3, <2>4, <2>5
<1>9. Fine(r)
  BY <1>2, <1>3, <1>8
<1> QED BY <1>9 DEF Fine

\* Whoever may call the kernel is on a core, unless it is pinned.
SeatInv ==
  /\ TopsSeated(Now, pinned)
  /\ \A c \in Cores \ leaving : running[c] # NoThread =>
       active[running[c]] # NoCore \/ PinnedBy(pinned, running[c])

\* A yield count that matches stands for a thread that is alone.
MatchInv == match \subseteq runnable /\ \A t \in match : Alone(Now, t)

YieldInv == SeatInv /\ (SingleProcess => MatchInv)

\* The step leaves the queues as in r.
LEMMA CommitSeats ==
  ASSUME NEW r, NEW own, Commit(r, own), TopsSeated(r, pinned'),
         \A c \in Cores \ (leaving \cup own) : running[c] # NoThread =>
           r.active[running[c]] # NoCore \/ PinnedBy(pinned', running[c])
  PROVE  SeatInv'
<1>1. /\ active' = r.active /\ highest' = r.top /\ running' = running
      /\ leaving' = leaving \cup {c \in own : r.top[c] # running[c]}
  BY DEF Commit
<1>2. PICK n, pins : n = Now' /\ pins = pinned'
  OBVIOUS
<1>3. n.active = r.active /\ n.top = r.top
  BY <1>1, <1>2 DEF Now
<1>4. TopsSeated(n, pins)
  BY <1>2, <1>3 DEF TopsSeated
<1>5. ASSUME NEW c \in Cores \ leaving', running[c] # NoThread
      PROVE  r.active[running[c]] # NoCore \/ PinnedBy(pins, running[c])
  <2>1. CASE c \in own
    <3>1. r.top[c] = running[c]
      BY <1>1, <1>5, <2>1
    <3> QED BY <1>2, <1>5, <3>1 DEF TopsSeated
  <2>2. CASE c \notin own
    BY <1>1, <1>2, <1>5, <2>2
  <2> QED BY <2>1, <2>2
<1>6. TopsSeated(Now, pinned)'
  BY <1>2, <1>4
<1>7. (\A c \in Cores \ leaving : running[c] # NoThread =>
         active[running[c]] # NoCore \/ PinnedBy(pinned, running[c]))'
  BY <1>1, <1>2, <1>5
<1> QED BY <1>6, <1>7 DEF SeatInv

LEMMA CommitMatches ==
  ASSUME SingleProcess, MatchInv, runnable \subseteq Threads, NEW r, NEW own, Commit(r, own),
         Counted(Now, r), match' = StillMatch(r)
  PROVE  MatchInv'
<1>1. Now.bumped = {} /\ Now.run = runnable
  BY DEF Now
<1>2. r.bumped \subseteq Threads
  BY <1>1 DEF Counted
<1>3. PICK n : n = Now'
  OBVIOUS
<1>4. n.active = r.active /\ n.run = r.run /\ n.prio = r.prio /\ runnable' = r.run
  BY <1>3 DEF Now, Commit
<1>5. CASE r.bumped # {}
  <2>1. match' = {}
    <3>1. \A t \in match : t \in Threads
      BY DEF MatchInv
    <3>2. PICK u \in r.bumped : u \in Threads
      BY <1>2, <1>5
    <3> QED BY <3>1, <3>2 DEF StillMatch, SingleProcess
  <2> QED BY <2>1 DEF MatchInv
<1>6. CASE r.bumped = {}
  <2>1. match' = match
    BY <1>6 DEF StillMatch
  <2>2. r.run = runnable /\ \A t \in runnable : Alone(Now, t) => Alone(r, t)
    BY <1>1, <1>6 DEF Counted
  <2>3. match \subseteq r.run /\ \A t \in match : Alone(r, t)
    BY <2>2 DEF MatchInv
  <2>4. \A t \in match : Alone(n, t)
    BY <1>4, <2>3 DEF Alone
  <2>5. (match \subseteq runnable)'
    BY <1>4, <2>1, <2>3
  <2>6. (\A t \in match : Alone(Now, t))'
    BY <1>3, <2>1, <2>4
  <2> QED BY <2>5, <2>6 DEF MatchInv
<1> QED BY <1>5, <1>6

\* The step ends with an update.
LEMMA UpdateYields ==
  ASSUME ChoiceInv, YieldInv, NEW s, Valid(s), Counted(Now, s), NEW pins, pins = pinned',
         PinsHold(pins, s.aff), NEW kept, NEW own, NEW r, r = Update(s, pins, kept),
         Commit(r, own), match' = StillMatch(r),
         \A c \in Cores \ (leaving \cup own) : running[c] # NoThread =>
           s.active[running[c]] # NoCore \/ PinnedBy(pins, running[c])
  PROVE  YieldInv'
<1>1. /\ highest \in [Cores -> Threads \cup {NoThread}] /\ runnable \subseteq Threads
      /\ running \in [Cores -> Threads \cup {NoThread}]
  <2>1. PICK n : n = Now
    OBVIOUS
  <2>2. n.top \in [Cores -> Threads \cup {NoThread}] /\ n.run \subseteq Threads
    BY <2>1 DEF ChoiceInv, Valid, IsState
  <2> QED BY <2>1, <2>2, NowFields DEF ChoiceInv, RunsHold
<1>2. Counted(s, r) /\ Seated(s, r) /\ TopsSeated(r, pins)
  BY <1>1, UpdateSeats
<1>3. Counted(Now, r)
  BY <1>2, CountedOnward
<1>4. ASSUME NEW c \in Cores \ (leaving \cup own), running[c] # NoThread
      PROVE  r.active[running[c]] # NoCore \/ PinnedBy(pins, running[c])
  BY <1>1, <1>2, <1>4 DEF Seated
<1>5. SeatInv'
  BY <1>2, <1>4, CommitSeats
<1>6. SingleProcess => MatchInv'
  BY <1>1, <1>3, CommitMatches DEF YieldInv
<1> QED BY <1>5, <1>6 DEF YieldInv

\* It leaves pinning alone, and only its caller may have lost the core.
LEMMA FinishYields ==
  ASSUME ChoiceInv, YieldInv, NEW s, Valid(s), Counted(Now, s), PinsHold(pinned, s.aff),
         NEW callers, Finish(s, callers),
         \A own \in callers : \A c \in Cores \ (leaving \cup own) :
           running[c] # NoThread /\ active[running[c]] # NoCore => s.active[running[c]] # NoCore
  PROVE  YieldInv'
<1>1. PICK own \in callers : Commit(Update(s, pinned, waited), own)
  BY DEF Finish
<1>2. match' = StillMatch(Update(s, pinned, waited)) /\ pinned' = pinned
  BY DEF Finish
<1>3. \A c \in Cores \ (leaving \cup own) : running[c] # NoThread =>
        s.active[running[c]] # NoCore \/ PinnedBy(pinned, running[c])
  BY DEF YieldInv, SeatInv
<1> QED BY <1>1, <1>2, <1>3, UpdateYields

LEMMA SeatedFinish ==
  ASSUME ChoiceInv, YieldInv, NEW s, Valid(s), Counted(Now, s), Seated(Now, s),
         PinsHold(pinned, s.aff), NEW callers, Finish(s, callers)
  PROVE  YieldInv'
<1>1. \A t \in Threads : active[t] # NoCore => s.active[t] # NoCore
  BY NowFields DEF Seated
<1>2. running \in [Cores -> Threads \cup {NoThread}]
  BY DEF ChoiceInv, RunsHold
<1>3. \A own \in callers : \A c \in Cores \ (leaving \cup own) :
        running[c] # NoThread /\ active[running[c]] # NoCore => s.active[running[c]] # NoCore
  BY <1>1, <1>2
<1> QED BY <1>3, FinishYields

\* It has no update, and changes neither choices nor pins.
LEMMA StillYields ==
  ASSUME ChoiceInv, YieldInv, NEW r, NEW own, Commit(r, own), r.top = highest,
         UNCHANGED pinned, Seated(Now, r)
  PROVE  SeatInv'
<1>1. PICK n : n = Now
  OBVIOUS
<1>2. n.top = highest /\ n.active = active /\ TopsSeated(n, pinned) /\ Seated(n, r)
      /\ highest \in [Cores -> Threads \cup {NoThread}]
  BY <1>1, NowFields DEF YieldInv, SeatInv, ChoiceInv, Valid, IsState
<1>3. TopsSeated(r, pinned')
  BY <1>2 DEF TopsSeated, Seated
<1>4. running \in [Cores -> Threads \cup {NoThread}]
  BY DEF ChoiceInv, RunsHold
<1>5. ASSUME NEW c \in Cores \ (leaving \cup own), running[c] # NoThread
      PROVE  r.active[running[c]] # NoCore \/ PinnedBy(pinned', running[c])
  <2>1. active[running[c]] # NoCore \/ PinnedBy(pinned, running[c])
    BY <1>5 DEF YieldInv, SeatInv
  <2> QED BY <1>2, <1>4, <1>5, <2>1 DEF Seated
<1> QED BY <1>3, <1>5, CommitSeats

LEMMA YieldInvInit == PriorityQueueInit => YieldInv
<1> SUFFICES ASSUME PriorityQueueInit PROVE YieldInv
  OBVIOUS
<1>1. /\ runnable = {} /\ match = {} /\ highest = [c \in Cores |-> NoThread] /\ running = highest
  BY DEF PriorityQueueInit
<1>2. TopsSeated(Now, pinned)
  BY <1>1, NowFields DEF TopsSeated
<1> QED BY <1>1, <1>2 DEF YieldInv, SeatInv, MatchInv

-----------------------------------------------------------------------------
(* The yields, step by step.                                               *)

\* A thread that has been counted: whatever else happens in the step, no count of
\* its process matches any more.
LEMMA CountedNow ==
  ASSUME NEW s, NEW t \in Threads, s.bumped = {t}
  PROVE  Counted(Now, s)
BY NowFields DEF Counted

LEMMA RequeuedYields ==
  ASSUME ChoiceInv, YieldInv, NEW s, NEW t \in Threads, Requeued(s, t), NEW callers, Finish(s, callers)
  PROVE  YieldInv'
<1>1. Valid(s) /\ PinsHold(pinned, s.aff) /\ s.active = active /\ s.bumped = {t}
  BY DEF ChoiceInv, Requeued
<1>2. Seated(Now, s)
  BY <1>1, NowFields DEF Seated
<1>3. Counted(Now, s)
  BY <1>1, CountedNow
<1> QED BY <1>1, <1>2, <1>3, SeatedFinish

\* Only the fields of threads outside the queues change.
LEMMA OutsideYields ==
  ASSUME ChoiceInv, YieldInv, NEW r, Commit(r, {}), UNCHANGED <<match, pinned>>,
         SameThreads(Now, r), Seated(Now, r)
  PROVE  YieldInv'
<1>1. r.top = highest /\ r.run = runnable
      /\ \A u \in runnable : r.active[u] = active[u] /\ r.prio[u] = prio[u]
  BY NowFields DEF SameThreads
<1>2. SeatInv'
  BY <1>1, StillYields
<1>3. PICK n : n = Now
  OBVIOUS
<1>4. PICK m : m = Now'
  OBVIOUS
<1>5. /\ n.run = runnable /\ n.active = active /\ n.prio = prio
      /\ m.run = runnable /\ runnable' = runnable /\ m.active = r.active /\ m.prio = r.prio
  BY <1>1, <1>3, <1>4, NowFields DEF Commit, Now
<1>6. ASSUME MatchInv PROVE MatchInv'
  <2>1. match \subseteq runnable /\ \A t \in match : Alone(n, t)
    BY <1>3, <1>6 DEF MatchInv
  <2>2. \A t \in match : Alone(m, t)
    BY <1>1, <1>5, <2>1 DEF Alone
  <2>3. (match \subseteq runnable)'
    BY <1>5, <2>1
  <2>4. (\A t \in match : Alone(Now, t))'
    BY <1>4, <2>2
  <2> QED BY <2>3, <2>4 DEF MatchInv
<1> QED BY <1>2, <1>6 DEF YieldInv

LEMMA WakeYields ==
  ASSUME ChoiceInv, YieldInv, NEW t \in Threads, Wake(t)
  PROVE  YieldInv'
BY WakeIs, RequeuedYields

LEMMA BlockYields ==
  ASSUME ChoiceInv, YieldInv, NEW t \in Threads, Block(t)
  PROVE  YieldInv'
BY BlockIs, RequeuedYields

LEMMA ChangePriorityYields ==
  ASSUME ChoiceInv, YieldInv, NEW t \in Threads, NEW k \in Priorities, ChangePriority(t, k)
  PROVE  YieldInv'
<1>1. CASE t \in runnable
  BY <1>1, ChangePriorityIs, RequeuedYields
<1>2. CASE t \notin runnable
  <2>1. PICK r : /\ Commit(r, {}) /\ UNCHANGED <<match, pinned, original>>
                 /\ SameThreads(Now, r) /\ Seated(Now, r)
    BY <1>2, OtherPriorityIs
  <2> QED BY <2>1, OutsideYields
<1> QED BY <1>1, <1>2

LEMMA SetCoreMaskYields ==
  ASSUME ChoiceInv, YieldInv, NEW t \in Threads, NEW mask \in Masks, SetCoreMask(t, mask)
  PROVE  YieldInv'
<1>1. CASE IsPinned(t)
  <2>1. UNCHANGED <<queueVars, highest, running, leaving, match, pinned>>
    BY <1>1 DEF SetCoreMask
  <2>2. Now' = Now /\ pinned' = pinned /\ active' = active /\ running' = running
        /\ leaving' = leaving /\ match' = match /\ runnable' = runnable
    BY <2>1 DEF Now, queueVars
  <2> QED BY <2>2 DEF YieldInv, SeatInv, MatchInv
<1>2. CASE ~IsPinned(t)
  <2>1. PICK r : /\ Valid(r) /\ PinsHold(pinned, r.aff) /\ Seated(Now, r)
                 /\ \/ Finish(r, Callers) /\ r.bumped = {t}
                    \/ Commit(r, {}) /\ UNCHANGED <<match, pinned, original>> /\ SameThreads(Now, r)
    BY <1>2, SetCoreMaskIs
  <2>2. CASE Finish(r, Callers) /\ r.bumped = {t}
    BY <2>1, <2>2, CountedNow, SeatedFinish
  <2>3. CASE Commit(r, {}) /\ UNCHANGED <<match, pinned, original>> /\ SameThreads(Now, r)
    BY <2>1, <2>3, OutsideYields
  <2> QED BY <2>1, <2>2, <2>3
<1> QED BY <1>1, <1>2

LEMMA ChangeKernelWaitersYields ==
  ASSUME ChoiceInv, YieldInv, NEW t, ChangeKernelWaiters(t)
  PROVE  YieldInv'
<1>1. PICK kept : Commit(Update(Now, pinned, kept), {}) /\ match' = StillMatch(Update(Now, pinned, kept))
  BY DEF ChangeKernelWaiters
<1>2. pinned' = pinned
  BY DEF ChangeKernelWaiters
<1>3. PICK n : n = Now
  OBVIOUS
<1>4. Valid(n) /\ PinsHold(pinned, n.aff) /\ n.active = active
  BY <1>3, NowFields DEF ChoiceInv
<1>5. Counted(Now, n)
  BY <1>3 DEF Counted
<1>6. \A c \in Cores \ (leaving \cup {}) : running[c] # NoThread =>
        n.active[running[c]] # NoCore \/ PinnedBy(pinned, running[c])
  BY <1>4 DEF YieldInv, SeatInv
<1>7. PICK r : r = Update(n, pinned, kept)
  OBVIOUS
<1>8. Commit(r, {}) /\ match' = StillMatch(r)
  BY <1>1, <1>3, <1>7
<1> QED BY <1>2, <1>4, <1>5, <1>6, <1>7, <1>8, UpdateYields

\* Only the pinned or unpinned thread itself can lose or gain the pin, and its core
\* belongs to the caller.
LEMMA PinStepYields ==
  ASSUME ChoiceInv, YieldInv, NEW c \in Cores, NEW s, PinStep(s, c)
  PROVE  YieldInv'
<1> DEFINE t == running[c]
<1>1. PICK pins : pins = pinned'
  OBVIOUS
<1>2. PICK r : r = Update(s, pins, waited)
  OBVIOUS
<1>3. /\ Valid(s) /\ PinsHold(pins, s.aff) /\ Commit(r, {c}) /\ match' = StillMatch(r)
      /\ t \in Threads
      /\ \A u \in Threads \ {t} :
           s.active[u] = active[u] /\ (PinnedBy(pinned, u) => PinnedBy(pins, u))
      /\ s.bumped = {t} \/ (SameThreads(Now, s) /\ s.bumped = {})
  BY <1>1, <1>2 DEF PinStep
<1>4. RunsHold(running, pinned)
  BY DEF ChoiceInv
<1>5. ASSUME NEW d \in Cores \ (leaving \cup {c}), running[d] # NoThread
      PROVE  s.active[running[d]] # NoCore \/ PinnedBy(pins, running[d])
  <2>1. running[d] \in Threads \ {t}
    BY <1>4, <1>5 DEF RunsHold
  <2>2. active[running[d]] # NoCore \/ PinnedBy(pinned, running[d])
    BY <1>5 DEF YieldInv, SeatInv
  <2> QED BY <1>3, <2>1, <2>2
<1>6. Counted(Now, s)
  <2>1. CASE s.bumped = {t}
    BY <1>3, <2>1, CountedNow
  <2>2. CASE SameThreads(Now, s) /\ s.bumped = {}
    BY <2>2, NowFields, CountedSame DEF SameThreads
  <2> QED BY <1>3, <2>1, <2>2
<1> QED BY <1>1, <1>2, <1>3, <1>5, <1>6, UpdateYields

LEMMA PinYields ==
  ASSUME ChoiceInv, YieldInv, NEW c \in Cores, PinCurrentThread(c) \/ UnpinCurrentThread(c)
  PROVE  YieldInv'
BY PinCurrentThreadIs, UnpinCurrentThreadIs, PinStepYields

LEMMA PreemptThreadsYields ==
  ASSUME ChoiceInv, YieldInv, PreemptThreads
  PROVE  YieldInv'
<1>1. PICK older : Finish(Rotated(Now, older), {{}})
  BY DEF PreemptThreads
<1>2. PICK s : s = Rotated(Now, older)
  OBVIOUS
<1>3. Rearranged(Now, s) /\ Counted(Now, s) /\ Seated(Now, s)
  BY <1>2, RotatedRearranges, RotatedCounts DEF ChoiceInv
<1>4. Valid(s) /\ PinsHold(pinned, s.aff)
  BY <1>3, NowFields DEF Rearranged, ChoiceInv
<1>5. Finish(s, {{}})
  BY <1>1, <1>2
<1> QED BY <1>3, <1>4, <1>5, SeatedFinish

\* A yield without an update: its caller is alone, so its count may match again.
LEMMA NoUpdateYields ==
  ASSUME ChoiceInv, YieldInv, NEW t \in runnable, NEW s, s.run = runnable, s.active = active,
         s.top = highest, t \in s.bumped, Alone(s, t),
         NEW c \in Cores, NEW T, T \subseteq {t}, NoUpdate(s, c, T)
  PROVE  YieldInv'
<1>1. Commit(s, {c}) /\ match' = StillMatch(s) \cup T /\ pinned' = pinned
  BY DEF NoUpdate
<1>2. Seated(Now, s)
  BY NowFields DEF Seated
<1>3. SeatInv'
  BY <1>1, <1>2, StillYields
<1>4. ASSUME SingleProcess, MatchInv PROVE MatchInv'
  <2>1. runnable \subseteq Threads
    <3>1. PICK n : n = Now
      OBVIOUS
    <3>2. n.run \subseteq Threads
      BY <3>1 DEF ChoiceInv, Valid, IsState
    <3> QED BY <3>1, <3>2, NowFields
  <2>2. StillMatch(s) = {}
    BY <1>4, <2>1 DEF StillMatch, SingleProcess, MatchInv
  <2>3. match' \subseteq {t} /\ runnable' = s.run
    BY <1>1, <2>2 DEF Commit
  <2>4. PICK n : n = Now'
    OBVIOUS
  <2>5. n.active = s.active /\ n.run = s.run /\ n.prio = s.prio
    BY <1>1, <2>4 DEF Now, Commit
  <2>6. Alone(n, t)
    BY <2>5 DEF Alone
  <2>7. (match \subseteq runnable)'
    BY <2>3
  <2>8. (\A u \in match : Alone(Now, u))'
    BY <2>3, <2>4, <2>6
  <2> QED BY <2>7, <2>8 DEF MatchInv
<1> QED BY <1>3, <1>4 DEF YieldInv

\* The caller of a yield goes behind its equals.
LEMMA YieldMoves ==
  ASSUME ChoiceInv, NEW c \in Cores, NEW t, t = Yielder(c), t # NoThread, active[t] # NoCore,
         NEW s, s = Bump(MoveToBack(Now, t), {t})
  PROVE  /\ t \in runnable /\ Valid(s) /\ s.run = runnable /\ s.active = active /\ s.top = highest
         /\ PinsHold(pinned, s.aff) /\ s.bumped = {t}
         /\ Counted(Now, s) /\ Seated(Now, s)
         /\ GetFront(OfPriority(s.sched[active[t]], prio, prio[t])) = t => Alone(s, t)
<1>0. PICK n : n = Now
  OBVIOUS
<1>1. /\ Valid(n) /\ Owned(n) /\ t \in n.run /\ n.active[t] # NoCore
      /\ n.active[t] = active[t] /\ n.prio = prio /\ n.run = runnable /\ n.active = active
      /\ n.aff = aff /\ n.top = highest /\ n.bumped = {}
  BY <1>0, YielderIs, NowFields
<1>2. PICK m : m = MoveToBack(n, t)
  OBVIOUS
<1>3. /\ Valid(m) /\ m.run = n.run /\ m.aff = n.aff /\ m.prio = n.prio /\ m.top = n.top
      /\ m.active = n.active
  BY <1>1, <1>2, MoveToBackLinks
<1>4. m.bumped = {}
  BY <1>1, <1>2, MoveCounts
<1>5. s = Bump(m, {t})
  BY <1>0, <1>2
<1>6. /\ Valid(s) /\ s.run = m.run /\ s.sched = m.sched /\ s.active = m.active
      /\ s.aff = m.aff /\ s.prio = m.prio /\ s.top = m.top
  BY <1>3, <1>5, BumpKeeps DEF Valid
<1>7. t \in Threads
  BY <1>1 DEF Valid, IsState
<1>8. s.bumped = {t}
  <2>1. s.bumped = m.bumped \cup ({t} \ {NoThread})
    BY <1>3, <1>5, BumpedIs DEF Valid
  <2> QED BY <1>4, <2>1
<1>9. Counted(Now, s)
  BY <1>7, <1>8, CountedNow
<1>10. Seated(Now, s)
  BY <1>1, <1>3, <1>6, NowFields DEF Seated
<1>11. ASSUME GetFront(OfPriority(s.sched[active[t]], prio, prio[t])) = t
       PROVE  Alone(s, t)
  <2>1. GetFront(OfPriority(m.sched[n.active[t]], n.prio, n.prio[t])) = t
    BY <1>1, <1>6, <1>11
  <2>2. Alone(m, t)
    BY <1>1, <1>2, <2>1, MoveAlone
  <2> QED BY <1>6, <2>2 DEF Alone
<1>12. PinsHold(pinned, s.aff)
  BY <1>1, <1>3, <1>6 DEF ChoiceInv
<1> QED BY <1>1, <1>3, <1>6, <1>8, <1>9, <1>10, <1>11, <1>12

LEMMA YieldWithoutCoreMigrationYields ==
  ASSUME ChoiceInv, YieldInv, NEW c \in Cores, YieldWithoutCoreMigration(c)
  PROVE  YieldInv'
<1>1. PICK t : t = Yielder(c)
  OBVIOUS
<1>2. PICK s : s = Bump(MoveToBack(Now, t), {t})
  OBVIOUS
<1>3. PICK next : next = GetFront(OfPriority(s.sched[active[t]], prio, prio[t]))
  OBVIOUS
<1>4. /\ t # NoThread /\ active[t] # NoCore
      /\ IF next # t THEN Finish(s, {{c}}) ELSE NoUpdate(s, c, {t})
  BY <1>1, <1>2, <1>3 DEF YieldWithoutCoreMigration
<1>5. /\ t \in runnable /\ Valid(s) /\ s.run = runnable /\ s.active = active /\ s.top = highest
      /\ PinsHold(pinned, s.aff) /\ s.bumped = {t}
      /\ Counted(Now, s) /\ Seated(Now, s) /\ (next = t => Alone(s, t))
  BY <1>1, <1>2, <1>3, <1>4, YieldMoves
<1>6. CASE next # t
  BY <1>4, <1>5, <1>6, SeatedFinish
<1>7. CASE next = t
  <2>1. {t} \subseteq {t} /\ t \in s.bumped
    BY <1>5
  <2> QED BY <1>4, <1>5, <1>7, <2>1, NoUpdateYields
<1> QED BY <1>6, <1>7

LEMMA YieldWithCoreMigrationYields ==
  ASSUME ChoiceInv, YieldInv, NEW c \in Cores, YieldWithCoreMigration(c)
  PROVE  YieldInv'
<1> DEFINE t == Yielder(c)
           s == Bump(MoveToBack(Now, t), {t})
           next == GetFront(OfPriority(s.sched[active[t]], prio, prio[t]))
<1>1. PICK older \in SUBSET UNION {Range(sugg[d]) : d \in Cores} :
    LET core == active[t]
        On(u) == TopOn(highest, active[u])
        Prefer(u) == prio[u] > prio[t] \/ (prio[u] = prio[t] /\ next # t /\ u \in older)
        u == FirstIn(s.sugg[core],
                     {v \in Range(s.sugg[core]) :
                        On(v) # v /\ (Prefer(v) \/ Movable(s, On(v)))})
        recheck == \E v \in Range(s.sugg[core]) :
                     On(v) # v /\ ~Prefer(v) /\ ~Movable(s, On(v))
    IN  /\ t # NoThread
        /\ active[t] # NoCore
        /\ IF u # NoThread /\ ~Prefer(u)
           THEN Finish(Bump(ChangeCore(s, u, core, "front"), {u}), {{c}})
           ELSE IF next # t THEN Finish(s, {{c}})
           ELSE NoUpdate(s, c, IF recheck THEN {} ELSE {t})
  BY DEF YieldWithCoreMigration
<1> HIDE DEF t, s, next
<1>2. PICK Stops, T :
        LET u == FirstIn(s.sugg[active[t]], Stops)
        IN  \/ u # NoThread /\ Finish(Bump(ChangeCore(s, u, active[t], "front"), {u}), {{c}})
            \/ Finish(s, {{c}})
            \/ next = t /\ NoUpdate(s, c, T) /\ T \subseteq {t}
  BY <1>1
<1>3. t # NoThread /\ active[t] # NoCore
  BY <1>1
<1>4. /\ t \in runnable /\ Valid(s) /\ s.run = runnable /\ s.active = active /\ s.top = highest
      /\ PinsHold(pinned, s.aff) /\ s.bumped = {t}
      /\ Counted(Now, s) /\ Seated(Now, s) /\ (next = t => Alone(s, t))
  BY <1>3, YieldMoves DEF t, s, next
<1>5. PICK d \in Cores : d = active[t]
  BY <1>3, YielderIs DEF t
<1>6. PICK u : u = FirstIn(s.sugg[d], Stops)
  OBVIOUS
<1>7. CASE u # NoThread /\ Finish(Bump(ChangeCore(s, u, d, "front"), {u}), {{c}})
  <2>1. Links(s.sugg[d], Suggested(s, s.run, d), s.prio)
    BY <1>4, SuggestedRange
  <2>2. u \in Suggested(s, s.run, d)
    BY <1>6, <1>7, <2>1, FirstIsLinked
  <2>3. PICK r : r = Bump(ChangeCore(s, u, d, "front"), {u})
    OBVIOUS
  <2>4. Rearranged(s, r) /\ Counted(s, r) /\ Seated(s, r)
    BY <1>4, <2>2, <2>3, TakeCounts
  <2>5. Valid(r) /\ PinsHold(pinned, r.aff) /\ Seated(Now, r)
    BY <1>4, <2>4 DEF Rearranged, Seated
  <2>6. Counted(Now, r)
    BY <1>4, <2>4, CountedOnward
  <2>7. Finish(r, {{c}})
    BY <1>7, <2>3
  <2> QED BY <2>5, <2>6, <2>7, SeatedFinish
<1>8. CASE Finish(s, {{c}})
  BY <1>4, <1>8, SeatedFinish
<1>9. CASE next = t /\ NoUpdate(s, c, T) /\ T \subseteq {t}
  <2>1. t \in s.bumped
    BY <1>4
  <2> QED BY <1>4, <1>9, <2>1, NoUpdateYields
<1> QED BY <1>2, <1>5, <1>6, <1>7, <1>8, <1>9

LEMMA YieldToAnyThreadYields ==
  ASSUME ChoiceInv, YieldInv, NEW c \in Cores, YieldToAnyThread(c)
  PROVE  YieldInv'
<1> DEFINE t == Yielder(c)
           core == active[t]
           s == Bump(ChangeCore(Now, t, NoCore, "back"), {t})
           Free == {v \in Range(s.sugg[core]) : FrontOn(s, s.active[v]) # v}
           u == FirstIn(s.sugg[core], Free)
           r == IF u # NoThread /\ Movable(s, FrontOn(s, s.active[u]))
                THEN Bump(ChangeCore(s, u, core, "back"), {u}) ELSE s
<1>1. /\ t # NoThread
      /\ active[t] # NoCore
      /\ IF GetFront(s.sched[core]) # NoThread THEN Finish(s, {{c}})
         ELSE IF u # t THEN Finish(r, {{c}})
         ELSE NoUpdate(r, c, {t})
  BY DEF YieldToAnyThread
<1>2. PICK n : n = Now
  OBVIOUS
<1>3. /\ Valid(n) /\ Owned(n) /\ t \in n.run /\ core \in Cores /\ n.active[t] = core
      /\ n.run = runnable /\ n.active = active /\ n.aff = aff /\ n.top = highest /\ n.bumped = {}
  BY <1>1, <1>2, YielderIs, NowFields
<1>4. s = Bump(ChangeCore(n, t, NoCore, "back"), {t})
  BY <1>2
<1>5. t = running[c]
  BY <1>1 DEF Yielder, Caller
<1>6. t \in Threads /\ n.active \in [Threads -> Cores \cup {NoCore}]
  BY <1>3 DEF Valid, IsState
<1>7. PinsHold(pinned, aff) /\ RunsHold(running, pinned)
  BY DEF ChoiceInv
<1> HIDE DEF s, t, core
<1>8. Rearranged(n, s) /\ s.active = [n.active EXCEPT ![t] = NoCore] /\ s.bumped = {t}
  <2>1. PICK m : m = ChangeCore(n, t, NoCore, "back")
    OBVIOUS
  <2>2. Rearranged(n, m) /\ CoreChanged(n, m, t, NoCore, "back")
    BY <1>3, <2>1, ChangeCoreLinks DEF Rearranged
  <2>3. m.bumped = {}
    BY <1>3, <2>1, CoreNotCounted DEF Valid
  <2>4. s = Bump(m, {t})
    BY <1>4, <2>1
  <2>5. s.active = m.active
    BY <2>2, <2>4, BumpKeeps DEF Rearranged, Valid
  <2>6. s.bumped = m.bumped \cup ({t} \ {NoThread})
    BY <2>2, <2>4, BumpedIs DEF Rearranged, Valid
  <2>7. s.bumped = {t}
    BY <1>1, <2>3, <2>6
  <2>8. m.active = [n.active EXCEPT ![t] = NoCore]
    BY <2>2 DEF CoreChanged
  <2> QED BY <2>2, <2>4, <2>5, <2>7, <2>8, BumpRearranges
<1>9. /\ Valid(s) /\ PinsHold(pinned, s.aff) /\ s.active[t] = NoCore
      /\ \A v \in Threads \ {t} : s.active[v] = active[v]
  BY <1>3, <1>6, <1>7, <1>8 DEF Rearranged
<1>10. Counted(Now, s)
  BY <1>6, <1>8, CountedNow
\* Nobody but the caller is without a core.
<1>11. ASSUME NEW x, Valid(x), Seated(s, x), x.aff = s.aff, Counted(s, x), Finish(x, {{c}})
       PROVE  YieldInv'
  <2>1. ASSUME NEW own \in {{c}}, NEW d \in Cores \ (leaving \cup own), running[d] # NoThread,
               active[running[d]] # NoCore
        PROVE  x.active[running[d]] # NoCore
    <3>1. running[d] \in Threads \ {t}
      BY <1>5, <1>7, <2>1 DEF RunsHold
    <3> QED BY <1>9, <1>11, <2>1, <3>1 DEF Seated
  <2>2. Counted(Now, x)
    BY <1>10, <1>11, CountedOnward
  <2> QED BY <1>9, <1>11, <2>1, <2>2, FinishYields
<1> HIDE DEF Free
<1>12. u # NoThread => u \in Suggested(s, s.run, core)
  <2>1. Links(s.sugg[core], Suggested(s, s.run, core), s.prio)
    BY <1>3, <1>9, SuggestedRange
  <2> QED BY <2>1, FirstIsLinked
<1> HIDE DEF u
<1>13. CASE GetFront(s.sched[core]) # NoThread
  <2>1. Seated(s, s) /\ Counted(s, s)
    BY DEF Seated, Counted
  <2> QED BY <1>1, <1>9, <1>11, <1>13, <2>1
<1>14. CASE GetFront(s.sched[core]) = NoThread /\ u # t
  <2>1. Valid(r) /\ r.aff = s.aff /\ Seated(s, r) /\ Counted(s, r)
    <3>1. CASE r = s
      BY <1>9, <3>1 DEF Seated, Counted
    <3>2. CASE u # NoThread /\ r = Bump(ChangeCore(s, u, core, "back"), {u})
      <4> HIDE DEF r
      <4>1. u \in Suggested(s, s.run, core)
        BY <1>12, <3>2
      <4>2. Rearranged(s, r) /\ Counted(s, r) /\ Seated(s, r)
        BY <1>3, <1>9, <3>2, <4>1, TakeCounts
      <4> QED BY <4>2 DEF Rearranged
    <3> QED BY <3>1, <3>2
  <2>2. Finish(r, {{c}})
    BY <1>1, <1>14
  <2> HIDE DEF r
  <2> QED BY <1>11, <2>1, <2>2
<1>15. CASE GetFront(s.sched[core]) = NoThread /\ u = t
  <2>1. NoUpdate(r, c, {t})
    BY <1>1, <1>15
  <2>2. Movable(s, FrontOn(s, s.active[t]))
    BY <1>9 DEF FrontOn, Movable
  <2>3. r = Bump(ChangeCore(s, t, core, "back"), {t})
    BY <1>1, <1>15, <2>2
  <2> HIDE DEF r
  <2>4. Rearranged(n, r) /\ r.active = n.active /\ r.top = n.top /\ Alone(r, t)
    BY <1>3, <1>4, <1>15, <2>3, BackWithoutUpdate
  <2>5. r.bumped = {t}
    <3>1. t \in Suggested(s, s.run, core)
      BY <1>1, <1>12, <1>15
    <3>2. r.bumped = s.bumped \cup {t}
      BY <1>3, <1>9, <2>3, <3>1, TakeCounts
    <3> QED BY <1>8, <3>2
  <2>6. t \in runnable /\ r.run = runnable /\ r.active = active /\ r.top = highest
        /\ t \in r.bumped /\ {t} \subseteq {t}
    BY <1>3, <2>4, <2>5 DEF Rearranged
  <2> QED BY <2>1, <2>4, <2>6, NoUpdateYields
<1> QED BY <1>13, <1>14, <1>15

LEMMA SwitchThreadYields ==
  ASSUME ChoiceInv, YieldInv, NEW c \in Cores, SwitchThread(c)
  PROVE  YieldInv'
<1>1. /\ running' = [running EXCEPT ![c] = highest[c]]
      /\ leaving' = leaving \ {c}
      /\ UNCHANGED <<queueVars, highest, match, pinned>>
  BY DEF SwitchThread
<1>2. Now' = Now /\ pinned' = pinned /\ active' = active /\ match' = match /\ runnable' = runnable
  BY <1>1 DEF Now, queueVars
<1>3. TopsSeated(Now, pinned)'
  BY <1>2 DEF YieldInv, SeatInv
<1>4. running \in [Cores -> Threads \cup {NoThread}]
  BY DEF ChoiceInv, RunsHold
<1>5. highest[c] # NoThread => active[highest[c]] # NoCore \/ PinnedBy(pinned, highest[c])
  BY NowFields DEF YieldInv, SeatInv, TopsSeated
<1>6. PICK x, l : x = running' /\ l = leaving'
  OBVIOUS
<1>7. ASSUME NEW d \in Cores \ l, x[d] # NoThread
      PROVE  active[x[d]] # NoCore \/ PinnedBy(pinned, x[d])
  <2>1. CASE d = c
    BY <1>1, <1>4, <1>5, <1>6, <1>7, <2>1
  <2>2. CASE d # c
    BY <1>1, <1>4, <1>6, <1>7, <2>2 DEF YieldInv, SeatInv
  <2> QED BY <2>1, <2>2
<1>8. (\A d \in Cores \ leaving : running[d] # NoThread =>
         active[running[d]] # NoCore \/ PinnedBy(pinned, running[d]))'
  BY <1>2, <1>6, <1>7
<1>9. SingleProcess => MatchInv'
  BY <1>2 DEF YieldInv, MatchInv
<1> QED BY <1>3, <1>8, <1>9 DEF YieldInv, SeatInv

LEMMA YieldInvNext == ChoiceInv /\ YieldInv /\ [PriorityQueueNext]_priorityQueueVars => YieldInv'
<1> SUFFICES ASSUME ChoiceInv, YieldInv, [PriorityQueueNext]_priorityQueueVars PROVE YieldInv'
  OBVIOUS
<1>1. CASE UNCHANGED priorityQueueVars
  <2>1. Now' = Now /\ pinned' = pinned /\ active' = active /\ running' = running
        /\ leaving' = leaving /\ match' = match /\ runnable' = runnable
    BY <1>1 DEF priorityQueueVars, queueVars, Now
  <2> QED BY <2>1 DEF YieldInv, SeatInv, MatchInv
<1>2. CASE PriorityQueueNext
  <2>0. created \subseteq Threads
    BY DEF ChoiceInv
  <2>1. ASSUME NEW t \in created, Wake(t) PROVE YieldInv'
    BY <2>0, <2>1, WakeYields
  <2>2. ASSUME NEW t \in created, Block(t) PROVE YieldInv'
    BY <2>0, <2>2, BlockYields
  <2>3. ASSUME NEW t \in created, ChangeKernelWaiters(t) PROVE YieldInv'
    BY <2>3, ChangeKernelWaitersYields
  <2>4. ASSUME NEW t \in created, NEW p \in Priorities, ChangePriority(t, p) PROVE YieldInv'
    BY <2>0, <2>4, ChangePriorityYields
  <2>5. ASSUME NEW t \in created, NEW mask \in Masks, SetCoreMask(t, mask) PROVE YieldInv'
    BY <2>0, <2>5, SetCoreMaskYields
  <2>6. CASE PreemptThreads
    BY <2>6, PreemptThreadsYields
  <2>7. ASSUME NEW c \in Cores, PinCurrentThread(c) \/ UnpinCurrentThread(c) PROVE YieldInv'
    BY <2>7, PinYields
  <2>8. ASSUME NEW c \in Cores, YieldWithoutCoreMigration(c) PROVE YieldInv'
    BY <2>8, YieldWithoutCoreMigrationYields
  <2>9. ASSUME NEW c \in Cores, YieldWithCoreMigration(c) PROVE YieldInv'
    BY <2>9, YieldWithCoreMigrationYields
  <2>10. ASSUME NEW c \in Cores, YieldToAnyThread(c) PROVE YieldInv'
    BY <2>10, YieldToAnyThreadYields
  <2>11. ASSUME NEW c \in Cores, SwitchThread(c) PROVE YieldInv'
    BY <2>11, SwitchThreadYields
  <2> QED
    BY <1>2, <2>1, <2>2, <2>3, <2>4, <2>5, <2>6, <2>7, <2>8, <2>9, <2>10, <2>11
       DEF PriorityQueueNext
<1> QED BY <1>1, <1>2

LEMMA YieldInvHolds == PriorityQueueSpec => []YieldInv
BY YieldInvInit, YieldInvNext, ChoiceInvHolds, PTL DEF PriorityQueueSpec

-----------------------------------------------------------------------------
(* The theorems.                                                           *)

\* The queues of every core match the fields of the threads, whatever the number
\* of cores, the threads, their priorities and masks: KPriorityQueue's links survive
\* every push, removal and migration.
THEOREM QueuesAlwaysMatch == PriorityQueueSpec => []QueuesMatch
<1>1. ChoiceInv => QueuesMatch
  <2> SUFFICES ASSUME ChoiceInv, NEW c \in Cores
               PROVE  /\ Range(sched[c]) = {t \in runnable : active[t] = c}
                      /\ Range(sugg[c]) = {t \in runnable : active[t] # c /\ c \in aff[t]}
                      /\ InOrder(sched[c]) /\ InOrder(sugg[c])
    BY DEF QueuesMatch
  <2>0. PICK n : n = Now
    OBVIOUS
  <2>1. /\ Valid(n) /\ n.run = runnable /\ n.active = active /\ n.aff = aff /\ n.prio = prio
        /\ n.sched = sched /\ n.sugg = sugg
    BY <2>0, NowFields DEF ChoiceInv
  <2>2. /\ Range(n.sched[c]) = Scheduled(n, n.run, c) /\ Range(n.sugg[c]) = Suggested(n, n.run, c)
        /\ Links(n.sched[c], Scheduled(n, n.run, c), n.prio)
        /\ Links(n.sugg[c], Suggested(n, n.run, c), n.prio)
    BY <2>1, SuggestedRange
  <2>3. Ordered(sched[c], prio) /\ Ordered(sugg[c], prio)
    BY <2>1, <2>2 DEF Links
  <2>4. InOrder(sched[c]) /\ InOrder(sugg[c])
    BY <2>3 DEF Ordered, InOrder
  <2>5. /\ Scheduled(n, n.run, c) = {t \in runnable : active[t] = c}
        /\ Suggested(n, n.run, c) = {t \in runnable : active[t] # c /\ c \in aff[t]}
    BY <2>1 DEF Scheduled, Suggested
  <2> QED BY <2>1, <2>2, <2>4, <2>5
<1> QED BY <1>1, ChoiceInvHolds, PTL

\* UpdateHighestPriorityThreadsImpl and the operations that skip it leave the cores
\* with the right choices: while no thread is pinned, each core's choice is the front
\* of its queue and no core idles that could take a waiting thread; and never is one
\* thread the choice of two cores.
THEOREM ChoicesStayRight == PriorityQueueSpec => []ChoicesAreRight
<1>1. ChoiceInv => ChoicesAreRight
  <2> SUFFICES ASSUME ChoiceInv PROVE ChoicesAreRight
    OBVIOUS
  <2>0. PICK n : n = Now
    OBVIOUS
  <2>1. /\ Valid(n) /\ Owned(n) /\ n.top = highest /\ n.sched = sched
        /\ Unpinned(pinned) => Placed(n)
    BY <2>0, NowFields DEF ChoiceInv
  <2>2. NothingPinned => Placed(n)
    <3>1. \A p \in Processes, c \in Cores : pinned[p][c] \in Threads \cup {NoThread}
      BY DEF ChoiceInv, PinsHold
    <3>2. NothingPinned => Unpinned(pinned)
      BY <3>1 DEF NothingPinned, IsPinned, Unpinned
    <3> QED BY <2>1, <3>2
  <2>3. ChoiceIsCurrent
    BY <2>1, <2>2 DEF ChoiceIsCurrent, Placed, Current
  <2>4. OneChoicePerThread
    <3> SUFFICES ASSUME NEW c \in Cores, NEW d \in Cores, c # d, highest[c] = highest[d],
                        highest[c] # NoThread
                 PROVE  FALSE
      BY DEF OneChoicePerThread
    <3>1. PICK h : h = highest[c]
      OBVIOUS
    <3>2. /\ h \in n.run
          /\ n.active[h] = c \/ n.aff[h] = {c}
          /\ n.active[h] = d \/ n.aff[h] = {d}
      BY <2>1, <3>1 DEF Owned
    <3>3. n.active[h] \in n.aff[h] \cup {NoCore}
      BY <2>1, <3>2 DEF Valid, IsState
    <3>4. c # NoCore /\ d # NoCore
      BY <2>1, StateFacts DEF Valid
    <3> QED BY <3>2, <3>3, <3>4
  <2>5. NoIdleCore
    <3> SUFFICES ASSUME NEW c \in Cores, NothingPinned, sched[c] = << >>
                 PROVE  Settled(n, c) \/ TookLater(n, c)
      BY <2>0 DEF NoIdleCore
    <3>1. Links(n.sched[c], Scheduled(n, n.run, c), n.prio)
      BY <2>1, SuggestedRange
    <3>2. Idle(n, c)
      BY <2>1, <3>1, FrontIsLinked DEF Idle
    <3>3. Placed(n)
      BY <2>2
    <3>4. NothingToTake(n, c) \/ TakenLater(n, c)
      BY <3>2, <3>3 DEF Placed
    <3>5. Current(n)
      BY <3>3 DEF Placed
    <3> QED BY <2>1, <3>4, <3>5, SettledMeans, TakenMeans
  <2> QED BY <2>3, <2>4, <2>5 DEF ChoicesAreRight
<1> QED BY <1>1, ChoiceInvHolds, PTL

\* The yields' ASSERT(IsValidCore(core)): whatever the cores, the threads and their
\* processes, a thread that may call the kernel and is not pinned is in the queue of
\* some core.  YieldToAnyThread takes its caller off every core; no other thread
\* loses its core, and the caller leaves unless the update chooses it again.
THEOREM CallersHaveCores == PriorityQueueSpec => []CallerHasACore
<1>1. ChoiceInv /\ YieldInv => CallerHasACore
  <2> SUFFICES ASSUME ChoiceInv, YieldInv, NEW c \in Cores,
                      Caller(c) \in runnable, ~IsPinned(Caller(c))
               PROVE  active[Caller(c)] # NoCore
    BY DEF CallerHasACore
  <2>1. NoThread \notin runnable
    <3>1. PICK n : n = Now
      OBVIOUS
    <3>2. n.run \subseteq Threads
      BY <3>1 DEF ChoiceInv, Valid, IsState
    <3> QED BY <3>1, <3>2, NowFields, PriorityQueueAssumption
  <2>2. c \in Cores \ leaving /\ running[c] = Caller(c) /\ running[c] # NoThread
    BY <2>1 DEF Caller
  <2>3. ~PinnedBy(pinned, running[c])
    BY <2>2 DEF PinnedBy, IsPinned
  <2> QED BY <2>2, <2>3 DEF YieldInv, SeatInv
<1> QED BY <1>1, ChoiceInvHolds, YieldInvHolds, PTL

\* What the yields rely on, for a guest of one process: while a thread's yield count
\* matches, no other thread of its priority is on its core, so that a yield
\* rightly returns at once; and its caller has a core.  (Threads of another process
\* are not counted: KPriorityQueue_yield.cfg.)
THEOREM YieldsStayRight ==
  ASSUME SingleProcess
  PROVE  PriorityQueueSpec => []YieldsAreRight
<1>1. YieldInv => NothingToYieldTo
  <2> SUFFICES ASSUME YieldInv, NEW c \in Cores, Caller(c) \in match \cap runnable,
                      NEW u \in runnable \ {Caller(c)}, active[u] = active[Caller(c)]
               PROVE  prio[u] # prio[Caller(c)]
    BY DEF NothingToYieldTo
  <2>1. PICK n : n = Now
    OBVIOUS
  <2>2. Alone(n, Caller(c)) /\ n.run = runnable /\ n.active = active /\ n.prio = prio
    BY <2>1, NowFields DEF YieldInv, MatchInv
  <2> QED BY <2>2 DEF Alone
<1>2. NothingToYieldTo /\ CallerHasACore => YieldsAreRight
  BY DEF YieldsAreRight
<1> QED BY <1>1, <1>2, YieldInvHolds, CallersHaveCores, PTL

=============================================================================
