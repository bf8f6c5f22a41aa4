-------------------------- MODULE NvHostCtrlProofs --------------------------
(***************************************************************************)
(* Proofs about the events of nvhost_ctrl over the host syncpoints: no     *)
(* completion is lost, and the host action signals only what is due, for   *)
(* every number of threads, syncpoints and slots.                          *)
(*                                                                         *)
(* A completion is handed from one thread to another: by the guest's       *)
(* thread that registers the action to the list of the syncpoint, or to    *)
(* itself if the value is reached, and by the list to the thread that      *)
(* increments.  The invariant says who has it (Served), that nobody else   *)
(* has (Single), and what makes each hand-over safe: who holds which       *)
(* mutex, and that the lists are ordered by value, so that an increment    *)
(* that stops at the first entry that is not due has passed none that is.  *)
(***************************************************************************)
EXTENDS NvHostCtrl, SequenceTheorems, WellFoundedInduction, TLAPS

\* Where a thread can be.
Places ==
  {"idle", "update_min", "event_wait", "register", "register_lock", "register_unlock",
   "registered", "wait", "wait_lock", "waiting", "waited", "action", "action_signal",
   "action_store", "increment", "increment_loop", "increment_erase", "deregister",
   "cancel_store", "clear_kevent"}

Calls == [at : Places, id : Syncpoints \cup {NONE}, value : 0..MaxValue,
          tag : 0..MaxNvEvents, back : Places]

Entries == [tag : Slots, expected_value : 0..MaxValue]

Types ==
  /\ TypeOK
  /\ call \in [Threads -> Calls]
  /\ action_storage \in [Syncpoints -> Seq(Entries)]

\* t runs an action: for the first entry of a list, or for the wait it serves.
Acts(t) == At(t) \in {"action", "action_signal", "action_store"}
Erases(t) == At(t) = "increment_erase" \/ (Acts(t) /\ call[t].back = "increment_erase")
Registers(t) ==
  \/ At(t) \in {"register", "register_lock", "register_unlock", "registered"}
  \/ Acts(t) /\ call[t].back \in {"register_unlock", "registered"}

\* What a place says of the fields of a call.
Shape(t) ==
  /\ Acts(t) => call[t].back \in {"register_unlock", "registered", "increment_erase"}
  /\ At(t) \in {"update_min", "event_wait", "register", "register_lock", "wait",
                "wait_lock", "waiting", "increment", "increment_loop", "increment_erase"}
       \/ Acts(t) => call[t].id \in Syncpoints
  /\ At(t) \in {"register", "register_lock", "wait", "wait_lock", "waiting", "waited",
                "deregister", "cancel_store", "clear_kevent"}
       \/ Acts(t) => call[t].tag \in Slots

\* Where a thread holds a mutex.
HasGuard(t) ==
  \/ At(t) \in {"increment_loop", "register_unlock"} \/ Erases(t)
  \/ Acts(t) /\ call[t].back = "register_unlock"

HasMutex(t) ==
  \/ Registers(t)
  \/ At(t) \in {"wait", "wait_lock", "waiting", "waited", "deregister", "cancel_store",
                "clear_kevent"}

Locks(t) ==
  /\ HasGuard(t) => guard = t
  /\ HasMutex(t) => events_mutex = t

\* What a thread relies on.
Increments(t) == At(t) \in {"increment", "increment_loop"} \/ Erases(t)

Locals(t) ==
  /\ At(t) \in {"register", "register_lock"} =>
       /\ events[call[t].tag].assigned_syncpt = call[t].id
       /\ events[call[t].tag].assigned_value = call[t].value
  /\ At(t) = "deregister" =>
       /\ events[call[t].tag].status # "Waiting"
       /\ events[call[t].tag].assigned_syncpt \in Syncpoints
  /\ Increments(t) => call[t].value <= syncpoint[call[t].id]
  /\ Erases(t) => action_storage[call[t].id] # << >>
  /\ Erases(t) /\ Acts(t) => Head(action_storage[call[t].id]).tag = call[t].tag

\* Lists are ordered by value.
Sorted(list) ==
  \A i, j \in 1..Len(list) : i < j => list[i].expected_value <= list[j].expected_value

\* The places of a list that nobody is erasing.
Left(id) ==
  {i \in 1..Len(action_storage[id]) :
     i = 1 => ~\E t \in Threads : Erases(t) /\ call[t].id = id}

\* A slot that waits is served: by a thread that is about to run its action, or by
\* an entry that stays in the list, and by an increment if the value is reached.
Reached(s) ==
  /\ events[s].assigned_syncpt \in Syncpoints
  /\ syncpoint[events[s].assigned_syncpt] >= events[s].assigned_value

Listed(s) ==
  \E i \in Left(events[s].assigned_syncpt) :
    action_storage[events[s].assigned_syncpt][i] = Entry(s, events[s].assigned_value)

Served(s) ==
  /\ events[s].assigned_syncpt \in Syncpoints
  /\ \/ \E t \in Threads : Handles(t, s)
     \/ /\ Listed(s)
        /\ Reached(s) => \E t \in Threads : /\ Increments(t)
                                            /\ call[t].id = events[s].assigned_syncpt
                                            /\ call[t].value >= events[s].assigned_value

\* For a slot that is not torn: one thread or one entry at most stands for its
\* action, and only while the slot is in use.
Holds(t, s) == call[t].tag = s /\ (At(t) \in {"register", "register_lock"} \/ Acts(t))
Takes(t, s) == At(t) = "deregister" /\ call[t].tag = s

Waits(s) ==
  \/ events[s].status = "Waiting"
  \/ events[s].status = "Cancelling" /\ \E t \in Threads : Takes(t, s)

NoAction(s) ==
  /\ \A t \in Threads : ~Holds(t, s)
  /\ \A id \in Syncpoints : \A i \in Left(id) : action_storage[id][i].tag # s

Single(s) ==
  /\ IsBeingUsed(s) => events[s].registered
  /\ \A t, u \in Threads : Holds(t, s) /\ Holds(u, s) => t = u
  /\ \A id \in Syncpoints : \A i \in Left(id) : action_storage[id][i].tag = s =>
       /\ Waits(s)
       /\ id = events[s].assigned_syncpt
       /\ action_storage[id][i].expected_value = events[s].assigned_value
       /\ \A t \in Threads : ~Holds(t, s)
       /\ \A j \in Left(id) : action_storage[id][j].tag = s => i = j
  /\ \A t \in Threads : Holds(t, s) =>
       /\ At(t) \in {"register", "register_lock"} => events[s].status = "Waiting"
       /\ At(t) = "action" => Waits(s) /\ Reached(s)
       /\ At(t) \in {"action_signal", "action_store"} => events[s].status = "Signalling"
       /\ At(t) = "action_signal" => Reached(s)
  /\ \A t \in Threads : At(t) = "cancel_store" /\ call[t].tag = s => NoAction(s)

Inv ==
  /\ Types
  /\ \A t \in Threads : Shape(t) /\ Locks(t) /\ Locals(t)
  /\ \A id \in Syncpoints : Sorted(action_storage[id])
  /\ \A s \in Slots : events[s].status = "Waiting" => Served(s)
  /\ \A s \in Slots \ torn : Single(s)

-----------------------------------------------------------------------------
(* Lists.                                                                  *)

\* Every nonempty set of natural numbers has a least element.
LEMMA LeastNatural ==
  ASSUME NEW S, S \subseteq Nat, S # {}
  PROVE  \E x \in S : \A y \in S : x <= y
<1>1. PICK x \in S : \A y \in S : <<y, x>> \notin OpToRel(<, Nat)
  BY WFMin, NatLessThanWellFounded
<1>2. \A y \in S : ~(y < x)
  BY <1>1 DEF OpToRel
<1> QED BY <1>2

\* The first and the last part of a list.
LEMMA Parts ==
  ASSUME NEW S, NEW q \in Seq(S), NEW k \in 1..(Len(q) + 1)
  PROVE  /\ SubSeq(q, 1, k - 1) \in Seq(S) /\ Len(SubSeq(q, 1, k - 1)) = k - 1
         /\ \A i \in 1..(k - 1) : SubSeq(q, 1, k - 1)[i] = q[i]
         /\ SubSeq(q, k, Len(q)) \in Seq(S) /\ Len(SubSeq(q, k, Len(q))) = Len(q) - k + 1
         /\ \A i \in 1..(Len(q) - k + 1) : SubSeq(q, k, Len(q))[i] = q[k + i - 1]
<1> DEFINE n == Len(q)
           a == SubSeq(q, 1, k - 1)
           b == SubSeq(q, k, n)
<1>1. n \in Nat /\ k \in Int /\ 1 <= k /\ k <= n + 1 /\ \A i \in 1..n : q[i] \in S
  OBVIOUS
<1>2. /\ a \in Seq(S) /\ Len(a) = (IF 1 <= k - 1 THEN (k - 1) - 1 + 1 ELSE 0)
      /\ \A i \in 1..((k - 1) - 1 + 1) : a[i] = q[1 + i - 1]
  <2>1. k - 1 \in Int /\ \A i \in 1..(k - 1) : q[i] \in S
    BY <1>1
  <2>2. PICK m : m = k - 1
    OBVIOUS
  <2> QED BY <2>1, <2>2, SubSeqProperties
<1>3. /\ b \in Seq(S) /\ Len(b) = (IF k <= n THEN n - k + 1 ELSE 0)
      /\ \A i \in 1..(n - k + 1) : b[i] = q[k + i - 1]
  <2>1. \A i \in k..n : q[i] \in S
    BY <1>1
  <2> QED BY <1>1, <2>1, SubSeqProperties
<1> HIDE DEF n, a, b
<1>4. Len(a) = k - 1
  BY <1>1, <1>2
<1>5. \A i \in 1..(k - 1) : a[i] = q[i]
  <2>1. \A i \in 1..(k - 1) : 1 + i - 1 = i /\ i \in 1..((k - 1) - 1 + 1)
    BY <1>1
  <2> QED BY <1>2, <2>1
<1>6. Len(b) = n - k + 1
  <2>1. CASE k <= n
    BY <1>3, <2>1
  <2>2. CASE ~(k <= n)
    <3>1. Len(b) = 0
      BY <1>3, <2>2
    <3>2. n - k + 1 = 0
      BY <1>1, <2>2
    <3> QED BY <3>1, <3>2
  <2> QED BY <2>1, <2>2
<1> QED BY <1>2, <1>3, <1>4, <1>5, <1>6 DEF n, a, b

\* List p is list q of elements of S with e inserted at place k.
Inserted(k, p, q, e, S) ==
  /\ p \in Seq(S) /\ Len(p) = Len(q) + 1
  /\ \A i \in 1..(Len(q) + 1) :
       p[i] = IF i < k THEN q[i] ELSE IF i = k THEN e ELSE q[i - 1]

\* What a list is after an insertion.
LEMMA InsertIs ==
  ASSUME NEW S, NEW q \in Seq(S), NEW e \in S, NEW k \in 1..(Len(q) + 1)
  PROVE  Inserted(k, InsertAt(q, k, e), q, e, S)
<1>1. PICK a, b : a = SubSeq(q, 1, k - 1) /\ b = SubSeq(q, k, Len(q))
  OBVIOUS
<1>2. /\ a \in Seq(S) /\ Len(a) = k - 1 /\ \A i \in 1..(k - 1) : a[i] = q[i]
      /\ b \in Seq(S) /\ Len(b) = Len(q) - k + 1
      /\ \A i \in 1..(Len(q) - k + 1) : b[i] = q[k + i - 1]
  BY <1>1, Parts
<1>3. PICK c : c = a \o <<e>>
  OBVIOUS
<1>4. c \in Seq(S) /\ Len(c) = k /\ \A i \in 1..k : c[i] = IF i < k THEN q[i] ELSE e
  <2>1. <<e>> \in Seq(S) /\ Len(<<e>>) = 1 /\ <<e>>[1] = e
    OBVIOUS
  <2>2. PICK d : d = <<e>>
    OBVIOUS
  <2>3. /\ c \in Seq(S) /\ Len(c) = Len(a) + Len(d)
        /\ \A i \in 1..(Len(a) + Len(d)) : c[i] = IF i <= Len(a) THEN a[i] ELSE d[i - Len(a)]
    BY <1>2, <1>3, <2>1, <2>2, ConcatProperties
  <2> QED BY <1>2, <2>1, <2>2, <2>3
<1>5. /\ c \o b \in Seq(S) /\ Len(c \o b) = Len(c) + Len(b)
      /\ \A i \in 1..(Len(c) + Len(b)) : (c \o b)[i] = IF i <= Len(c) THEN c[i] ELSE b[i - Len(c)]
  BY <1>2, <1>4, ConcatProperties
<1>6. PICK p : p = c \o b
  OBVIOUS
<1>7. InsertAt(q, k, e) = p
  BY <1>1, <1>3, <1>6 DEF InsertAt
<1>8. Len(q) \in Nat /\ Len(c) + Len(b) = Len(q) + 1
  BY <1>2, <1>4
<1>9. ASSUME NEW i \in 1..(Len(q) + 1)
      PROVE  p[i] = IF i < k THEN q[i] ELSE IF i = k THEN e ELSE q[i - 1]
  <2>1. CASE i <= k
    BY <1>4, <1>5, <1>6, <1>8, <2>1
  <2>2. CASE i > k
    <3>1. i - k \in 1..(Len(q) - k + 1) /\ k + (i - k) - 1 = i - 1 /\ ~(i <= k)
      BY <1>8, <2>2
    <3>2. i \in 1..(Len(c) + Len(b))
      BY <1>8
    <3>3. p[i] = b[i - k]
      BY <1>4, <1>5, <1>6, <3>1, <3>2
    <3> QED BY <1>2, <2>2, <3>1, <3>3
  <2> QED BY <2>1, <2>2
<1>10. Inserted(k, p, q, e, S)
  BY <1>5, <1>6, <1>8, <1>9 DEF Inserted
<1> QED BY <1>7, <1>10

\* What a list is after an entry was taken out.
LEMMA RemoveIs ==
  ASSUME NEW S, NEW q \in Seq(S), NEW k \in 1..Len(q)
  PROVE  /\ RemoveAt(q, k) \in Seq(S) /\ Len(RemoveAt(q, k)) = Len(q) - 1
         /\ \A i \in 1..(Len(q) - 1) : RemoveAt(q, k)[i] = IF i < k THEN q[i] ELSE q[i + 1]
<1>1. PICK a, b, m : a = SubSeq(q, 1, k - 1) /\ b = SubSeq(q, m, Len(q)) /\ m = k + 1
  OBVIOUS
<1>2. /\ a \in Seq(S) /\ Len(a) = k - 1 /\ \A i \in 1..(k - 1) : a[i] = q[i]
      /\ b \in Seq(S) /\ Len(b) = Len(q) - m + 1
      /\ \A i \in 1..(Len(q) - m + 1) : b[i] = q[m + i - 1]
  <2>1. k \in 1..(Len(q) + 1) /\ m \in 1..(Len(q) + 1)
    BY <1>1
  <2> QED BY <1>1, <2>1, Parts
<1>3. /\ a \o b \in Seq(S) /\ Len(a \o b) = Len(a) + Len(b)
      /\ \A i \in 1..(Len(a) + Len(b)) : (a \o b)[i] = IF i <= Len(a) THEN a[i] ELSE b[i - Len(a)]
  BY <1>2, ConcatProperties
<1>4. PICK p : p = a \o b
  OBVIOUS
<1>5. RemoveAt(q, k) = p
  BY <1>1, <1>4 DEF RemoveAt
<1>6. Len(q) \in Nat /\ Len(a) + Len(b) = Len(q) - 1
  <2>1. \A n, j \in Int : (j - 1) + (n - (j + 1) + 1) = n - 1
    OBVIOUS
  <2>2. Len(q) \in Nat /\ k \in Int /\ Len(q) \in Int
    OBVIOUS
  <2>3. Len(a) + Len(b) = (k - 1) + (Len(q) - (k + 1) + 1)
    BY <1>1, <1>2
  <2> QED BY <2>1, <2>2, <2>3
<1>7. ASSUME NEW i \in 1..(Len(q) - 1)
      PROVE  p[i] = IF i < k THEN q[i] ELSE q[i + 1]
  <2>1. CASE i < k
    BY <1>2, <1>3, <1>4, <1>6, <2>1
  <2>2. CASE ~(i < k)
    <3>1. /\ i - (k - 1) \in 1..(Len(q) - m + 1) /\ m + (i - (k - 1)) - 1 = i + 1
          /\ ~(i <= k - 1)
      BY <1>1, <1>6, <2>2
    <3>2. i \in 1..(Len(a) + Len(b))
      BY <1>6
    <3>3. p[i] = b[i - (k - 1)]
      BY <1>2, <1>3, <1>4, <3>1, <3>2
    <3> QED BY <1>2, <2>2, <3>1, <3>3
  <2> QED BY <2>1, <2>2
<1> QED BY <1>3, <1>4, <1>5, <1>6, <1>7

\* RegisterAction() inserts the entry at one place; the list stays ordered.
LEMMA EmplaceIs ==
  ASSUME NEW q \in Seq(Entries), NEW e \in Entries, Sorted(q), NEW p, p = Emplace(q, e)
  PROVE  \E k \in 1..(Len(q) + 1) : Inserted(k, p, q, e, Entries) /\ Sorted(p)
<1> DEFINE later == {i \in 1..Len(q) : q[i].expected_value >= e.expected_value}
           k == IF later = {} THEN Len(q) + 1 ELSE Min(later)
<1>1. Len(q) \in Nat
  OBVIOUS
<1>2. /\ \A i \in 1..Len(q) : q[i].expected_value \in Int
      /\ e.expected_value \in Int
  <2>1. \A i \in 1..Len(q) : q[i] \in Entries
    OBVIOUS
  <2> QED BY <2>1 DEF Entries
<1>3. /\ k \in 1..(Len(q) + 1)
      /\ \A i \in 1..Len(q) : i < k => q[i].expected_value <= e.expected_value
      /\ \A i \in 1..Len(q) : i >= k => e.expected_value <= q[i].expected_value
  <2>1. CASE later = {}
    BY <1>1, <1>2, <2>1
  <2>2. CASE later # {}
    <3>1. \E m \in later : \A j \in later : m <= j
      <4>1. later \subseteq Nat
        OBVIOUS
      <4> HIDE DEF later
      <4> QED BY <2>2, <4>1, LeastNatural
    <3>2. k \in later /\ \A j \in later : k <= j
      <4>1. k = CHOOSE m \in later : \A j \in later : m <= j
        BY <2>2 DEF Min
      <4> HIDE DEF later, k
      <4> QED BY <3>1, <4>1
    <3> HIDE DEF k
    <3>3. k \in 1..Len(q) /\ q[k].expected_value >= e.expected_value
      BY <3>2
    <3>4. \A i \in 1..Len(q) : i < k => q[i].expected_value <= e.expected_value
      BY <1>1, <1>2, <3>2, <3>3
    <3>5. \A i \in 1..Len(q) : i >= k => e.expected_value <= q[i].expected_value
      <4> TAKE i \in 1..Len(q)
      <4>1. CASE i = k
        BY <1>2, <3>3, <4>1
      <4>2. CASE i > k
        <5>1. q[k].expected_value <= q[i].expected_value
          BY <3>3, <4>2 DEF Sorted
        <5> QED BY <1>2, <3>3, <5>1
      <4> QED BY <1>1, <3>3, <4>1, <4>2
    <3> QED BY <1>1, <3>3, <3>4, <3>5
  <2> QED BY <2>1, <2>2
<1>4. p = InsertAt(q, k, e)
  BY DEF Emplace
<1> HIDE DEF k
<1>5. /\ p \in Seq(Entries) /\ Len(p) = Len(q) + 1
      /\ \A i \in 1..(Len(q) + 1) :
           p[i] = IF i < k THEN q[i] ELSE IF i = k THEN e ELSE q[i - 1]
  <2>1. k \in 1..(Len(q) + 1)
    BY <1>3
  <2>2. Inserted(k, p, q, e, Entries)
    BY <1>4, <2>1, InsertIs
  <2> QED BY <2>2 DEF Inserted
<1>6. Sorted(p)
  <2> SUFFICES ASSUME NEW i \in 1..(Len(q) + 1), NEW j \in 1..(Len(q) + 1), i < j
               PROVE  p[i].expected_value <= p[j].expected_value
    BY <1>5 DEF Sorted
  <2>1. \A a, b \in 1..Len(q) : a < b => q[a].expected_value <= q[b].expected_value
    BY DEF Sorted
  <2>2. CASE j < k
    BY <1>1, <1>3, <1>5, <2>1, <2>2
  <2>3. CASE j = k
    BY <1>1, <1>3, <1>5, <2>3
  <2>4. CASE j > k /\ i >= k
    <3>1. CASE i = k
      <4>1. j - 1 \in 1..Len(q) /\ j - 1 >= k /\ ~(j < k) /\ j # k /\ ~(i < k)
        BY <1>1, <1>3, <2>4, <3>1
      <4>2. p[i] = e /\ p[j] = q[j - 1]
        BY <1>5, <3>1, <4>1
      <4> QED BY <1>3, <4>1, <4>2
    <3>2. CASE i > k
      <4>1. /\ j - 1 \in 1..Len(q) /\ i - 1 \in 1..Len(q) /\ i - 1 < j - 1
            /\ ~(j < k) /\ j # k /\ ~(i < k) /\ i # k
        BY <1>1, <1>3, <2>4, <3>2
      <4>2. p[i] = q[i - 1] /\ p[j] = q[j - 1]
        BY <1>5, <4>1
      <4> QED BY <2>1, <4>1, <4>2
    <3> QED BY <1>3, <2>4, <3>1, <3>2
  <2>5. CASE j > k /\ i < k
    <3>1. p[i] = q[i] /\ p[j] = q[j - 1] /\ i \in 1..Len(q) /\ j - 1 \in 1..Len(q)
          /\ j - 1 >= k
      BY <1>1, <1>3, <1>5, <2>5
    <3> QED BY <1>2, <1>3, <2>5, <3>1
  <2> QED BY <1>3, <2>2, <2>3, <2>4, <2>5
<1>7. Inserted(k, p, q, e, Entries)
  BY <1>5 DEF Inserted
<1> QED BY <1>3, <1>6, <1>7

\* DeregisterAction() takes one entry out or none; the list stays ordered.
LEMMA EraseIs ==
  ASSUME NEW q \in Seq(Entries), NEW e, Sorted(q), NEW p, p = Erase(q, e)
  PROVE  \/ p = q /\ \A i \in 1..Len(q) : q[i] # e
         \/ \E k \in 1..Len(q) :
              /\ q[k] = e /\ p \in Seq(Entries) /\ Len(p) = Len(q) - 1
              /\ \A i \in 1..(Len(q) - 1) : p[i] = IF i < k THEN q[i] ELSE q[i + 1]
              /\ Sorted(p)
<1>1. Len(q) \in Nat /\ Range(q) = {q[i] : i \in 1..Len(q)}
  BY DEF Range
<1>2. CASE e \notin Range(q)
  BY <1>1, <1>2 DEF Erase
<1>3. CASE e \in Range(q)
  <2> DEFINE First(i) == q[i] = e /\ \A j \in 1..(i - 1) : q[j] # e
             k == CHOOSE i \in 1..Len(q) : First(i)
             S == {i \in 1..Len(q) : q[i] = e}
  <2>1. \E i \in 1..Len(q) : First(i)
    <3>1. S \subseteq Nat /\ S # {}
      BY <1>1, <1>3
    <3>2. PICK i \in S : \A j \in S : i <= j
      <4> HIDE DEF S
      <4> QED BY <3>1, LeastNatural
    <3>3. \A j \in 1..(i - 1) : j \in 1..Len(q) /\ ~(i <= j)
      BY <1>1, <3>2
    <3> QED BY <3>2, <3>3
  <2>2. k \in 1..Len(q) /\ q[k] = e
    <3> HIDE DEF First
    <3>1. k \in 1..Len(q) /\ First(k)
      BY <2>1
    <3> QED BY <3>1 DEF First
  <2>3. p = RemoveAt(q, k)
    BY <1>3 DEF Erase
  <2> HIDE DEF k
  <2>4. /\ p \in Seq(Entries) /\ Len(p) = Len(q) - 1
        /\ \A i \in 1..(Len(q) - 1) : p[i] = IF i < k THEN q[i] ELSE q[i + 1]
    BY <2>2, <2>3, RemoveIs
  <2>5. Sorted(p)
    <3> SUFFICES ASSUME NEW i \in 1..(Len(q) - 1), NEW j \in 1..(Len(q) - 1), i < j
                 PROVE  p[i].expected_value <= p[j].expected_value
      BY <2>4 DEF Sorted
    <3>1. PICK a, b \in 1..Len(q) : a < b /\ p[i] = q[a] /\ p[j] = q[b]
      <4>1. CASE j < k
        <5>1. i \in 1..Len(q) /\ j \in 1..Len(q) /\ i < k
          BY <1>1, <2>2, <4>1
        <5>2. p[i] = q[i] /\ p[j] = q[j]
          BY <2>4, <4>1, <5>1
        <5> QED BY <5>1, <5>2
      <4>2. CASE i < k /\ ~(j < k)
        <5>1. i \in 1..Len(q) /\ j + 1 \in 1..Len(q) /\ i < j + 1 /\ p[i] = q[i] /\ p[j] = q[j + 1]
          BY <1>1, <2>4, <4>2
        <5> QED BY <5>1
      <4>3. CASE ~(i < k)
        <5>1. i + 1 \in 1..Len(q) /\ j + 1 \in 1..Len(q) /\ i + 1 < j + 1 /\ ~(j < k)
          BY <1>1, <2>2, <4>3
        <5>2. p[i] = q[i + 1] /\ p[j] = q[j + 1]
          BY <2>4, <4>3, <5>1
        <5> QED BY <5>1, <5>2
      <4> QED BY <4>1, <4>2, <4>3
    <3> QED BY <3>1 DEF Sorted
  <2> QED BY <2>2, <2>4, <2>5
<1> QED BY <1>2, <1>3

-----------------------------------------------------------------------------
(* What a step leaves alone.                                               *)

\* The invariant of one thread.
ThreadOK(t) == Shape(t) /\ Locks(t) /\ Locals(t)

USE DEF At

\* The thread of a call goes on; the others keep what they rely on.
LEMMA OthersKeep ==
  ASSUME NEW u \in Threads, ThreadOK(u), call'[u] = call[u],
         HasGuard(u) => guard' = u,
         HasMutex(u) => events_mutex' = u,
         At(u) \in {"register", "register_lock", "deregister"} =>
           /\ events'[call[u].tag].assigned_syncpt = events[call[u].tag].assigned_syncpt
           /\ events'[call[u].tag].assigned_value = events[call[u].tag].assigned_value,
         At(u) = "deregister" => events'[call[u].tag].status # "Waiting",
         Increments(u) => call[u].value <= syncpoint'[call[u].id],
         Erases(u) => action_storage'[call[u].id] = action_storage[call[u].id]
  PROVE  ThreadOK(u)'
<1>1. /\ Acts(u)' <=> Acts(u)
      /\ Erases(u)' <=> Erases(u)
      /\ Registers(u)' <=> Registers(u)
  BY DEF Acts, Erases, Registers
<1>2. /\ HasGuard(u)' <=> HasGuard(u)
      /\ HasMutex(u)' <=> HasMutex(u)
      /\ Increments(u)' <=> Increments(u)
  BY <1>1 DEF HasGuard, HasMutex, Increments
<1>3. Shape(u)'
  BY <1>1 DEF ThreadOK, Shape
<1>4. Locks(u)'
  BY <1>2 DEF Locks
<1>5. Locals(u)'
  BY <1>1, <1>2 DEF ThreadOK, Locals
<1> QED BY <1>3, <1>4, <1>5 DEF ThreadOK

\* A slot stays served while its thread, its entry and its increment stay.
LEMMA ServedKept ==
  ASSUME NEW s \in Slots, Served(s),
         action_storage' = action_storage, syncpoint' = syncpoint,
         events'[s].assigned_syncpt = events[s].assigned_syncpt,
         events'[s].assigned_value = events[s].assigned_value,
         \A t \in Threads : Handles(t, s) => Handles(t, s)',
         \A t \in Threads : Erases(t)' => Erases(t) /\ call'[t].id = call[t].id,
         \A t \in Threads : Increments(t) =>
           Increments(t)' /\ call'[t].id = call[t].id /\ call'[t].value = call[t].value
  PROVE  Served(s)'
<1>1. Listed(s) => Listed(s)'
  BY DEF Listed, Left
<1>2. Reached(s)' => Reached(s)
  BY DEF Reached
<1> QED BY <1>1, <1>2 DEF Served

\* A slot that is not torn stays as it is.
LEMMA SingleKept ==
  ASSUME NEW s \in Slots, Single(s),
         action_storage' = action_storage,
         \A id \in Syncpoints : syncpoint'[id] >= syncpoint[id],
         syncpoint \in [Syncpoints -> Nat], syncpoint' \in [Syncpoints -> Nat],
         events[s].assigned_value \in Nat,
         events'[s].status = events[s].status,
         events'[s].registered = events[s].registered,
         events'[s].assigned_syncpt = events[s].assigned_syncpt,
         events'[s].assigned_value = events[s].assigned_value,
         \A t \in Threads : Erases(t) => Erases(t)' /\ call'[t].id = call[t].id,
         \A t \in Threads : Holds(t, s)' => Holds(t, s) /\ call'[t].at = call[t].at,
         \A t \in Threads : Takes(t, s) => Takes(t, s)',
         \A t \in Threads : call'[t].at = "cancel_store" /\ call'[t].tag = s =>
           call[t].at = "cancel_store" /\ call[t].tag = s
  PROVE  Single(s)'
<1>1. \A id \in Syncpoints : Left(id)' \subseteq Left(id)
  BY DEF Left
<1>2. Waits(s) => Waits(s)'
  BY DEF Waits
<1>3. Reached(s) => Reached(s)'
  BY DEF Reached
<1>4. IsBeingUsed(s)' <=> IsBeingUsed(s)
  BY DEF IsBeingUsed
<1>5. NoAction(s) => NoAction(s)'
  BY <1>1 DEF NoAction
<1> QED BY <1>1, <1>2, <1>3, <1>4, <1>5 DEF Single

\* The parts of the invariant.
Threaded == \A t \in Threads : ThreadOK(t)
Ordered == \A id \in Syncpoints : Sorted(action_storage[id])
AllServed == \A s \in Slots : events[s].status = "Waiting" => Served(s)
AllSingle == \A s \in Slots \ torn : Single(s)

\* What the types say.
LEMMA TypeFacts ==
  ASSUME Types
  PROVE  /\ \A t \in Threads : call[t] \in Calls
         /\ \A s \in Slots : /\ events[s].assigned_value \in 0..MaxValue
                             /\ events[s].assigned_value \in Nat
         /\ syncpoint \in [Syncpoints -> Nat]
         /\ \A id \in Syncpoints : action_storage[id] \in Seq(Entries)
         /\ MaxValue \in Nat /\ MaxNvEvents \in Nat /\ \A s \in Slots : s \in 0..MaxNvEvents
BY SyncpointAssumption, NvHostAssumption DEF Types, TypeOK, Slots

\* The fields of a slot that its action depends on.
SameSlots ==
  \A s \in Slots : /\ events'[s].status = events[s].status
                   /\ events'[s].registered = events[s].registered
                   /\ events'[s].assigned_syncpt = events[s].assigned_syncpt
                   /\ events'[s].assigned_value = events[s].assigned_value

\* The mutexes the others hold are still theirs after a step of t.
LEMMA MutexesKept ==
  ASSUME NEW t \in Threads, NEW u \in Threads, u # t, ThreadOK(u),
         guard' = guard \/ guard \in {t, NONE},
         events_mutex' = events_mutex \/ events_mutex \in {t, NONE}
  PROVE  /\ HasGuard(u) => guard' = u
         /\ HasMutex(u) => events_mutex' = u
BY SyncpointAssumption DEF ThreadOK, Locks

\* A thread goes on from a place that stands for no action to another one.
LEMMA GoesOn ==
  ASSUME Inv, NEW t \in Threads,
         \A u \in Threads : u # t => call'[u] = call[u],
         Types', ThreadOK(t)', SameSlots,
         action_storage' = action_storage, syncpoint' = syncpoint, torn' = torn,
         guard' = guard \/ guard \in {t, NONE},
         events_mutex' = events_mutex \/ events_mutex \in {t, NONE},
         ~Erases(t), ~Erases(t)',
         Increments(t) =>
           Increments(t)' /\ call'[t].id = call[t].id /\ call'[t].value = call[t].value,
         call[t].at \notin {"register", "register_lock", "action", "deregister"},
         call'[t].at \notin {"register", "register_lock", "action", "action_signal",
                            "action_store", "cancel_store"}
  PROVE  Inv'
<1>1. Types /\ Threaded /\ Ordered /\ AllServed /\ AllSingle
  BY DEF Inv, Threaded, ThreadOK, Ordered, AllServed, AllSingle
<1>2. ASSUME NEW u \in Threads, u # t
      PROVE  /\ ThreadOK(u)'
             /\ Erases(u)' <=> Erases(u)
             /\ Increments(u)' <=> Increments(u)
  <2>1. ThreadOK(u) /\ call'[u] = call[u]
    BY <1>1, <1>2 DEF Threaded
  <2>2. At(u) \in {"register", "register_lock", "deregister"} => call[u].tag \in Slots
    BY <2>1 DEF ThreadOK, Shape
  <2>3. ThreadOK(u)'
    <3>1. /\ HasGuard(u) => guard' = u
          /\ HasMutex(u) => events_mutex' = u
      BY <1>2, <2>1, MutexesKept
    <3> QED BY <2>1, <2>2, <3>1, OthersKeep DEF ThreadOK, Locals, SameSlots
  <2> QED BY <2>1, <2>3 DEF Erases, Acts, Increments
<1>3. Threaded'
  BY <1>2 DEF Threaded
<1>4. \A u \in Threads :
        /\ Erases(u)' <=> Erases(u)
        /\ Erases(u) => call'[u].id = call[u].id
        /\ Increments(u) =>
             Increments(u)' /\ call'[u].id = call[u].id /\ call'[u].value = call[u].value
        /\ call'[u].at = "cancel_store" => call[u].at = "cancel_store" /\ call'[u].tag = call[u].tag
  <2> TAKE u \in Threads
  <2>1. CASE u = t
    BY <2>1
  <2>2. CASE u # t
    BY <1>2, <2>2
  <2> QED BY <2>1, <2>2
<1>5. \A u \in Threads, s \in Slots :
        /\ Handles(u, s) => Handles(u, s)'
        /\ Holds(u, s)' => Holds(u, s) /\ call'[u].at = call[u].at
        /\ Takes(u, s) => Takes(u, s)'
  BY DEF Handles, Holds, Takes, Acts
<1>6. AllServed'
  <2>1. ASSUME NEW s \in Slots, events'[s].status = "Waiting" PROVE Served(s)'
    <3>1. /\ Served(s)
          /\ events'[s].assigned_syncpt = events[s].assigned_syncpt
          /\ events'[s].assigned_value = events[s].assigned_value
      BY <1>1, <2>1 DEF AllServed, SameSlots
    <3>2. /\ \A u \in Threads : Handles(u, s) => Handles(u, s)'
          /\ \A u \in Threads : Erases(u)' => Erases(u) /\ call'[u].id = call[u].id
          /\ \A u \in Threads : Increments(u) =>
               Increments(u)' /\ call'[u].id = call[u].id /\ call'[u].value = call[u].value
      BY <1>4, <1>5
    <3> QED BY <3>1, <3>2, ServedKept
  <2> QED BY <2>1 DEF AllServed
<1>7. AllSingle'
  <2>1. ASSUME NEW s \in Slots, s \notin torn PROVE Single(s)'
    <3>1. Single(s) /\ syncpoint \in [Syncpoints -> Nat] /\ events[s].assigned_value \in Nat
      BY <1>1, <2>1, TypeFacts DEF AllSingle
    <3>2. /\ events'[s].status = events[s].status
          /\ events'[s].registered = events[s].registered
          /\ events'[s].assigned_syncpt = events[s].assigned_syncpt
          /\ events'[s].assigned_value = events[s].assigned_value
          /\ \A id \in Syncpoints : syncpoint'[id] >= syncpoint[id]
          /\ syncpoint' \in [Syncpoints -> Nat]
      BY <3>1 DEF SameSlots
    <3>3. /\ \A u \in Threads : Erases(u) => Erases(u)' /\ call'[u].id = call[u].id
          /\ \A u \in Threads : Holds(u, s)' => Holds(u, s) /\ call'[u].at = call[u].at
          /\ \A u \in Threads : Takes(u, s) => Takes(u, s)'
          /\ \A u \in Threads : call'[u].at = "cancel_store" /\ call'[u].tag = s =>
               call[u].at = "cancel_store" /\ call[u].tag = s
      BY <1>4, <1>5
    <3> QED BY <3>1, <3>2, <3>3, SingleKept
  <2> QED BY <2>1 DEF AllSingle
<1>8. Ordered'
  BY <1>1 DEF Ordered
<1> QED BY <1>3, <1>6, <1>7, <1>8 DEF Inv, Threaded, ThreadOK, Ordered, AllServed, AllSingle

\* The fields of a slot.
Fields == [status : EventState, fails : 0..(MaxFails + 1),
           assigned_syncpt : Syncpoints \cup {NONE},
           assigned_value : 0..MaxValue, registered : BOOLEAN]

\* Forgetting the failures of a slot changes nothing else.
LEMMA UnmarkFailIs ==
  ASSUME Types, NEW s, events' = UnmarkFail(s)
  PROVE  events' \in [Slots -> Fields] /\ SameSlots
<1>1. events \in [Slots -> Fields] /\ 0 \in 0..(MaxFails + 1)
  BY NvHostAssumption DEF Types, TypeOK, Fields
<1>2. CASE s \notin Slots
  BY <1>1, <1>2 DEF UnmarkFail, SameSlots
<1>3. CASE s \in Slots
  <2>1. events' = [events EXCEPT ![s].fails = 0]
    BY <1>3 DEF UnmarkFail
  <2>2. events[s] \in Fields
    BY <1>1, <1>3
  <2>3. [events[s] EXCEPT !.fails = 0] \in Fields
    BY <1>1, <2>2 DEF Fields
  <2> QED BY <1>1, <1>3, <2>1, <2>2, <2>3 DEF SameSlots, Fields
<1> QED BY <1>2, <1>3

\* A step that touches neither calls nor slots nor lists.
LEMMA NothingChanges ==
  ASSUME Inv, TypeOK',
         UNCHANGED <<call, events, action_storage, syncpoint, torn, guard, events_mutex>>
  PROVE  Inv'
<1>1. /\ call' = call /\ events' = events /\ action_storage' = action_storage
      /\ syncpoint' = syncpoint /\ torn' = torn /\ guard' = guard
      /\ events_mutex' = events_mutex
  OBVIOUS
<1>2. \A t \in Threads : (Acts(t)' <=> Acts(t)) /\ (Erases(t)' <=> Erases(t))
                         /\ (Registers(t)' <=> Registers(t))
  BY <1>1 DEF Acts, Erases, Registers
<1>3. \A t \in Threads : (Shape(t) /\ Locks(t) /\ Locals(t) => Shape(t)' /\ Locks(t)' /\ Locals(t)')
                         /\ (Increments(t)' <=> Increments(t))
  BY <1>1, <1>2 DEF Shape, Locks, Locals, HasGuard, HasMutex, Increments
<1>4. \A t \in Threads, s \in Slots :
        /\ Handles(t, s)' <=> Handles(t, s)
        /\ Holds(t, s)' <=> Holds(t, s)
        /\ Takes(t, s)' <=> Takes(t, s)
  BY <1>1, <1>2 DEF Handles, Holds, Takes
<1>5. \A id \in Syncpoints : Left(id)' = Left(id)
  BY <1>1, <1>2 DEF Left
<1>6. \A s \in Slots : Served(s) => Served(s)'
  BY <1>1, <1>3, <1>4, <1>5 DEF Served, Listed, Reached
<1>7. \A s \in Slots : Single(s) => Single(s)'
  BY <1>1, <1>4, <1>5 DEF Single, NoAction, Waits, Reached, IsBeingUsed
<1>8. Types'
  BY <1>1 DEF Inv, Types
<1> QED BY <1>1, <1>3, <1>6, <1>7, <1>8 DEF Inv

\* The steps of a wait up to the lock.
LEMMA EventWaitStep ==
  ASSUME Inv, NEW t \in Threads, NEW s \in 0..MaxNvEvents, NEW id \in Syncpoints,
         NEW value \in 0..MaxValue, EventWait(t, s, id, value)
  PROVE  Inv'
<1>1. At(t) = "idle" /\ Types
  BY DEF EventWait, Inv
<1>2. CASE events' = UnmarkFail(s) /\ UNCHANGED call
  <2>1. TypeOK' /\ SameSlots
    <3>1. events' \in [Slots -> Fields] /\ SameSlots
      BY <1>1, <1>2, UnmarkFailIs
    <3> QED BY <1>1, <3>1 DEF EventWait, Types, TypeOK, Fields
  <2>2. Types' /\ ThreadOK(t)'
    BY <1>1, <1>2, <2>1 DEF EventWait, Types, ThreadOK, Shape, Locks, Locals, HasGuard,
       HasMutex, Registers, Increments, Erases, Acts
  <2> QED BY <1>1, <1>2, <2>1, <2>2, GoesOn DEF EventWait, Erases, Acts, Increments
<1>3. CASE /\ call' = [call EXCEPT ![t] = [Idle EXCEPT !.at = "update_min", !.id = id,
                                                      !.value = value, !.tag = s]]
           /\ UNCHANGED events
  <2>1. call'[t] = [Idle EXCEPT !.at = "update_min", !.id = id, !.value = value, !.tag = s]
        /\ \A u \in Threads : u # t => call'[u] = call[u]
    BY <1>1, <1>3 DEF Types
  <2>2. call'[t].at = "update_min" /\ call'[t].id = id /\ call'[t] \in Calls
    BY <2>1 DEF Idle, Calls, Places
  <2>3. call' \in [Threads -> Calls]
    BY <1>1, <1>3, <2>1, <2>2 DEF Types
  <2>4. Types' /\ ThreadOK(t)'
    BY <1>1, <1>3, <2>2, <2>3 DEF EventWait, Types, TypeOK, ThreadOK, Shape, Locks, Locals,
       HasGuard, HasMutex, Registers, Increments, Erases, Acts
  <2> QED BY <1>1, <1>3, <2>1, <2>2, <2>4, GoesOn DEF EventWait, SameSlots, Erases, Acts, Increments
<1> QED BY <1>2, <1>3 DEF EventWait

\* A thread that only moves to another place.
LEMMA Moves ==
  ASSUME Types, NEW t \in Threads, NEW place \in Places, Goto(t, place)
  PROVE  /\ call' \in [Threads -> Calls] /\ call'[t].at = place
         /\ call'[t].id = call[t].id /\ call'[t].value = call[t].value
         /\ call'[t].tag = call[t].tag /\ call'[t].back = call[t].back
         /\ \A u \in Threads : u # t => call'[u] = call[u]
BY DEF Types, Goto, Calls

\* A thread that returns to its guest.
LEMMA Returns ==
  ASSUME Types, NEW t \in Threads, Return(t)
  PROVE  /\ call' \in [Threads -> Calls] /\ call'[t].at = "idle" /\ call'[t] = Idle
         /\ \A u \in Threads : u # t => call'[u] = call[u]
<1>1. Idle \in Calls
  BY TypeFacts DEF Idle, Calls, Places
<1> QED BY <1>1 DEF Types, Return, Idle

\* The look at the counter before the lock.
LEMMA UpdateMinStep ==
  ASSUME Inv, NEW t \in Threads, UpdateMin(t)
  PROVE  Inv'
<1>1. /\ call[t].at = "update_min" /\ Types /\ ThreadOK(t)
      /\ call[t].id \in Syncpoints
      /\ counter_min' = [counter_min EXCEPT ![call[t].id] = syncpoint[call[t].id]]
      /\ syncpoint' = syncpoint /\ action_storage' = action_storage /\ guard' = guard
      /\ events_mutex' = events_mutex /\ torn' = torn /\ signaled' = signaled /\ fault' = fault
      /\ counter_max' = counter_max
  BY DEF UpdateMin, Inv, ThreadOK, Shape
<1>2. counter_min' \in [Syncpoints -> 0..MaxValue]
  BY <1>1 DEF Types, TypeOK
<1>3. events' \in [Slots -> Fields] /\ SameSlots
  <2>1. CASE events' = UnmarkFail(call[t].tag)
    BY <1>1, <2>1, UnmarkFailIs
  <2>2. CASE events' = events
    BY <1>1, <2>2 DEF SameSlots, Types, TypeOK, Fields
  <2> QED BY <2>1, <2>2 DEF UpdateMin
<1>4. /\ call' \in [Threads -> Calls] /\ call'[t].at \in {"idle", "event_wait"}
      /\ call'[t].at = "event_wait" => call'[t].id \in Syncpoints
      /\ \A u \in Threads : u # t => call'[u] = call[u]
  <2>1. CASE Return(t)
    BY <1>1, <2>1, Returns
  <2>2. CASE Goto(t, "event_wait")
    <3>1. "event_wait" \in Places
      BY DEF Places
    <3> QED BY <1>1, <2>2, <3>1, Moves
  <2> QED BY <2>1, <2>2 DEF UpdateMin
<1>5. Types'
  BY <1>1, <1>2, <1>3, <1>4 DEF Types, TypeOK, Fields
<1>6. ThreadOK(t)'
  BY <1>1, <1>4 DEF ThreadOK, Shape, Locks, Locals, HasGuard, HasMutex,
     Registers, Increments, Erases, Acts
<1>7. ~Erases(t) /\ ~Erases(t)' /\ ~Increments(t)
  BY <1>1, <1>4 DEF Erases, Acts, Increments
<1> QED BY <1>1, <1>3, <1>4, <1>5, <1>6, <1>7, GoesOn

\* A wait returns and gives the lock back.
LEMMA EventWaitReturnStep ==
  ASSUME Inv, NEW t \in Threads, EventWaitReturn(t)
  PROVE  Inv'
<1>1. /\ call[t].at \in {"registered", "waited"} /\ Types /\ ThreadOK(t)
      /\ events_mutex = t /\ events_mutex' = NONE /\ Return(t)
      /\ syncpoint' = syncpoint /\ action_storage' = action_storage /\ guard' = guard
      /\ torn' = torn /\ signaled' = signaled /\ fault' = fault
      /\ counter_max' = counter_max /\ counter_min' = counter_min
  BY DEF EventWaitReturn, Inv, ThreadOK, Locks, HasMutex, Registers
<1>2. events' \in [Slots -> Fields] /\ SameSlots
  <2>1. CASE events' = [events EXCEPT ![call[t].tag].fails = 0] /\ call[t].at = "waited"
    <3>1. events' = UnmarkFail(call[t].tag)
      BY <1>1, <2>1 DEF UnmarkFail, ThreadOK, Shape
    <3> QED BY <1>1, <3>1, UnmarkFailIs
  <2>2. CASE events' = events
    BY <1>1, <2>2 DEF SameSlots, Types, TypeOK, Fields
  <2> QED BY <2>1, <2>2 DEF EventWaitReturn
<1>3. /\ call' \in [Threads -> Calls] /\ call'[t].at = "idle"
      /\ \A u \in Threads : u # t => call'[u] = call[u]
  BY <1>1, Returns
<1>4. Types'
  BY <1>1, <1>2, <1>3 DEF Types, TypeOK, Fields
<1>5. ThreadOK(t)'
  BY <1>1, <1>3 DEF ThreadOK, Shape, Locks, Locals, HasGuard, HasMutex,
     Registers, Increments, Erases, Acts
<1>6. ~Erases(t) /\ ~Erases(t)' /\ ~Increments(t)
  BY <1>1, <1>3 DEF Erases, Acts, Increments
<1> QED BY <1>1, <1>2, <1>3, <1>4, <1>5, <1>6, GoesOn

\* The end of a cancel.
LEMMA ClearKEventStep ==
  ASSUME Inv, NEW t \in Threads, ClearKEvent(t)
  PROVE  Inv'
<1>1. /\ call[t].at = "clear_kevent" /\ Types /\ ThreadOK(t)
      /\ events_mutex = t /\ events_mutex' = NONE /\ Return(t)
      /\ syncpoint' = syncpoint /\ action_storage' = action_storage /\ guard' = guard
      /\ torn' = torn /\ fault' = fault /\ events' = events
      /\ signaled' = [signaled EXCEPT ![call[t].tag] = FALSE]
      /\ counter_max' = counter_max /\ counter_min' = counter_min
  BY DEF ClearKEvent, Inv, ThreadOK, Locks, HasMutex
<1>2. /\ call' \in [Threads -> Calls] /\ call'[t].at = "idle"
      /\ \A u \in Threads : u # t => call'[u] = call[u]
  BY <1>1, Returns
<1>3. Types'
  BY <1>1, <1>2 DEF Types, TypeOK
<1>4. ThreadOK(t)'
  BY <1>1, <1>2 DEF ThreadOK, Shape, Locks, Locals, HasGuard, HasMutex,
     Registers, Increments, Erases, Acts
<1>5. ~Erases(t) /\ ~Erases(t)' /\ ~Increments(t) /\ SameSlots
  BY <1>1, <1>2 DEF Erases, Acts, Increments, SameSlots
<1> QED BY <1>1, <1>2, <1>3, <1>4, <1>5, GoesOn

\* The steps of RegisterAction(), Increment() and Wait() that touch no list.
LEMMA PlainStep ==
  ASSUME Inv, NEW t \in Threads, UNCHANGED nvVars,
         RegisterUnlock(t) \/ IncrementLock(t) \/ WaitCheck(t) \/ WaitSleep(t)
  PROVE  Inv'
<1>1. PICK place : Goto(t, place) /\ place \in {"registered", "increment_loop", "waited",
                                               "wait_lock", "waiting"}
  BY DEF RegisterUnlock, IncrementLock, WaitCheck, WaitSleep
<1>2. /\ Types /\ ThreadOK(t) /\ place \in Places
      /\ syncpoint' = syncpoint /\ action_storage' = action_storage
      /\ events' = events /\ events_mutex' = events_mutex /\ torn' = torn
      /\ signaled' = signaled /\ fault' = fault
      /\ counter_max' = counter_max /\ counter_min' = counter_min
  BY <1>1 DEF Inv, ThreadOK, Places, RegisterUnlock, IncrementLock, WaitCheck, WaitSleep, nvVars
<1>3. /\ call' \in [Threads -> Calls] /\ call'[t].at = place
      /\ call'[t].id = call[t].id /\ call'[t].value = call[t].value
      /\ call'[t].tag = call[t].tag /\ call'[t].back = call[t].back
      /\ \A u \in Threads : u # t => call'[u] = call[u]
  BY <1>1, <1>2, Moves
<1>4. /\ call[t].at \in {"register_unlock", "increment", "wait", "wait_lock"}
      /\ call[t].at = "register_unlock" => guard = t /\ guard' = NONE /\ place = "registered"
      /\ call[t].at = "increment" => guard = NONE /\ guard' = t /\ place = "increment_loop"
      /\ call[t].at \in {"wait", "wait_lock"} =>
           guard' = guard /\ place \in {"waited", "wait_lock", "waiting"}
  <2>1. CASE RegisterUnlock(t)
    <3>1. place = "registered"
      BY <1>1, <1>2, <1>3, <2>1, Moves DEF RegisterUnlock, Places
    <3> QED BY <1>2, <2>1, <3>1 DEF RegisterUnlock, ThreadOK, Locks, HasGuard
  <2>2. CASE IncrementLock(t)
    <3>1. place = "increment_loop"
      BY <1>1, <1>2, <1>3, <2>2, Moves DEF IncrementLock, Places
    <3> QED BY <2>2, <3>1 DEF IncrementLock
  <2>3. CASE WaitCheck(t) \/ WaitSleep(t)
    <3>1. place \in {"waited", "wait_lock", "waiting"}
      BY <1>1, <1>2, <1>3, <2>3, Moves DEF WaitCheck, WaitSleep, Places
    <3> QED BY <2>3, <3>1 DEF WaitCheck, WaitSleep
  <2> QED BY <2>1, <2>2, <2>3
<1>5. Types'
  <2>1. guard' \in Threads \cup {NONE}
    BY <1>2, <1>4 DEF Types, TypeOK
  <2> QED BY <1>2, <1>3, <2>1 DEF Types, TypeOK
<1>6. ThreadOK(t)'
  BY <1>2, <1>3, <1>4 DEF ThreadOK, Shape, Locks, Locals, HasGuard, HasMutex,
     Registers, Increments, Erases, Acts
<1>7. /\ ~Erases(t) /\ ~Erases(t)' /\ SameSlots
      /\ Increments(t) =>
           Increments(t)' /\ call'[t].id = call[t].id /\ call'[t].value = call[t].value
  BY <1>1, <1>2, <1>3, <1>4 DEF Erases, Acts, Increments, SameSlots
<1> QED BY <1>1, <1>2, <1>3, <1>4, <1>5, <1>6, <1>7, GoesOn

\* Places where a call stands for the action of a slot, or cancels it.
Special == {"register", "register_lock", "action", "action_signal", "action_store",
            "deregister", "cancel_store"}

\* A step of one thread that touches some slots and no list: what it has to keep
\* for those slots, the rest is kept.
LEMMA Touches ==
  ASSUME Inv, NEW t \in Threads, NEW S \in SUBSET Slots,
         \A u \in Threads : u # t => call'[u] = call[u],
         Types', ThreadOK(t)',
         \A r \in Slots : r \notin S => events'[r] = events[r],
         action_storage' = action_storage, syncpoint' = syncpoint,
         torn \subseteq torn', torn' \subseteq torn \cup S,
         guard' = guard \/ guard \in {t, NONE},
         events_mutex' = events_mutex \/ events_mutex \in {t, NONE},
         Erases(t)' <=> Erases(t), Erases(t) => call'[t].id = call[t].id,
         Increments(t) =>
           Increments(t)' /\ call'[t].id = call[t].id /\ call'[t].value = call[t].value,
         call[t].tag \in S \/ call[t].at \notin Special,
         call'[t].tag \in S \/ call'[t].at \notin Special,
         \A u \in Threads : u # t /\ call[u].tag \in S =>
           /\ At(u) \in {"register", "register_lock", "deregister"} =>
                /\ events'[call[u].tag].assigned_syncpt = events[call[u].tag].assigned_syncpt
                /\ events'[call[u].tag].assigned_value = events[call[u].tag].assigned_value
           /\ At(u) = "deregister" => events'[call[u].tag].status # "Waiting",
         \A s \in S : events'[s].status = "Waiting" => Served(s)',
         \A s \in S : s \notin torn' => Single(s)'
  PROVE  Inv'
<1>1. Types /\ Threaded /\ Ordered /\ AllServed /\ AllSingle
  BY DEF Inv, Threaded, ThreadOK, Ordered, AllServed, AllSingle
<1>2. ASSUME NEW u \in Threads, u # t
      PROVE  /\ ThreadOK(u)'
             /\ Erases(u)' <=> Erases(u)
             /\ Increments(u)' <=> Increments(u)
  <2>1. ThreadOK(u) /\ call'[u] = call[u]
    BY <1>1, <1>2 DEF Threaded
  <2>2. At(u) \in {"register", "register_lock", "deregister"} => call[u].tag \in Slots
    BY <2>1 DEF ThreadOK, Shape
  <2>3. ThreadOK(u)'
    <3>1. /\ HasGuard(u) => guard' = u
          /\ HasMutex(u) => events_mutex' = u
      BY <1>2, <2>1, MutexesKept
    <3>2. /\ At(u) \in {"register", "register_lock", "deregister"} =>
               /\ events'[call[u].tag].assigned_syncpt = events[call[u].tag].assigned_syncpt
               /\ events'[call[u].tag].assigned_value = events[call[u].tag].assigned_value
          /\ At(u) = "deregister" => events'[call[u].tag].status # "Waiting"
      BY <1>2, <2>1, <2>2 DEF ThreadOK, Locals
    <3>3. Increments(u) => call[u].value <= syncpoint'[call[u].id]
      BY <2>1 DEF ThreadOK, Locals
    <3> QED BY <2>1, <3>1, <3>2, <3>3, OthersKeep
  <2> QED BY <2>1, <2>3 DEF Erases, Acts, Increments
<1>3. Threaded'
  BY <1>2 DEF Threaded
<1>4. \A u \in Threads :
        /\ Erases(u)' <=> Erases(u)
        /\ Erases(u) => call'[u].id = call[u].id
        /\ Increments(u) =>
             Increments(u)' /\ call'[u].id = call[u].id /\ call'[u].value = call[u].value
  <2> TAKE u \in Threads
  <2>1. CASE u = t
    BY <2>1
  <2>2. CASE u # t
    BY <1>2, <2>2
  <2> QED BY <2>1, <2>2
<1>5. ASSUME NEW s \in Slots, s \notin S
      PROVE  \A u \in Threads :
               /\ Handles(u, s)' <=> Handles(u, s)
               /\ Holds(u, s)' => Holds(u, s) /\ call'[u].at = call[u].at
               /\ Takes(u, s)' <=> Takes(u, s)
               /\ call'[u].at = "cancel_store" /\ call'[u].tag = s =>
                    call[u].at = "cancel_store" /\ call[u].tag = s
  <2> TAKE u \in Threads
  <2>1. CASE u = t
    <3>1. call[t].tag = s => call[t].at \notin Special
      BY <1>5
    <3>2. call'[t].tag = s => call'[t].at \notin Special
      BY <1>5
    <3> QED BY <2>1, <3>1, <3>2 DEF Handles, Holds, Takes, Acts, Special
  <2>2. CASE u # t
    BY <2>2 DEF Handles, Holds, Takes, Acts
  <2> QED BY <2>1, <2>2
<1>6. AllServed'
  <2>1. ASSUME NEW s \in Slots, s \notin S, events'[s].status = "Waiting" PROVE Served(s)'
    <3>1. Served(s) /\ events'[s] = events[s]
      BY <1>1, <2>1 DEF AllServed
    <3>2. /\ \A u \in Threads : Handles(u, s) => Handles(u, s)'
          /\ \A u \in Threads : Erases(u)' => Erases(u) /\ call'[u].id = call[u].id
          /\ \A u \in Threads : Increments(u) =>
               Increments(u)' /\ call'[u].id = call[u].id /\ call'[u].value = call[u].value
      BY <1>4, <1>5, <2>1
    <3> QED BY <3>1, <3>2, ServedKept
  <2> QED BY <2>1 DEF AllServed
<1>7. AllSingle'
  <2>1. ASSUME NEW s \in Slots, s \notin S, s \notin torn' PROVE Single(s)'
    <3>1. Single(s) /\ syncpoint \in [Syncpoints -> Nat] /\ events[s].assigned_value \in Nat
      BY <1>1, <2>1, TypeFacts DEF AllSingle
    <3>2. /\ events'[s] = events[s]
          /\ \A id \in Syncpoints : syncpoint'[id] >= syncpoint[id]
          /\ syncpoint' \in [Syncpoints -> Nat]
      BY <2>1, <3>1
    <3>3. /\ \A u \in Threads : Erases(u) => Erases(u)' /\ call'[u].id = call[u].id
          /\ \A u \in Threads : Holds(u, s)' => Holds(u, s) /\ call'[u].at = call[u].at
          /\ \A u \in Threads : Takes(u, s) => Takes(u, s)'
          /\ \A u \in Threads : call'[u].at = "cancel_store" /\ call'[u].tag = s =>
               call[u].at = "cancel_store" /\ call[u].tag = s
      BY <1>4, <1>5, <2>1
    <3> QED BY <3>1, <3>2, <3>3, SingleKept
  <2> QED BY <2>1 DEF AllSingle
<1>8. Ordered'
  BY <1>1 DEF Ordered
<1> QED BY <1>3, <1>6, <1>7, <1>8 DEF Inv, Threaded, ThreadOK, Ordered, AllServed, AllSingle

\* The host action of a slot takes the slot's status.
LEMMA ActionExchangeStep ==
  ASSUME Inv, NEW t \in Threads, ActionExchange(t)
  PROVE  Inv'
<1>0. PICK s, place :
        /\ s = call[t].tag
        /\ place = IF events[s].status = "Waiting" THEN "action_signal" ELSE "action_store"
  OBVIOUS
<1>1. /\ At(t) = "action" /\ events' = [events EXCEPT ![s].status = "Signalling"]
      /\ call' = [call EXCEPT ![t].at = place]
      /\ UNCHANGED <<syncpoint, action_storage, guard, counter_min, counter_max, signaled,
                     events_mutex, torn, fault>>
  BY <1>0 DEF ActionExchange, Goto
<1>2. s \in Slots /\ Types /\ Threaded /\ Ordered /\ AllServed /\ AllSingle
  BY <1>0, <1>1 DEF Inv, Threaded, ThreadOK, Shape, Acts, Ordered, AllServed, AllSingle
<1>3. /\ call' \in [Threads -> Calls] /\ call'[t].at = place
      /\ \A u \in Threads : u # t => call'[u] = call[u]
      /\ \A u \in Threads : call'[u].tag = call[u].tag /\ call'[u].id = call[u].id
                            /\ call'[u].value = call[u].value /\ call'[u].back = call[u].back
      /\ place \in {"action_signal", "action_store"}
      /\ place = "action_signal" => events[s].status = "Waiting"
  BY <1>0, <1>1, <1>2 DEF Types, Calls, Places
<1>4. /\ TypeOK'
      /\ \A r \in Slots : r # s => events'[r] = events[r]
      /\ \A r \in Slots : /\ events'[r].assigned_syncpt = events[r].assigned_syncpt
                          /\ events'[r].assigned_value = events[r].assigned_value
                          /\ events'[r].registered = events[r].registered
      /\ events'[s].status = "Signalling"
  BY <1>1, <1>2 DEF Types, TypeOK, EventState
<1>5. Threaded'
  <2>1. ASSUME NEW u \in Threads, u # t PROVE ThreadOK(u)'
    <3>1. ThreadOK(u) /\ call'[u] = call[u]
      BY <1>2, <1>3, <1>4, <2>1 DEF Threaded
    <3>2. At(u) \in {"register", "register_lock", "deregister"} => call[u].tag \in Slots
      BY <3>1 DEF ThreadOK, Shape
    <3> QED BY <1>1, <1>3, <1>4, <3>1, <3>2, OthersKeep DEF ThreadOK, Locks, Locals
  <2>2. ThreadOK(t)'
    BY <1>1, <1>2, <1>3, <1>4 DEF Threaded, ThreadOK, Shape, Locks, Locals, HasGuard, HasMutex,
       Registers, Increments, Erases, Acts
  <2> QED BY <2>1, <2>2 DEF Threaded
<1>6. Ordered'
  BY <1>1, <1>2 DEF Ordered
<1>7. \A u \in Threads : /\ Erases(u)' <=> Erases(u)
                         /\ Increments(u)' <=> Increments(u)
  BY <1>1, <1>3, <1>4 DEF Erases, Acts, Increments
<1>8. AllServed'
  <2>1. ASSUME NEW r \in Slots, events'[r].status = "Waiting" PROVE Served(r)'
    <3>1. r # s /\ Served(r)
      BY <1>2, <1>3, <1>4, <2>1 DEF AllServed
    <3>2. \A u \in Threads : Handles(u, r) => Handles(u, r)'
      BY <1>0, <1>3, <1>4, <3>1 DEF Handles
    <3> QED BY <1>1, <1>3, <1>4, <1>7, <3>1, <3>2, ServedKept
  <2> QED BY <2>1 DEF AllServed
<1>9. AllSingle'
  <2>1. ASSUME NEW r \in Slots, r \notin torn, r # s PROVE Single(r)'
    <3>1. Single(r)
      BY <1>2, <2>1 DEF AllSingle
    <3>2. \A u \in Threads : Holds(u, r)' => Holds(u, r) /\ call'[u].at = call[u].at
      BY <1>0, <1>1, <1>3, <2>1 DEF Holds, Acts
    <3>3. \A u \in Threads : Takes(u, r) => Takes(u, r)'
      BY <1>1, <1>3, <1>4 DEF Takes
    <3> QED BY <1>1, <1>2, <1>3, <1>4, <1>7, <2>1, <3>1, <3>2, <3>3, SingleKept, TypeFacts
  <2>2. ASSUME s \notin torn PROVE Single(s)'
    <3>1. Single(s) /\ Holds(t, s)
      BY <1>0, <1>1, <1>2, <2>2 DEF AllSingle, Holds, Acts
    <3>2. /\ \A u \in Threads : Holds(u, s)' => u = t
          /\ events[s].registered
          /\ Reached(s)
          /\ \A id \in Syncpoints : \A i \in Left(id) : action_storage[id][i].tag # s
          /\ \A u \in Threads : ~(call[u].at = "cancel_store" /\ call[u].tag = s)
      BY <1>1, <1>3, <1>4, <3>1 DEF Single, NoAction, Holds, Acts, Waits, IsBeingUsed
    <3>3. \A id \in Syncpoints : Left(id)' = Left(id)
      BY <1>1, <1>3, <1>4, <1>7 DEF Left
    <3>4. Reached(s)'
      BY <1>1, <1>3, <1>4, <3>2 DEF Reached
    <3> QED BY <1>1, <1>3, <1>4, <3>2, <3>3, <3>4 DEF Single
  <2> QED BY <1>1, <2>1, <2>2 DEF AllSingle
<1>10. Types'
  BY <1>1, <1>2, <1>3, <1>4 DEF Types
<1> QED BY <1>10, <1>5, <1>6, <1>8, <1>9 DEF Inv, Threaded, ThreadOK, Ordered, AllServed, AllSingle

\* A slot that is not in use has no action.
LEMMA UnusedHasNoAction ==
  ASSUME NEW s \in Slots, Single(s), ~IsBeingUsed(s) \/ ~events[s].registered
  PROVE  NoAction(s) /\ ~IsBeingUsed(s)
BY DEF Single, NoAction, IsBeingUsed, Waits, Holds, Acts

\* It has none after a step that starts none.
LEMMA StaysWithoutAction ==
  ASSUME NEW s \in Slots, NoAction(s), action_storage' = action_storage,
         \A t \in Threads : Erases(t) => Erases(t)' /\ call'[t].id = call[t].id,
         \A t \in Threads : Holds(t, s)' => Holds(t, s)
  PROVE  NoAction(s)'
BY DEF NoAction, Left

\* Then there is nothing to keep but that a slot in use is registered.
LEMMA SingleWithoutAction ==
  ASSUME NEW s \in Slots, NoAction(s)', IsBeingUsed(s)' => events'[s].registered
  PROVE  Single(s)'
BY DEF NoAction, Single

\* The host action signals the kernel event.
LEMMA ActionSignalStep ==
  ASSUME Inv, NEW t \in Threads, ActionSignal(t)
  PROVE  Inv'
<1>0. PICK s : s = call[t].tag
  OBVIOUS
<1>1. /\ call[t].at = "action_signal" /\ Goto(t, "action_store") /\ events' = events
      /\ (signaled' = [signaled EXCEPT ![s] = TRUE] /\ fault' = fault)
           \/ (fault' = fault \cup {s} /\ signaled' = signaled)
      /\ syncpoint' = syncpoint /\ action_storage' = action_storage /\ guard' = guard
      /\ events_mutex' = events_mutex /\ torn' = torn
      /\ counter_max' = counter_max /\ counter_min' = counter_min
  BY <1>0 DEF ActionSignal
<1>2. Types /\ ThreadOK(t) /\ s \in Slots
  BY <1>0, <1>1 DEF Inv, ThreadOK, Shape, Acts
<1>3. /\ call' \in [Threads -> Calls] /\ call'[t].at = "action_store"
      /\ call'[t].id = call[t].id /\ call'[t].value = call[t].value
      /\ call'[t].tag = call[t].tag /\ call'[t].back = call[t].back
      /\ \A u \in Threads : u # t => call'[u] = call[u]
  <2>1. "action_store" \in Places
    BY DEF Places
  <2> QED BY <1>1, <1>2, <2>1, Moves
<1>4. Types'
  BY <1>1, <1>2, <1>3 DEF Types, TypeOK
<1>5. ThreadOK(t)'
  BY <1>1, <1>2, <1>3 DEF ThreadOK, Shape, Locks, Locals, HasGuard, HasMutex,
     Registers, Increments, Erases, Acts
<1>6. \A u \in Threads : /\ Erases(u)' <=> Erases(u)
                         /\ Increments(u)' <=> Increments(u)
                         /\ Handles(u, s) => Handles(u, s)'
                         /\ Holds(u, s)' <=> Holds(u, s)
                         /\ Takes(u, s)' <=> Takes(u, s)
                         /\ call'[u].id = call[u].id /\ call'[u].value = call[u].value
                         /\ call'[u].tag = call[u].tag
                         /\ u # t => call'[u].at = call[u].at
  BY <1>1, <1>3 DEF Erases, Increments, Acts, Handles, Holds, Takes
<1>7. events'[s].status = "Waiting" => Served(s)'
  BY <1>1, <1>2, <1>6, ServedKept DEF Inv
<1>8. ASSUME s \notin torn' PROVE Single(s)'
  <2>1. Single(s) /\ Holds(t, s)
    BY <1>0, <1>1, <1>2, <1>8 DEF Inv, Holds, Acts
  <2>2. /\ \A u \in Threads : Holds(u, s)' => u = t
        /\ events[s].status = "Signalling" /\ IsBeingUsed(s)
        /\ \A id \in Syncpoints : \A i \in Left(id) : action_storage[id][i].tag # s
        /\ \A u \in Threads : ~(call[u].at = "cancel_store" /\ call[u].tag = s)
    BY <1>1, <1>6, <2>1 DEF Single, NoAction, IsBeingUsed
  <2>3. \A id \in Syncpoints : Left(id)' = Left(id)
    BY <1>1, <1>6 DEF Left
  <2>4. IsBeingUsed(s)' => events'[s].registered
    BY <1>1, <2>1, <2>2 DEF Single
  <2> QED BY <1>1, <1>3, <1>6, <2>2, <2>3, <2>4 DEF Single
<1> QED
  <2>1. /\ call[t].tag \in {s} /\ call'[t].tag \in {s} /\ {s} \in SUBSET Slots
        /\ torn \subseteq torn' /\ torn' \subseteq torn \cup {s}
        /\ \A r \in Slots : r \notin {s} => events'[r] = events[r]
        /\ \A r \in {s} : events'[r].status = "Waiting" => Served(r)'
        /\ \A r \in {s} : r \notin torn' => Single(r)'
    BY <1>0, <1>1, <1>2, <1>3, <1>7, <1>8
  <2>2. \A u \in Threads : u # t /\ call[u].tag \in {s} =>
          /\ At(u) \in {"register", "register_lock", "deregister"} =>
               /\ events'[call[u].tag].assigned_syncpt = events[call[u].tag].assigned_syncpt
               /\ events'[call[u].tag].assigned_value = events[call[u].tag].assigned_value
          /\ At(u) = "deregister" => events'[call[u].tag].status # "Waiting"
    BY <1>1 DEF Inv, Locals
  <2>3. /\ Erases(t)' <=> Erases(t)
        /\ Increments(t) => Increments(t)'
    BY <1>6
  <2> QED BY <1>1, <1>3, <1>4, <1>5, <2>1, <2>2, <2>3, Touches

\* The host action is done.
LEMMA ActionStoreStep ==
  ASSUME Inv, NEW t \in Threads, ActionStore(t)
  PROVE  Inv'
<1>0. PICK s, place : s = call[t].tag /\ place = call[t].back
  OBVIOUS
<1>1. /\ call[t].at = "action_store" /\ Goto(t, place)
      /\ events' = [events EXCEPT ![s].status = "Signalled"]
      /\ syncpoint' = syncpoint /\ action_storage' = action_storage /\ guard' = guard
      /\ events_mutex' = events_mutex /\ torn' = torn /\ signaled' = signaled /\ fault' = fault
      /\ counter_max' = counter_max /\ counter_min' = counter_min
  BY <1>0 DEF ActionStore
<1>2. /\ Types /\ ThreadOK(t) /\ s \in Slots
      /\ place \in {"register_unlock", "registered", "increment_erase"}
  BY <1>0, <1>1 DEF Inv, ThreadOK, Shape, Acts
<1>3. /\ call' \in [Threads -> Calls] /\ call'[t].at = place
      /\ call'[t].id = call[t].id /\ call'[t].value = call[t].value
      /\ call'[t].tag = call[t].tag /\ call'[t].back = call[t].back
      /\ \A u \in Threads : u # t => call'[u] = call[u]
  <2>1. place \in Places
    BY <1>2 DEF Places
  <2> QED BY <1>1, <1>2, <2>1, Moves
<1>4. /\ events' \in [Slots -> Fields] /\ events'[s].status = "Signalled"
      /\ \A r \in Slots : r # s => events'[r] = events[r]
      /\ \A r \in Slots : /\ events'[r].assigned_syncpt = events[r].assigned_syncpt
                          /\ events'[r].assigned_value = events[r].assigned_value
  BY <1>1, <1>2 DEF Types, TypeOK, Fields, EventState
<1>5. Types'
  BY <1>1, <1>2, <1>3, <1>4 DEF Types, TypeOK, Fields
<1>6. ThreadOK(t)'
  BY <1>0, <1>1, <1>2, <1>3 DEF ThreadOK, Shape, Locks, Locals, HasGuard, HasMutex,
     Registers, Increments, Erases, Acts
<1>7. \A u \in Threads : /\ Erases(u)' <=> Erases(u)
                         /\ Increments(u)' <=> Increments(u)
                         /\ Holds(u, s)' => Holds(u, s) /\ u # t
                         /\ call'[u].id = call[u].id /\ call'[u].value = call[u].value
  BY <1>0, <1>1, <1>2, <1>3 DEF Erases, Increments, Acts, Holds
<1>8. ASSUME s \notin torn' PROVE Single(s)'
  <2>1. Single(s) /\ Holds(t, s)
    BY <1>0, <1>1, <1>2, <1>8 DEF Inv, Holds, Acts
  <2>2. /\ \A u \in Threads : Holds(u, s) => u = t
        /\ \A id \in Syncpoints : \A i \in Left(id) : action_storage[id][i].tag # s
    BY <2>1 DEF Single
  <2>3. \A id \in Syncpoints : Left(id)' = Left(id)
    BY <1>1, <1>7 DEF Left
  <2>4. NoAction(s)' /\ ~IsBeingUsed(s)'
    BY <1>1, <1>4, <1>7, <2>2, <2>3 DEF NoAction, IsBeingUsed
  <2> QED BY <1>2, <2>4, SingleWithoutAction
<1> QED
  <2>1. /\ call[t].tag \in {s} \/ call[t].at \notin Special
        /\ call'[t].tag \in {s} \/ call'[t].at \notin Special
        /\ {s} \in SUBSET Slots
        /\ torn \subseteq torn' /\ torn' \subseteq torn \cup {s}
        /\ \A r \in Slots : r \notin {s} => events'[r] = events[r]
        /\ \A r \in {s} : events'[r].status = "Waiting" => Served(r)'
        /\ \A r \in {s} : r \notin torn' => Single(r)'
    BY <1>0, <1>1, <1>2, <1>3, <1>4, <1>8 DEF Special
  <2>2. \A u \in Threads : u # t /\ call[u].tag \in {s} =>
          /\ At(u) \in {"register", "register_lock", "deregister"} =>
               /\ events'[call[u].tag].assigned_syncpt = events[call[u].tag].assigned_syncpt
               /\ events'[call[u].tag].assigned_value = events[call[u].tag].assigned_value
          /\ At(u) = "deregister" => events'[call[u].tag].status # "Waiting"
    BY <1>2, <1>4 DEF Inv, Locals
  <2>3. /\ Erases(t)' <=> Erases(t)
        /\ Increments(t) => Increments(t)'
    BY <1>7
  <2> QED BY <1>1, <1>3, <1>5, <1>6, <2>1, <2>2, <2>3, Touches

\* The first look of RegisterAction() at the counter.
LEMMA RegisterCheckStep ==
  ASSUME Inv, NEW t \in Threads, RegisterCheck(t), UNCHANGED nvVars
  PROVE  Inv'
<1>0. PICK s : s = call[t].tag
  OBVIOUS
<1>1. /\ call[t].at = "register" /\ events' = events
      /\ syncpoint' = syncpoint /\ action_storage' = action_storage /\ guard' = guard
      /\ events_mutex' = events_mutex /\ torn' = torn /\ signaled' = signaled /\ fault' = fault
      /\ counter_max' = counter_max /\ counter_min' = counter_min
  BY DEF RegisterCheck, nvVars
<1>2. Types /\ ThreadOK(t) /\ s \in Slots /\ call[t].id \in Syncpoints
  BY <1>0, <1>1 DEF Inv, ThreadOK, Shape
<1>3. /\ call' \in [Threads -> Calls]
      /\ call'[t].id = call[t].id /\ call'[t].value = call[t].value /\ call'[t].tag = s
      /\ \A u \in Threads : u # t => call'[u] = call[u]
      /\ \/ call'[t].at = "register_lock"
         \/ /\ call'[t].at = "action" /\ call'[t].back = "registered"
            /\ syncpoint[call[t].id] >= call[t].value
  <2>1. CASE Goto(t, "register_lock")
    <3>1. "register_lock" \in Places
      BY DEF Places
    <3> QED BY <1>0, <1>2, <2>1, <3>1, Moves
  <2>2. CASE BeginAction(t, "registered") /\ syncpoint[call[t].id] >= call[t].value
    BY <1>0, <1>2, <2>2 DEF BeginAction, Types, Calls, Places
  <2> QED BY <2>1, <2>2 DEF RegisterCheck
<1>4. Types'
  BY <1>1, <1>2, <1>3 DEF Types, TypeOK
<1>5. ThreadOK(t)'
  BY <1>0, <1>1, <1>2, <1>3 DEF ThreadOK, Shape, Locks, Locals, HasGuard, HasMutex,
     Registers, Increments, Erases, Acts
<1>6. \A u \in Threads : /\ Erases(u)' <=> Erases(u)
                         /\ Increments(u)' <=> Increments(u)
                         /\ Holds(u, s)' <=> Holds(u, s)
                         /\ Handles(u, s) => Handles(u, s)'
                         /\ Takes(u, s) => Takes(u, s)'
                         /\ call'[u].id = call[u].id /\ call'[u].value = call[u].value
                         /\ call'[u].tag = call[u].tag
  BY <1>0, <1>1, <1>3 DEF Erases, Increments, Acts, Holds, Handles, Takes
<1>7. events'[s].status = "Waiting" => Served(s)'
  BY <1>1, <1>2, <1>6, ServedKept DEF Inv
<1>8. ASSUME s \notin torn' PROVE Single(s)'
  <2>1. Single(s) /\ Holds(t, s)
    BY <1>0, <1>1, <1>2, <1>8 DEF Inv, Holds, Acts
  <2>2. /\ \A u \in Threads : Holds(u, s) => u = t
        /\ \A id \in Syncpoints : \A i \in Left(id) : action_storage[id][i].tag # s
        /\ events[s].status = "Waiting" /\ events[s].registered
        /\ \A u \in Threads : ~(call[u].at = "cancel_store" /\ call[u].tag = s)
    BY <1>1, <2>1 DEF Single, NoAction, IsBeingUsed
  <2>3. \A id \in Syncpoints : Left(id)' = Left(id)
    BY <1>1, <1>6 DEF Left
  <2>4. call'[t].at = "action" => Reached(s)'
    BY <1>0, <1>1, <1>2, <1>3 DEF Reached, ThreadOK, Locals
  <2> QED BY <1>1, <1>3, <1>6, <2>2, <2>3, <2>4 DEF Single, Waits
<1> QED
  <2>1. /\ call[t].tag \in {s} \/ call[t].at \notin Special
        /\ call'[t].tag \in {s} \/ call'[t].at \notin Special
        /\ {s} \in SUBSET Slots
        /\ torn \subseteq torn' /\ torn' \subseteq torn \cup {s}
        /\ \A r \in Slots : r \notin {s} => events'[r] = events[r]
        /\ \A r \in {s} : events'[r].status = "Waiting" => Served(r)'
        /\ \A r \in {s} : r \notin torn' => Single(r)'
    BY <1>0, <1>1, <1>2, <1>3, <1>7, <1>8 DEF Special
  <2>2. \A u \in Threads : u # t /\ call[u].tag \in {s} =>
          /\ At(u) \in {"register", "register_lock", "deregister"} =>
               /\ events'[call[u].tag].assigned_syncpt = events[call[u].tag].assigned_syncpt
               /\ events'[call[u].tag].assigned_value = events[call[u].tag].assigned_value
          /\ At(u) = "deregister" => events'[call[u].tag].status # "Waiting"
    BY <1>1 DEF Inv, Locals
  <2>3. /\ Erases(t)' <=> Erases(t)
        /\ Increments(t) => Increments(t)'
    BY <1>6
  <2> QED BY <1>1, <1>3, <1>4, <1>5, <2>1, <2>2, <2>3, Touches

\* A cancel takes the slot's status.
LEMMA ClearEventWaitStep ==
  ASSUME Inv, NEW t \in Threads, NEW s \in Slots, ClearEventWait(t, s)
  PROVE  Inv'
<1>0. PICK place : place = IF events[s].status = "Waiting" THEN "deregister" ELSE "cancel_store"
  OBVIOUS
<1>1. /\ call[t].at = "idle" /\ events[s].registered
      /\ events_mutex = NONE /\ events_mutex' = t
      /\ events' = [events EXCEPT ![s].status = "Cancelling"]
      /\ call' = [call EXCEPT ![t] = [Idle EXCEPT !.at = place, !.tag = s]]
      /\ torn' = IF events[s].status = "Signalling" THEN torn \cup {s} ELSE torn
      /\ syncpoint' = syncpoint /\ action_storage' = action_storage /\ guard' = guard
      /\ signaled' = signaled /\ fault' = fault
      /\ counter_max' = counter_max /\ counter_min' = counter_min
  BY <1>0 DEF ClearEventWait
<1>2. /\ Types /\ \A u \in Threads : ThreadOK(u) /\ ~HasMutex(u)
      /\ place \in {"deregister", "cancel_store"}
  BY <1>0, <1>1, SyncpointAssumption DEF Inv, ThreadOK, Locks
<1>3. /\ call' \in [Threads -> Calls] /\ call'[t].at = place /\ call'[t].tag = s
      /\ \A u \in Threads : u # t => call'[u] = call[u]
  <2>1. [Idle EXCEPT !.at = place, !.tag = s] \in Calls
    <3>1. s \in 0..MaxNvEvents /\ 0 \in 0..MaxValue /\ place \in Places /\ "idle" \in Places
      BY <1>2, TypeFacts DEF Places
    <3> QED BY <3>1 DEF Idle, Calls
  <2> QED BY <1>1, <1>2, <2>1 DEF Types, Idle
<1>4. /\ events' \in [Slots -> Fields] /\ events'[s].status = "Cancelling"
      /\ \A r \in Slots : r # s => events'[r] = events[r]
      /\ \A r \in Slots : /\ events'[r].assigned_syncpt = events[r].assigned_syncpt
                          /\ events'[r].assigned_value = events[r].assigned_value
                          /\ events'[r].registered = events[r].registered
  BY <1>1, <1>2 DEF Types, TypeOK, Fields, EventState
<1>5. Types'
  BY <1>1, <1>2, <1>3, <1>4 DEF Types, TypeOK, Fields
<1>6. ThreadOK(t)'
  <2>1. place = "deregister" => events[s].assigned_syncpt \in Syncpoints
    BY <1>0 DEF Inv, Served
  <2> QED BY <1>1, <1>2, <1>3, <1>4, <2>1 DEF ThreadOK, Shape, Locks, Locals, HasGuard, HasMutex,
     Registers, Increments, Erases, Acts
<1>7. \A u \in Threads : /\ Erases(u)' <=> Erases(u)
                         /\ Erases(u) => call'[u].id = call[u].id
                         /\ Holds(u, s)' => Holds(u, s) /\ call'[u].at = call[u].at
                         /\ u # t => call'[u].at = call[u].at
  BY <1>1, <1>2, <1>3 DEF Erases, Acts, Holds
<1>8. ASSUME s \notin torn' PROVE Single(s)'
  <2>1. Single(s) /\ events[s].status # "Signalling"
    BY <1>1, <1>8 DEF Inv
  <2>2. IsBeingUsed(s)' => events'[s].registered
    BY <1>1, <1>4
  <2>3. CASE events[s].status = "Waiting"
    <3>1. Waits(s)'
      BY <1>0, <1>3, <1>4, <2>3 DEF Waits, Takes
    <3>2. \A u \in Threads : Holds(u, s) => call[u].at = "action"
      BY <1>2, <2>1, <2>3 DEF Single, Holds, Acts, HasMutex, Registers
    <3>3. \A u \in Threads : ~(call'[u].at = "cancel_store" /\ call'[u].tag = s)
      BY <1>0, <1>2, <1>3, <2>3 DEF HasMutex
    <3>4. \A id \in Syncpoints : Left(id)' = Left(id)
      BY <1>1, <1>7 DEF Left
    <3>5. Reached(s) => Reached(s)'
      BY <1>1, <1>4 DEF Reached
    <3> QED BY <1>1, <1>4, <1>7, <2>1, <2>2, <3>1, <3>2, <3>3, <3>4, <3>5 DEF Single
  <2>4. CASE events[s].status # "Waiting"
    <3>1. ~Waits(s)
      BY <1>2, <2>4 DEF Waits, Takes, HasMutex
    <3>2. NoAction(s)
      BY <2>1, <2>4, <3>1 DEF Single, NoAction, Holds, Acts
    <3>3. NoAction(s)'
      BY <1>1, <1>7, <3>2, StaysWithoutAction
    <3> QED BY <2>2, <3>3, SingleWithoutAction
  <2> QED BY <2>3, <2>4
<1> QED
  <2>1. /\ call[t].at \notin Special
        /\ call'[t].tag \in {s}
        /\ {s} \in SUBSET Slots
        /\ torn \subseteq torn' /\ torn' \subseteq torn \cup {s}
        /\ \A r \in Slots : r \notin {s} => events'[r] = events[r]
        /\ \A r \in {s} : events'[r].status = "Waiting" => Served(r)'
        /\ \A r \in {s} : r \notin torn' => Single(r)'
    BY <1>1, <1>3, <1>4, <1>8 DEF Special
  <2>2. \A u \in Threads : u # t /\ call[u].tag \in {s} =>
          /\ At(u) \in {"register", "register_lock", "deregister"} =>
               /\ events'[call[u].tag].assigned_syncpt = events[call[u].tag].assigned_syncpt
               /\ events'[call[u].tag].assigned_value = events[call[u].tag].assigned_value
          /\ At(u) = "deregister" => events'[call[u].tag].status # "Waiting"
    BY <1>4
  <2>3. /\ Erases(t)' <=> Erases(t)
        /\ Erases(t) => call'[t].id = call[t].id
        /\ ~Increments(t)
    BY <1>1, <1>7 DEF Increments, Erases, Acts
  <2> QED BY <1>1, <1>3, <1>5, <1>6, <2>1, <2>2, <2>3, Touches

\* A cancel stores its answer.
LEMMA ClearStoreStep ==
  ASSUME Inv, NEW t \in Threads, ClearStore(t)
  PROVE  Inv'
<1>0. PICK s : s = call[t].tag
  OBVIOUS
<1>1. /\ call[t].at = "cancel_store" /\ Goto(t, "clear_kevent")
      /\ events' = [events EXCEPT ![s].status = "Cancelled",
                                  ![s].fails = IF @ > MaxFails THEN @ ELSE @ + 1]
      /\ syncpoint' = syncpoint /\ action_storage' = action_storage /\ guard' = guard
      /\ events_mutex' = events_mutex /\ torn' = torn /\ signaled' = signaled /\ fault' = fault
      /\ counter_max' = counter_max /\ counter_min' = counter_min
  BY <1>0 DEF ClearStore
<1>2. Types /\ ThreadOK(t) /\ s \in Slots
  BY <1>0, <1>1 DEF Inv, ThreadOK, Shape
<1>3. /\ call' \in [Threads -> Calls] /\ call'[t].at = "clear_kevent"
      /\ call'[t].id = call[t].id /\ call'[t].value = call[t].value
      /\ call'[t].tag = call[t].tag /\ call'[t].back = call[t].back
      /\ \A u \in Threads : u # t => call'[u] = call[u]
  <2>1. "clear_kevent" \in Places
    BY DEF Places
  <2> QED BY <1>1, <1>2, <2>1, Moves
<1>4. /\ events' \in [Slots -> Fields] /\ events'[s].status = "Cancelled"
      /\ \A r \in Slots : r # s => events'[r] = events[r]
      /\ \A r \in Slots : /\ events'[r].assigned_syncpt = events[r].assigned_syncpt
                          /\ events'[r].assigned_value = events[r].assigned_value
  <2>1. /\ events \in [Slots -> Fields] /\ events[s] \in Fields
        /\ events[s].fails \in 0..(MaxFails + 1) /\ MaxFails \in Nat
    BY <1>2, NvHostAssumption DEF Types, TypeOK, Fields
  <2>2. (IF events[s].fails > MaxFails THEN events[s].fails ELSE events[s].fails + 1)
          \in 0..(MaxFails + 1)
    BY <2>1
  <2>3. PICK e : e = [events[s] EXCEPT !.status = "Cancelled",
                        !.fails = IF @ > MaxFails THEN @ ELSE @ + 1]
    OBVIOUS
  <2>4. /\ e \in Fields /\ e.status = "Cancelled"
        /\ e.assigned_syncpt = events[s].assigned_syncpt
        /\ e.assigned_value = events[s].assigned_value
    BY <2>1, <2>2, <2>3 DEF Fields, EventState
  <2>5. events' = [events EXCEPT ![s] = e]
    BY <1>1, <1>2, <2>1, <2>3
  <2> QED BY <1>2, <2>1, <2>4, <2>5
<1>5. Types'
  BY <1>1, <1>2, <1>3, <1>4 DEF Types, TypeOK, Fields
<1>6. ThreadOK(t)'
  BY <1>0, <1>1, <1>2, <1>3 DEF ThreadOK, Shape, Locks, Locals, HasGuard, HasMutex,
     Registers, Increments, Erases, Acts
<1>7. \A u \in Threads : /\ Erases(u)' <=> Erases(u)
                         /\ Holds(u, s)' => Holds(u, s)
                         /\ call'[u].id = call[u].id
  BY <1>1, <1>3 DEF Erases, Acts, Holds
<1>8. ASSUME s \notin torn' PROVE Single(s)'
  <2>1. NoAction(s)
    BY <1>0, <1>1, <1>2, <1>8 DEF Inv, Single
  <2>2. NoAction(s)' /\ ~IsBeingUsed(s)'
    BY <1>1, <1>2, <1>4, <1>7, <2>1, StaysWithoutAction DEF IsBeingUsed
  <2> QED BY <1>2, <2>2, SingleWithoutAction
<1> QED
  <2>1. /\ call[t].tag \in {s}
        /\ call'[t].tag \in {s}
        /\ {s} \in SUBSET Slots
        /\ torn \subseteq torn' /\ torn' \subseteq torn \cup {s}
        /\ \A r \in Slots : r \notin {s} => events'[r] = events[r]
        /\ \A r \in {s} : events'[r].status = "Waiting" => Served(r)'
        /\ \A r \in {s} : r \notin torn' => Single(r)'
    BY <1>0, <1>1, <1>2, <1>3, <1>4, <1>8
  <2>2. \A u \in Threads : u # t /\ call[u].tag \in {s} =>
          /\ At(u) \in {"register", "register_lock", "deregister"} =>
               /\ events'[call[u].tag].assigned_syncpt = events[call[u].tag].assigned_syncpt
               /\ events'[call[u].tag].assigned_value = events[call[u].tag].assigned_value
          /\ At(u) = "deregister" => events'[call[u].tag].status # "Waiting"
    BY <1>2, <1>4
  <2>3. /\ Erases(t)' <=> Erases(t)
        /\ ~Increments(t)
    BY <1>1, <1>7 DEF Increments, Erases, Acts
  <2> QED BY <1>1, <1>3, <1>5, <1>6, <2>1, <2>2, <2>3, Touches

\* Slots that are not in use are made anew or freed.
LEMMA RenewStep ==
  ASSUME Inv, NEW t \in Threads, NEW S \in SUBSET Slots,
         call[t].at = "idle", events_mutex = NONE,
         \A s \in S : ~events[s].registered \/ ~IsBeingUsed(s),
         events' \in [Slots -> Fields],
         \A s \in Slots : s \notin S => events'[s] = events[s],
         \A s \in S : events'[s].status = "Available",
         signaled' \in [Slots -> BOOLEAN],
         UNCHANGED <<syncpoint, action_storage, guard, call, counter_min, counter_max,
                     events_mutex, torn, fault>>
  PROVE  Inv'
<1>1. /\ Types /\ \A u \in Threads : ThreadOK(u) /\ ~HasMutex(u)
      /\ syncpoint' = syncpoint /\ action_storage' = action_storage /\ guard' = guard
      /\ events_mutex' = events_mutex /\ torn' = torn /\ fault' = fault /\ call' = call
      /\ counter_max' = counter_max /\ counter_min' = counter_min
  BY SyncpointAssumption DEF Inv, ThreadOK, Locks
<1>2. Types'
  BY <1>1 DEF Types, TypeOK, Fields
<1>3. ThreadOK(t)'
  BY <1>1 DEF ThreadOK, Shape, Locks, Locals, HasGuard, HasMutex,
     Registers, Increments, Erases, Acts
<1>4. \A u \in Threads : Erases(u)' <=> Erases(u)
  BY <1>1 DEF Erases, Acts
<1>5. \A u \in Threads, s \in Slots : Holds(u, s)' <=> Holds(u, s)
  BY <1>1 DEF Holds, Acts
<1>6. ASSUME NEW s \in S, s \notin torn' PROVE Single(s)'
  <2>1. s \in Slots /\ Single(s)
    BY <1>1, <1>6 DEF Inv
  <2>2. NoAction(s)
    BY <2>1, UnusedHasNoAction
  <2>3. NoAction(s)' /\ ~IsBeingUsed(s)'
    BY <1>1, <1>4, <1>5, <2>1, <2>2, StaysWithoutAction DEF IsBeingUsed
  <2> QED BY <2>1, <2>3, SingleWithoutAction
<1> QED
  <2>1. /\ call[t].at \notin Special /\ call'[t].at \notin Special
        /\ torn \subseteq torn' /\ torn' \subseteq torn \cup S
        /\ \A s \in S : events'[s].status = "Waiting" => Served(s)'
        /\ \A s \in S : s \notin torn' => Single(s)'
        /\ \A u \in Threads : u # t => call'[u] = call[u]
        /\ \A u \in Threads :
             At(u) \notin {"register", "register_lock", "deregister"}
    BY <1>1, <1>6 DEF Special, HasMutex, Registers
  <2>2. \A u \in Threads : u # t /\ call[u].tag \in S =>
          /\ At(u) \in {"register", "register_lock", "deregister"} =>
               /\ events'[call[u].tag].assigned_syncpt = events[call[u].tag].assigned_syncpt
               /\ events'[call[u].tag].assigned_value = events[call[u].tag].assigned_value
          /\ At(u) = "deregister" => events'[call[u].tag].status # "Waiting"
    BY <2>1
  <2>3. /\ Erases(t)' <=> Erases(t)
        /\ ~Erases(t) /\ ~Increments(t)
    BY <1>4 DEF Increments, Erases, Acts
  <2> QED BY <1>1, <1>2, <1>3, <2>1, <2>2, <2>3, Touches

LEMMA EventRegisterStep ==
  ASSUME Inv, NEW t \in Threads, NEW s \in Slots, EventRegister(t, s)
  PROVE  Inv'
<1>1. Types
  BY DEF Inv
<1>2. /\ events' \in [Slots -> Fields]
      /\ \A r \in Slots : r \notin {s} => events'[r] = events[r]
      /\ \A r \in {s} : events'[r].status = "Available"
  <2>1. PICK e : e = [NoEvent EXCEPT !.registered = TRUE]
    OBVIOUS
  <2>2. e \in Fields /\ e.status = "Available"
    <3>1. 0 \in 0..MaxValue /\ 0 \in 0..(MaxFails + 1)
      BY SyncpointAssumption, NvHostAssumption
    <3> QED BY <2>1, <3>1 DEF NoEvent, Fields, EventState
  <2>3. events \in [Slots -> Fields] /\ events' = [events EXCEPT ![s] = e]
    BY <1>1, <2>1 DEF EventRegister, CreateNvEvent, Types, TypeOK, Fields
  <2> QED BY <2>2, <2>3
<1>3. /\ signaled' \in [Slots -> BOOLEAN] /\ {s} \in SUBSET Slots
      /\ \A r \in {s} : ~events[r].registered \/ ~IsBeingUsed(r)
      /\ call[t].at = "idle" /\ events_mutex = NONE
      /\ UNCHANGED <<syncpoint, action_storage, guard, call, counter_min, counter_max,
                     events_mutex, torn, fault>>
  BY <1>1 DEF EventRegister, Types, TypeOK
<1> QED BY <1>2, <1>3, RenewStep

LEMMA EventUnregisterStep ==
  ASSUME Inv, NEW t \in Threads, NEW slots \in SUBSET Slots, EventUnregister(t, slots)
  PROVE  Inv'
<1>0. PICK S : S = Freed(slots)
  OBVIOUS
<1>1. Types /\ S \in SUBSET Slots /\ \A s \in S : ~IsBeingUsed(s)
  <2>1. \A s \in Slots : s <= s
    BY NvHostAssumption DEF Slots
  <2> QED BY <1>0, <2>1 DEF Inv, Freed
<1>2. /\ events' \in [Slots -> Fields]
      /\ \A r \in Slots : r \notin S => events'[r] = events[r]
      /\ \A r \in S : events'[r].status = "Available"
  <2>1. events \in [Slots -> Fields]
    BY <1>1 DEF Types, TypeOK, Fields
  <2>2. \A s \in Slots : FreeNvEvent(events, s)[s] = [NoEvent EXCEPT !.fails = events[s].fails]
    BY <2>1 DEF FreeNvEvent
  <2>3. \A s \in Slots : /\ [NoEvent EXCEPT !.fails = events[s].fails] \in Fields
                         /\ [NoEvent EXCEPT !.fails = events[s].fails].status = "Available"
    <3>1. 0 \in 0..MaxValue /\ \A s \in Slots : events[s].fails \in 0..(MaxFails + 1)
      BY <2>1, SyncpointAssumption, NvHostAssumption DEF Fields
    <3> QED BY <3>1 DEF NoEvent, Fields, EventState
  <2>4. events' = [s \in Slots |-> IF s \in S THEN FreeNvEvent(events, s)[s] ELSE events[s]]
    BY <1>0 DEF EventUnregister
  <2>5. /\ \A s \in S : events'[s] = [NoEvent EXCEPT !.fails = events[s].fails]
        /\ \A s \in Slots : s \notin S => events'[s] = events[s]
    BY <1>1, <2>2, <2>4
  <2>6. \A s \in Slots : events'[s] \in Fields
    <3> TAKE s \in Slots
    <3>1. CASE s \in S
      BY <2>3, <2>5, <3>1
    <3>2. CASE s \notin S
      BY <2>1, <2>5, <3>2
    <3> QED BY <3>1, <3>2
  <2>7. \A s \in S : events'[s].status = "Available"
    BY <1>1, <2>3, <2>5
  <2>8. events' \in [Slots -> Fields]
    BY <2>4, <2>6
  <2> QED BY <2>5, <2>7, <2>8
<1>3. /\ signaled' \in [Slots -> BOOLEAN]
      /\ call[t].at = "idle" /\ events_mutex = NONE
      /\ UNCHANGED <<syncpoint, action_storage, guard, call, counter_min, counter_max,
                     events_mutex, torn, fault>>
  BY <1>1 DEF EventUnregister, Types, TypeOK
<1> QED BY <1>1, <1>2, <1>3, RenewStep

\* The slot a wait is given is a slot.
LEMMA FindFreeIsSlot ==
  ASSUME NEW id
  PROVE  FindFreeNvEvent(id) \in Slots
<1>1. MaxNvEvents \in Nat /\ 0 \in Slots /\ Slots \subseteq Nat
  BY NvHostAssumption DEF Slots
<1>2. ASSUME NEW S \in SUBSET Slots, S # {} PROVE Min(S) \in Slots /\ Max(S) \in Slots
  <2>1. \E x \in S : \A y \in S : x <= y
    BY <1>1, <1>2, LeastNatural
  <2>2. \E x \in S : \A y \in S : x >= y
    <3> DEFINE D == {MaxNvEvents - x : x \in S}
    <3>1. D \subseteq Nat /\ D # {}
      <4>1. \A x \in S : MaxNvEvents - x \in Nat
        BY <1>1 DEF Slots
      <4>2. PICK x \in S : TRUE
        BY <1>2
      <4>3. MaxNvEvents - x \in D
        OBVIOUS
      <4> QED BY <4>1, <4>3
    <3>2. PICK d \in D : \A e \in D : d <= e
      <4> HIDE DEF D
      <4> QED BY <3>1, LeastNatural
    <3>3. PICK x \in S : d = MaxNvEvents - x
      BY <3>2
    <3>4. \A y \in S : MaxNvEvents - x <= MaxNvEvents - y
      BY <3>2, <3>3
    <3>5. \A y \in S : x >= y
      BY <1>1, <3>4 DEF Slots
    <3> QED BY <3>5
  <2> QED BY <2>1, <2>2 DEF Min, Max
<1> DEFINE unused == {s \in Slots : events[s].registered /\ ~IsBeingUsed(s)}
           same == {s \in unused : events[s].assigned_syncpt = id}
           unregistered == {s \in Slots : ~events[s].registered}
<1>3. /\ unused \in SUBSET Slots /\ same \in SUBSET Slots
      /\ unregistered \in SUBSET Slots
  OBVIOUS
<1>4. FindFreeNvEvent(id) = CASE same # {} -> Min(same)
          [] same = {} /\ unregistered # {} -> Min(unregistered)
          [] same = {} /\ unregistered = {} /\ unused # {} -> Max(unused)
          [] OTHER -> 0
  BY DEF FindFreeNvEvent
<1> HIDE DEF unused, same, unregistered
<1>5. CASE same # {}
  BY <1>2, <1>3, <1>4, <1>5
<1>6. CASE same = {} /\ unregistered # {}
  BY <1>2, <1>3, <1>4, <1>6
<1>7. CASE same = {} /\ unregistered = {} /\ unused # {}
  BY <1>2, <1>3, <1>4, <1>7
<1>8. CASE same = {} /\ unregistered = {} /\ unused = {}
  BY <1>1, <1>4, <1>8
<1> QED BY <1>5, <1>6, <1>7, <1>8

\* A wait under the lock: it returns, waits for the counter, or makes its slot wait.
LEMMA EventWaitLockedStep ==
  ASSUME Inv, NEW t \in Threads, NEW now \in BOOLEAN, EventWaitLocked(t, now)
  PROVE  Inv'
<1>1. /\ call[t].at = "event_wait" /\ events_mutex = NONE
      /\ syncpoint' = syncpoint /\ action_storage' = action_storage /\ guard' = guard
      /\ torn' = torn /\ signaled' = signaled /\ fault' = fault
      /\ counter_max' = counter_max /\ counter_min' = counter_min
  BY DEF EventWaitLocked
<1>2. /\ Types /\ \A u \in Threads : ThreadOK(u) /\ ~HasMutex(u)
      /\ call[t] \in Calls /\ call[t].id \in Syncpoints
      /\ events \in [Slots -> Fields]
  BY <1>1, SyncpointAssumption, TypeFacts DEF Inv, ThreadOK, Locks, Shape, Types, TypeOK, Fields
<1>3. PICK id, slot, found :
        /\ id = call[t].id
        /\ slot = IF call[t].tag = MaxNvEvents THEN FindFreeNvEvent(id) ELSE call[t].tag
        /\ found = IF call[t].tag = MaxNvEvents /\ ~events[slot].registered
                   THEN CreateNvEvent(events, slot) ELSE events
  OBVIOUS
<1>4. slot \in Slots
  BY <1>2, <1>3, FindFreeIsSlot, NvHostAssumption DEF Calls, Slots
<1>5. /\ found \in [Slots -> Fields]
      /\ \A r \in Slots : r # slot => found[r] = events[r]
      /\ \/ found = events
         \/ found[slot].status = "Available" /\ ~events[slot].registered
  <2>1. PICK e : e = [NoEvent EXCEPT !.registered = TRUE]
    OBVIOUS
  <2>2. e \in Fields /\ e.status = "Available"
    <3>1. 0 \in 0..MaxValue /\ 0 \in 0..(MaxFails + 1)
      BY SyncpointAssumption, NvHostAssumption
    <3> QED BY <2>1, <3>1 DEF NoEvent, Fields, EventState
  <2>3. CreateNvEvent(events, slot) = [events EXCEPT ![slot] = e]
    BY <2>1 DEF CreateNvEvent
  <2> QED BY <1>2, <1>3, <1>4, <2>2, <2>3
<1>6. \/ events' = found /\ Return(t) /\ events_mutex' = events_mutex
      \/ /\ events' = found /\ events_mutex' = t
         /\ call' = [call EXCEPT ![t].at = "wait", ![t].tag = slot]
      \/ /\ found[slot].registered /\ ~IsBeingUsed(slot)
         /\ events' = [found EXCEPT ![slot].status = "Waiting", ![slot].assigned_syncpt = id,
                                    ![slot].assigned_value = call[t].value]
         /\ events_mutex' = t
         /\ call' = [call EXCEPT ![t].at = "register", ![t].tag = slot]
  BY <1>3 DEF EventWaitLocked
<1>7. /\ \A u \in Threads : At(u) \notin {"register", "register_lock", "deregister", "cancel_store"}
      /\ call[t].at \notin Special
      /\ ~Erases(t) /\ ~Increments(t)
  BY <1>1, <1>2 DEF HasMutex, Registers, Special, Erases, Increments, Acts
<1>8. ASSUME slot \notin torn, ~IsBeingUsed(slot) \/ ~events[slot].registered
      PROVE  NoAction(slot)
  BY <1>4, <1>8, UnusedHasNoAction DEF Inv
<1>9. CASE events' = found /\ (\/ Return(t) /\ events_mutex' = events_mutex
                              \/ /\ events_mutex' = t
                                 /\ call' = [call EXCEPT ![t].at = "wait", ![t].tag = slot])
  <2>1. /\ call' \in [Threads -> Calls]
        /\ \A u \in Threads : u # t => call'[u] = call[u]
        /\ call'[t].at \in {"idle", "wait"}
        /\ call'[t].at = "wait" =>
             /\ events_mutex' = t /\ call'[t].id \in Syncpoints /\ call'[t].tag \in Slots
    <3>1. CASE Return(t)
      BY <1>2, <3>1, Returns
    <3>2. CASE events_mutex' = t /\ call' = [call EXCEPT ![t].at = "wait", ![t].tag = slot]
      <4>1. slot \in 0..MaxNvEvents
        BY <1>2, <1>4, TypeFacts
      <4> QED BY <1>2, <1>4, <3>2, <4>1 DEF Types, Calls, Places
    <3> QED BY <1>9, <3>1, <3>2
  <2>2. Types' /\ (events_mutex' = events_mutex \/ events_mutex' = t)
    BY <1>1, <1>2, <1>5, <1>9, <2>1 DEF Types, TypeOK, Fields
  <2>3. ThreadOK(t)' /\ ~Erases(t)'
    BY <2>1 DEF ThreadOK, Shape, Locks, Locals, HasGuard, HasMutex,
       Registers, Increments, Erases, Acts
  <2>4. CASE found = events
    <3>1. SameSlots
      BY <1>9, <2>4 DEF SameSlots
    <3> QED BY <1>1, <1>7, <2>1, <2>2, <2>3, <3>1, GoesOn
  <2>5. CASE found[slot].status = "Available" /\ ~events[slot].registered
    <3>1. \A u \in Threads : /\ Erases(u) => Erases(u)' /\ call'[u].id = call[u].id
                             /\ Holds(u, slot)' => Holds(u, slot)
      BY <1>7, <2>1 DEF Erases, Acts, Holds
    <3>2. slot \notin torn' => Single(slot)'
      BY <1>1, <1>4, <1>8, <1>9, <2>5, <3>1, StaysWithoutAction, SingleWithoutAction
         DEF IsBeingUsed
    <3>3. /\ {slot} \in SUBSET Slots /\ call'[t].at \notin Special
          /\ torn \subseteq torn' /\ torn' \subseteq torn \cup {slot}
          /\ \A r \in Slots : r \notin {slot} => events'[r] = events[r]
          /\ \A r \in {slot} : events'[r].status = "Waiting" => Served(r)'
          /\ \A r \in {slot} : r \notin torn' => Single(r)'
      BY <1>1, <1>4, <1>5, <1>9, <2>1, <2>5, <3>2 DEF Special
    <3>4. \A u \in Threads : u # t /\ call[u].tag \in {slot} =>
            /\ At(u) \in {"register", "register_lock", "deregister"} =>
                 /\ events'[call[u].tag].assigned_syncpt = events[call[u].tag].assigned_syncpt
                 /\ events'[call[u].tag].assigned_value = events[call[u].tag].assigned_value
            /\ At(u) = "deregister" => events'[call[u].tag].status # "Waiting"
      BY <1>7
    <3> QED BY <1>1, <1>7, <2>1, <2>2, <2>3, <3>3, <3>4, Touches
  <2> QED BY <1>5, <2>4, <2>5
<1>10. CASE /\ found[slot].registered /\ ~IsBeingUsed(slot)
            /\ events' = [found EXCEPT ![slot].status = "Waiting", ![slot].assigned_syncpt = id,
                                       ![slot].assigned_value = call[t].value]
            /\ events_mutex' = t
            /\ call' = [call EXCEPT ![t].at = "register", ![t].tag = slot]
  <2>1. /\ call' \in [Threads -> Calls]
        /\ \A u \in Threads : u # t => call'[u] = call[u]
        /\ call'[t].at = "register" /\ call'[t].tag = slot
        /\ call'[t].id = id /\ call'[t].value = call[t].value
    <3>1. slot \in 0..MaxNvEvents
      BY <1>2, <1>4, TypeFacts
    <3> QED BY <1>2, <1>3, <1>10, <3>1 DEF Types, Calls, Places
  <2>2. /\ events' \in [Slots -> Fields]
        /\ events'[slot].status = "Waiting" /\ events'[slot].assigned_syncpt = id
        /\ events'[slot].assigned_value = call[t].value /\ events'[slot].registered
        /\ \A r \in Slots : r # slot => events'[r] = events[r]
    <3>1. PICK e : e = [found[slot] EXCEPT !.status = "Waiting", !.assigned_syncpt = id,
                                           !.assigned_value = call[t].value]
      OBVIOUS
    <3>2. found[slot] \in Fields /\ id \in Syncpoints /\ call[t].value \in 0..MaxValue
      BY <1>2, <1>3, <1>4, <1>5 DEF Calls
    <3>3. /\ e \in Fields /\ e.status = "Waiting" /\ e.assigned_syncpt = id
          /\ e.assigned_value = call[t].value /\ e.registered
      BY <1>10, <3>1, <3>2 DEF Fields, EventState
    <3>4. events' = [found EXCEPT ![slot] = e]
      BY <1>4, <1>5, <1>10, <3>1
    <3> QED BY <1>4, <1>5, <3>3, <3>4
  <2>3. Types'
    BY <1>1, <1>2, <1>10, <2>1, <2>2 DEF Types, TypeOK, Fields
  <2>4. ThreadOK(t)' /\ ~Erases(t)'
    BY <1>2, <1>3, <1>4, <1>10, <2>1, <2>2 DEF ThreadOK, Shape, Locks, Locals, HasGuard,
       HasMutex, Registers, Increments, Erases, Acts
  <2>5. Served(slot)'
    BY <1>2, <1>3, <2>1, <2>2 DEF Served, Handles
  <2>6. ASSUME slot \notin torn' PROVE Single(slot)'
    <3>1. NoAction(slot)
      BY <1>1, <1>8, <1>10, <2>6
    <3>2. \A u \in Threads : Erases(u)' <=> Erases(u)
      BY <1>7, <2>1, <2>4 DEF Erases, Acts
    <3>3. \A u \in Threads : Holds(u, slot)' => u = t
      BY <2>1, <3>1 DEF NoAction, Holds, Acts
    <3>4. \A i \in Syncpoints : Left(i)' = Left(i)
      BY <1>1, <1>7, <2>1, <2>4, <3>2 DEF Left
    <3>5. \A i \in Syncpoints : \A j \in Left(i)' : action_storage'[i][j].tag # slot
      BY <1>1, <3>1, <3>4 DEF NoAction
    <3>6. \A u \in Threads : call'[u].at # "cancel_store"
      BY <1>7, <2>1
    <3> QED BY <2>1, <2>2, <3>3, <3>5, <3>6 DEF Single
  <2>7. /\ {slot} \in SUBSET Slots /\ call'[t].tag \in {slot}
        /\ torn \subseteq torn' /\ torn' \subseteq torn \cup {slot}
        /\ \A r \in Slots : r \notin {slot} => events'[r] = events[r]
        /\ \A r \in {slot} : events'[r].status = "Waiting" => Served(r)'
        /\ \A r \in {slot} : r \notin torn' => Single(r)'
    BY <1>1, <1>4, <2>1, <2>2, <2>5, <2>6
  <2>8. \A u \in Threads : u # t /\ call[u].tag \in {slot} =>
          /\ At(u) \in {"register", "register_lock", "deregister"} =>
               /\ events'[call[u].tag].assigned_syncpt = events[call[u].tag].assigned_syncpt
               /\ events'[call[u].tag].assigned_value = events[call[u].tag].assigned_value
          /\ At(u) = "deregister" => events'[call[u].tag].status # "Waiting"
    BY <1>7
  <2> QED BY <1>1, <1>7, <2>1, <2>3, <2>4, <2>7, <2>8, Touches
<1> QED BY <1>6, <1>9, <1>10

-----------------------------------------------------------------------------
(* The steps that touch the counters and the lists.                        *)

\* An engine increments a counter: it is then on its way to the list.
LEMMA EngineIncrementStep ==
  ASSUME Inv, NEW t \in Threads, NEW id \in Syncpoints, EngineIncrement(t, id)
  PROVE  Inv'
<1>1. /\ call[t].at = "idle" /\ syncpoint[id] < MaxValue
      /\ syncpoint' = [syncpoint EXCEPT ![id] = @ + 1]
      /\ call' = [call EXCEPT ![t] = [Idle EXCEPT !.at = "increment", !.id = id,
                                                  !.value = syncpoint[id] + 1]]
      /\ action_storage' = action_storage /\ guard' = guard /\ events' = events
      /\ events_mutex' = events_mutex /\ torn' = torn /\ signaled' = signaled /\ fault' = fault
      /\ counter_max' = counter_max /\ counter_min' = counter_min
  BY DEF EngineIncrement, IncrementHost, nvVars
<1>2. /\ Types /\ \A u \in Threads : ThreadOK(u)
      /\ syncpoint \in [Syncpoints -> 0..MaxValue] /\ MaxValue \in Nat
      /\ syncpoint \in [Syncpoints -> Nat]
  BY TypeFacts DEF Inv, ThreadOK, Types, TypeOK
<1>3. /\ syncpoint' \in [Syncpoints -> 0..MaxValue]
      /\ syncpoint' \in [Syncpoints -> Nat]
      /\ \A i \in Syncpoints : syncpoint'[i] >= syncpoint[i]
      /\ syncpoint'[id] = syncpoint[id] + 1
      /\ \A i \in Syncpoints : i # id => syncpoint'[i] = syncpoint[i]
  BY <1>1, <1>2
<1>4. /\ call' \in [Threads -> Calls] /\ call'[t].at = "increment"
      /\ call'[t].id = id /\ call'[t].value = syncpoint[id] + 1
      /\ \A u \in Threads : u # t => call'[u] = call[u]
  <2>1. /\ syncpoint[id] + 1 \in 0..MaxValue /\ 0 \in 0..MaxNvEvents
        /\ "increment" \in Places /\ "idle" \in Places
    BY <1>1, <1>2, NvHostAssumption DEF Places
  <2>2. [Idle EXCEPT !.at = "increment", !.id = id, !.value = syncpoint[id] + 1] \in Calls
    BY <2>1 DEF Idle, Calls
  <2> QED BY <1>1, <1>2, <2>2 DEF Types, Idle
<1>5. Types'
  BY <1>1, <1>2, <1>3, <1>4 DEF Types, TypeOK
<1>6. ASSUME NEW u \in Threads PROVE ThreadOK(u)'
  <2>1. CASE u = t
    BY <1>3, <1>4, <2>1 DEF ThreadOK, Shape, Locks, Locals, HasGuard, HasMutex,
       Registers, Increments, Erases, Acts
  <2>2. CASE u # t
    <3>1. ThreadOK(u) /\ call'[u] = call[u]
      BY <1>2, <1>4, <2>2
    <3>2. Increments(u) => call[u].value <= syncpoint'[call[u].id]
      <4>1. Increments(u) => call[u].id \in Syncpoints /\ call[u].value <= syncpoint[call[u].id]
        BY <3>1 DEF ThreadOK, Locals, Shape, Increments, Erases
      <4>2. call[u].value \in Nat
        BY <1>2, TypeFacts DEF Calls
      <4> QED BY <1>2, <1>3, <4>1, <4>2
    <3> QED BY <1>1, <3>1, <3>2, OthersKeep DEF ThreadOK, Locks, Locals
  <2> QED BY <2>1, <2>2
<1>7. \A u \in Threads : /\ Erases(u)' <=> Erases(u)
                         /\ Erases(u) => call'[u].id = call[u].id
                         /\ Increments(u) =>
                              /\ Increments(u)' /\ call'[u].id = call[u].id
                              /\ call'[u].value = call[u].value
                         /\ call'[u].at = "cancel_store" => call[u] = call'[u]
  BY <1>1, <1>4 DEF Erases, Acts, Increments
<1>8. \A u \in Threads, s \in Slots :
        /\ Handles(u, s) => Handles(u, s)'
        /\ Holds(u, s)' => Holds(u, s) /\ call'[u].at = call[u].at
        /\ Takes(u, s) => Takes(u, s)'
  BY <1>1, <1>4 DEF Handles, Holds, Acts, Takes
<1>9. ASSUME NEW s \in Slots, events'[s].status = "Waiting" PROVE Served(s)'
  <2>1. Served(s) /\ events[s].assigned_syncpt \in Syncpoints /\ events[s].assigned_value \in Nat
    BY <1>1, <1>2, <1>9, TypeFacts DEF Inv, Served
  <2>2. Listed(s) => Listed(s)'
    BY <1>1, <1>7 DEF Listed, Left
  <2>3. ASSUME Reached(s)', ~Reached(s)
        PROVE  /\ Increments(t)' /\ call'[t].id = events'[s].assigned_syncpt
               /\ call'[t].value >= events'[s].assigned_value
    <3>1. events[s].assigned_syncpt = id /\ syncpoint[id] + 1 >= events[s].assigned_value
      BY <1>1, <1>3, <2>1, <2>3 DEF Reached
    <3> QED BY <1>1, <1>4, <3>1 DEF Increments
  <2>4. CASE \E u \in Threads : Handles(u, s)
    BY <1>1, <1>8, <2>1, <2>4 DEF Served
  <2>5. CASE Reached(s) /\ ~\E u \in Threads : Handles(u, s)
    BY <1>1, <1>7, <2>1, <2>2, <2>5 DEF Served
  <2>6. CASE ~Reached(s) /\ ~\E u \in Threads : Handles(u, s)
    BY <1>1, <2>1, <2>2, <2>3, <2>6 DEF Served
  <2> QED BY <2>4, <2>5, <2>6
<1>10. ASSUME NEW s \in Slots, s \notin torn' PROVE Single(s)'
  <2>1. Single(s) /\ events[s].assigned_value \in Nat
    BY <1>1, <1>2, <1>10, TypeFacts DEF Inv
  <2>2. /\ \A u \in Threads : Erases(u) => Erases(u)' /\ call'[u].id = call[u].id
        /\ \A u \in Threads : Holds(u, s)' => Holds(u, s) /\ call'[u].at = call[u].at
        /\ \A u \in Threads : Takes(u, s) => Takes(u, s)'
        /\ \A u \in Threads : call'[u].at = "cancel_store" /\ call'[u].tag = s =>
             call[u].at = "cancel_store" /\ call[u].tag = s
        /\ events'[s] = events[s]
    BY <1>1, <1>7, <1>8
  <2> QED BY <1>1, <1>2, <1>3, <2>1, <2>2, SingleKept
<1> QED BY <1>1, <1>5, <1>6, <1>9, <1>10 DEF Inv, ThreadOK

\* A slot that is not torn stays as it is if the entries of its tag in the list that
\* changes come from different entries that were there.
LEMMA SingleMapped ==
  ASSUME NEW s \in Slots, Single(s), NEW id \in Syncpoints, NEW f,
         \A i \in Left(id)' : action_storage'[id][i].tag = s =>
           f[i] \in Left(id) /\ action_storage'[id][i] = action_storage[id][f[i]],
         \A i, j \in Left(id)' :
           /\ action_storage'[id][i].tag = s /\ action_storage'[id][j].tag = s
           /\ f[i] = f[j]
           => i = j,
         \A j \in Syncpoints : j # id =>
           Left(j)' = Left(j) /\ action_storage'[j] = action_storage[j],
         syncpoint' = syncpoint, events'[s] = events[s],
         \A t \in Threads : Holds(t, s)' => Holds(t, s) /\ call'[t].at = call[t].at,
         \A t \in Threads : Takes(t, s) => Takes(t, s)',
         \A t \in Threads : call'[t].at = "cancel_store" /\ call'[t].tag = s =>
           call[t].at = "cancel_store" /\ call[t].tag = s
  PROVE  Single(s)'
<1>1. Waits(s) => Waits(s)'
  BY DEF Waits
<1>2. Reached(s) => Reached(s)'
  BY DEF Reached
<1>3. IsBeingUsed(s)' <=> IsBeingUsed(s)
  BY DEF IsBeingUsed
<1>4. NoAction(s) => NoAction(s)'
  <2> SUFFICES ASSUME NoAction(s) PROVE NoAction(s)'
    OBVIOUS
  <2>1. \A j \in Syncpoints : \A i \in Left(j)' : action_storage'[j][i].tag # s
    <3> TAKE j \in Syncpoints
    <3>1. CASE j = id
      BY <3>1 DEF NoAction
    <3>2. CASE j # id
      BY <3>2 DEF NoAction
    <3> QED BY <3>1, <3>2
  <2> QED BY <2>1 DEF NoAction
<1>5. \A j \in Syncpoints : \A i \in Left(j)' : action_storage'[j][i].tag = s =>
        /\ Waits(s)'
        /\ j = events'[s].assigned_syncpt
        /\ action_storage'[j][i].expected_value = events'[s].assigned_value
        /\ \A t \in Threads : ~Holds(t, s)'
        /\ \A k \in Left(j)' : action_storage'[j][k].tag = s => i = k
  <2> SUFFICES ASSUME NEW j \in Syncpoints, NEW i \in Left(j)', action_storage'[j][i].tag = s
               PROVE  /\ Waits(s)'
                      /\ j = events'[s].assigned_syncpt
                      /\ action_storage'[j][i].expected_value = events'[s].assigned_value
                      /\ \A t \in Threads : ~Holds(t, s)'
                      /\ \A k \in Left(j)' : action_storage'[j][k].tag = s => i = k
    OBVIOUS
  <2>1. CASE j = id
    <3>1. f[i] \in Left(id) /\ action_storage[id][f[i]].tag = s
          /\ action_storage'[id][i] = action_storage[id][f[i]]
      BY <2>1
    <3>2. /\ Waits(s) /\ id = events[s].assigned_syncpt
          /\ action_storage[id][f[i]].expected_value = events[s].assigned_value
          /\ \A t \in Threads : ~Holds(t, s)
      BY <3>1 DEF Single
    <3>3. ASSUME NEW k \in Left(j)', action_storage'[j][k].tag = s PROVE i = k
      <4>1. f[k] \in Left(id) /\ action_storage[id][f[k]].tag = s
        BY <2>1, <3>3
      <4>2. f[i] = f[k]
        BY <3>1, <4>1 DEF Single
      <4> QED BY <2>1, <3>3, <4>2
    <3> QED BY <1>1, <2>1, <3>1, <3>2, <3>3
  <2>2. CASE j # id
    BY <1>1, <2>2 DEF Single
  <2> QED BY <2>1, <2>2
<1> QED BY <1>1, <1>2, <1>3, <1>4, <1>5 DEF Single

\* f maps the places of list p to the places they had in list q, from which an entry e
\* was taken, if it had one.
Maps(f, p, q, e) ==
  /\ \A i \in 1..Len(p) : f[i] \in 1..Len(q) /\ p[i] = q[f[i]]
  /\ \A i, j \in 1..Len(p) : f[i] = f[j] => i = j
  /\ \A m \in 1..Len(q) : q[m] # e => \E i \in 1..Len(p) : f[i] = m
  /\ \A i \in 1..Len(p) : q[f[i]] = e => \E m \in 1..Len(q) : m # f[i] /\ q[m] = e

\* DeregisterAction() as such a map.
LEMMA EraseMaps ==
  ASSUME NEW q \in Seq(Entries), NEW e, Sorted(q), NEW p, p = Erase(q, e)
  PROVE  p \in Seq(Entries) /\ Sorted(p) /\ \E f : Maps(f, p, q, e)
<1>1. CASE p = q /\ \A i \in 1..Len(q) : q[i] # e
  <2>1. PICK f : f = [i \in 1..Len(q) |-> i]
    OBVIOUS
  <2>2. Maps(f, p, q, e)
    BY <1>1, <2>1 DEF Maps
  <2> QED BY <1>1, <2>2
<1>2. CASE \E k \in 1..Len(q) :
             /\ q[k] = e /\ p \in Seq(Entries) /\ Len(p) = Len(q) - 1
             /\ \A i \in 1..(Len(q) - 1) : p[i] = IF i < k THEN q[i] ELSE q[i + 1]
             /\ Sorted(p)
  <2>1. PICK k \in 1..Len(q) :
          /\ q[k] = e /\ p \in Seq(Entries) /\ Len(p) = Len(q) - 1
          /\ \A i \in 1..(Len(q) - 1) : p[i] = IF i < k THEN q[i] ELSE q[i + 1]
          /\ Sorted(p)
    BY <1>2
  <2>2. PICK f : f = [i \in 1..(Len(q) - 1) |-> IF i < k THEN i ELSE i + 1]
    OBVIOUS
  <2>3. Len(q) \in Nat
    OBVIOUS
  <2>4. \A i \in 1..(Len(q) - 1) :
          /\ f[i] = IF i < k THEN i ELSE i + 1
          /\ f[i] \in 1..Len(q) /\ f[i] # k
    BY <2>2, <2>3
  <2>5. \A i \in 1..Len(p) : f[i] \in 1..Len(q) /\ p[i] = q[f[i]] /\ f[i] # k
    BY <2>1, <2>4
  <2>6. \A i, j \in 1..Len(p) : f[i] = f[j] => i = j
    BY <2>1, <2>3, <2>4
  <2>7. ASSUME NEW m \in 1..Len(q), m # k PROVE \E i \in 1..Len(p) : f[i] = m
    <3>1. CASE m < k
      <4>1. m \in 1..(Len(q) - 1) /\ f[m] = m
        BY <2>3, <2>4, <3>1
      <4> QED BY <2>1, <4>1
    <3>2. CASE m > k
      <4>1. m - 1 \in 1..(Len(q) - 1) /\ ~(m - 1 < k) /\ (m - 1) + 1 = m
        BY <2>3, <3>2
      <4>2. f[m - 1] = m
        BY <2>4, <4>1
      <4> QED BY <2>1, <4>1, <4>2
    <3> QED BY <2>3, <2>7, <3>1, <3>2
  <2>8. \A i \in 1..Len(p) : q[f[i]] = e => \E m \in 1..Len(q) : m # f[i] /\ q[m] = e
    BY <2>1, <2>5
  <2>9. \A m \in 1..Len(q) : q[m] # e => \E i \in 1..Len(p) : f[i] = m
    BY <2>1, <2>7
  <2>10. Maps(f, p, q, e)
    BY <2>5, <2>6, <2>8, <2>9 DEF Maps
  <2> QED BY <2>1, <2>10
<1> QED BY <1>1, <1>2, EraseIs

\* A cancelled wait takes its action back; the entry of the slot is gone then.
LEMMA ClearDeregisterStep ==
  ASSUME Inv, NEW t \in Threads, ClearDeregister(t)
  PROVE  Inv'
<1>0. PICK s, id, e : /\ s = call[t].tag /\ id = events[s].assigned_syncpt
                      /\ e = Entry(s, events[s].assigned_value)
  OBVIOUS
<1>1. /\ call[t].at = "deregister" /\ guard = NONE /\ Goto(t, "cancel_store")
      /\ action_storage' = [action_storage EXCEPT ![id] = Erase(@, e)]
      /\ counter_min' = [counter_min EXCEPT ![id] = syncpoint[id]]
      /\ syncpoint' = syncpoint /\ guard' = guard /\ events' = events
      /\ events_mutex' = events_mutex /\ torn' = torn /\ signaled' = signaled /\ fault' = fault
      /\ counter_max' = counter_max
  BY <1>0 DEF ClearDeregister, DeregisterAction
<1>2. /\ Types /\ \A u \in Threads : ThreadOK(u) /\ ~HasGuard(u)
      /\ s \in Slots /\ id \in Syncpoints /\ events[s].status # "Waiting"
      /\ events_mutex = t
  BY <1>0, <1>1, SyncpointAssumption DEF Inv, ThreadOK, Locks, Shape, Locals, HasMutex
<1>3. /\ call' \in [Threads -> Calls] /\ call'[t].at = "cancel_store"
      /\ call'[t].id = call[t].id /\ call'[t].value = call[t].value
      /\ call'[t].tag = call[t].tag /\ call'[t].back = call[t].back
      /\ \A u \in Threads : u # t => call'[u] = call[u]
  <2>1. "cancel_store" \in Places
    BY DEF Places
  <2> QED BY <1>1, <1>2, <2>1, Moves
<1>4. PICK q, p : q = action_storage[id] /\ p = action_storage'[id]
  OBVIOUS
<1>5. /\ q \in Seq(Entries) /\ Sorted(q) /\ p = Erase(q, e)
      /\ \A i \in Syncpoints : i # id => action_storage'[i] = action_storage[i]
  BY <1>1, <1>2, <1>4 DEF Inv, Types
<1>6. p \in Seq(Entries) /\ Sorted(p) /\ \E f : Maps(f, p, q, e)
  BY <1>5, EraseMaps
<1>7. PICK f :
        /\ \A i \in 1..Len(p) : f[i] \in 1..Len(q) /\ p[i] = q[f[i]]
        /\ \A i, j \in 1..Len(p) : f[i] = f[j] => i = j
        /\ \A m \in 1..Len(q) : q[m] # e => \E i \in 1..Len(p) : f[i] = m
        /\ \A i \in 1..Len(p) : q[f[i]] = e => \E m \in 1..Len(q) : m # f[i] /\ q[m] = e
  <2>1. PICK f : Maps(f, p, q, e)
    BY <1>6
  <2> QED BY <2>1 DEF Maps
<1>8. Types'
  <2>1. action_storage' \in [Syncpoints -> Seq(Entries)]
    <3>1. action_storage' = [action_storage EXCEPT ![id] = p]
      BY <1>1, <1>4, <1>5
    <3> QED BY <1>2, <1>6, <3>1 DEF Types
  <2>2. counter_min' \in [Syncpoints -> 0..MaxValue]
    BY <1>1, <1>2 DEF Types, TypeOK
  <2> QED BY <1>1, <1>2, <1>3, <2>1, <2>2 DEF Types, TypeOK
<1>9. \A u \in Threads : /\ ~Erases(u) /\ ~Erases(u)'
                         /\ Increments(u) =>
                              /\ Increments(u)' /\ call'[u].id = call[u].id
                              /\ call'[u].value = call[u].value
  BY <1>1, <1>2, <1>3 DEF Erases, Acts, Increments, HasGuard
<1>10. ASSUME NEW u \in Threads PROVE ThreadOK(u)'
  <2>1. CASE u = t
    BY <1>0, <1>1, <1>2, <1>3, <2>1 DEF ThreadOK, Shape, Locks, Locals, HasGuard, HasMutex,
       Registers, Increments, Erases, Acts
  <2>2. CASE u # t
    <3>1. ThreadOK(u) /\ call'[u] = call[u] /\ ~Erases(u)
      BY <1>2, <1>3, <1>9, <2>2
    <3> QED BY <1>1, <3>1, OthersKeep DEF ThreadOK, Locks, Locals
  <2> QED BY <2>1, <2>2
<1>11. /\ Left(id) = 1..Len(q) /\ Left(id)' = 1..Len(p)
       /\ \A i \in Syncpoints : i # id => Left(i)' = Left(i)
  BY <1>2, <1>4, <1>5, <1>9 DEF Left
<1>12. \A i \in Syncpoints : Sorted(action_storage'[i])
  BY <1>4, <1>5, <1>6 DEF Inv
<1>13. ASSUME NEW r \in Slots, events'[r].status = "Waiting" PROVE Served(r)'
  <2>1. r # s /\ Served(r)
    BY <1>1, <1>2, <1>13 DEF Inv
  <2>2. \A u \in Threads : Handles(u, r) => Handles(u, r)'
    BY <1>1, <1>3 DEF Handles
  <2>3. ASSUME Listed(r) PROVE Listed(r)'
    <3>1. PICK i \in Left(events[r].assigned_syncpt) :
            action_storage[events[r].assigned_syncpt][i] = Entry(r, events[r].assigned_value)
      BY <2>3 DEF Listed
    <3>2. CASE events[r].assigned_syncpt = id
      <4>1. i \in 1..Len(q) /\ q[i] = Entry(r, events[r].assigned_value)
        BY <1>4, <1>11, <3>1, <3>2
      <4>2. q[i] # e
        BY <1>0, <2>1, <4>1 DEF Entry
      <4>3. PICK j \in 1..Len(p) : f[j] = i
        BY <1>7, <4>1, <4>2
      <4> QED BY <1>1, <1>4, <1>7, <1>11, <3>2, <4>1, <4>3 DEF Listed
    <3>3. CASE events[r].assigned_syncpt # id
      BY <1>1, <1>5, <1>11, <2>1, <3>1, <3>3 DEF Listed, Served
    <3> QED BY <3>2, <3>3
  <2>4. Reached(r)' => Reached(r)
    BY <1>1 DEF Reached
  <2> QED BY <1>1, <1>9, <2>1, <2>2, <2>3, <2>4 DEF Served
<1>14. ASSUME NEW r \in Slots, r \notin torn', r # s PROVE Single(r)'
  <2>1. Single(r) /\ events'[r] = events[r]
    BY <1>1, <1>14 DEF Inv
  <2>2. /\ \A i \in Left(id)' : action_storage'[id][i].tag = r =>
             f[i] \in Left(id) /\ action_storage'[id][i] = action_storage[id][f[i]]
        /\ \A i, j \in Left(id)' :
             /\ action_storage'[id][i].tag = r /\ action_storage'[id][j].tag = r
             /\ f[i] = f[j]
             => i = j
        /\ \A j \in Syncpoints : j # id =>
             Left(j)' = Left(j) /\ action_storage'[j] = action_storage[j]
    BY <1>4, <1>5, <1>7, <1>11
  <2>3. /\ \A u \in Threads : Holds(u, r)' => Holds(u, r) /\ call'[u].at = call[u].at
        /\ \A u \in Threads : Takes(u, r) => Takes(u, r)'
        /\ \A u \in Threads : call'[u].at = "cancel_store" /\ call'[u].tag = r =>
             call[u].at = "cancel_store" /\ call[u].tag = r
    BY <1>0, <1>1, <1>3, <1>14 DEF Holds, Takes, Acts
  <2> QED BY <1>1, <1>2, <2>1, <2>2, <2>3, SingleMapped
<1>15. ASSUME s \notin torn' PROVE Single(s)'
  <2>1. Single(s)
    BY <1>1, <1>2, <1>15 DEF Inv
  <2>2. \A u \in Threads : ~Holds(u, s)
    <3> SUFFICES ASSUME NEW u \in Threads, Holds(u, s) PROVE FALSE
      OBVIOUS
    <3>1. /\ ~HasGuard(u) /\ u # t /\ ThreadOK(u)
      BY <1>1, <1>2 DEF Holds, Acts
    <3>2. ~HasMutex(u)
      BY <1>2, <3>1 DEF ThreadOK, Locks
    <3> QED BY <3>1, <3>2 DEF Holds, Acts, HasGuard, HasMutex, Registers, Erases, ThreadOK, Shape
  <2>3. \A i \in 1..Len(q) : q[i].tag = s => q[i] = e /\ \A j \in 1..Len(q) : q[j].tag = s => i = j
    <3>1. \A i \in 1..Len(q) : q[i] \in Entries
      BY <1>5
    <3>2. \A i \in 1..Len(q) : q[i].tag = s =>
            /\ q[i].expected_value = events[s].assigned_value
            /\ \A j \in 1..Len(q) : q[j].tag = s => i = j
      BY <1>2, <1>4, <1>11, <2>1 DEF Single
    <3> QED BY <1>0, <3>1, <3>2 DEF Entries, Entry
  <2>4. e.tag = s
    BY <1>0 DEF Entry
  <2>5. \A i \in 1..Len(p) : p[i].tag # s
    BY <1>7, <2>3, <2>4
  <2>6. \A i \in Syncpoints : i # id => \A j \in Left(i) : action_storage[i][j].tag # s
    BY <1>0, <2>1 DEF Single
  <2>7. NoAction(s)'
    <3>1. \A u \in Threads : ~Holds(u, s)'
      BY <1>1, <1>3, <2>2 DEF Holds, Acts
    <3>2. \A i \in Syncpoints : \A j \in Left(i)' : action_storage'[i][j].tag # s
      BY <1>4, <1>5, <1>11, <2>5, <2>6
    <3> QED BY <3>1, <3>2 DEF NoAction
  <2>8. IsBeingUsed(s)' => events'[s].registered
    BY <1>1, <2>1 DEF Single, IsBeingUsed
  <2> QED BY <1>2, <2>7, <2>8, SingleWithoutAction
<1> QED BY <1>8, <1>10, <1>12, <1>13, <1>14, <1>15 DEF Inv, ThreadOK

\* An increment erases the entry whose action it has run.
LEMMA IncrementEraseStep ==
  ASSUME Inv, NEW t \in Threads, IncrementErase(t), UNCHANGED nvVars
  PROVE  Inv'
<1>0. PICK id : id = call[t].id
  OBVIOUS
<1>1. /\ call[t].at = "increment_erase"
      /\ action_storage' = [action_storage EXCEPT ![id] = Tail(@)]
      /\ call' = [call EXCEPT ![t].at = "increment_loop", ![t].tag = 0, ![t].back = "idle"]
      /\ syncpoint' = syncpoint /\ guard' = guard /\ events' = events
      /\ events_mutex' = events_mutex /\ torn' = torn /\ signaled' = signaled /\ fault' = fault
      /\ counter_max' = counter_max /\ counter_min' = counter_min
  BY <1>0 DEF IncrementErase, nvVars
<1>2. /\ Types /\ \A u \in Threads : ThreadOK(u)
      /\ Erases(t) /\ guard = t /\ id \in Syncpoints /\ call[t].value <= syncpoint[id]
  BY <1>0, <1>1 DEF Inv, ThreadOK, Locks, Shape, Locals, HasGuard, Increments, Erases
<1>3. /\ call' \in [Threads -> Calls] /\ call'[t].at = "increment_loop"
      /\ call'[t].id = id /\ call'[t].value = call[t].value
      /\ \A u \in Threads : u # t => call'[u] = call[u]
  <2>1. 0 \in 0..MaxNvEvents /\ "increment_loop" \in Places /\ "idle" \in Places
    BY NvHostAssumption DEF Places
  <2> QED BY <1>0, <1>1, <1>2, <2>1 DEF Types, Calls
<1>4. PICK q, p : q = action_storage[id] /\ p = action_storage'[id]
  OBVIOUS
<1>5. /\ q \in Seq(Entries) /\ Sorted(q) /\ p = Tail(q) /\ q # << >>
      /\ \A i \in Syncpoints : i # id => action_storage'[i] = action_storage[i]
  <2>1. q # << >>
    BY <1>0, <1>2, <1>4 DEF ThreadOK, Locals
  <2> QED BY <1>1, <1>2, <1>4, <2>1 DEF Inv, Types
<1>6. /\ p \in Seq(Entries) /\ Len(p) = Len(q) - 1 /\ Len(q) \in Nat
      /\ \A i \in 1..Len(p) : p[i] = q[i + 1] /\ i + 1 \in 1..Len(q)
  BY <1>5
<1>7. Sorted(p)
  BY <1>5, <1>6 DEF Sorted
<1>8. Types'
  <2>1. action_storage' \in [Syncpoints -> Seq(Entries)]
    <3>1. action_storage' = [action_storage EXCEPT ![id] = p]
      BY <1>1, <1>4, <1>5
    <3> QED BY <1>2, <1>6, <3>1 DEF Types
  <2> QED BY <1>1, <1>2, <1>3, <2>1 DEF Types, TypeOK
<1>9. \A u \in Threads : /\ Erases(u) => u = t
                         /\ ~Erases(u)'
                         /\ Increments(u) =>
                              /\ Increments(u)' /\ call'[u].id = call[u].id
                              /\ call'[u].value = call[u].value
  <2> TAKE u \in Threads
  <2>1. Erases(u) => u = t
    BY <1>2 DEF ThreadOK, Locks, HasGuard
  <2>2. CASE u = t
    BY <1>0, <1>3, <2>1, <2>2 DEF Erases, Acts, Increments
  <2>3. CASE u # t
    BY <1>3, <2>1, <2>3 DEF Erases, Acts, Increments
  <2> QED BY <2>2, <2>3, <2>1
<1>10. ASSUME NEW u \in Threads PROVE ThreadOK(u)'
  <2>1. CASE u = t
    BY <1>1, <1>2, <1>3, <2>1 DEF ThreadOK, Shape, Locks, Locals, HasGuard, HasMutex,
       Registers, Increments, Erases, Acts
  <2>2. CASE u # t
    <3>1. ThreadOK(u) /\ call'[u] = call[u] /\ ~Erases(u)
      BY <1>2, <1>3, <1>9, <2>2
    <3> QED BY <1>1, <3>1, OthersKeep DEF ThreadOK, Locks, Locals
  <2> QED BY <2>1, <2>2
<1>11. /\ Left(id) = {i \in 1..Len(q) : i # 1} /\ Left(id)' = 1..Len(p)
       /\ \A i \in Syncpoints : i # id => Left(i)' = Left(i)
  <2>1. \E u \in Threads : Erases(u) /\ call[u].id = id
    BY <1>0, <1>2
  <2>2. \A i \in Syncpoints : i # id => ~\E u \in Threads : Erases(u) /\ call[u].id = i
    BY <1>0, <1>9
  <2> QED BY <1>2, <1>4, <1>5, <1>9, <2>1, <2>2 DEF Left
<1>12. \A i \in Syncpoints : Sorted(action_storage'[i])
  BY <1>4, <1>5, <1>7 DEF Inv
<1>13. ASSUME NEW r \in Slots, events'[r].status = "Waiting" PROVE Served(r)'
  <2>1. Served(r)
    BY <1>1, <1>13 DEF Inv
  <2>2. \A u \in Threads : Handles(u, r) => Handles(u, r)'
    BY <1>1, <1>3 DEF Handles
  <2>3. ASSUME Listed(r) PROVE Listed(r)'
    <3>1. PICK i \in Left(events[r].assigned_syncpt) :
            action_storage[events[r].assigned_syncpt][i] = Entry(r, events[r].assigned_value)
      BY <2>3 DEF Listed
    <3>2. CASE events[r].assigned_syncpt = id
      <4>1. i - 1 \in 1..Len(p) /\ (i - 1) + 1 = i
        BY <1>6, <1>11, <3>1, <3>2
      <4>2. p[i - 1] = q[i] /\ i - 1 \in Left(id)'
        BY <1>6, <1>11, <4>1
      <4> QED BY <1>1, <1>4, <3>1, <3>2, <4>2 DEF Listed
    <3>3. CASE events[r].assigned_syncpt # id
      BY <1>1, <1>5, <1>11, <2>1, <3>1, <3>3 DEF Listed, Served
    <3> QED BY <3>2, <3>3
  <2>4. Reached(r)' => Reached(r)
    BY <1>1 DEF Reached
  <2> QED BY <1>1, <1>9, <2>1, <2>2, <2>3, <2>4 DEF Served
<1>14. ASSUME NEW r \in Slots, r \notin torn' PROVE Single(r)'
  <2>1. Single(r) /\ events'[r] = events[r] /\ syncpoint' = syncpoint /\ id \in Syncpoints
    BY <1>1, <1>2, <1>14 DEF Inv
  <2>2. PICK f : f = [i \in 1..Len(p) |-> i + 1]
    OBVIOUS
  <2>3. /\ \A i \in 1..Len(p) : f[i] \in Left(id) /\ p[i] = q[f[i]]
        /\ \A i, j \in 1..Len(p) : f[i] = f[j] => i = j
    BY <1>6, <1>11, <2>2
  <2>4. /\ \A i \in Left(id)' : action_storage'[id][i].tag = r =>
             f[i] \in Left(id) /\ action_storage'[id][i] = action_storage[id][f[i]]
        /\ \A i, j \in Left(id)' :
             /\ action_storage'[id][i].tag = r /\ action_storage'[id][j].tag = r
             /\ f[i] = f[j]
             => i = j
        /\ \A j \in Syncpoints : j # id =>
             Left(j)' = Left(j) /\ action_storage'[j] = action_storage[j]
    BY <1>4, <1>5, <1>11, <2>3
  <2>5. /\ \A u \in Threads : Holds(u, r)' => Holds(u, r) /\ call'[u].at = call[u].at
        /\ \A u \in Threads : Takes(u, r) => Takes(u, r)'
        /\ \A u \in Threads : call'[u].at = "cancel_store" /\ call'[u].tag = r =>
             call[u].at = "cancel_store" /\ call[u].tag = r
    BY <1>1, <1>3 DEF Holds, Takes, Acts
  <2> QED BY <2>1, <2>4, <2>5, SingleMapped
<1> QED BY <1>8, <1>10, <1>12, <1>13, <1>14 DEF Inv, ThreadOK

\* An increment begins the action of the first entry: the entry is then in its hands.
LEMMA IncrementRunStep ==
  ASSUME Inv, NEW t \in Threads, IncrementRun(t), UNCHANGED nvVars
  PROVE  Inv'
<1>0. PICK id, q, s : id = call[t].id /\ q = action_storage[id] /\ s = Head(q).tag
  OBVIOUS
<1>1. /\ call[t].at = "increment_loop" /\ q # << >> /\ Head(q).expected_value <= call[t].value
      /\ call' = [call EXCEPT ![t].at = "action", ![t].back = "increment_erase", ![t].tag = s]
      /\ action_storage' = action_storage
      /\ syncpoint' = syncpoint /\ guard' = guard /\ events' = events
      /\ events_mutex' = events_mutex /\ torn' = torn /\ signaled' = signaled /\ fault' = fault
      /\ counter_max' = counter_max /\ counter_min' = counter_min
  BY <1>0 DEF IncrementRun, FrontIsDue, nvVars
<1>2. /\ Types /\ \A u \in Threads : ThreadOK(u)
      /\ guard = t /\ id \in Syncpoints /\ call[t].value <= syncpoint[id]
      /\ syncpoint[id] \in Nat /\ call[t].value \in Nat
  <2>1. Types /\ \A u \in Threads : ThreadOK(u)
    BY DEF Inv, ThreadOK
  <2>2. guard = t /\ id \in Syncpoints /\ call[t].value <= syncpoint[id]
    BY <1>0, <1>1, <2>1 DEF ThreadOK, Locks, Shape, Locals, HasGuard, Increments
  <2>3. syncpoint \in [Syncpoints -> Nat] /\ call[t] \in Calls
    BY <2>1, TypeFacts
  <2> QED BY <2>1, <2>2, <2>3 DEF Calls
<1>3. /\ q \in Seq(Entries) /\ q[1] = Head(q) /\ q[1] \in Entries /\ s \in Slots /\ q[1].tag = s
      /\ 1 \in 1..Len(q) /\ q[1].expected_value \in Nat
  <2>1. q \in Seq(Entries)
    BY <1>0, <1>2 DEF Types
  <2>2. q[1] = Head(q) /\ q[1] \in Entries /\ 1 \in 1..Len(q)
    BY <1>1, <2>1
  <2> QED BY <1>0, <2>1, <2>2 DEF Entries
<1>4. /\ call' \in [Threads -> Calls] /\ call'[t].at = "action"
      /\ call'[t].id = id /\ call'[t].value = call[t].value /\ call'[t].tag = s
      /\ call'[t].back = "increment_erase"
      /\ \A u \in Threads : u # t => call'[u] = call[u]
  <2>1. s \in 0..MaxNvEvents /\ "action" \in Places /\ "increment_erase" \in Places
    BY <1>2, <1>3, TypeFacts DEF Places
  <2> QED BY <1>0, <1>1, <1>2, <2>1 DEF Types, Calls
<1>5. Types'
  BY <1>1, <1>2, <1>4 DEF Types, TypeOK
<1>6. \A u \in Threads : /\ ~Erases(u)
                         /\ Erases(u)' <=> u = t
                         /\ Increments(u) =>
                              /\ Increments(u)' /\ call'[u].id = call[u].id
                              /\ call'[u].value = call[u].value
  <2> TAKE u \in Threads
  <2>1. ~Erases(u)
    BY <1>1, <1>2 DEF ThreadOK, Locks, HasGuard, Erases, Acts
  <2>2. CASE u = t
    BY <1>0, <1>4, <2>1, <2>2 DEF Erases, Acts, Increments
  <2>3. CASE u # t
    BY <1>4, <2>1, <2>3 DEF Erases, Acts, Increments
  <2> QED BY <2>1, <2>2, <2>3
<1>7. ASSUME NEW u \in Threads PROVE ThreadOK(u)'
  <2>1. CASE u = t
    BY <1>0, <1>1, <1>2, <1>3, <1>4, <2>1 DEF ThreadOK, Shape, Locks, Locals, HasGuard, HasMutex,
       Registers, Increments, Erases, Acts
  <2>2. CASE u # t
    <3>1. ThreadOK(u) /\ call'[u] = call[u] /\ ~Erases(u)
      BY <1>2, <1>4, <1>6, <2>2
    <3> QED BY <1>1, <3>1, OthersKeep DEF ThreadOK, Locks, Locals
  <2> QED BY <2>1, <2>2
<1>8. /\ Left(id) = 1..Len(q) /\ Left(id)' = {i \in 1..Len(q) : i # 1}
      /\ \A i \in Syncpoints : i # id => Left(i)' = Left(i)
  <2>1. \E u \in Threads : Erases(u)' /\ call'[u].id = id
    BY <1>4, <1>6
  <2>2. \A i \in Syncpoints : i # id => ~\E u \in Threads : Erases(u)' /\ call'[u].id = i
    BY <1>4, <1>6
  <2> QED BY <1>0, <1>1, <1>2, <1>6, <2>1, <2>2 DEF Left
<1>9. ASSUME NEW r \in Slots, events'[r].status = "Waiting" PROVE Served(r)'
  <2>1. Served(r)
    BY <1>1, <1>9 DEF Inv
  <2>2. \A u \in Threads : Handles(u, r) => Handles(u, r)'
    BY <1>1, <1>4 DEF Handles
  <2>3. ASSUME Listed(r) PROVE Listed(r)' \/ Handles(t, r)'
    <3>1. PICK i \in Left(events[r].assigned_syncpt) :
            action_storage[events[r].assigned_syncpt][i] = Entry(r, events[r].assigned_value)
      BY <2>3 DEF Listed
    <3>2. CASE events[r].assigned_syncpt = id /\ i = 1
      BY <1>0, <1>3, <1>4, <3>1, <3>2 DEF Entry, Handles
    <3>3. CASE ~(events[r].assigned_syncpt = id /\ i = 1)
      BY <1>1, <1>8, <2>1, <3>1, <3>3 DEF Listed, Served
    <3> QED BY <3>2, <3>3
  <2>4. Reached(r)' => Reached(r)
    BY <1>1 DEF Reached
  <2> QED BY <1>1, <1>6, <2>1, <2>2, <2>3, <2>4 DEF Served
<1>10. ASSUME NEW r \in Slots, r \notin torn', r # s PROVE Single(r)'
  <2>1. Single(r) /\ events'[r] = events[r]
    BY <1>1, <1>10 DEF Inv
  <2>2. /\ syncpoint \in [Syncpoints -> Nat] /\ syncpoint' \in [Syncpoints -> Nat]
        /\ \A i \in Syncpoints : syncpoint'[i] >= syncpoint[i]
        /\ events[r].assigned_value \in Nat
    BY <1>1, <1>2, TypeFacts
  <2>3. /\ \A u \in Threads : Erases(u) => Erases(u)' /\ call'[u].id = call[u].id
        /\ \A u \in Threads : Holds(u, r)' => Holds(u, r) /\ call'[u].at = call[u].at
        /\ \A u \in Threads : Takes(u, r) => Takes(u, r)'
        /\ \A u \in Threads : call'[u].at = "cancel_store" /\ call'[u].tag = r =>
             call[u].at = "cancel_store" /\ call[u].tag = r
    BY <1>1, <1>4, <1>6, <1>10 DEF Holds, Takes, Acts
  <2> QED BY <1>1, <2>1, <2>2, <2>3, SingleKept
<1>11. ASSUME s \notin torn' PROVE Single(s)'
  <2>1. Single(s)
    BY <1>1, <1>3, <1>11 DEF Inv
  <2>2. /\ Waits(s) /\ id = events[s].assigned_syncpt
        /\ q[1].expected_value = events[s].assigned_value
        /\ \A u \in Threads : ~Holds(u, s)
        /\ \A j \in Left(id) : action_storage[id][j].tag = s => 1 = j
    BY <1>0, <1>2, <1>3, <1>8, <2>1 DEF Single
  <2>3. \A u \in Threads : Holds(u, s)' => u = t
    BY <1>4, <2>2 DEF Holds, Acts
  <2>4. \A i \in Syncpoints : \A j \in Left(i)' : action_storage'[i][j].tag # s
    <3>1. \A i \in Syncpoints : i # id => \A j \in Left(i) : action_storage[i][j].tag # s
      BY <2>1, <2>2 DEF Single
    <3> QED BY <1>1, <1>8, <2>2, <3>1
  <2>5. Waits(s)'
    BY <1>1, <1>4, <2>2 DEF Waits, Takes
  <2>6. Reached(s)'
    BY <1>1, <1>2, <1>3, <2>2 DEF Reached
  <2>7. \A u \in Threads : ~(call'[u].at = "cancel_store" /\ call'[u].tag = s)
    <3>1. ~NoAction(s)
      BY <1>0, <1>2, <1>3, <1>8 DEF NoAction
    <3> QED BY <1>4, <2>1, <3>1 DEF Single
  <2>8. IsBeingUsed(s)' => events'[s].registered
    BY <1>1, <2>1 DEF Single, IsBeingUsed
  <2> QED BY <1>4, <2>3, <2>4, <2>5, <2>6, <2>7, <2>8 DEF Single
<1>12. \A i \in Syncpoints : Sorted(action_storage'[i])
  BY <1>1 DEF Inv
<1> QED BY <1>5, <1>7, <1>9, <1>10, <1>11, <1>12 DEF Inv, ThreadOK

\* The end of Increment(): nothing in the list is due any more at its value.
LEMMA IncrementNotifyStep ==
  ASSUME Inv, NEW t \in Threads, IncrementNotify(t), UNCHANGED nvVars
  PROVE  Inv'
<1>1. /\ call[t].at = "increment_loop" /\ ~FrontIsDue(t) /\ guard' = NONE
      /\ call' = [u \in Threads |-> IF u = t THEN Idle
                                    ELSE IF call[u].at = "waiting"
                                         THEN [call[u] EXCEPT !.at = "wait_lock"]
                                         ELSE call[u]]
      /\ action_storage' = action_storage
      /\ syncpoint' = syncpoint /\ events' = events
      /\ events_mutex' = events_mutex /\ torn' = torn /\ signaled' = signaled /\ fault' = fault
      /\ counter_max' = counter_max /\ counter_min' = counter_min
  BY DEF IncrementNotify, nvVars
<1>2. /\ Types /\ \A u \in Threads : ThreadOK(u) /\ call[u] \in Calls
      /\ guard = t /\ call[t].id \in Syncpoints
  <2>1. Types /\ \A u \in Threads : ThreadOK(u) /\ call[u] \in Calls
    BY TypeFacts DEF Inv, ThreadOK
  <2> QED BY <1>1, <2>1 DEF ThreadOK, Locks, Shape, HasGuard
<1>3. /\ call'[t] = Idle /\ call'[t].at = "idle"
      /\ \A u \in Threads : u # t /\ call[u].at # "waiting" => call'[u] = call[u]
      /\ \A u \in Threads : u # t /\ call[u].at = "waiting" =>
           /\ call'[u].at = "wait_lock" /\ call'[u].id = call[u].id /\ call'[u].tag = call[u].tag
           /\ call'[u] \in Calls
  <2>1. "wait_lock" \in Places
    BY DEF Places
  <2> QED BY <1>1, <1>2, <2>1 DEF Idle, Calls
<1>4. call' \in [Threads -> Calls]
  <2>1. Idle \in Calls
    BY <1>2, TypeFacts, NvHostAssumption DEF Idle, Calls, Places
  <2>2. \A u \in Threads : call'[u] \in Calls
    BY <1>2, <1>3, <2>1
  <2> QED BY <1>1, <2>2
<1>5. Types'
  BY <1>1, <1>2, <1>4 DEF Types, TypeOK
<1>6. \A u \in Threads : ~Erases(u) /\ ~Erases(u)'
  <2> TAKE u \in Threads
  <2>1. ~Erases(u)
    BY <1>1, <1>2 DEF ThreadOK, Locks, HasGuard, Erases, Acts
  <2> QED BY <1>3, <2>1 DEF Erases, Acts
<1>7. ASSUME NEW u \in Threads PROVE ThreadOK(u)'
  <2>1. CASE u = t
    BY <1>3, <2>1 DEF ThreadOK, Shape, Locks, Locals, HasGuard, HasMutex,
       Registers, Increments, Erases, Acts
  <2>2. CASE u # t /\ call[u].at = "waiting"
    BY <1>1, <1>2, <1>3, <2>2 DEF ThreadOK, Shape, Locks, Locals, HasGuard, HasMutex,
       Registers, Increments, Erases, Acts
  <2>3. CASE u # t /\ call[u].at # "waiting"
    <3>1. ThreadOK(u) /\ call'[u] = call[u] /\ ~Erases(u)
      BY <1>2, <1>3, <1>6, <2>3
    <3>2. ~HasGuard(u)
      BY <1>2, <2>3, <3>1 DEF ThreadOK, Locks
    <3> QED BY <1>1, <3>1, <3>2, OthersKeep DEF ThreadOK, Locks, Locals
  <2> QED BY <2>1, <2>2, <2>3
<1>8. \A i \in Syncpoints : Left(i)' = Left(i) /\ Left(i) = 1..Len(action_storage[i])
  BY <1>1, <1>6 DEF Left
<1>9. ASSUME NEW s \in Slots, events'[s].status = "Waiting" PROVE Served(s)'
  <2>1. Served(s) /\ events[s].assigned_syncpt \in Syncpoints
    BY <1>1, <1>9 DEF Inv, Served
  <2>2. \A u \in Threads : Handles(u, s) => Handles(u, s)'
    BY <1>1, <1>3 DEF Handles
  <2>3. Listed(s) => Listed(s)'
    BY <1>1, <1>8, <2>1 DEF Listed
  <2>4. Reached(s)' => Reached(s)
    BY <1>1 DEF Reached
  <2>5. \A u \in Threads : u # t /\ Increments(u) => Increments(u)' /\ call'[u] = call[u]
    BY <1>3, <1>6 DEF Increments
  <2>6. ASSUME Listed(s), call[t].id = events[s].assigned_syncpt,
               call[t].value >= events[s].assigned_value
        PROVE  FALSE
    <3>1. PICK q : q = action_storage[call[t].id]
      OBVIOUS
    <3>2. q \in Seq(Entries) /\ Sorted(q)
      BY <1>2, <3>1 DEF Inv, Types
    <3>3. PICK i \in 1..Len(q) : q[i] = Entry(s, events[s].assigned_value)
      BY <1>8, <2>1, <2>6, <3>1 DEF Listed
    <3>4. /\ q # << >> /\ Head(q) = q[1] /\ q[1] \in Entries /\ 1 \in 1..Len(q)
          /\ q[i].expected_value = events[s].assigned_value
      BY <3>2, <3>3 DEF Entry
    <3>5. q[1].expected_value <= q[i].expected_value
      <4>1. CASE i = 1
        BY <3>4, <4>1 DEF Entries
      <4>2. CASE i # 1
        BY <3>2, <3>4, <4>2 DEF Sorted
      <4> QED BY <4>1, <4>2
    <3>6. ~(q[1].expected_value <= call[t].value)
      BY <1>1, <3>1, <3>4 DEF FrontIsDue
    <3>7. call[t].value \in Int /\ events[s].assigned_value \in Int /\ q[1].expected_value \in Int
      BY <1>2, <3>4, TypeFacts DEF Calls, Entries
    <3> QED BY <2>6, <3>4, <3>5, <3>6, <3>7
  <2>7. CASE \E u \in Threads : Handles(u, s)
    BY <1>1, <2>1, <2>2, <2>7 DEF Served
  <2>8. CASE ~\E u \in Threads : Handles(u, s)
    <3>1. Listed(s) /\ (Reached(s) => \E u \in Threads : /\ Increments(u)
                                      /\ call[u].id = events[s].assigned_syncpt
                                      /\ call[u].value >= events[s].assigned_value)
      BY <2>1, <2>8 DEF Served
    <3> QED BY <1>1, <2>1, <2>3, <2>4, <2>5, <2>6, <3>1 DEF Served
  <2> QED BY <2>7, <2>8
<1>10. ASSUME NEW s \in Slots, s \notin torn' PROVE Single(s)'
  <2>1. Single(s) /\ events'[s] = events[s]
    BY <1>1, <1>10 DEF Inv
  <2>2. /\ syncpoint \in [Syncpoints -> Nat] /\ syncpoint' \in [Syncpoints -> Nat]
        /\ \A i \in Syncpoints : syncpoint'[i] >= syncpoint[i]
        /\ events[s].assigned_value \in Nat
    BY <1>1, <1>2, TypeFacts
  <2>3. /\ \A u \in Threads : Erases(u) => Erases(u)' /\ call'[u].id = call[u].id
        /\ \A u \in Threads : Holds(u, s)' => Holds(u, s) /\ call'[u].at = call[u].at
        /\ \A u \in Threads : Takes(u, s) => Takes(u, s)'
        /\ \A u \in Threads : call'[u].at = "cancel_store" /\ call'[u].tag = s =>
             call[u].at = "cancel_store" /\ call[u].tag = s
    BY <1>1, <1>3, <1>6, <1>10 DEF Holds, Takes, Acts
  <2> QED BY <1>1, <2>1, <2>2, <2>3, SingleKept
<1>11. \A i \in Syncpoints : Sorted(action_storage'[i])
  BY <1>1 DEF Inv
<1> QED BY <1>5, <1>7, <1>9, <1>10, <1>11 DEF Inv, ThreadOK

\* The second look of RegisterAction(), and the insertion: an entry is inserted for a
\* value the counter has not reached, with the list in the hands of nobody.
LEMMA RegisterInsertStep ==
  ASSUME Inv, NEW t \in Threads, RegisterInsert(t), UNCHANGED nvVars
  PROVE  Inv'
<1>0. PICK id, s, value : id = call[t].id /\ s = call[t].tag /\ value = call[t].value
  OBVIOUS
<1>1. /\ call[t].at = "register_lock" /\ guard = NONE
      /\ syncpoint' = syncpoint /\ events' = events
      /\ events_mutex' = events_mutex /\ torn' = torn /\ signaled' = signaled /\ fault' = fault
      /\ counter_max' = counter_max /\ counter_min' = counter_min
      /\ \/ /\ syncpoint[id] >= value /\ guard' = t /\ BeginAction(t, "register_unlock")
            /\ action_storage' = action_storage
         \/ /\ ~(syncpoint[id] >= value) /\ guard' = guard /\ Goto(t, "registered")
            /\ action_storage' = [action_storage EXCEPT ![id] = Emplace(@, Entry(s, value))]
  BY <1>0 DEF RegisterInsert, nvVars
<1>2. /\ Types /\ \A u \in Threads : ThreadOK(u) /\ ~HasGuard(u)
      /\ id \in Syncpoints /\ s \in Slots /\ value \in 0..MaxValue /\ events_mutex = t
      /\ events[s].assigned_syncpt = id /\ events[s].assigned_value = value
  <2>1. Types /\ \A u \in Threads : ThreadOK(u) /\ ~HasGuard(u) /\ call[u] \in Calls
    BY <1>1, SyncpointAssumption, TypeFacts DEF Inv, ThreadOK, Locks
  <2> QED BY <1>0, <1>1, <2>1 DEF ThreadOK, Locks, Shape, Locals, HasMutex, Registers, Calls
<1>3. \A u \in Threads : ~Erases(u) /\ (HasMutex(u) => u = t)
  BY <1>2 DEF HasGuard, ThreadOK, Locks
<1>4. \A i \in Syncpoints : Left(i) = 1..Len(action_storage[i])
  BY <1>3 DEF Left
<1>5. ASSUME s \notin torn
      PROVE  /\ Single(s) /\ \A u \in Threads : Holds(u, s) => u = t
             /\ \A i \in Syncpoints : \A j \in Left(i) : action_storage[i][j].tag # s
             /\ events[s].status = "Waiting" /\ events[s].registered
             /\ \A u \in Threads : ~(call[u].at = "cancel_store" /\ call[u].tag = s)
  <2>1. Single(s) /\ Holds(t, s)
    BY <1>0, <1>1, <1>2, <1>5 DEF Inv, Holds
  <2> QED BY <1>1, <2>1 DEF Single, NoAction, IsBeingUsed
<1>6. CASE /\ syncpoint[id] >= value /\ guard' = t /\ BeginAction(t, "register_unlock")
           /\ action_storage' = action_storage
  <2>1. /\ call' \in [Threads -> Calls]
        /\ call'[t].id = id /\ call'[t].value = value /\ call'[t].tag = s
        /\ call'[t].at = "action" /\ call'[t].back = "register_unlock"
        /\ \A u \in Threads : u # t => call'[u] = call[u]
    BY <1>0, <1>2, <1>6 DEF BeginAction, Types, Calls, Places
  <2>2. Types'
    BY <1>1, <1>2, <1>6, <2>1 DEF Types, TypeOK
  <2>3. ThreadOK(t)'
    BY <1>1, <1>2, <1>6, <2>1 DEF ThreadOK, Shape, Locks, Locals, HasGuard, HasMutex,
       Registers, Increments, Erases, Acts
  <2>4. \A u \in Threads : /\ ~Erases(u)'
                           /\ Increments(u)' <=> Increments(u)
                           /\ Holds(u, s)' <=> Holds(u, s)
                           /\ Handles(u, s) => Handles(u, s)'
                           /\ Takes(u, s) => Takes(u, s)'
                           /\ call'[u].id = call[u].id /\ call'[u].value = call[u].value
                           /\ call'[u].tag = call[u].tag
    BY <1>0, <1>1, <1>3, <2>1 DEF Erases, Increments, Acts, Holds, Handles, Takes
  <2>5. events'[s].status = "Waiting" => Served(s)'
    BY <1>1, <1>2, <1>3, <1>6, <2>4, ServedKept DEF Inv
  <2>6. ASSUME s \notin torn' PROVE Single(s)'
    <3>1. \A i \in Syncpoints : Left(i)' = Left(i)
      BY <1>3, <1>6, <2>4 DEF Left
    <3>2. Reached(s)'
      BY <1>1, <1>2, <1>6 DEF Reached
    <3> QED BY <1>1, <1>5, <1>6, <2>1, <2>4, <2>6, <3>1, <3>2 DEF Single, Waits
  <2>7. /\ call[t].tag \in {s} /\ call'[t].tag \in {s} /\ {s} \in SUBSET Slots
        /\ torn \subseteq torn' /\ torn' \subseteq torn \cup {s}
        /\ \A r \in Slots : r \notin {s} => events'[r] = events[r]
        /\ \A r \in {s} : events'[r].status = "Waiting" => Served(r)'
        /\ \A r \in {s} : r \notin torn' => Single(r)'
    BY <1>0, <1>1, <1>2, <2>1, <2>5, <2>6
  <2>8. \A u \in Threads : u # t /\ call[u].tag \in {s} =>
          /\ At(u) \in {"register", "register_lock", "deregister"} =>
               /\ events'[call[u].tag].assigned_syncpt = events[call[u].tag].assigned_syncpt
               /\ events'[call[u].tag].assigned_value = events[call[u].tag].assigned_value
          /\ At(u) = "deregister" => events'[call[u].tag].status # "Waiting"
    BY <1>1, <1>2 DEF ThreadOK, Locals
  <2>9. /\ ~Erases(t) /\ ~Erases(t)' /\ ~Increments(t)
        /\ syncpoint' = syncpoint /\ action_storage' = action_storage
        /\ guard = NONE /\ events_mutex' = events_mutex
    BY <1>1, <1>3, <1>6, <2>4 DEF Increments
  <2> QED BY <2>1, <2>2, <2>3, <2>7, <2>8, <2>9, Touches
<1>7. CASE /\ ~(syncpoint[id] >= value) /\ guard' = guard /\ Goto(t, "registered")
           /\ action_storage' = [action_storage EXCEPT ![id] = Emplace(@, Entry(s, value))]
  <2>1. /\ call' \in [Threads -> Calls] /\ call'[t].at = "registered"
        /\ call'[t].id = id /\ call'[t].value = value /\ call'[t].tag = s
        /\ \A u \in Threads : u # t => call'[u] = call[u]
    <3>1. "registered" \in Places
      BY DEF Places
    <3> QED BY <1>0, <1>2, <1>7, <3>1, Moves
  <2>2. PICK q, p, e : /\ q = action_storage[id] /\ p = action_storage'[id]
                       /\ e = Entry(s, value)
    OBVIOUS
  <2>3. /\ q \in Seq(Entries) /\ Sorted(q) /\ p = Emplace(q, e) /\ e \in Entries
        /\ e.tag = s /\ e.expected_value = value
        /\ \A i \in Syncpoints : i # id => action_storage'[i] = action_storage[i]
    BY <1>2, <1>7, <2>2 DEF Inv, Types, Entries, Entry
  <2>4. PICK k \in 1..(Len(q) + 1) :
          /\ p \in Seq(Entries) /\ Len(p) = Len(q) + 1
          /\ \A i \in 1..(Len(q) + 1) :
               p[i] = IF i < k THEN q[i] ELSE IF i = k THEN e ELSE q[i - 1]
          /\ Sorted(p)
    <3>1. PICK k \in 1..(Len(q) + 1) : Inserted(k, p, q, e, Entries) /\ Sorted(p)
      BY <2>3, EmplaceIs
    <3> QED BY <3>1 DEF Inserted
  <2>5. Types'
    <3>1. action_storage' = [action_storage EXCEPT ![id] = p]
      BY <1>2, <1>7, <2>2, <2>3
    <3>2. action_storage' \in [Syncpoints -> Seq(Entries)]
      BY <1>2, <2>4, <3>1 DEF Types
    <3> QED BY <1>1, <1>2, <1>7, <2>1, <3>2 DEF Types, TypeOK
  <2>6. \A u \in Threads : /\ ~Erases(u)'
                           /\ Increments(u) =>
                                /\ Increments(u)' /\ call'[u].id = call[u].id
                                /\ call'[u].value = call[u].value
    BY <1>1, <1>3, <2>1 DEF Erases, Increments, Acts
  <2>7. ASSUME NEW u \in Threads PROVE ThreadOK(u)'
    <3>1. CASE u = t
      BY <1>1, <1>2, <2>1, <3>1 DEF ThreadOK, Shape, Locks, Locals, HasGuard, HasMutex,
         Registers, Increments, Erases, Acts
    <3>2. CASE u # t
      <4>1. ThreadOK(u) /\ call'[u] = call[u] /\ ~Erases(u)
        BY <1>2, <1>3, <2>1, <3>2
      <4> QED BY <1>1, <1>7, <4>1, OthersKeep DEF ThreadOK, Locks, Locals
    <3> QED BY <3>1, <3>2
  <2>8. /\ Left(id) = 1..Len(q) /\ Left(id)' = 1..Len(p)
        /\ \A i \in Syncpoints : i # id => Left(i)' = Left(i)
    BY <1>2, <1>3, <2>2, <2>3, <2>6 DEF Left
  <2>9. \A i \in Syncpoints : Sorted(action_storage'[i])
    BY <2>2, <2>3, <2>4 DEF Inv
  <2>10. Len(q) \in Nat /\ k \in 1..Len(p) /\ p[k] = e
    BY <2>3, <2>4
  <2>11. ASSUME NEW r \in Slots, events'[r].status = "Waiting", r # s PROVE Served(r)'
    <3>1. Served(r)
      BY <1>1, <2>11 DEF Inv
    <3>2. \A u \in Threads : Handles(u, r) => Handles(u, r)'
      BY <1>0, <1>1, <2>1, <2>11 DEF Handles
    <3>3. ASSUME Listed(r) PROVE Listed(r)'
      <4>1. PICK i \in Left(events[r].assigned_syncpt) :
              action_storage[events[r].assigned_syncpt][i] = Entry(r, events[r].assigned_value)
        BY <3>3 DEF Listed
      <4>2. CASE events[r].assigned_syncpt = id
        <5>1. i \in 1..Len(q) /\ q[i] = Entry(r, events[r].assigned_value)
          BY <2>2, <2>8, <4>1, <4>2
        <5>2. PICK j \in 1..Len(p) : p[j] = q[i]
          <6>1. CASE i < k
            BY <2>4, <2>10, <5>1, <6>1
          <6>2. CASE ~(i < k)
            <7>1. /\ i + 1 \in 1..(Len(q) + 1) /\ ~(i + 1 < k) /\ i + 1 # k
                  /\ (i + 1) - 1 = i
              BY <2>10, <5>1, <6>2
            <7>2. p[i + 1] = q[i]
              BY <2>4, <7>1
            <7> QED BY <2>4, <7>1, <7>2
          <6> QED BY <6>1, <6>2
        <5> QED BY <1>1, <2>2, <2>8, <4>2, <5>1, <5>2 DEF Listed
      <4>3. CASE events[r].assigned_syncpt # id
        BY <1>1, <2>3, <2>8, <3>1, <4>1, <4>3 DEF Listed, Served
      <4> QED BY <4>2, <4>3
    <3>4. Reached(r)' => Reached(r)
      BY <1>1 DEF Reached
    <3> QED BY <1>1, <2>6, <3>1, <3>2, <3>3, <3>4 DEF Served
  <2>12. Served(s)'
    <3>1. Listed(s)'
      BY <1>1, <1>2, <2>2, <2>8, <2>10 DEF Listed
    <3>2. ~Reached(s)'
      BY <1>1, <1>2, <1>7 DEF Reached
    <3> QED BY <1>1, <1>2, <3>1, <3>2 DEF Served
  <2>13. ASSUME NEW r \in Slots, r \notin torn', r # s PROVE Single(r)'
    <3>1. Single(r) /\ events'[r] = events[r] /\ syncpoint' = syncpoint /\ id \in Syncpoints
      BY <1>1, <1>2, <2>13 DEF Inv
    <3>2. PICK f : f = [i \in 1..Len(p) |-> IF i < k THEN i ELSE i - 1]
      OBVIOUS
    <3>3. \A i \in 1..Len(p) : f[i] = IF i < k THEN i ELSE i - 1
      BY <3>2
    <3>4. \A i \in 1..Len(p) : i # k => f[i] \in 1..Len(q) /\ p[i] = q[f[i]]
      BY <2>4, <2>10, <3>3
    <3>5. \A i, j \in 1..Len(p) : i # k /\ j # k /\ f[i] = f[j] => i = j
      BY <2>4, <2>10, <3>3
    <3>6. \A i \in 1..Len(p) : p[i].tag = r => i # k
      BY <2>3, <2>10, <2>13
    <3>7. /\ \A i \in Left(id)' : action_storage'[id][i].tag = r =>
               f[i] \in Left(id) /\ action_storage'[id][i] = action_storage[id][f[i]]
          /\ \A i, j \in Left(id)' :
               /\ action_storage'[id][i].tag = r /\ action_storage'[id][j].tag = r
               /\ f[i] = f[j]
               => i = j
          /\ \A j \in Syncpoints : j # id =>
               Left(j)' = Left(j) /\ action_storage'[j] = action_storage[j]
      BY <2>2, <2>3, <2>8, <3>4, <3>5, <3>6
    <3>8. /\ \A u \in Threads : Holds(u, r)' => Holds(u, r) /\ call'[u].at = call[u].at
          /\ \A u \in Threads : Takes(u, r) => Takes(u, r)'
          /\ \A u \in Threads : call'[u].at = "cancel_store" /\ call'[u].tag = r =>
               call[u].at = "cancel_store" /\ call[u].tag = r
      BY <1>1, <2>1 DEF Holds, Takes, Acts
    <3> QED BY <3>1, <3>7, <3>8, SingleMapped
  <2>14. ASSUME s \notin torn' PROVE Single(s)'
    <3>1. /\ \A u \in Threads : Holds(u, s) => u = t
          /\ \A i \in Syncpoints : \A j \in Left(i) : action_storage[i][j].tag # s
          /\ events[s].status = "Waiting" /\ events[s].registered
          /\ \A u \in Threads : ~(call[u].at = "cancel_store" /\ call[u].tag = s)
      BY <1>1, <1>5, <2>14
    <3>2. \A u \in Threads : ~Holds(u, s)' /\ ~(call'[u].at = "cancel_store" /\ call'[u].tag = s)
      BY <2>1, <3>1 DEF Holds, Acts
    <3>3. \A i \in 1..Len(p) : p[i].tag = s => i = k
      <4>1. \A j \in 1..Len(q) : q[j].tag # s
        BY <1>2, <2>2, <2>8, <3>1
      <4>2. \A i \in 1..Len(p) : i < k => i \in 1..Len(q)
        BY <2>4, <2>10
      <4>3. \A i \in 1..Len(p) : i # k /\ ~(i < k) => i - 1 \in 1..Len(q)
        BY <2>4, <2>10
      <4>4. \A i \in 1..Len(p) : i # k => \E j \in 1..Len(q) : p[i] = q[j]
        BY <2>4, <4>2, <4>3
      <4> QED BY <4>1, <4>4
    <3>4. Waits(s)'
      BY <1>1, <3>1 DEF Waits
    <3>5. \A i \in Syncpoints : \A j \in Left(i)' : action_storage'[i][j].tag = s =>
            i = id /\ j = k /\ action_storage'[i][j] = e
      <4> TAKE i \in Syncpoints
      <4>1. CASE i = id
        BY <2>2, <2>8, <2>10, <3>3, <4>1
      <4>2. CASE i # id
        <5>1. action_storage'[i] = action_storage[i] /\ Left(i)' = Left(i)
          BY <2>3, <2>8, <4>2
        <5> QED BY <3>1, <5>1
      <4> QED BY <4>1, <4>2
    <3>6. \A i \in Syncpoints : \A j \in Left(i)' : action_storage'[i][j].tag = s =>
            /\ Waits(s)'
            /\ i = events'[s].assigned_syncpt
            /\ action_storage'[i][j].expected_value = events'[s].assigned_value
            /\ \A u \in Threads : ~Holds(u, s)'
            /\ \A m \in Left(i)' : action_storage'[i][m].tag = s => j = m
      BY <1>1, <1>2, <2>3, <3>2, <3>4, <3>5
    <3> QED BY <1>1, <3>1, <3>2, <3>6 DEF Single
  <2> QED BY <2>5, <2>7, <2>9, <2>11, <2>12, <2>13, <2>14 DEF Inv, ThreadOK
<1> QED BY <1>1, <1>6, <1>7

-----------------------------------------------------------------------------
(* The invariant.                                                          *)

LEMMA InvInit == Init => Inv
<1> SUFFICES ASSUME Init PROVE Inv
  OBVIOUS
<1>1. /\ syncpoint = [id \in Syncpoints |-> 0] /\ action_storage = [id \in Syncpoints |-> << >>]
      /\ guard = NONE /\ call = [t \in Threads |-> Idle]
      /\ counter_min = [id \in Syncpoints |-> 0] /\ counter_max = [id \in Syncpoints |-> 0]
      /\ events = [s \in Slots |-> NoEvent] /\ signaled = [s \in Slots |-> FALSE]
      /\ events_mutex = NONE /\ torn = {} /\ fault = {}
  BY DEF Init, SyncpointInit
<1>2. 0 \in 0..MaxValue /\ 0 \in 0..(MaxFails + 1) /\ 0 \in 0..MaxNvEvents
  BY SyncpointAssumption, NvHostAssumption
<1>3. Types
  <2>1. NoEvent \in Fields
    BY <1>2 DEF NoEvent, Fields, EventState
  <2>2. Idle \in Calls
    BY <1>2 DEF Idle, Calls, Places
  <2>3. << >> \in Seq(Entries)
    OBVIOUS
  <2>4. TypeOK
    BY <1>1, <1>2, <2>1 DEF TypeOK, Fields
  <2> QED BY <1>1, <2>2, <2>3, <2>4 DEF Types
<1>4. \A t \in Threads : call[t].at = "idle"
  BY <1>1 DEF Idle
<1>5. \A t \in Threads : Shape(t) /\ Locks(t) /\ Locals(t)
  BY <1>4 DEF Shape, Locks, Locals, HasGuard, HasMutex, Registers, Increments, Erases, Acts
<1>6. \A id \in Syncpoints : action_storage[id] = << >> /\ Sorted(action_storage[id])
  BY <1>1 DEF Sorted
<1>7. \A s \in Slots : events[s].status = "Available"
  BY <1>1 DEF NoEvent
<1>8. \A id \in Syncpoints : Left(id) = {}
  BY <1>6 DEF Left
<1>9. \A s \in Slots : Single(s)
  BY <1>4, <1>7, <1>8 DEF Single, IsBeingUsed, Holds, Acts
<1> QED BY <1>3, <1>5, <1>6, <1>7, <1>9 DEF Inv

LEMMA InvStep == Inv /\ [Next]_vars => Inv'
<1> SUFFICES ASSUME Inv, [Next]_vars PROVE Inv'
  OBVIOUS
<1>0. /\ TypeOK /\ Waiters \subseteq Threads /\ Managers \subseteq Threads
      /\ Engines \subseteq Threads
  BY NvHostAssumption DEF Inv, Types
<1>1. ASSUME NEW t \in Threads, Step(t) PROVE Inv'
  <2>1. CASE SyncpointStep(t) /\ UNCHANGED nvVars
    BY <2>1, RegisterCheckStep, RegisterInsertStep, IncrementRunStep, IncrementEraseStep,
       IncrementNotifyStep, PlainStep DEF SyncpointStep
  <2>2. CASE UpdateMin(t)
    BY <2>2, UpdateMinStep
  <2>3. CASE \E now \in BOOLEAN : EventWaitLocked(t, now)
    BY <2>3, EventWaitLockedStep
  <2>4. CASE EventWaitReturn(t)
    BY <2>4, EventWaitReturnStep
  <2>5. CASE ActionExchange(t) \/ ActionSignal(t) \/ ActionStore(t)
    BY <2>5, ActionExchangeStep, ActionSignalStep, ActionStoreStep
  <2>6. CASE ClearDeregister(t) \/ ClearStore(t) \/ ClearKEvent(t)
    BY <2>6, ClearDeregisterStep, ClearStoreStep, ClearKEventStep
  <2> QED BY <1>1, <2>1, <2>2, <2>3, <2>4, <2>5, <2>6 DEF Step
<1>2. ASSUME NEW t \in Waiters, WaiterCall(t) PROVE Inv'
  <2>1. PICK id \in Syncpoints :
          \/ IncrementSyncpointMaxExt(t, id)
          \/ \E s \in 0..MaxNvEvents, value \in 0..MaxValue : EventWait(t, s, id, value)
    BY <1>2 DEF WaiterCall
  <2>2. CASE IncrementSyncpointMaxExt(t, id)
    <3>1. /\ counter_max[id] < MaxValue /\ counter_max' = [counter_max EXCEPT ![id] = @ + 1]
          /\ UNCHANGED <<call, events, action_storage, syncpoint, torn, guard, events_mutex>>
          /\ UNCHANGED <<counter_min, signaled, fault>>
      BY <2>2 DEF IncrementSyncpointMaxExt
    <3>2. counter_max' \in [Syncpoints -> 0..MaxValue]
      BY <1>0, <3>1, SyncpointAssumption DEF TypeOK
    <3>3. TypeOK'
      BY <1>0, <3>1, <3>2 DEF TypeOK
    <3> QED BY <3>1, <3>3, NothingChanges
  <2>3. CASE \E s \in 0..MaxNvEvents, value \in 0..MaxValue : EventWait(t, s, id, value)
    BY <1>0, <2>3, EventWaitStep
  <2> QED BY <2>1, <2>2, <2>3
<1>3. ASSUME NEW t \in Managers, ManagerCall(t) PROVE Inv'
  <2>1. CASE \E s \in Slots : ClearEventWait(t, s)
    BY <1>0, <2>1, ClearEventWaitStep
  <2>2. CASE \E s \in Slots : EventRegister(t, s)
    BY <1>0, <2>2, EventRegisterStep
  <2>3. CASE \E slots \in SUBSET Slots : EventUnregister(t, slots)
    BY <1>0, <2>3, EventUnregisterStep
  <2> QED BY <1>3, <2>1, <2>2, <2>3 DEF ManagerCall
<1>4. ASSUME NEW t \in Engines, NEW id \in Syncpoints, EngineIncrement(t, id) PROVE Inv'
  BY <1>0, <1>4, EngineIncrementStep
<1>5. ASSUME NEW s \in Slots, ResetEvent(s) PROVE Inv'
  <2>1. /\ signaled' = [signaled EXCEPT ![s] = FALSE]
        /\ UNCHANGED <<call, events, action_storage, syncpoint, torn, guard, events_mutex>>
        /\ UNCHANGED <<counter_min, counter_max, fault>>
    BY <1>5 DEF ResetEvent
  <2>2. TypeOK'
    BY <1>0, <2>1 DEF TypeOK
  <2> QED BY <2>1, <2>2, NothingChanges
<1>6. CASE UNCHANGED vars
  <2>1. /\ UNCHANGED <<call, events, action_storage, syncpoint, torn, guard, events_mutex>>
        /\ UNCHANGED <<counter_min, counter_max, signaled, fault>>
    BY <1>6 DEF vars
  <2>2. TypeOK'
    BY <1>0, <2>1 DEF TypeOK
  <2> QED BY <2>1, <2>2, NothingChanges
<1> QED BY <1>1, <1>2, <1>3, <1>4, <1>5, <1>6 DEF Next

LEMMA InvHolds == Spec => []Inv
BY InvInit, InvStep, PTL DEF Spec

-----------------------------------------------------------------------------
(* Type correctness: counters stay within their bound, slots and mutexes   *)
(* have the values of their types.                                         *)
THEOREM TypesHold == Spec => []TypeOK
<1>1. Inv => TypeOK
  BY DEF Inv, Types
<1> QED BY <1>1, InvHolds, PTL

(* No completion is lost, between RegisterAction(), Increment() and the    *)
(* cancels of nvhost_ctrl: a slot that waits for a value its counter has   *)
(* reached has a thread on its way to its action.                          *)
THEOREM CompletionsAreKept == Spec => []NoLostCompletion
<1>1. Inv => NoLostCompletion
  <2> SUFFICES ASSUME Inv, NEW s \in Slots, events[s].status = "Waiting",
                      syncpoint[events[s].assigned_syncpt] >= events[s].assigned_value
               PROVE  \E t \in Threads :
                        \/ Handles(t, s)
                        \/ /\ At(t) \in {"increment", "increment_loop", "action",
                                        "action_signal", "action_store", "increment_erase"}
                           /\ call[t].id = events[s].assigned_syncpt
                           /\ call[t].value >= events[s].assigned_value
                           /\ Entry(s, events[s].assigned_value)
                                \in Range(action_storage[events[s].assigned_syncpt])
    BY DEF NoLostCompletion
  <2>1. Served(s) /\ Reached(s)
    BY DEF Inv, Served, Reached
  <2>2. CASE \E t \in Threads : Handles(t, s)
    BY <2>2
  <2>3. CASE Listed(s) /\ \E t \in Threads : /\ Increments(t)
                                             /\ call[t].id = events[s].assigned_syncpt
                                             /\ call[t].value >= events[s].assigned_value
    <3>1. Entry(s, events[s].assigned_value) \in Range(action_storage[events[s].assigned_syncpt])
      <4>1. action_storage[events[s].assigned_syncpt] \in Seq(Entries)
        BY <2>1, TypeFacts DEF Inv, Served
      <4> QED BY <2>3, <4>1 DEF Listed, Left, Range
    <3> QED BY <2>3, <3>1 DEF Increments, Erases, Acts
  <2> QED BY <2>1, <2>2, <2>3 DEF Served
<1> QED BY <1>1, InvHolds, PTL

(* The host action signals a kernel event only for a slot that is          *)
(* registered, in the hands of that action, and whose value was reached:   *)
(* never early, never a freed event, never after an answered cancel, with  *)
(* the exception that torn names.                                          *)
THEOREM SignalsAreDue == Spec => SignalIsDue
<1> DEFINE Raised(s) == (signaled'[s] /\ ~signaled[s]) \/ s \in fault' \ fault
           Due(s) == /\ events[s].registered
                     /\ events[s].status = "Signalling"
                     /\ syncpoint[events[s].assigned_syncpt] >= events[s].assigned_value
<1>1. ASSUME Inv, [Next]_vars, NEW s \in Slots, s \notin torn, Raised(s) PROVE Due(s)
  <2>1. signaled \in [Slots -> BOOLEAN]
    BY <1>1 DEF Inv, Types, TypeOK
  <2>2. PICK t \in Threads : ActionSignal(t) /\ call[t].tag = s
    <3>1. ASSUME signaled' = signaled, fault' = fault PROVE FALSE
      BY <1>1, <3>1
    <3>2. ASSUME NEW r, signaled' = [signaled EXCEPT ![r] = FALSE], fault' = fault PROVE FALSE
      BY <1>1, <2>1, <3>2
    <3>3. ASSUME NEW S, signaled' = [r \in Slots |-> signaled[r] /\ r \notin S], fault' = fault
          PROVE  FALSE
      BY <1>1, <2>1, <3>3
    <3>4. ~UNCHANGED vars
      BY <3>1 DEF vars
    <3>5. \A t \in Threads : ~(SyncpointStep(t) /\ UNCHANGED nvVars)
      BY <3>1 DEF nvVars
    <3>6. \A t \in Threads : ~UpdateMin(t) /\ ~EventWaitReturn(t) /\ ~ActionExchange(t)
                             /\ ~ActionStore(t) /\ ~ClearDeregister(t) /\ ~ClearStore(t)
      BY <3>1 DEF UpdateMin, EventWaitReturn, ActionExchange, ActionStore, ClearDeregister,
         ClearStore
    <3>7. \A t \in Threads, now \in BOOLEAN : ~EventWaitLocked(t, now)
      BY <3>1 DEF EventWaitLocked
    <3>8. \A t \in Threads : ~ClearKEvent(t)
      BY <3>2 DEF ClearKEvent
    <3>9. \A t \in Waiters : ~WaiterCall(t)
      BY <3>1 DEF WaiterCall, IncrementSyncpointMaxExt, EventWait
    <3>10. \A t \in Managers : ~ManagerCall(t)
      <4>1. \A t \in Managers, r \in Slots : ~ClearEventWait(t, r)
        BY <3>1 DEF ClearEventWait
      <4>2. \A t \in Managers, r \in Slots : ~EventRegister(t, r)
        BY <3>2 DEF EventRegister
      <4>3. \A t \in Managers, slots \in SUBSET Slots : ~EventUnregister(t, slots)
        BY <3>3 DEF EventUnregister
      <4> QED BY <4>1, <4>2, <4>3 DEF ManagerCall
    <3>11. \A t \in Engines, id \in Syncpoints : ~EngineIncrement(t, id)
      BY <3>1 DEF EngineIncrement, nvVars
    <3>12. \A r \in Slots : ~ResetEvent(r)
      BY <3>2 DEF ResetEvent
    <3>13. PICK t \in Threads : ActionSignal(t)
      BY <1>1, <3>4, <3>5, <3>6, <3>7, <3>8, <3>9, <3>10, <3>11, <3>12 DEF Next, Step
    <3>14. call[t].tag = s
      BY <1>1, <2>1, <3>13 DEF ActionSignal
    <3> QED BY <3>13, <3>14
  <2>3. Single(s) /\ Holds(t, s) /\ At(t) = "action_signal"
    BY <1>1, <2>2 DEF Inv, Holds, Acts, ActionSignal
  <2>4. events[s].status = "Signalling" /\ Reached(s)
    BY <2>3 DEF Single
  <2> QED BY <2>3, <2>4 DEF Single, IsBeingUsed, Reached
<1>2. Inv /\ [Next]_vars =>
        [\A s \in Slots \ torn :
           ((signaled'[s] /\ ~signaled[s]) \/ s \in fault' \ fault) =>
             /\ events[s].registered
             /\ events[s].status = "Signalling"
             /\ syncpoint[events[s].assigned_syncpt] >= events[s].assigned_value]_vars
  BY <1>1
<1> QED BY <1>2, InvHolds, PTL DEF Spec, SignalIsDue

=============================================================================
