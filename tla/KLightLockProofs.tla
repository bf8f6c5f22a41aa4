-------------------------- MODULE KLightLockProofs --------------------------
(***************************************************************************)
(* Theorems about KLightLock, for any finite set of threads and any set of *)
(* locks: mutual exclusion, announced waiters, the exact waiter count and  *)
(* the exactness of suspension.  Threads may be terminated at any time:    *)
(* what concerns ownership holds until the first wait is cancelled, the    *)
(* rest throughout.                                                        *)
(***************************************************************************)
EXTENDS KLightLock, FiniteSetTheorems, TLAPS

\* A tag without an owner is the free tag.
FreeTags == \A l \in Locks : m_tag[l].owner = NoThread => m_tag[l] = Free

\* Where t is in Lock() or Unlock(): what it waits for is what its fields say.
Basic(t) ==
  /\ pc[t] # "run" => want[t] \in Locks
  /\ pc[t] = "slow" => seen[t] \in Threads
  /\ pc[t] = "wait" => /\ m_waiting_lock_info[t].owner \in Threads
                       /\ m_waiting_lock_info[t].lock = want[t]
  /\ pc[t] # "wait" => m_waiting_lock_info[t] = NoInfo

\* The part of the invariant that holds whatever happens.
BaseInv == TypeOK /\ FreeTags /\ \A t \in Threads : Basic(t)

\* The same place in terms of the tag: what makes HolderOwnsTag inductive.
Claim(t) ==
  /\ pc[t] \in {"woken", "unlock"} =>
       m_tag[want[t]].owner = t /\ want[t] \notin held[t]
  /\ pc[t] = "wait" =>
       m_tag[want[t]] = [owner |-> m_waiting_lock_info[t].owner, wait |-> TRUE]

Owned == LockMeansOwned /\ \A t \in Threads : Claim(t)

LockInv == BaseInv /\ (~cancelled => Owned)

\* A thread's waiters are finitely many, so that their number is a number.
LEMMA WaitersFinite ==
  ASSUME NEW t, NEW l
  PROVE  /\ IsFiniteSet(Waiters(t, l)) /\ Cardinality(Waiters(t, l)) \in Nat
         /\ IsFiniteSet(AllWaiters(t)) /\ Cardinality(AllWaiters(t)) \in Nat
<1>1. Waiters(t, l) \subseteq Threads /\ AllWaiters(t) \subseteq Threads
  BY DEF Waiters, AllWaiters
<1> QED
  BY <1>1, FS_Subset, FS_CardinalityType, ConstAssumption

\* The words the lock's compare-and-swaps and stores write are tags.
LEMMA TagValues ==
  /\ Free \in Tags
  /\ \A t \in Threads : \A b \in BOOLEAN : [owner |-> t, wait |-> b] \in Tags
  /\ \A g \in Tags : [owner |-> g.owner, wait |-> TRUE] \in Tags
  BY DEF Free, Tags

\* A tag is its owner and its waiter bit.
LEMMA TagFields ==
  \A g \in Tags :
    /\ g.owner \in Threads \cup {NoThread} /\ g.wait \in BOOLEAN
    /\ g = [owner |-> g.owner, wait |-> g.wait]
  BY DEF Tags

\* A thread that waits for owner and lock is in the tree of that lock info.
LEMMA WaiterFields ==
  ASSUME TypeOK, NEW w \in Threads, NEW o \in Threads, NEW l \in Locks
  PROVE  w \in Waiters(o, l) <=>
           /\ m_waiting_lock_info[w].owner = o
           /\ m_waiting_lock_info[w].lock = l
<1>1. \A i \in Infos : i = [owner |-> i.owner, lock |-> i.lock]
  BY DEF Infos, NoInfo
<1>2. m_waiting_lock_info[w] \in Infos
  BY DEF TypeOK
<1> QED BY <1>1, <1>2 DEF Waiters

\* The initial state satisfies the inductive invariant.
LEMMA LockInvInit == Init => LockInv
<1> SUFFICES ASSUME Init PROVE LockInv
  OBVIOUS
<1> USE ConstAssumption DEF Init
<1>1. TypeOK
  <2>1. m_tag \in [Locks -> Tags]
    BY TagValues
  <2>2. m_waiting_lock_info \in [Threads -> Infos] /\ pc \in [Threads -> PCs]
    BY DEF Infos, PCs
  <2>3. held \in [Threads -> SUBSET Locks] /\ calls \in [Threads -> 0..MaxLocks]
    OBVIOUS
  <2>4. cancelled \in BOOLEAN /\ suspended \in [Threads -> BOOLEAN]
    OBVIOUS
  <2>5. want \in [Threads -> Locks \cup {0}]
    OBVIOUS
  <2>6. seen \in [Threads -> Threads \cup {NoThread}]
        /\ m_num_kernel_waiters \in [Threads -> Int]
    OBVIOUS
  <2> QED BY <2>1, <2>2, <2>3, <2>4, <2>5, <2>6 DEF TypeOK
<1>2. FreeTags /\ \A t \in Threads : Basic(t)
  BY DEF FreeTags, Basic
<1>3. Owned
  BY DEF Owned, LockMeansOwned, Claim
<1> QED BY <1>1, <1>2, <1>3 DEF LockInv, BaseInv

\* Every step keeps the types: KThread's and KLightLock's fields hold what
\* their declarations say.
LEMMA TypeStep ==
  ASSUME BaseInv, [Next]_vars PROVE TypeOK'
<1> USE ConstAssumption DEF BaseInv, TypeOK
<1>1. ASSUME NEW t \in Threads, NEW l \in Locks, Lock(t, l) PROVE TypeOK'
  <2>1. m_tag' \in [Locks -> Tags]
    <3>1. [owner |-> t, wait |-> FALSE] \in Tags
      BY TagValues
    <3>2. [owner |-> m_tag[l].owner, wait |-> TRUE] \in Tags
      BY TagValues
    <3>3. \/ m_tag' = [m_tag EXCEPT ![l] = [owner |-> t, wait |-> FALSE]]
          \/ m_tag' = [m_tag EXCEPT ![l] = [owner |-> m_tag[l].owner, wait |-> TRUE]]
      BY <1>1 DEF Lock
    <3> QED BY <3>1, <3>2, <3>3
  <2>2. calls' \in [Threads -> 0..MaxLocks]
    BY <1>1 DEF Lock
  <2>3. /\ pc' \in [Threads -> PCs]
        /\ want' \in [Threads -> Locks \cup {0}]
        /\ held' \in [Threads -> SUBSET Locks]
    BY <1>1 DEF Lock, PCs
  <2>4. seen' \in [Threads -> Threads \cup {NoThread}]
    <3>1. m_tag[l].owner \in Threads \cup {NoThread}
      BY DEF Tags
    <3> QED BY <1>1, <3>1 DEF Lock
  <2> QED BY <1>1, <2>1, <2>2, <2>3, <2>4 DEF Lock, susVars
<1>2. ASSUME NEW t \in Threads, LockSlowPathRetry(t) PROVE TypeOK'
  BY <1>2 DEF LockSlowPathRetry, susVars, PCs
<1>3. ASSUME NEW t \in Threads, LockSlowPathWait(t) PROVE TypeOK'
  <2>1. want[t] \in Locks /\ seen[t] \in Threads
    BY <1>3 DEF LockSlowPathWait, Basic
  <2>2. m_waiting_lock_info' \in [Threads -> Infos]
    BY <1>3, <2>1 DEF LockSlowPathWait, Infos
  <2>3. m_num_kernel_waiters' \in [Threads -> Int] /\ pc' \in [Threads -> PCs]
    BY <1>3, <2>1 DEF LockSlowPathWait, PCs
  <2>4. suspended' \in [Threads -> BOOLEAN]
    BY <1>3, <2>1 DEF LockSlowPathWait
  <2> QED BY <1>3, <2>2, <2>3, <2>4 DEF LockSlowPathWait, susVars
<1>4. ASSUME NEW t \in Threads, LockReturn(t) PROVE TypeOK'
  <2>1. want[t] \in Locks
    BY <1>4 DEF LockReturn, Basic
  <2> QED BY <1>4, <2>1 DEF LockReturn, susVars, PCs
<1>5. ASSUME NEW t \in Threads, NEW l \in Locks, Unlock(t, l) PROVE TypeOK'
  <2>1. m_tag' \in [Locks -> Tags]
    BY <1>5, TagValues DEF Unlock
  <2>2. pc' \in [Threads -> PCs] /\ want' \in [Threads -> Locks \cup {0}]
    BY <1>5 DEF Unlock, PCs
  <2>3. held' \in [Threads -> SUBSET Locks]
    BY <1>5 DEF Unlock
  <2> QED BY <1>5, <2>1, <2>2, <2>3 DEF Unlock, susVars
<1>6. ASSUME NEW t \in Threads, UnlockSlowPathFree(t) PROVE TypeOK'
  <2>1. m_tag' \in [Locks -> Tags]
    BY <1>6, TagValues DEF UnlockSlowPathFree
  <2>2. suspended' \in [Threads -> BOOLEAN]
    BY <1>6 DEF UnlockSlowPathFree, TrySuspend
  <2> QED BY <1>6, <2>1, <2>2 DEF UnlockSlowPathFree, susVars, PCs
<1>7. ASSUME NEW t \in Threads, NEW n \in Threads, UnlockSlowPathPass(t, n)
      PROVE TypeOK'
  <2> DEFINE l == want[t]  rest == Waiters(t, l) \ {n}
  <2>1. l \in Locks
    BY <1>7 DEF UnlockSlowPathPass, Basic
  <2>2. Cardinality(Waiters(t, l)) \in Int /\ Cardinality(rest) \in Int
    <3>1. IsFiniteSet(rest)
      BY WaitersFinite, FS_Subset
    <3> QED BY WaitersFinite, <3>1, FS_CardinalityType
  <2>3. m_tag' \in [Locks -> Tags]
    <3>1. (rest # {}) \in BOOLEAN
      OBVIOUS
    <3> QED BY <1>7, TagValues DEF UnlockSlowPathPass
  <2>4. m_waiting_lock_info' \in [Threads -> Infos]
    BY <1>7, <2>1 DEF UnlockSlowPathPass, Infos
  <2>5. m_num_kernel_waiters' \in [Threads -> Int]
    BY <1>7, <2>2 DEF UnlockSlowPathPass
  <2>6. suspended' \in [Threads -> BOOLEAN]
    BY <1>7 DEF UnlockSlowPathPass, TrySuspend
  <2> QED
    BY <1>7, <2>3, <2>4, <2>5, <2>6 DEF UnlockSlowPathPass, susVars, PCs
<1>8. ASSUME NEW t \in Threads, RequestSuspend(t) PROVE TypeOK'
  BY <1>8 DEF RequestSuspend
<1>9. ASSUME NEW t \in Threads, Resume(t) PROVE TypeOK'
  BY <1>9 DEF Resume
<1>10. ASSUME NEW t \in Threads, RequestTerminate(t) PROVE TypeOK'
  <2>1. /\ m_termination_requested' \in [Threads -> BOOLEAN]
        /\ m_suspend_allowed' \in [Threads -> BOOLEAN]
        /\ suspended' \in [Threads -> BOOLEAN]
    BY <1>10 DEF RequestTerminate, IsSuspended
  <2>2. /\ m_waiting_lock_info' \in [Threads -> Infos]
        /\ m_num_kernel_waiters' \in [Threads -> Int]
        /\ pc' \in [Threads -> PCs] /\ cancelled' \in BOOLEAN
    <3>1. CASE pc[t] = "wait"
      <4>1. m_waiting_lock_info[t].owner \in Threads
        BY <3>1 DEF Basic
      <4> QED BY <1>10, <3>1, <4>1 DEF RequestTerminate, Infos, PCs
    <3>2. CASE pc[t] # "wait"
      BY <1>10, <3>2 DEF RequestTerminate
    <3> QED BY <3>1, <3>2
  <2> QED BY <1>10, <2>1, <2>2 DEF RequestTerminate
<1>11. CASE UNCHANGED vars
  BY <1>11 DEF vars
<1> QED
  BY <1>1, <1>2, <1>3, <1>4, <1>5, <1>6, <1>7, <1>8, <1>9, <1>10, <1>11
  DEF Next, Step

\* Mutual exclusion is kept by every step.
LEMMA HolderStep ==
  ASSUME BaseInv, Owned, [Next]_vars PROVE LockMeansOwned'
<1> SUFFICES ASSUME NEW u \in Threads, NEW k \in held[u]'
             PROVE  m_tag[k].owner' = u
  BY DEF LockMeansOwned
<1> USE ConstAssumption DEF BaseInv, Owned, TypeOK, LockMeansOwned
<1>1. ASSUME NEW t \in Threads, NEW l \in Locks, Lock(t, l)
      PROVE m_tag[k].owner' = u
  BY <1>1 DEF Lock, Free
<1>2. ASSUME NEW t \in Threads, LockSlowPathRetry(t) PROVE m_tag[k].owner' = u
  BY <1>2 DEF LockSlowPathRetry
<1>3. ASSUME NEW t \in Threads, LockSlowPathWait(t) PROVE m_tag[k].owner' = u
  BY <1>3 DEF LockSlowPathWait
<1>4. ASSUME NEW t \in Threads, LockReturn(t) PROVE m_tag[k].owner' = u
  <2>1. m_tag[want[t]].owner = t
    BY <1>4 DEF LockReturn, Basic, Claim
  <2> QED BY <1>4, <2>1 DEF LockReturn
<1>5. ASSUME NEW t \in Threads, NEW l \in Locks, Unlock(t, l)
      PROVE m_tag[k].owner' = u
  BY <1>5 DEF Unlock
<1>6. ASSUME NEW t \in Threads, UnlockSlowPathFree(t) PROVE m_tag[k].owner' = u
  <2>1. /\ want[t] \in Locks /\ want[t] \notin held[t]
        /\ m_tag[want[t]].owner = t
    BY <1>6 DEF UnlockSlowPathFree, Basic, Claim
  <2>2. k # want[t]
    BY <1>6, <2>1 DEF UnlockSlowPathFree
  <2> QED BY <1>6, <2>2 DEF UnlockSlowPathFree
<1>7. ASSUME NEW t \in Threads, NEW n \in Threads, UnlockSlowPathPass(t, n)
      PROVE m_tag[k].owner' = u
  <2>1. /\ want[t] \in Locks /\ want[t] \notin held[t]
        /\ m_tag[want[t]].owner = t
    BY <1>7 DEF UnlockSlowPathPass, Basic, Claim
  <2>2. k # want[t]
    BY <1>7, <2>1 DEF UnlockSlowPathPass
  <2> QED BY <1>7, <2>2 DEF UnlockSlowPathPass
<1>8. ASSUME NEW t \in Threads, RequestSuspend(t) PROVE m_tag[k].owner' = u
  BY <1>8 DEF RequestSuspend
<1>9. ASSUME NEW t \in Threads, Resume(t) PROVE m_tag[k].owner' = u
  BY <1>9 DEF Resume
<1>10. ASSUME NEW t \in Threads, RequestTerminate(t) PROVE m_tag[k].owner' = u
  BY <1>10 DEF RequestTerminate
<1>11. CASE UNCHANGED vars
  BY <1>11 DEF vars
<1> QED
  BY <1>1, <1>2, <1>3, <1>4, <1>5, <1>6, <1>7, <1>8, <1>9, <1>10, <1>11
  DEF Next, Step

\* A tag keeps being free when it has no owner: every store writes an owner
\* or the whole free word.
LEMMA FreeTagsStep ==
  ASSUME BaseInv, [Next]_vars PROVE FreeTags'
<1> USE ConstAssumption DEF BaseInv, TypeOK, FreeTags
<1>1. ASSUME NEW t \in Threads, NEW l \in Locks, Lock(t, l) PROVE FreeTags'
  <2> SUFFICES ASSUME NEW k \in Locks, m_tag'[k].owner = NoThread
               PROVE  m_tag'[k] = Free
    OBVIOUS
  <2>1. k # l
    <3> SUFFICES ASSUME k = l PROVE FALSE
      OBVIOUS
    <3>1. m_tag[l] # Free
      BY <1>1 DEF Lock
    <3>2. m_tag'[l] = [owner |-> m_tag[l].owner, wait |-> TRUE]
      BY <1>1, <3>1 DEF Lock
    <3> QED BY <3>1, <3>2
  <2> QED BY <1>1, <2>1 DEF Lock
<1>2. ASSUME NEW t \in Threads, NEW l \in Locks, Unlock(t, l) PROVE FreeTags'
  BY <1>2 DEF Unlock, Free
<1>3. ASSUME NEW t \in Threads, UnlockSlowPathFree(t) PROVE FreeTags'
  BY <1>3 DEF UnlockSlowPathFree, Free
<1>4. ASSUME NEW t \in Threads, NEW n \in Threads, UnlockSlowPathPass(t, n)
      PROVE FreeTags'
  BY <1>4 DEF UnlockSlowPathPass
<1>5. CASE UNCHANGED m_tag
  BY <1>5
<1> QED
  BY <1>1, <1>2, <1>3, <1>4, <1>5
  DEF Next, Step, vars, LockSlowPathRetry, LockSlowPathWait, LockReturn,
      RequestSuspend, Resume, RequestTerminate

\* The fields of a thread inside Lock() or Unlock() agree after every step.
LEMMA BasicStep ==
  ASSUME BaseInv, [Next]_vars, NEW u \in Threads
  PROVE  Basic(u)'
<1> USE ConstAssumption DEF BaseInv, TypeOK
<1>0. Basic(u) /\ FreeTags /\ \A t \in Threads : Basic(t)
  OBVIOUS
<1>1. ASSUME NEW t \in Threads, NEW l \in Locks, Lock(t, l) PROVE Basic(u)'
  <2>1. CASE u = t /\ m_tag[l] # Free
    <3>1. m_tag[l].owner \in Threads
      BY <1>0, <2>1, TagFields DEF FreeTags
    <3>2. /\ pc'[t] = "slow" /\ seen'[t] = m_tag[l].owner /\ want'[t] = l
          /\ m_waiting_lock_info'[t] = NoInfo
      BY <1>0, <1>1, <2>1 DEF Lock, Basic
    <3> QED BY <2>1, <3>1, <3>2 DEF Basic
  <2>2. CASE u = t /\ m_tag[l] = Free
    BY <1>0, <1>1, <2>2 DEF Lock, Basic
  <2>3. CASE u # t
    BY <1>0, <1>1, <2>3 DEF Lock, Basic
  <2> QED BY <2>1, <2>2, <2>3
<1>2. ASSUME NEW t \in Threads, LockSlowPathRetry(t) PROVE Basic(u)'
  BY <1>0, <1>2 DEF LockSlowPathRetry, Basic
<1>3. ASSUME NEW t \in Threads, LockSlowPathWait(t) PROVE Basic(u)'
  BY <1>0, <1>3 DEF LockSlowPathWait, Basic
<1>4. ASSUME NEW t \in Threads, LockReturn(t) PROVE Basic(u)'
  BY <1>0, <1>4 DEF LockReturn, Basic
<1>5. ASSUME NEW t \in Threads, NEW l \in Locks, Unlock(t, l) PROVE Basic(u)'
  BY <1>0, <1>5 DEF Unlock, Basic
<1>6. ASSUME NEW t \in Threads, UnlockSlowPathFree(t) PROVE Basic(u)'
  BY <1>0, <1>6 DEF UnlockSlowPathFree, Basic
<1>7. ASSUME NEW t \in Threads, NEW n \in Threads, UnlockSlowPathPass(t, n)
      PROVE Basic(u)'
  <2> DEFINE l == want[t]
  <2>1. l \in Locks /\ pc[t] = "unlock" /\ n \in Waiters(t, l)
    BY <1>0, <1>7 DEF UnlockSlowPathPass, Basic
  <2>2. \A w \in Threads : w \in Waiters(t, l) => pc[w] = "wait" /\ want[w] = l
    <3> SUFFICES ASSUME NEW w \in Threads, w \in Waiters(t, l)
                 PROVE  pc[w] = "wait" /\ want[w] = l
      OBVIOUS
    <3>1. m_waiting_lock_info[w].owner = t /\ m_waiting_lock_info[w].lock = l
      BY <2>1, WaiterFields
    <3>2. m_waiting_lock_info[w] # NoInfo
      BY <3>1 DEF NoInfo
    <3> QED BY <1>0, <3>1, <3>2 DEF Basic
  <2>3. /\ want' = want /\ seen' = seen
        /\ pc' = [pc EXCEPT ![t] = "run", ![n] = "woken"]
        /\ m_waiting_lock_info'[u] =
             IF u = n THEN NoInfo
             ELSE IF u \in Waiters(t, l) THEN [owner |-> n, lock |-> l]
             ELSE m_waiting_lock_info[u]
    BY <1>7 DEF UnlockSlowPathPass
  <2>4. CASE u = n
    BY <1>0, <2>1, <2>2, <2>3, <2>4 DEF Basic
  <2>5. CASE u # n /\ u \in Waiters(t, l)
    BY <1>0, <2>1, <2>2, <2>3, <2>5 DEF Basic
  <2>6. CASE u # n /\ u \notin Waiters(t, l)
    BY <1>0, <2>1, <2>3, <2>6 DEF Basic
  <2> QED BY <2>4, <2>5, <2>6
<1>8. ASSUME NEW t \in Threads, RequestSuspend(t) \/ Resume(t) PROVE Basic(u)'
  BY <1>0, <1>8 DEF RequestSuspend, Resume, Basic
<1>9. ASSUME NEW t \in Threads, RequestTerminate(t) PROVE Basic(u)'
  BY <1>0, <1>9 DEF RequestTerminate, Basic
<1>10. CASE UNCHANGED vars
  BY <1>0, <1>10 DEF vars, Basic
<1> QED
  BY <1>1, <1>2, <1>3, <1>4, <1>5, <1>6, <1>7, <1>8, <1>9, <1>10 DEF Next, Step

\* The claims of the threads inside Lock() and Unlock() are kept by every step
\* that cancels no wait.
LEMMA ClaimStep ==
  ASSUME BaseInv, Owned, [Next]_vars, ~cancelled', NEW u \in Threads
  PROVE  Claim(u)'
<1> USE ConstAssumption DEF BaseInv, TypeOK
<1>0. Basic(u) /\ Claim(u) /\ FreeTags /\ \A t \in Threads : Basic(t) /\ Claim(t)
  BY DEF Owned
<1>1. ASSUME NEW t \in Threads, NEW l \in Locks, Lock(t, l)
      PROVE Claim(u)'
  <2>1. CASE u = t
    <3>1. CASE m_tag[l] = Free
      <4>1. pc[t]' = "run" BY <1>1, <3>1 DEF Lock
      <4>2. m_waiting_lock_info[t] = NoInfo BY <1>0, <1>1 DEF Lock, Basic, Claim
      <4> QED BY <1>0, <1>1, <2>1, <4>1, <4>2 DEF Lock, Basic, Claim
    <3>2. CASE m_tag[l] # Free
      <4>1. m_tag[l].owner \in Threads
        BY <1>0, <3>2, TagFields DEF FreeTags
      <4>2. pc[t]' = "slow" /\ seen[t]' = m_tag[l].owner /\ want[t]' = l
        BY <1>1, <3>2 DEF Lock
      <4>3. m_waiting_lock_info[t] = NoInfo BY <1>0, <1>1 DEF Lock, Basic, Claim
      <4> QED BY <1>0, <1>1, <2>1, <4>1, <4>2, <4>3 DEF Lock, Basic, Claim
    <3> QED BY <3>1, <3>2
  <2>2. CASE u # t
    <3>1. pc[u]' = pc[u] /\ want[u]' = want[u] /\ seen[u]' = seen[u]
          /\ held[u]' = held[u] /\ m_waiting_lock_info' = m_waiting_lock_info
      BY <1>1, <2>2 DEF Lock
    <3>2. ASSUME NEW k \in Locks, m_tag[k].owner \in Threads
          PROVE  m_tag'[k].owner = m_tag[k].owner
                 /\ (m_tag[k].wait = TRUE => m_tag'[k] = m_tag[k])
      <4>1. m_tag[k] # Free BY <3>2 DEF Free
      <4>2. CASE k = l
        <5>1. m_tag'[k] = [owner |-> m_tag[k].owner, wait |-> TRUE]
          BY <1>1, <4>1, <4>2 DEF Lock
        <5> QED BY <5>1, TagFields
      <4>3. CASE k # l
        BY <1>1, <4>3 DEF Lock
      <4> QED BY <4>2, <4>3
    <3>3. pc[u] \in {"woken", "unlock"} => m_tag'[want[u]].owner = u
      <4>1. pc[u] \in {"woken", "unlock"} =>
              want[u] \in Locks /\ m_tag[want[u]].owner = u
        BY <1>0 DEF Basic, Claim
      <4> QED BY <3>2, <4>1
    <3>4. pc[u] = "wait" => m_tag'[want[u]] = m_tag[want[u]]
      <4>1. pc[u] = "wait" => /\ want[u] \in Locks
                              /\ m_tag[want[u]].owner \in Threads
                              /\ m_tag[want[u]].wait = TRUE
        BY <1>0 DEF Basic, Claim
      <4> QED BY <3>2, <4>1
    <3> QED BY <1>0, <3>1, <3>3, <3>4 DEF Basic, Claim
  <2> QED BY <2>1, <2>2
<1>2. ASSUME NEW t \in Threads, LockSlowPathRetry(t) PROVE Claim(u)'
  BY <1>0, <1>2 DEF LockSlowPathRetry, Basic, Claim
<1>3. ASSUME NEW t \in Threads, LockSlowPathWait(t) PROVE Claim(u)'
  BY <1>0, <1>3 DEF LockSlowPathWait, Basic, Claim
<1>4. ASSUME NEW t \in Threads, LockReturn(t) PROVE Claim(u)'
  BY <1>0, <1>4 DEF LockReturn, Basic, Claim
<1>5. ASSUME NEW t \in Threads, NEW l \in Locks, Unlock(t, l)
      PROVE Claim(u)'
  <2>1. CASE u = t
    BY <1>0, <1>5, <2>1 DEF Unlock, Owned, LockMeansOwned, Free, Basic, Claim
  <2>2. CASE u # t
    <3>1. /\ pc'[u] = pc[u] /\ want'[u] = want[u] /\ seen' = seen
          /\ held'[u] = held[u] /\ m_waiting_lock_info' = m_waiting_lock_info
      BY <1>5, <2>2 DEF Unlock
    <3>2. CASE m_tag' = m_tag
      BY <1>0, <3>1, <3>2 DEF Basic, Claim
    <3>3. CASE m_tag[l] = [owner |-> t, wait |-> FALSE]
      <4>1. m_tag' = [m_tag EXCEPT ![l] = Free]
        BY <1>5, <3>3 DEF Unlock
      <4>2. pc[u] \in {"woken", "unlock", "wait"} => want[u] # l
        BY <1>0, <2>2, <3>3 DEF Claim
      <4> QED BY <1>0, <3>1, <4>1, <4>2 DEF Basic, Claim
    <3> QED BY <1>5, <3>2, <3>3 DEF Unlock
  <2> QED BY <2>1, <2>2
<1>6. ASSUME NEW t \in Threads, UnlockSlowPathFree(t) PROVE Claim(u)'
  <2>1. CASE u = t
    BY <1>0, <1>6, <2>1 DEF UnlockSlowPathFree, Basic, Claim
  <2>2. CASE u # t
    <3>1. m_tag[want[t]].owner = t /\ want[t] \in Locks
      BY <1>0, <1>6 DEF UnlockSlowPathFree, Basic, Claim
    <3>2. pc[u] = "wait" => want[u] # want[t]
      <4> SUFFICES ASSUME pc[u] = "wait", want[u] = want[t] PROVE FALSE
        OBVIOUS
      <4>1. m_waiting_lock_info[u].owner = t /\ m_waiting_lock_info[u].lock = want[t]
        BY <1>0, <3>1 DEF Basic, Claim
      <4>2. u \in Waiters(t, want[t])
        BY <3>1, <4>1, WaiterFields
      <4> QED BY <1>6, <4>2 DEF UnlockSlowPathFree
    <3> QED BY <1>0, <1>6, <2>2, <3>1, <3>2 DEF UnlockSlowPathFree, Basic, Claim
  <2> QED BY <2>1, <2>2
<1>7. ASSUME NEW t \in Threads, NEW n \in Threads, UnlockSlowPathPass(t, n)
      PROVE Claim(u)'
  <2> DEFINE l == want[t]
  <2>1. l \in Locks /\ m_tag[l].owner = t /\ l \notin held[t]
    BY <1>0, <1>7 DEF UnlockSlowPathPass, Basic, Claim
  <2>2. /\ m_waiting_lock_info[n].owner = t /\ m_waiting_lock_info[n].lock = l
        /\ n \in Waiters(t, l)
    BY <1>7, <2>1, WaiterFields DEF UnlockSlowPathPass
  <2>3. pc[n] = "wait" /\ want[n] = l /\ n # t
    <3>1. m_waiting_lock_info[n] # NoInfo
      BY <2>2 DEF NoInfo
    <3>2. pc[n] = "wait" /\ want[n] = l
      <4>1. Basic(n) /\ Claim(n) BY <1>0
      <4> QED BY <2>2, <3>1, <4>1 DEF Basic, Claim
    <3>3. pc[t] = "unlock" BY <1>7 DEF UnlockSlowPathPass
    <3> QED BY <3>2, <3>3
  <2>4. CASE u = n
    <3>1. /\ pc'[u] = "woken" /\ m_tag'[l].owner = n
          /\ m_waiting_lock_info'[u] = NoInfo /\ want' = want /\ held' = held
      BY <1>7, <2>1, <2>3, <2>4 DEF UnlockSlowPathPass
    <3>2. l \notin held[n]
      BY <2>1, <2>3 DEF Owned, LockMeansOwned
    <3> QED BY <1>0, <2>1, <2>3, <2>4, <3>1, <3>2 DEF Basic, Claim
  <2>5. CASE u = t
    <3>1. t \notin Waiters(t, l)
      <4>1. pc[t] = "unlock" BY <1>7 DEF UnlockSlowPathPass
      <4>2. m_waiting_lock_info[t] = NoInfo BY <1>0, <2>5, <4>1 DEF Basic, Claim
      <4>3. m_waiting_lock_info[t].owner # t BY <4>2 DEF NoInfo
      <4> QED BY <2>1, <4>3, WaiterFields
    <3>2. pc'[u] = "run" /\ m_waiting_lock_info'[u] = m_waiting_lock_info[u]
      BY <1>7, <2>3, <2>5, <3>1 DEF UnlockSlowPathPass
    <3> QED BY <1>0, <1>7, <2>5, <3>2 DEF UnlockSlowPathPass, Basic, Claim
  <2>6. CASE u \notin {n, t}
    <3>1. /\ pc'[u] = pc[u] /\ want' = want /\ held' = held /\ seen' = seen
          /\ m_tag' = [m_tag EXCEPT ![l] =
                         [owner |-> n, wait |-> Waiters(t, l) \ {n} # {}]]
          /\ m_waiting_lock_info'[u] = IF u \in Waiters(t, l)
               THEN [owner |-> n, lock |-> l] ELSE m_waiting_lock_info[u]
      BY <1>7, <2>6 DEF UnlockSlowPathPass
    <3>2. CASE u \in Waiters(t, l)
      <4>1. m_waiting_lock_info[u].owner = t /\ m_waiting_lock_info[u].lock = l
        BY <2>1, <3>2, WaiterFields
      <4>2. pc[u] = "wait" /\ want[u] = l
        BY <1>0, <4>1 DEF Basic, Claim, NoInfo
      <4>3. m_tag'[l] = [owner |-> n, wait |-> TRUE]
        <5>1. (Waiters(t, l) \ {n} # {}) = TRUE
          BY <2>6, <3>2
        <5> QED BY <2>1, <3>1, <5>1
      <4> QED BY <1>0, <2>1, <3>1, <3>2, <4>2, <4>3 DEF Basic, Claim
    <3>3. CASE u \notin Waiters(t, l)
      <4>1. pc[u] = "wait" => want[u] # l
        <5> SUFFICES ASSUME pc[u] = "wait", want[u] = l PROVE FALSE
          OBVIOUS
        <5>1. m_waiting_lock_info[u].owner = t /\ m_waiting_lock_info[u].lock = l
          BY <1>0, <2>1 DEF Basic, Claim
        <5> QED BY <2>1, <3>3, <5>1, WaiterFields
      <4>2. pc[u] \in {"woken", "unlock"} => want[u] # l
        BY <1>0, <2>1, <2>6 DEF Claim
      <4> QED BY <1>0, <2>1, <3>1, <3>3, <4>1, <4>2 DEF Basic, Claim
    <3> QED BY <3>2, <3>3
  <2> QED BY <2>4, <2>5, <2>6
<1>8. ASSUME NEW t \in Threads, RequestSuspend(t) PROVE Claim(u)'
  BY <1>0, <1>8 DEF RequestSuspend, Basic, Claim
<1>9. ASSUME NEW t \in Threads, Resume(t) PROVE Claim(u)'
  BY <1>0, <1>9 DEF Resume, Basic, Claim
<1>10. ASSUME NEW t \in Threads, RequestTerminate(t) PROVE Claim(u)'
  BY <1>0, <1>10 DEF RequestTerminate, Basic, Claim
<1>11. CASE UNCHANGED vars
  BY <1>0, <1>11 DEF vars, Basic, Claim
<1> QED
  BY <1>1, <1>2, <1>3, <1>4, <1>5, <1>6, <1>7, <1>8, <1>9, <1>10, <1>11
  DEF Next, Step

\* No step takes back that a wait was cancelled.
LEMMA CancelledStays ==
  ASSUME TypeOK, [Next]_vars, cancelled PROVE cancelled'
  BY DEF TypeOK, Next, Step, vars, susVars, Lock, LockSlowPathRetry, LockSlowPathWait,
     LockReturn, Unlock, UnlockSlowPathFree, UnlockSlowPathPass, RequestSuspend,
     Resume, RequestTerminate

\* The inductive invariant is kept by every step.
LEMMA LockInvStep ==
  ASSUME LockInv, [Next]_vars PROVE LockInv'
<1>1. BaseInv BY DEF LockInv
<1>2. TypeOK' /\ FreeTags' BY <1>1, TypeStep, FreeTagsStep
<1>3. \A u \in Threads : Basic(u)' BY <1>1, BasicStep
<1>4. ASSUME ~cancelled' PROVE Owned'
  <2>1. ~cancelled BY <1>1, <1>4, CancelledStays DEF BaseInv
  <2>2. Owned BY <2>1 DEF LockInv
  <2>3. LockMeansOwned' BY <1>1, <2>2, HolderStep
  <2>4. \A u \in Threads : Claim(u)' BY <1>1, <1>4, <2>2, ClaimStep
  <2> QED BY <2>3, <2>4 DEF Owned
<1> QED BY <1>2, <1>3, <1>4 DEF LockInv, BaseInv

\* Until a wait is cancelled, a thread that Lock() returned to owns the tag until
\* it calls Unlock(), so no two threads are in the critical section of one lock,
\* and a thread blocked in LockSlowPath() is always announced in the tag.
THEOREM MutualExclusion ==
  Spec => [](TypeOK /\ TagIsTrue)
<1>1. Init => LockInv BY LockInvInit
<1>2. LockInv /\ [Next]_vars => LockInv' BY LockInvStep
<1>3. LockInv => TypeOK /\ TagIsTrue
  <2> SUFFICES ASSUME LockInv PROVE TypeOK /\ TagIsTrue
    OBVIOUS
  <2>1. TypeOK BY DEF LockInv, BaseInv
  <2>2. HolderOwnsTag BY DEF LockInv, Owned, HolderOwnsTag
  <2>3. ASSUME ~cancelled, NEW w \in Threads, pc[w] = "wait"
        PROVE  /\ m_waiting_lock_info[w].owner # NoThread
               /\ m_tag[m_waiting_lock_info[w].lock] =
                    [owner |-> m_waiting_lock_info[w].owner, wait |-> TRUE]
    <3>1. Basic(w) /\ Claim(w) BY <2>3 DEF LockInv, BaseInv, Owned
    <3> QED BY <2>3, <3>1, ConstAssumption DEF Basic, Claim
  <2> QED BY <2>1, <2>2, <2>3 DEF TagIsTrue, WaiterIsAnnounced
<1> QED BY <1>1, <1>2, <1>3, PTL DEF Spec

-----------------------------------------------------------------------------
(* The waiter counter and suspension.                                      *)

\* The counter stays exact when a thread becomes a waiter, when a lock info moves
\* to the next owner and when a wait is cancelled.
LEMMA CountStep ==
  ASSUME BaseInv, KernelWaiterCount, [Next]_vars
  PROVE  KernelWaiterCount'
<1> SUFFICES ASSUME NEW u \in Threads
             PROVE  m_num_kernel_waiters'[u] = Cardinality(AllWaiters(u)')
  BY DEF KernelWaiterCount
<1> USE ConstAssumption DEF BaseInv, TypeOK
<1>0. /\ m_num_kernel_waiters[u] = Cardinality(AllWaiters(u))
      /\ IsFiniteSet(AllWaiters(u))
  BY WaitersFinite DEF KernelWaiterCount
<1>1. ASSUME NEW t \in Threads, LockSlowPathWait(t)
      PROVE  m_num_kernel_waiters'[u] = Cardinality(AllWaiters(u)')
  <2> DEFINE o == seen[t]
  <2>1. /\ o \in Threads /\ want[t] \in Locks
        /\ m_waiting_lock_info[t] = NoInfo
    BY <1>1 DEF LockSlowPathWait, Basic
  <2>2. m_waiting_lock_info' = [m_waiting_lock_info EXCEPT
          ![t] = [owner |-> o, lock |-> want[t]]]
    BY <1>1 DEF LockSlowPathWait
  <2>3. t \notin AllWaiters(u)
    BY <2>1 DEF AllWaiters, NoInfo
  <2>4. CASE u = o
    <3>1. AllWaiters(u)' = AllWaiters(u) \cup {t}
      BY <2>2, <2>4 DEF AllWaiters
    <3>2. Cardinality(AllWaiters(u)') = Cardinality(AllWaiters(u)) + 1
      BY <1>0, <2>3, <3>1, FS_AddElement
    <3> QED BY <1>0, <1>1, <2>1, <2>4, <3>2 DEF LockSlowPathWait
  <2>5. CASE u # o
    <3>1. AllWaiters(u)' = AllWaiters(u)
      BY <2>1, <2>2, <2>3, <2>5 DEF AllWaiters
    <3> QED BY <1>0, <1>1, <2>1, <2>5, <3>1 DEF LockSlowPathWait
  <2> QED BY <2>4, <2>5
<1>2. ASSUME NEW t \in Threads, NEW n \in Threads, UnlockSlowPathPass(t, n)
      PROVE  m_num_kernel_waiters'[u] = Cardinality(AllWaiters(u)')
  <2> DEFINE l == want[t]  W == Waiters(t, l)  rest == W \ {n}
  <2>1. l \in Locks /\ n \in W /\ n # t
    <3>1. m_waiting_lock_info[t] = NoInfo /\ l \in Locks
      BY <1>2 DEF UnlockSlowPathPass, Basic
    <3>2. t \notin W
      BY <3>1 DEF Waiters, NoInfo
    <3> QED BY <1>2, <3>1, <3>2 DEF UnlockSlowPathPass
  <2>2. m_waiting_lock_info' = [w \in Threads |->
          IF w = n THEN NoInfo
          ELSE IF w \in rest THEN [owner |-> n, lock |-> l]
          ELSE m_waiting_lock_info[w]]
    BY <1>2 DEF UnlockSlowPathPass
  <2>3. IsFiniteSet(W) /\ IsFiniteSet(rest)
        /\ Cardinality(W) \in Nat /\ Cardinality(rest) \in Nat
    BY WaitersFinite, FS_Subset, FS_CardinalityType
  <2>4. W \subseteq Threads /\ \A w \in W : m_waiting_lock_info[w].owner = t
    BY DEF Waiters
  <2>5. m_num_kernel_waiters' = [m_num_kernel_waiters EXCEPT
          ![t] = @ - Cardinality(W), ![n] = @ + Cardinality(rest)]
    BY <1>2 DEF UnlockSlowPathPass
  <2>6. CASE u = t
    <3>1. AllWaiters(u)' = AllWaiters(u) \ W
      BY <2>1, <2>2, <2>4, <2>6 DEF AllWaiters, NoInfo
    <3>2. W \subseteq AllWaiters(u)
      BY <2>4, <2>6 DEF AllWaiters
    <3>3. Cardinality(AllWaiters(u) \ W) = Cardinality(AllWaiters(u)) - Cardinality(W)
      <4>1. Cardinality(AllWaiters(u) \ W) =
              Cardinality(AllWaiters(u)) - Cardinality(AllWaiters(u) \cap W)
        BY <1>0, <2>3, FS_Difference
      <4>2. AllWaiters(u) \cap W = W BY <3>2
      <4> QED BY <4>1, <4>2
    <3> QED BY <1>0, <2>1, <2>5, <2>6, <3>1, <3>3
  <2>7. CASE u = n
    <3>1. AllWaiters(u)' = AllWaiters(u) \cup rest
      BY <2>1, <2>2, <2>4, <2>7 DEF AllWaiters, NoInfo
    <3>2. AllWaiters(u) \cap rest = {}
      BY <2>1, <2>4, <2>7 DEF AllWaiters
    <3>3. Cardinality(AllWaiters(u) \cup rest) =
            Cardinality(AllWaiters(u)) + Cardinality(rest)
      <4>1. Cardinality(AllWaiters(u) \cup rest) =
              Cardinality(AllWaiters(u)) + Cardinality(rest)
                - Cardinality(AllWaiters(u) \cap rest)
        BY <1>0, <2>3, FS_Union
      <4>2. Cardinality(AllWaiters(u) \cap rest) = 0
        BY <3>2, FS_EmptySet
      <4>3. Cardinality(AllWaiters(u)) \in Nat BY WaitersFinite
      <4> QED BY <2>3, <4>1, <4>2, <4>3
    <3> QED BY <1>0, <2>1, <2>5, <2>7, <3>1, <3>3
  <2>8. CASE u \notin {t, n}
    <3>1. AllWaiters(u)' = AllWaiters(u)
      BY <2>1, <2>2, <2>4, <2>8 DEF AllWaiters, NoInfo
    <3> QED BY <1>0, <2>1, <2>5, <2>8, <3>1
  <2> QED BY <2>6, <2>7, <2>8
<1>3. ASSUME NEW t \in Threads, RequestTerminate(t), pc[t] = "wait"
      PROVE  m_num_kernel_waiters'[u] = Cardinality(AllWaiters(u)')
  <2> DEFINE o == m_waiting_lock_info[t].owner
  <2>1. o \in Threads
    BY <1>3 DEF Basic
  <2>2. /\ m_waiting_lock_info' = [m_waiting_lock_info EXCEPT ![t] = NoInfo]
        /\ m_num_kernel_waiters' = [m_num_kernel_waiters EXCEPT ![o] = @ - 1]
    BY <1>3 DEF RequestTerminate
  <2>3. CASE u = o
    <3>1. AllWaiters(u)' = AllWaiters(u) \ {t} /\ t \in AllWaiters(u)
      BY <2>1, <2>2, <2>3 DEF AllWaiters, NoInfo
    <3>2. Cardinality(AllWaiters(u)') = Cardinality(AllWaiters(u)) - 1
      BY <1>0, <3>1, FS_RemoveElement
    <3> QED BY <1>0, <2>1, <2>2, <2>3, <3>2
  <2>4. CASE u # o
    <3>1. AllWaiters(u)' = AllWaiters(u)
      BY <2>1, <2>2, <2>4 DEF AllWaiters, NoInfo
    <3> QED BY <1>0, <2>1, <2>2, <2>4, <3>1
  <2> QED BY <2>3, <2>4
<1>4. CASE UNCHANGED <<m_waiting_lock_info, m_num_kernel_waiters>>
  <2>1. AllWaiters(u)' = AllWaiters(u)
    BY <1>4 DEF AllWaiters
  <2> QED BY <1>0, <1>4, <2>1
<1> QED
  BY <1>1, <1>2, <1>3, <1>4
  DEF Next, Step, vars, Lock, LockSlowPathRetry, LockReturn, Unlock,
      UnlockSlowPathFree, RequestSuspend, Resume, RequestTerminate

\* SuspendExact in terms of the counter that the code looks at.
Counted(t) ==
  /\ suspended[t] => IsSuspended(t) /\ m_num_kernel_waiters[t] = 0
  /\ IsSuspended(t) /\ m_num_kernel_waiters[t] = 0 => suspended[t] \/ cancelled

\* A suspend keeps being exact: AddWaiter/ContinueIfHasKernelWaiters lift it
\* from a thread that gets waiters, TrySuspend applies it when they are gone.
LEMMA SuspendStep ==
  ASSUME BaseInv, KernelWaiterCount, \A t \in Threads : Counted(t),
         [Next]_vars, NEW u \in Threads
  PROVE  Counted(u)'
<1> USE ConstAssumption DEF BaseInv, TypeOK, IsSuspended
<1>0. /\ \A x \in Threads : m_num_kernel_waiters[x] \in Nat
      /\ \A x \in Threads : Counted(x)
  <2>1. \A x \in Threads : m_num_kernel_waiters[x] \in Nat
    BY WaitersFinite DEF KernelWaiterCount
  <2> QED BY <2>1
<1>1. ASSUME NEW t \in Threads, LockSlowPathWait(t)
      PROVE  Counted(u)'
  <2>1. seen[t] \in Threads
    BY <1>1 DEF LockSlowPathWait, Basic
  <2>2. CASE u = seen[t]
    <3>1. m_num_kernel_waiters'[u] = m_num_kernel_waiters[u] + 1
      BY <1>1, <2>1, <2>2 DEF LockSlowPathWait
    <3>2. m_num_kernel_waiters[u] \in Nat BY <1>0
    <3>3. m_num_kernel_waiters'[u] # 0 BY <3>1, <3>2
    <3>4. suspended'[u] = (suspended[u] /\ ~IsSuspended(u))
      BY <1>1, <2>1, <2>2 DEF LockSlowPathWait
    <3> QED BY <1>0, <3>3, <3>4 DEF Counted
  <2>3. CASE u # seen[t]
    BY <1>0, <1>1, <2>3 DEF LockSlowPathWait, susVars, Counted
  <2> QED BY <2>2, <2>3
<1>2. ASSUME NEW t \in Threads, UnlockSlowPathFree(t)
      PROVE  Counted(u)'
  BY <1>0, <1>2 DEF UnlockSlowPathFree, susVars, TrySuspend, Counted
<1>3. ASSUME NEW t \in Threads, NEW n \in Threads, UnlockSlowPathPass(t, n)
      PROVE  Counted(u)'
  <2>1. m_num_kernel_waiters'[u] \in Nat
    <3>1. KernelWaiterCount' BY CountStep
    <3>2. IsFiniteSet(AllWaiters(u)')
      <4>1. AllWaiters(u)' \subseteq Threads BY DEF AllWaiters
      <4> QED BY <4>1, FS_Subset
    <3> QED BY <3>1, <3>2, FS_CardinalityType DEF KernelWaiterCount
  <2>2. n # t
    <3>1. m_waiting_lock_info[t] = NoInfo
      BY <1>3 DEF UnlockSlowPathPass, Basic
    <3> QED BY <1>3, <3>1 DEF UnlockSlowPathPass, Waiters, NoInfo
  <2>3. Cardinality(Waiters(t, want[t])) \in Nat
        /\ Cardinality(Waiters(t, want[t]) \ {n}) \in Nat
    BY WaitersFinite, FS_Subset, FS_CardinalityType
  <2>4. m_num_kernel_waiters' = [m_num_kernel_waiters EXCEPT
          ![t] = @ - Cardinality(Waiters(t, want[t])),
          ![n] = @ + Cardinality(Waiters(t, want[t]) \ {n})]
    BY <1>3 DEF UnlockSlowPathPass
  <2>5. Cardinality(Waiters(t, want[t])) > 0
    <3>1. n \in Waiters(t, want[t]) BY <1>3 DEF UnlockSlowPathPass
    <3> QED BY <3>1, <2>3, WaitersFinite, FS_EmptySet
  <2>6. suspended' = [suspended EXCEPT
          ![n] = @ /\ ~(IsSuspended(n) /\ m_num_kernel_waiters'[n] > 0),
          ![t] = TrySuspend(t, m_num_kernel_waiters'[t])]
    BY <1>3 DEF UnlockSlowPathPass
  <2>7. IsSuspended(u)' = IsSuspended(u) /\ cancelled' = cancelled
    BY <1>3 DEF UnlockSlowPathPass, susVars
  <2>8. CASE u = t
    <3>1. suspended'[t] = TrySuspend(t, m_num_kernel_waiters'[t])
      BY <2>2, <2>6
    <3>2. m_num_kernel_waiters[t] # 0
      BY <1>0, <2>1, <2>2, <2>3, <2>4, <2>5, <2>8
    <3>3. ~suspended[t] BY <1>0, <3>2 DEF Counted
    <3> HIDE DEF IsSuspended
    <3> QED BY <2>7, <2>8, <3>1, <3>3 DEF TrySuspend, Counted
  <2>9. CASE u = n
    <3>1. suspended'[n] = (suspended[n] /\ ~(IsSuspended(n) /\ m_num_kernel_waiters'[n] > 0))
      BY <2>2, <2>6
    <3>2. m_num_kernel_waiters'[n] = 0 => m_num_kernel_waiters[n] = 0
      BY <1>0, <2>2, <2>3, <2>4
    <3>3. m_num_kernel_waiters'[n] > 0 <=> m_num_kernel_waiters'[n] # 0
      BY <2>1, <2>9
    <3>4. Counted(n)
      BY <1>0
    <3> HIDE DEF IsSuspended
    <3> QED BY <2>7, <2>9, <3>1, <3>2, <3>3, <3>4 DEF Counted
  <2>10. CASE u \notin {t, n}
    BY <1>0, <2>4, <2>6, <2>7, <2>10 DEF Counted
  <2> QED BY <2>8, <2>9, <2>10
<1>4. ASSUME NEW t \in Threads, RequestSuspend(t)
      PROVE  Counted(u)'
  BY <1>0, <1>4 DEF RequestSuspend, Counted
<1>5. ASSUME NEW t \in Threads, Resume(t)
      PROVE  Counted(u)'
  BY <1>0, <1>5 DEF Resume, Counted
<1>6. ASSUME NEW t \in Threads, RequestTerminate(t)
      PROVE  Counted(u)'
  <2>1. CASE pc[t] # "wait"
    BY <1>0, <1>6, <2>1 DEF RequestTerminate, Counted
  <2>2. CASE pc[t] = "wait"
    <3>1. cancelled' BY <1>6, <2>2 DEF RequestTerminate
    <3>2. \/ m_num_kernel_waiters'[u] = m_num_kernel_waiters[u]
          \/ /\ u = m_waiting_lock_info[t].owner
             /\ m_num_kernel_waiters'[u] = m_num_kernel_waiters[u] - 1
      BY <1>6, <2>2 DEF RequestTerminate
    <3>3. m_num_kernel_waiters'[u] \in Nat
      <4>1. KernelWaiterCount' BY CountStep
      <4>2. AllWaiters(u)' \subseteq Threads BY DEF AllWaiters
      <4> QED BY <4>1, <4>2, FS_Subset, FS_CardinalityType DEF KernelWaiterCount
    <3>4. suspended'[u] => suspended[u] /\ IsSuspended(u)'
      BY <1>0, <1>6, <2>2 DEF RequestTerminate, Counted
    <3>5. suspended'[u] => m_num_kernel_waiters'[u] = 0
      BY <1>0, <3>2, <3>3, <3>4 DEF Counted
    <3> HIDE DEF IsSuspended
    <3> QED BY <3>1, <3>4, <3>5 DEF Counted
  <2> QED BY <2>1, <2>2
<1>7. CASE UNCHANGED <<suspended, m_num_kernel_waiters, susVars>>
  BY <1>0, <1>7 DEF susVars, Counted
<1> QED
  BY <1>1, <1>2, <1>3, <1>4, <1>5, <1>6, <1>7
  DEF Next, Step, vars, Lock, LockSlowPathRetry, LockReturn, Unlock, susVars

\* TrySuspend() may trust the counter.  A suspend is in effect only while nobody
\* waits for a lock the thread owns; and until a wait is cancelled it is in effect
\* whenever that is so.
THEOREM SuspensionIsExact ==
  Spec => [](KernelWaiterCount /\ SuspendExact)
<1> DEFINE Inv == LockInv /\ KernelWaiterCount /\ \A t \in Threads : Counted(t)
<1>1. Init => Inv
  <2> SUFFICES ASSUME Init
               PROVE  KernelWaiterCount /\ \A t \in Threads : Counted(t)
    BY LockInvInit
  <2>1. \A t \in Threads : AllWaiters(t) = {}
    BY ConstAssumption DEF Init, AllWaiters, NoInfo
  <2> QED BY <2>1, FS_EmptySet
    DEF Init, KernelWaiterCount, Counted, IsSuspended
<1>2. Inv /\ [Next]_vars => Inv'
  <2> SUFFICES ASSUME Inv, [Next]_vars PROVE Inv'
    OBVIOUS
  <2>1. BaseInv BY DEF LockInv
  <2>2. LockInv' BY LockInvStep
  <2>3. KernelWaiterCount' BY <2>1, CountStep
  <2>4. \A u \in Threads : Counted(u)' BY <2>1, SuspendStep
  <2> QED BY <2>2, <2>3, <2>4
<1>3. Inv => KernelWaiterCount /\ SuspendExact
  <2> SUFFICES ASSUME Inv PROVE SuspendExact
    OBVIOUS
  <2>1. \A t \in Threads : m_num_kernel_waiters[t] = 0 <=> AllWaiters(t) = {}
    BY WaitersFinite, FS_EmptySet DEF KernelWaiterCount
  <2> QED BY <2>1 DEF SuspendExact, Counted
<1> QED BY <1>1, <1>2, <1>3, PTL DEF Spec
=============================================================================
