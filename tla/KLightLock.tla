----------------------------- MODULE KLightLock -----------------------------
(***************************************************************************)
(* The kernel's light lock (core/hle/kernel/k_light_lock.cpp) together     *)
(* with the parts of KThread it drives: the kernel waiters of a thread     *)
(* (AddWaiter, RemoveWaiter, RemoveKernelWaiterByKey) and the suspension   *)
(* of a thread (RequestSuspend, Resume, TrySuspend, Continue).             *)
(*                                                                         *)
(* A lock is one atomic word, m_tag: the owner's address with bit 0 set    *)
(* once somebody waits.  The fast paths are single compare-and-swaps that  *)
(* run outside the scheduler lock; the slow paths run inside it.  Threads  *)
(* interleave between any two of these steps.                              *)
(*                                                                         *)
(* Which of several waiters GetHighestPriorityWaiter returns is left open  *)
(* here: nothing below depends on it (module KConditionVariable models it).*)
(***************************************************************************)
EXTENDS Integers, FiniteSets

CONSTANTS
  Threads,       \* the kernel threads that use the locks
  Locks,         \* the light locks, numbered in their acquisition order
  NoThread,      \* the null thread pointer
  Suspendable,   \* the threads whose suspension may be requested
  Terminatable,  \* the threads whose termination may be requested
  MaxLocks       \* bound: how often one thread may call Lock()

ASSUME ConstAssumption ==
  /\ IsFiniteSet(Threads)
  /\ NoThread \notin Threads
  /\ Locks \subseteq Nat
  /\ Suspendable \subseteq Threads
  /\ Terminatable \subseteq Threads
  /\ MaxLocks \in Nat

VARIABLES
  m_tag,                    \* per lock: owner and the "has waiters" bit
  m_waiting_lock_info,      \* per thread: the <<owner, lock>> it waits on
  m_num_kernel_waiters,     \* per thread: the counter of its kernel waiters
  m_suspend_request,        \* per thread: is a suspend requested
  m_suspend_allowed,        \* per thread: may a suspend be performed
  suspended,                \* per thread: the suspend bits of m_thread_state
  m_termination_requested,  \* per thread
  pc,                       \* where the thread is in Lock() or Unlock()
  want,                     \* the lock that call is about
  seen,                     \* the owner its compare-and-swap saw
  held,                     \* the locks whose Lock() returned
  calls,                    \* how often the thread called Lock()
  cancelled                 \* history: a wait for a lock has been cancelled

vars == <<m_tag, m_waiting_lock_info, m_num_kernel_waiters, m_suspend_request,
          m_suspend_allowed, suspended, m_termination_requested, pc, want,
          seen, held, calls, cancelled>>

susVars == <<m_suspend_request, m_suspend_allowed, m_termination_requested,
             cancelled>>

Free  == [owner |-> NoThread, wait |-> FALSE]
NoInfo == [owner |-> NoThread, lock |-> 0]

Tags  == [owner: Threads \cup {NoThread}, wait: BOOLEAN]
Infos == [owner: Threads, lock: Locks] \cup {NoInfo}
PCs   == {"run", "lock", "slow", "wait", "woken", "unlock"}

TypeOK ==
  /\ m_tag \in [Locks -> Tags]
  /\ m_waiting_lock_info \in [Threads -> Infos]
  /\ m_num_kernel_waiters \in [Threads -> Int]
  /\ m_suspend_request \in [Threads -> BOOLEAN]
  /\ m_suspend_allowed \in [Threads -> BOOLEAN]
  /\ suspended \in [Threads -> BOOLEAN]
  /\ m_termination_requested \in [Threads -> BOOLEAN]
  /\ pc \in [Threads -> PCs]
  /\ want \in [Threads -> Locks \cup {0}]
  /\ seen \in [Threads -> Threads \cup {NoThread}]
  /\ held \in [Threads -> SUBSET Locks]
  /\ calls \in [Threads -> 0..MaxLocks]
  /\ cancelled \in BOOLEAN

Init ==
  /\ m_tag = [l \in Locks |-> Free]
  /\ m_waiting_lock_info = [t \in Threads |-> NoInfo]
  /\ m_num_kernel_waiters = [t \in Threads |-> 0]
  /\ m_suspend_request = [t \in Threads |-> FALSE]
  /\ m_suspend_allowed = [t \in Threads |-> TRUE]
  /\ suspended = [t \in Threads |-> FALSE]
  /\ m_termination_requested = [t \in Threads |-> FALSE]
  /\ pc = [t \in Threads |-> "run"]
  /\ want = [t \in Threads |-> 0]
  /\ seen = [t \in Threads |-> NoThread]
  /\ held = [t \in Threads |-> {}]
  /\ calls = [t \in Threads |-> 0]
  /\ cancelled = FALSE

-----------------------------------------------------------------------------
(* KThread: the waiters of an owner and its suspension.                    *)

\* The threads in the tree of the lock info that owner holds for lock.
Waiters(owner, lock) ==
  {w \in Threads : m_waiting_lock_info[w] = [owner |-> owner, lock |-> lock]}

\* All kernel waiters of a thread, whatever the lock.
AllWaiters(owner) == {w \in Threads : m_waiting_lock_info[w].owner = owner}

\* GetSuspendFlags() != 0.
IsSuspended(t) == m_suspend_request[t] /\ m_suspend_allowed[t]

\* The suspend bits of u's state after "if (IsSuspended()) TrySuspend()", given
\* the number of kernel waiters it then has.
TrySuspend(u, waiters) == suspended[u] \/ (IsSuspended(u) /\ waiters = 0)

-----------------------------------------------------------------------------
(* Lock().                                                                 *)

\* One round of the loop: load and compare_exchange_weak until it succeeds,
\* which takes a free lock or sets the waiter bit of a held one.
Lock(t, l) ==
  /\ \/ /\ pc[t] = "run"
        /\ calls[t] < MaxLocks
        /\ \A h \in held[t] : h < l
        /\ calls' = [calls EXCEPT ![t] = @ + 1]
     \/ /\ pc[t] = "lock"
        /\ want[t] = l
        /\ UNCHANGED calls
  /\ want' = [want EXCEPT ![t] = l]
  /\ \/ /\ m_tag[l] = Free
        /\ m_tag' = [m_tag EXCEPT ![l] = [owner |-> t, wait |-> FALSE]]
        /\ held' = [held EXCEPT ![t] = @ \cup {l}]
        /\ pc' = [pc EXCEPT ![t] = "run"]
        /\ UNCHANGED seen
     \/ /\ m_tag[l] # Free
        /\ m_tag' = [m_tag EXCEPT ![l] = [owner |-> @.owner, wait |-> TRUE]]
        /\ seen' = [seen EXCEPT ![t] = m_tag[l].owner]
        /\ pc' = [pc EXCEPT ![t] = "slow"]
        /\ UNCHANGED held
  /\ UNCHANGED <<m_waiting_lock_info, m_num_kernel_waiters, susVars, suspended>>

\* LockSlowPath() when the tag changed since the compare-and-swap: try again.
LockSlowPathRetry(t) ==
  /\ pc[t] = "slow"
  /\ m_tag[want[t]] # [owner |-> seen[t], wait |-> TRUE]
  /\ pc' = [pc EXCEPT ![t] = "lock"]
  /\ UNCHANGED <<m_tag, m_waiting_lock_info, m_num_kernel_waiters, susVars,
                 suspended, want, seen, held, calls>>

\* Mutant: a suspended owner is not continued.
LockSlowPathWait_NoContinue(t) ==
  LET o == seen[t] IN
  /\ pc[t] = "slow"
  /\ m_tag[want[t]] = [owner |-> o, wait |-> TRUE]
  /\ m_waiting_lock_info' =
       [m_waiting_lock_info EXCEPT ![t] = [owner |-> o, lock |-> want[t]]]
  /\ m_num_kernel_waiters' = [m_num_kernel_waiters EXCEPT ![o] = @ + 1]
  /\ pc' = [pc EXCEPT ![t] = "wait"]
  /\ UNCHANGED <<m_tag, suspended, susVars, want, seen, held, calls>>

\* LockSlowPath() otherwise: become a waiter of the owner, who must run even
\* if a suspend of it is requested.
LockSlowPathWait(t) ==
  LET o == seen[t] IN
  /\ pc[t] = "slow"
  /\ m_tag[want[t]] = [owner |-> o, wait |-> TRUE]
  /\ m_waiting_lock_info' =
       [m_waiting_lock_info EXCEPT ![t] = [owner |-> o, lock |-> want[t]]]
  /\ m_num_kernel_waiters' = [m_num_kernel_waiters EXCEPT ![o] = @ + 1]
  /\ pc' = [pc EXCEPT ![t] = "wait"]
  /\ suspended' = [suspended EXCEPT ![o] = @ /\ ~IsSuspended(o)]
  /\ UNCHANGED <<m_tag, susVars, want, seen, held, calls>>

\* The awoken thread returns from LockSlowPath() with true, so from Lock().
LockReturn(t) ==
  /\ pc[t] = "woken"
  /\ held' = [held EXCEPT ![t] = @ \cup {want[t]}]
  /\ pc' = [pc EXCEPT ![t] = "run"]
  /\ UNCHANGED <<m_tag, m_waiting_lock_info, m_num_kernel_waiters, susVars,
                 suspended, want, seen, calls>>

-----------------------------------------------------------------------------
(* Unlock().                                                               *)

\* compare_exchange_strong(cur_thread, 0): releases an uncontended lock.
Unlock(t, l) ==
  /\ pc[t] = "run"
  /\ l \in held[t]
  /\ held' = [held EXCEPT ![t] = @ \ {l}]
  /\ \/ /\ m_tag[l] = [owner |-> t, wait |-> FALSE]
        /\ m_tag' = [m_tag EXCEPT ![l] = Free]
        /\ UNCHANGED <<pc, want>>
     \/ /\ m_tag[l] # [owner |-> t, wait |-> FALSE]
        /\ pc' = [pc EXCEPT ![t] = "unlock"]
        /\ want' = [want EXCEPT ![t] = l]
        /\ UNCHANGED m_tag
  /\ UNCHANGED <<m_waiting_lock_info, m_num_kernel_waiters, susVars, suspended,
                 seen, calls>>

\* UnlockSlowPath() with nobody waiting.
UnlockSlowPathFree(t) ==
  /\ pc[t] = "unlock"
  /\ Waiters(t, want[t]) = {}
  /\ m_tag' = [m_tag EXCEPT ![want[t]] = Free]
  /\ suspended' = [suspended EXCEPT
       ![t] = TrySuspend(t, m_num_kernel_waiters[t])]
  /\ pc' = [pc EXCEPT ![t] = "run"]
  /\ UNCHANGED <<m_waiting_lock_info, m_num_kernel_waiters, susVars, want,
                 seen, held, calls>>

\* Mutant: the new owner's tag forgets the remaining waiters.
UnlockSlowPathPass_NoWaiterBit(t, n) ==
  LET l    == want[t]
      rest == Waiters(t, l) \ {n}
  IN
  /\ pc[t] = "unlock"
  /\ n \in Waiters(t, l)
  /\ m_waiting_lock_info' = [w \in Threads |->
       IF w = n THEN NoInfo
       ELSE IF w \in rest THEN [owner |-> n, lock |-> l]
       ELSE m_waiting_lock_info[w]]
  /\ m_num_kernel_waiters' = [m_num_kernel_waiters EXCEPT
       ![t] = @ - Cardinality(Waiters(t, l)),
       ![n] = @ + Cardinality(rest)]
  /\ suspended' = [suspended EXCEPT
       ![n] = @ /\ ~(IsSuspended(n) /\ m_num_kernel_waiters'[n] > 0),
       ![t] = TrySuspend(t, m_num_kernel_waiters'[t])]
  /\ m_tag' = [m_tag EXCEPT ![l] = [owner |-> n, wait |-> FALSE]]
  /\ pc' = [pc EXCEPT ![t] = "run", ![n] = "woken"]
  /\ UNCHANGED <<susVars, want, seen, held, calls>>

\* Mutant: the waiters moved to the new owner are not counted there.
UnlockSlowPathPass_CountLost(t, n) ==
  LET l    == want[t]
      rest == Waiters(t, l) \ {n}
  IN
  /\ pc[t] = "unlock"
  /\ n \in Waiters(t, l)
  /\ m_waiting_lock_info' = [w \in Threads |->
       IF w = n THEN NoInfo
       ELSE IF w \in rest THEN [owner |-> n, lock |-> l]
       ELSE m_waiting_lock_info[w]]
  /\ m_num_kernel_waiters' = [m_num_kernel_waiters EXCEPT
       ![t] = @ - Cardinality(Waiters(t, l))]
  /\ suspended' = [suspended EXCEPT
       ![n] = @ /\ ~(IsSuspended(n) /\ m_num_kernel_waiters'[n] > 0),
       ![t] = TrySuspend(t, m_num_kernel_waiters'[t])]
  /\ m_tag' = [m_tag EXCEPT ![l] = [owner |-> n, wait |-> rest # {}]]
  /\ pc' = [pc EXCEPT ![t] = "run", ![n] = "woken"]
  /\ UNCHANGED <<susVars, want, seen, held, calls>>

\* UnlockSlowPath() that passes the lock, and its other waiters, to n.
UnlockSlowPathPass(t, n) ==
  LET l    == want[t]
      rest == Waiters(t, l) \ {n}
  IN
  /\ pc[t] = "unlock"
  /\ n \in Waiters(t, l)
  /\ m_waiting_lock_info' = [w \in Threads |->
       IF w = n THEN NoInfo
       ELSE IF w \in rest THEN [owner |-> n, lock |-> l]
       ELSE m_waiting_lock_info[w]]
  /\ m_num_kernel_waiters' = [m_num_kernel_waiters EXCEPT
       ![t] = @ - Cardinality(Waiters(t, l)),
       ![n] = @ + Cardinality(rest)]
  /\ suspended' = [suspended EXCEPT
       ![n] = @ /\ ~(IsSuspended(n) /\ m_num_kernel_waiters'[n] > 0),
       ![t] = TrySuspend(t, m_num_kernel_waiters'[t])]
  /\ m_tag' = [m_tag EXCEPT ![l] = [owner |-> n, wait |-> rest # {}]]
  /\ pc' = [pc EXCEPT ![t] = "run", ![n] = "woken"]
  /\ UNCHANGED <<susVars, want, seen, held, calls>>

-----------------------------------------------------------------------------
(* Suspension and termination, requested by another thread.                *)

\* KThread::RequestSuspend(): TrySuspend() leaves a thread with kernel
\* waiters running.
RequestSuspend(t) ==
  /\ t \in Suspendable
  /\ ~m_suspend_request[t]
  /\ m_suspend_request' = [m_suspend_request EXCEPT ![t] = TRUE]
  /\ suspended' = [suspended EXCEPT
       ![t] = IF m_num_kernel_waiters[t] = 0 THEN m_suspend_allowed[t] ELSE @]
  /\ UNCHANGED <<m_tag, m_waiting_lock_info, m_num_kernel_waiters,
                 m_suspend_allowed, m_termination_requested, pc, want, seen,
                 held, calls, cancelled>>

\* KThread::Resume().
Resume(t) ==
  /\ m_suspend_request[t]
  /\ m_suspend_request' = [m_suspend_request EXCEPT ![t] = FALSE]
  /\ suspended' = [suspended EXCEPT ![t] = FALSE]
  /\ UNCHANGED <<m_tag, m_waiting_lock_info, m_num_kernel_waiters,
                 m_suspend_allowed, m_termination_requested, pc, want, seen,
                 held, calls, cancelled>>

\* KThread::RequestTerminate(): a waiting thread's wait is cancelled through
\* ThreadQueueImplForKLightLock::CancelWait, which unlinks it from its owner.
RequestTerminate(t) ==
  LET o == m_waiting_lock_info[t].owner IN
  /\ t \in Terminatable
  /\ ~m_termination_requested[t]
  /\ m_termination_requested' = [m_termination_requested EXCEPT ![t] = TRUE]
  /\ m_suspend_allowed' = [m_suspend_allowed EXCEPT ![t] = @ /\ ~IsSuspended(t)]
  /\ suspended' = [suspended EXCEPT ![t] = @ /\ ~IsSuspended(t)]
  /\ \/ /\ pc[t] = "wait"
        /\ m_waiting_lock_info' = [m_waiting_lock_info EXCEPT ![t] = NoInfo]
        /\ m_num_kernel_waiters' = [m_num_kernel_waiters EXCEPT ![o] = @ - 1]
        /\ pc' = [pc EXCEPT ![t] = "woken"]
        /\ cancelled' = TRUE
     \/ /\ pc[t] # "wait"
        /\ UNCHANGED <<m_waiting_lock_info, m_num_kernel_waiters, pc,
                       cancelled>>
  /\ UNCHANGED <<m_tag, m_suspend_request, want, seen, held, calls>>

-----------------------------------------------------------------------------
\* The steps a thread takes itself; a suspended one may still take some,
\* until its core handles the interrupt that stops it.
Step(t) ==
  \/ \E l \in Locks : Lock(t, l)
  \/ LockSlowPathRetry(t)
  \/ LockSlowPathWait(t)
  \/ LockReturn(t)
  \/ \E l \in Locks : Unlock(t, l)
  \/ UnlockSlowPathFree(t)
  \/ \E n \in Threads : UnlockSlowPathPass(t, n)

Next ==
  \E t \in Threads :
    \/ Step(t)
    \/ RequestSuspend(t)
    \/ Resume(t)
    \/ RequestTerminate(t)

Spec == Init /\ [][Next]_vars

\* A thread inside Lock() or Unlock() that is not suspended is scheduled
\* again and again, and releases what it holds once its calls are used up.
Progress(t) ==
  /\ ~suspended[t]
  /\ Step(t)

FairSpec == Spec /\ \A t \in Threads : WF_vars(Progress(t))

-----------------------------------------------------------------------------
(* Properties.                                                             *)

\* What the code inside a critical section asserts: IsLockedByCurrentThread().
LockMeansOwned ==
  \A t \in Threads : \A l \in held[t] : m_tag[l].owner = t

\* Mutual exclusion, until the wait of a terminating thread is cancelled (then
\* Lock() returns without the lock): whoever returned from Lock() owns the tag.
HolderOwnsTag == ~cancelled => LockMeansOwned

\* No lost wakeup: a thread blocked in LockSlowPath() is a waiter of the
\* thread the tag names, and the tag's waiter bit is set, so that Unlock()
\* cannot take its fast path past it.
WaiterIsAnnounced ==
  ~cancelled =>
    \A w \in Threads : pc[w] = "wait" =>
      LET info == m_waiting_lock_info[w] IN
      /\ info.owner # NoThread
      /\ m_tag[info.lock] = [owner |-> info.owner, wait |-> TRUE]

\* The word is all that Lock() and Unlock() look at, and it tells the truth, of
\* the threads inside and of those that wait, until a wait is cancelled.
TagIsTrue == HolderOwnsTag /\ WaiterIsAnnounced

\* The counter that TrySuspend() trusts counts exactly the linked waiters,
\* across the transfers of a lock info from one owner to the next and across
\* cancelled waits.
KernelWaiterCount ==
  \A t \in Threads : m_num_kernel_waiters[t] = Cardinality(AllWaiters(t))

\* A suspend takes effect only where nobody waits for a lock the thread holds,
\* so that it never blocks a waiter, although TrySuspend() looks at a counter that
\* moves with the locks.  And it is not lost: it takes effect as soon as that is
\* so (only a cancelled wait does not call TrySuspend()).
SuspendExact ==
  \A t \in Threads :
    /\ suspended[t] => IsSuspended(t) /\ AllWaiters(t) = {}
    /\ IsSuspended(t) /\ AllWaiters(t) = {} => suspended[t] \/ cancelled

\* Every thread that blocks in Lock() gets the lock, even if its owner was
\* suspended while holding it.
WaiterProceeds == \A t \in Threads : pc[t] = "wait" ~> pc[t] # "wait"

=============================================================================
