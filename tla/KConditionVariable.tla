------------------------- MODULE KConditionVariable -------------------------
(***************************************************************************)
(* User-mode mutexes and condition variables, as the kernel arbitrates     *)
(* them (core/hle/kernel/k_condition_variable.cpp), with the priority      *)
(* inheritance of KThread (RestorePriority, AddWaiter, RemoveWaiter,       *)
(* RemoveWaiterByKey) and the ways a wait can end early: a timeout, a      *)
(* termination request, the finalization of the owner.                     *)
(*                                                                         *)
(* A mutex is a word of guest memory, [owner, wait].  The guest changes it *)
(* with exclusive loads and stores (external: the code that runs on the    *)
(* emulated CPU) and calls the kernel only when it must wait or wake.      *)
(* Everything the kernel does here happens under the scheduler lock, so    *)
(* one supervisor call is one step.                                        *)
(*                                                                         *)
(* Both red-black trees (the waiters of a lock info, the waiters of a      *)
(* condition variable) are ordered by priority, then by insertion: one     *)
(* sequence m_queue of all linked threads in insertion order, with the     *)
(* priorities, determines them.                                            *)
(***************************************************************************)
EXTENDS Integers, Sequences, FiniteSets, FiniteSetsExt, Functions, Sequencing

CONSTANTS
  GuestThreads,        \* guest threads of one process
  NoThread,       \* the null thread pointer
  Mutexes,        \* addresses of mutexes, in the guest's locking order
  Keys,           \* condition variable keys
  NoKey,          \* no condition variable
  InitPriority,   \* the priority each thread is created with
  NewPriorities,     \* the priorities SetThreadPriority is called with
  Terminatable,   \* threads whose termination may be requested
  ExitHolding,    \* may a guest thread exit while it holds a mutex
  MaxSvcCalls        \* bound: lock, wait and signal calls, changes of priority
                  \* and termination requests, of all threads together

\* The priority RequestTerminate gives a thread: above every other one.
TerminatingThreadPriority == 0

ASSUME CvAssumption ==
  /\ IsFiniteSet(GuestThreads)
  /\ NoThread \notin GuestThreads
  /\ NoKey \notin Keys
  /\ Mutexes \subseteq Nat
  /\ NewPriorities \subseteq Nat
  /\ InitPriority \in [GuestThreads -> Nat]
  /\ Terminatable \subseteq GuestThreads
  /\ ExitHolding \in BOOLEAN
  /\ MaxSvcCalls \in Nat

VARIABLES
  m_tag,                    \* guest memory: the mutex words
  m_has_waiter,             \* guest memory: the words at the condition keys
  m_waiting_lock_info,      \* per thread: the lock info it is linked to
  m_condvar_key,            \* per thread: the condition key it is linked to
  m_queue,                  \* all linked threads, in insertion order
  m_priority,               \* per thread
  m_base_priority,          \* per thread
  m_wait_result,            \* per thread
  m_timer,                  \* threads with a registered timer task
  m_termination_requested,  \* per thread
  m_null_owner,             \* a cancelled wait dereferenced a null owner
  pc,                       \* per thread: where it is in the guest's functions
  want, seen,               \* per thread: the mutex, and the owner it saw (locals,
                            \* forgotten on return)
  held,                     \* per thread: the mutexes it holds
  svcCalls

kernelVars == <<m_tag, m_has_waiter, m_waiting_lock_info, m_condvar_key,
                m_queue, m_priority, m_base_priority, m_wait_result, m_timer,
                m_termination_requested, m_null_owner>>
cvVars == <<kernelVars, pc, want, seen, held, svcCalls>>

Free   == [owner |-> NoThread, wait |-> FALSE]
NoInfo == [owner |-> NoThread, lock |-> 0]

CvTypeOK ==
  /\ m_tag \in [Mutexes -> [owner: GuestThreads \cup {NoThread}, wait: BOOLEAN]]
  /\ m_has_waiter \in [Keys -> BOOLEAN]
  /\ m_waiting_lock_info \in
       [GuestThreads -> [owner: GuestThreads, lock: Mutexes] \cup {NoInfo}]
  /\ m_condvar_key \in [GuestThreads -> Keys \cup {NoKey}]
  /\ m_queue \in Seq(GuestThreads)
  /\ Len(m_queue) = Cardinality(Range(m_queue))
  /\ Range(m_queue) = {t \in GuestThreads : \/ m_waiting_lock_info[t] # NoInfo
                                       \/ m_condvar_key[t] # NoKey}
  /\ m_priority \in [GuestThreads -> Nat] /\ m_base_priority \in [GuestThreads -> Nat]
  /\ m_wait_result \in [GuestThreads -> {"Success", "TimedOut", "InvalidState",
                                    "InvalidHandle", "TerminationRequested"}]
  /\ m_timer \subseteq GuestThreads
  /\ m_termination_requested \in [GuestThreads -> BOOLEAN]
  /\ m_null_owner \in BOOLEAN
  /\ pc \in [GuestThreads -> {"run", "lock", "wait", "woken", "check", "relock",
                         "cvwait", "cvret", "exited", "gone"}]
  /\ want \in [GuestThreads -> Mutexes \cup {0}]
  /\ seen \in [GuestThreads -> GuestThreads \cup {NoThread}]
  /\ held \in [GuestThreads -> SUBSET Mutexes]
  /\ svcCalls \in 0..MaxSvcCalls

CvInit ==
  /\ m_tag = [a \in Mutexes |-> Free]
  /\ m_has_waiter = [k \in Keys |-> FALSE]
  /\ m_waiting_lock_info = [t \in GuestThreads |-> NoInfo]
  /\ m_condvar_key = [t \in GuestThreads |-> NoKey]
  /\ m_queue = << >>
  /\ m_priority = InitPriority /\ m_base_priority = InitPriority
  /\ m_wait_result = [t \in GuestThreads |-> "Success"]
  /\ m_timer = {}
  /\ m_termination_requested = [t \in GuestThreads |-> FALSE]
  /\ m_null_owner = FALSE
  /\ pc = [t \in GuestThreads |-> "run"]
  /\ want = [t \in GuestThreads |-> 0]
  /\ seen = [t \in GuestThreads |-> NoThread]
  /\ held = [t \in GuestThreads |-> {}]
  /\ svcCalls = 0

-----------------------------------------------------------------------------
(* The kernel functions that several calls share work on a record of the  *)
(* state they read and write; Apply makes a record the next state.         *)

State ==
  [tag |-> m_tag, info |-> m_waiting_lock_info, key |-> m_condvar_key,
   queue |-> m_queue, prio |-> m_priority, base |-> m_base_priority,
   result |-> m_wait_result, timer |-> m_timer, pc |-> pc]

Apply(next) ==
  \E s \in {next} :
    /\ m_tag' = s.tag /\ m_waiting_lock_info' = s.info
    /\ m_condvar_key' = s.key /\ m_queue' = s.queue
    /\ m_priority' = s.prio /\ m_base_priority' = s.base
    /\ m_wait_result' = s.result /\ m_timer' = s.timer /\ pc' = s.pc

Without(q, t) == Keep(q, {i \in DOMAIN q : q[i] # t})

\* The tree order of two linked threads: priority, then insertion.
Precedes(s, x, y) ==
  \/ s.prio[x] < s.prio[y]
  \/ /\ s.prio[x] = s.prio[y]
     /\ \E i, j \in 1..Len(s.queue) : i < j /\ s.queue[i] = x /\ s.queue[j] = y

\* The first thread of a set in that order, NoThread if it is empty.
Front(s, S) ==
  IF S = {} THEN NoThread
  ELSE CHOOSE x \in S : \A y \in S \ {x} : Precedes(s, x, y)

\* The tree of the lock info that o holds for a; all the waiters of o.
Waiters(s, o, a) == {w \in GuestThreads : s.info[w] = [owner |-> o, lock |-> a]}
AllWaiters(s, o) == {w \in GuestThreads : s.info[w].owner = o}

\* The priority a thread should have: its own or its best waiter's.
InheritedPriority(s, t) ==
  Min({s.base[t]} \cup {s.prio[w] : w \in AllWaiters(s, t)})

\* Mutant: the chain of owners is not followed.
RestorePriority_OneStep(s, t) ==
  [s EXCEPT
    !.prio = [@ EXCEPT ![t] = InheritedPriority(s, t)],
    !.queue = IF InheritedPriority(s, t) # s.prio[t] /\ t \in Range(@)
              THEN Append(Without(@, t), t) ELSE @]

\* One round of RestorePriority(): give the thread its inherited priority, link it
\* anew where it waits, and go on with the owner it waits for.
RestoreRound(r) ==
  LET u   == r.thread
      new == InheritedPriority(r.s, u)
  IN IF u = NoThread THEN r
     ELSE IF new = r.s.prio[u] THEN [thread |-> NoThread, s |-> r.s]
     ELSE [thread |-> r.s.info[u].owner,
           s |-> [r.s EXCEPT
                    !.prio = [@ EXCEPT ![u] = new],
                    !.queue = IF u \in Range(@)
                              THEN Append(Without(@, u), u) ELSE @]]

\* RestorePriority(): the rounds, until nothing changes.  Twice the number of
\* threads bounds them, even around a cycle.
RestorePriority(s, t) ==
  LET Rounds[n \in 0..(2 * Cardinality(GuestThreads))] ==
        IF n = 0 THEN [thread |-> t, s |-> s] ELSE RestoreRound(Rounds[n - 1])
  IN Rounds[2 * Cardinality(GuestThreads)].s

\* AddWaiter(): link w to the lock info that o holds for a.
AddWaiter(s, o, w, a) ==
  LET s1 == [s EXCEPT !.info = [@ EXCEPT ![w] = [owner |-> o, lock |-> a]],
                      !.queue = Append(@, w)]
  IN IF s.prio[w] < s.prio[o] THEN RestorePriority(s1, o) ELSE s1

\* RemoveWaiter(): unlink w from its owner, which may lose its priority.
RemoveWaiter(s, w) ==
  LET o  == s.info[w].owner
      s1 == [s EXCEPT !.info = [@ EXCEPT ![w] = NoInfo],
                      !.queue = Without(@, w)]
  IN IF s.prio[o] = s.prio[w] /\ s.prio[o] < s.base[o]
     THEN RestorePriority(s1, o) ELSE s1

\* RemoveUserWaiterByKey(): the lock info moves from t to its first waiter.
RemoveWaiterByKey(s, t, a) ==
  LET n  == Front(s, Waiters(s, t, a))
      s1 == [s EXCEPT
               !.info = [w \in GuestThreads |->
                  IF w = n THEN NoInfo
                  ELSE IF w \in Waiters(s, t, a) THEN [owner |-> n, lock |-> a]
                  ELSE @[w]],
               !.queue = Without(@, n)]
  IN IF n = NoThread THEN s
     ELSE IF s.prio[t] = s.prio[n] /\ s.prio[t] < s.base[t]
     THEN RestorePriority(s1, t) ELSE s1

\* Mutant: the timer task is not cancelled.
EndWait_KeepsTimer(s, w, result) ==
  [s EXCEPT
     !.result[w] = result,
     !.pc[w] = IF @ = "wait" THEN "woken" ELSE "cvret"]

\* KThreadQueue::EndWait() and CancelWait(): make w runnable with a result.
\* Cancelling by the timer leaves the task, which the timer already took.
EndWait(s, w, result) ==
  [s EXCEPT
     !.result[w] = result,
     !.timer = @ \ {w},
     !.pc[w] = IF @ = "wait" THEN "woken" ELSE "cvret"]

\* The CancelWait of the queues of WaitForAddress() and Wait().
CancelWait(s, w, result) ==
  LET s1 == IF s.info[w] # NoInfo THEN RemoveWaiter(s, w) ELSE s
      s2 == IF s1.key[w] = NoKey THEN s1
            ELSE [s1 EXCEPT !.key = [@ EXCEPT ![w] = NoKey],
                            !.queue = Without(@, w)]
  IN EndWait(s2, w, result)

\* Mutant: the next owner's tag loses the remaining waiters.
PassLock_NoWaiterBit(s, t, a) ==
  LET n  == Front(s, Waiters(s, t, a))
      s1 == RemoveWaiterByKey(s, t, a)
      s2 == [s1 EXCEPT !.tag = [@ EXCEPT ![a] =
               IF n = NoThread THEN Free ELSE [owner |-> n, wait |-> FALSE]]]
  IN IF n = NoThread THEN s2 ELSE EndWait(s2, n, "Success")

\* The part SignalToAddress() and Wait() share: pass a to the next owner,
\* write its tag and wake it.
PassLock(s, t, a) ==
  LET n  == Front(s, Waiters(s, t, a))
      s1 == RemoveWaiterByKey(s, t, a)
      s2 == [s1 EXCEPT !.tag = [@ EXCEPT ![a] =
               IF n = NoThread THEN Free
               ELSE [owner |-> n, wait |-> Waiters(s1, n, a) # {}]]]
  IN IF n = NoThread THEN s2 ELSE EndWait(s2, n, "Success")

\* A handle in a tag names a thread until that thread is finalized.
IsValidHandle(t) == t # NoThread /\ pc[t] # "gone"

\* SignalImpl(): w, just taken off the condition variable, gets the mutex it
\* gave up, or waits for its owner.
SignalImpl(s, w) ==
  LET a    == want[w]
      prev == s.tag[a]
      s1   == [s EXCEPT !.tag = [@ EXCEPT ![a] =
                 IF prev = Free THEN [owner |-> w, wait |-> FALSE]
                 ELSE [owner |-> prev.owner, wait |-> TRUE]]]
  IN IF prev = Free THEN EndWait(s1, w, "Success")
     ELSE IF IsValidHandle(prev.owner) THEN AddWaiter(s1, prev.owner, w, a)
     ELSE EndWait(s1, w, "InvalidState")

\* The waiters of a condition variable, in tree order.
CvWaiters(s, k) == {w \in GuestThreads : s.key[w] = k}
CvSuccessor(s, w) == Front(s, {x \in CvWaiters(s, s.key[w]) \ {w} : Precedes(s, w, x)})

\* One round of the loop of Signal(): it erases the thread at the iterator, keeps
\* its successor, and signals the thread, which may move others in the tree.
SignalRound(r, count) ==
  LET w == r.it
  IN IF w = NoThread \/ (count > 0 /\ r.num >= count) THEN r
     ELSE [it  |-> CvSuccessor(r.s, w),
           num |-> r.num + 1,
           s   |-> SignalImpl([r.s EXCEPT
                                 !.key = [@ EXCEPT ![w] = NoKey],
                                 !.queue = Without(@, w)], w)]

SignalLoop(s, k, count) ==
  LET Rounds[n \in 0..Cardinality(GuestThreads)] ==
        IF n = 0 THEN [it |-> Front(s, CvWaiters(s, k)), num |-> 0, s |-> s]
        ELSE SignalRound(Rounds[n - 1], count)
  IN Rounds[Cardinality(GuestThreads)]

-----------------------------------------------------------------------------
(* The guest's mutex (external).                                           *)

\* The guest may start another operation.
Starts(t) ==
  /\ pc[t] = "run"
  /\ ~m_termination_requested[t]

SvcCalled == svcCalls < MaxSvcCalls /\ svcCalls' = svcCalls + 1

\* Exclusive load and store: take a free mutex, or mark a held one.
GuestLock(t, a) ==
  /\ \/ Starts(t) /\ (\A h \in held[t] : h < a) /\ SvcCalled
     \/ pc[t] = "relock" /\ want[t] = a /\ UNCHANGED svcCalls
  /\ \/ /\ m_tag[a] = Free
        /\ m_tag' = [m_tag EXCEPT ![a] = [owner |-> t, wait |-> FALSE]]
        /\ held' = [held EXCEPT ![t] = @ \cup {a}]
        /\ pc' = [pc EXCEPT ![t] = "run"]
        /\ want' = [want EXCEPT ![t] = 0]
        /\ UNCHANGED seen
     \/ /\ m_tag[a] # Free
        /\ m_tag' = [m_tag EXCEPT ![a] = [owner |-> @.owner, wait |-> TRUE]]
        /\ seen' = [seen EXCEPT ![t] = m_tag[a].owner]
        /\ pc' = [pc EXCEPT ![t] = "lock"]
        /\ want' = [want EXCEPT ![t] = a]
        /\ UNCHANGED held
  /\ UNCHANGED <<m_has_waiter, m_waiting_lock_info, m_condvar_key, m_queue,
                 m_priority, m_base_priority, m_wait_result, m_timer,
                 m_termination_requested, m_null_owner>>

\* After ArbitrateLock the guest looks at the word again.
GuestCheck(t) ==
  /\ pc[t] = "check"
  /\ \/ /\ m_tag[want[t]].owner = t
        /\ held' = [held EXCEPT ![t] = @ \cup {want[t]}]
        /\ pc' = [pc EXCEPT ![t] = "run"]
        /\ want' = [want EXCEPT ![t] = 0]
     \/ /\ m_tag[want[t]].owner # t
        /\ pc' = [pc EXCEPT ![t] = "relock"]
        /\ UNCHANGED <<held, want>>
  /\ UNCHANGED <<kernelVars, seen, svcCalls>>

\* An exclusive store releases a mutex that nobody waits for.
GuestUnlock(t, a) ==
  /\ pc[t] = "run" /\ a \in held[t] /\ ~m_termination_requested[t]
  /\ m_tag[a] = [owner |-> t, wait |-> FALSE]
  /\ m_tag' = [m_tag EXCEPT ![a] = Free]
  /\ held' = [held EXCEPT ![t] = @ \ {a}]
  /\ UNCHANGED <<m_has_waiter, m_waiting_lock_info, m_condvar_key, m_queue,
                 m_priority, m_base_priority, m_wait_result, m_timer,
                 m_termination_requested, m_null_owner, pc, want, seen, svcCalls>>

\* After WaitProcessWideKeyAtomic: success means the mutex is held again,
\* otherwise the guest locks it.
GuestCvReturn(t) ==
  /\ pc[t] = "cvret"
  /\ \/ /\ m_wait_result[t] = "Success"
        /\ held' = [held EXCEPT ![t] = @ \cup {want[t]}]
        /\ pc' = [pc EXCEPT ![t] = "run"]
        /\ want' = [want EXCEPT ![t] = 0]
     \/ /\ m_wait_result[t] # "Success"
        /\ pc' = [pc EXCEPT ![t] = "relock"]
        /\ UNCHANGED <<held, want>>
  /\ ~m_termination_requested[t]
  /\ UNCHANGED <<kernelVars, seen, svcCalls>>

-----------------------------------------------------------------------------
(* Supervisor calls.                                                       *)

\* ArbitrateLock: WaitForAddress().
WaitForAddress(t) ==
  LET a == want[t]
      o == seen[t]
  IN
  /\ pc[t] = "lock"
  /\ \/ /\ \/ m_termination_requested[t]
           \/ m_tag[a] # [owner |-> o, wait |-> TRUE]
           \/ ~IsValidHandle(o)
        /\ Apply([State EXCEPT !.pc = [@ EXCEPT ![t] = "check"]])
        /\ seen' = [seen EXCEPT ![t] = NoThread]
     \/ /\ ~m_termination_requested[t]
        /\ m_tag[a] = [owner |-> o, wait |-> TRUE]
        /\ IsValidHandle(o)
        /\ Apply([AddWaiter(State, o, t, a) EXCEPT
                    !.pc = [@ EXCEPT ![t] = "wait"]])
        /\ UNCHANGED seen
  /\ UNCHANGED <<m_has_waiter, m_termination_requested, m_null_owner, want,
                 held, svcCalls>>

\* The end of WaitForAddress(): close the reference to the owner.
WaitForAddressReturn(t) ==
  /\ pc[t] = "woken"
  /\ pc' = [pc EXCEPT ![t] = "check"]
  /\ seen' = [seen EXCEPT ![t] = NoThread]
  /\ UNCHANGED <<kernelVars, want, held, svcCalls>>

\* ArbitrateUnlock: SignalToAddress().
SignalToAddress(t, a) ==
  /\ pc[t] = "run" /\ a \in held[t] /\ ~m_termination_requested[t]
  /\ m_tag[a].wait
  /\ Apply(PassLock(State, t, a))
  /\ held' = [held EXCEPT ![t] = @ \ {a}]
  /\ UNCHANGED <<m_has_waiter, m_termination_requested, m_null_owner, want,
                 seen, svcCalls>>

\* WaitProcessWideKeyAtomic: Wait(), with no, a positive or an endless timeout.
Wait(t, a, k, timeout) ==
  /\ Starts(t) /\ a \in held[t]
  /\ LET s == PassLock(State, t, a) IN
     \/ /\ timeout = "zero"
        /\ Apply([s EXCEPT !.result = [@ EXCEPT ![t] = "TimedOut"],
                           !.pc = [@ EXCEPT ![t] = "cvret"]])
     \/ /\ timeout # "zero"
        /\ Apply([s EXCEPT
             !.key = [@ EXCEPT ![t] = k],
             !.queue = Append(@, t),
             !.timer = IF timeout = "timed" THEN @ \cup {t} ELSE @,
             !.pc = [@ EXCEPT ![t] = "cvwait"]])
  /\ m_has_waiter' = [m_has_waiter EXCEPT ![k] = TRUE]
  /\ held' = [held EXCEPT ![t] = @ \ {a}]
  /\ want' = [want EXCEPT ![t] = a]
  /\ SvcCalled
  /\ UNCHANGED <<m_termination_requested, m_null_owner, seen>>

\* Mutant: the flag is cleared although waiters remain.
Signal_ClearsFlag(t, k, count) ==
  /\ Starts(t)
  /\ Apply(SignalLoop(State, k, count).s)
  /\ m_has_waiter' = [m_has_waiter EXCEPT ![k] = FALSE]
  /\ SvcCalled
  /\ UNCHANGED <<m_termination_requested, m_null_owner, want, seen, held>>

\* SignalProcessWideKey: Signal(); a count of 0 or less signals every waiter.
Signal(t, k, count) ==
  LET r == SignalLoop(State, k, count) IN
  /\ Starts(t)
  /\ Apply(r.s)
  /\ m_has_waiter' = [m_has_waiter EXCEPT ![k] = @ /\ r.it # NoThread]
  /\ SvcCalled
  /\ UNCHANGED <<m_termination_requested, m_null_owner, want, seen, held>>

-----------------------------------------------------------------------------
(* What others do to a thread.                                             *)

\* KThread::OnTimer().
OnTimer(t) ==
  /\ t \in m_timer
  /\ Apply(IF pc[t] \in {"wait", "cvwait"}
           THEN CancelWait([State EXCEPT !.timer = @ \ {t}], t, "TimedOut")
           ELSE [State EXCEPT !.timer = @ \ {t}])
  /\ UNCHANGED <<m_has_waiter, m_termination_requested, m_null_owner, want,
                 seen, held, svcCalls>>

\* SetThreadPriority: KThread::SetBasePriority().
SetBasePriority(t, p) ==
  /\ pc[t] \notin {"exited", "gone"}
  /\ p # m_base_priority[t]
  /\ Apply(RestorePriority([State EXCEPT !.base = [@ EXCEPT ![t] = p]], t))
  /\ SvcCalled
  /\ UNCHANGED <<m_has_waiter, m_termination_requested, m_null_owner, want,
                 seen, held>>

\* RequestTerminate(): raise the priority, then cancel the wait.
RequestTerminate(t) ==
  /\ t \in Terminatable
  /\ ~m_termination_requested[t]
  /\ pc[t] \notin {"exited", "gone"}
  /\ m_termination_requested' = [m_termination_requested EXCEPT ![t] = TRUE]
  /\ LET s == RestorePriority([State EXCEPT !.base =
                [@ EXCEPT ![t] = TerminatingThreadPriority]], t)
     IN Apply(IF pc[t] \in {"wait", "cvwait"}
              THEN CancelWait(s, t, "TerminationRequested") ELSE s)
  /\ SvcCalled
  /\ UNCHANGED <<m_has_waiter, m_null_owner, want, seen, held>>

\* ExitThread, or the return to user mode of a thread that must terminate.
Exit(t) ==
  /\ \/ /\ pc[t] = "run"
        /\ ExitHolding \/ held[t] = {} \/ m_termination_requested[t]
     \/ /\ pc[t] \in {"check", "relock", "cvret"}
        /\ m_termination_requested[t]
  /\ pc' = [pc EXCEPT ![t] = "exited"]
  /\ UNCHANGED <<kernelVars, want, seen, held, svcCalls>>

\* Threads inside WaitForAddress() keep a reference to the owner they saw.
IsReferenced(t) ==
  \E w \in GuestThreads : pc[w] \in {"wait", "woken"} /\ seen[w] = t

\* Finalize(), once the last reference is closed: every thread still linked
\* to t is unlinked, then its wait is cancelled.  The queue of
\* WaitForAddress() then dereferences the owner, which is null by now.
Finalize(t) ==
  /\ pc[t] = "exited"
  /\ ~IsReferenced(t)
  /\ LET W == AllWaiters(State, t)
         s == [State EXCEPT
                 !.info = [w \in GuestThreads |-> IF w \in W THEN NoInfo ELSE @[w]],
                 !.queue = Keep(@, {i \in DOMAIN @ : @[i] \notin W}),
                 !.result = [w \in GuestThreads |->
                    IF w \in W THEN "InvalidState" ELSE @[w]],
                 !.timer = @ \ W,
                 !.pc = [w \in GuestThreads |-> IF w = t THEN "gone"
                         ELSE IF w \notin W THEN @[w]
                         ELSE IF @[w] = "wait" THEN "woken" ELSE "cvret"]]
     IN /\ Apply(s)
        /\ m_null_owner' = \E w \in W : pc[w] = "wait"
  /\ UNCHANGED <<m_has_waiter, m_termination_requested, want, seen, held,
                 svcCalls>>

-----------------------------------------------------------------------------
Guest(t) ==
  \/ \E a \in Mutexes : GuestLock(t, a) \/ GuestUnlock(t, a)
  \/ GuestCheck(t)
  \/ GuestCvReturn(t)

Call(t) ==
  \/ WaitForAddress(t)
  \/ WaitForAddressReturn(t)
  \/ \E a \in Mutexes : SignalToAddress(t, a)
  \/ \E a \in Mutexes, k \in Keys, timeout \in {"zero", "timed", "forever"} :
       Wait(t, a, k, timeout)
  \/ \E k \in Keys, count \in {0, 1} : Signal(t, k, count)
  \/ Exit(t)

CvNext ==
  /\ ~m_null_owner
  /\ \E t \in GuestThreads :
       \/ Guest(t)
       \/ Call(t)
       \/ OnTimer(t)
       \/ \E p \in NewPriorities : SetBasePriority(t, p)
       \/ RequestTerminate(t)
       \/ Finalize(t)

CvSpec == CvInit /\ [][CvNext]_cvVars

\* A thread inside the mutex functions keeps being scheduled, and a guest that
\* holds a mutex goes on and unlocks it.
Progress(t) ==
  \/ Guest(t)
  \/ WaitForAddress(t)
  \/ WaitForAddressReturn(t)
  \/ \E a \in Mutexes : SignalToAddress(t, a)

CvFairSpec == CvSpec /\ \A t \in GuestThreads : WF_cvVars(~m_null_owner /\ Progress(t))

-----------------------------------------------------------------------------
(* Properties.                                                             *)

\* Whoever the guest's mutex or condition variable functions returned to owns
\* the mutex word, through every way a wait can end.
HolderOwnsMutex ==
  \A t \in GuestThreads :
    /\ \A a \in held[t] : m_tag[a].owner = t
    /\ pc[t] = "cvret" /\ m_wait_result[t] = "Success" =>
         m_tag[want[t]].owner = t

\* A thread the kernel parked for a mutex waits for the thread the word names,
\* and the word says so: the owner cannot unlock without the kernel.
MutexWaiterAnnounced ==
  \A w \in GuestThreads : m_waiting_lock_info[w] # NoInfo =>
    LET info == m_waiting_lock_info[w] IN
    /\ m_tag[info.lock] = [owner |-> info.owner, wait |-> TRUE]
    /\ info.lock = want[w]

\* What the guest's mutex functions and the kernel both go by, the word, is true
\* of the thread inside and of every thread that waits.
MutexWordIsTrue == HolderOwnsMutex /\ MutexWaiterAnnounced

\* Priority inheritance is exact after every call, along chains of owners:
\* a thread runs at the best priority among its own and its waiters'.
PriorityInherited ==
  \A t \in GuestThreads :
    pc[t] # "gone" => m_priority[t] = InheritedPriority(State, t)

\* The word at a condition key is nonzero while a thread waits for the key, so
\* that a guest that skips SignalProcessWideKey on zero skips nobody.
FlagCoversAllWaiters ==
  \A t \in GuestThreads : m_condvar_key[t] # NoKey => m_has_waiter[m_condvar_key[t]]

\* So it is for every waiter that holds no mutex: a broadcast may skip a thread
\* whose priority it raises, and it raises those of mutex owners only.
FlagCoversWaiters ==
  \A t \in GuestThreads :
    m_condvar_key[t] # NoKey /\ (\A a \in Mutexes : m_tag[a].owner # t)
      => m_has_waiter[m_condvar_key[t]]

\* A timer task belongs to a wait that is still going on: no late timeout
\* hits a later wait of the thread.
TimerOnlyWhileWaiting == \A t \in m_timer : pc[t] = "cvwait"

\* A thread that is parked is linked to something that can wake it.
ParkedIsLinked ==
  \A t \in GuestThreads :
    /\ pc[t] = "wait" => m_waiting_lock_info[t] # NoInfo
    /\ pc[t] = "cvwait" =>
         (m_waiting_lock_info[t] # NoInfo) # (m_condvar_key[t] # NoKey)

\* Every way a wait can start, move from the condition variable to the mutex and
\* end leaves the thread with the links and the timer of its present wait.
WaitsAreTidy == TimerOnlyWhileWaiting /\ ParkedIsLinked

\* The reference WaitForAddress() keeps covers the whole wait: an owner is not
\* finalized while a thread in WaitForAddress() is linked to it.
OwnerOutlivesWait == ~m_null_owner

\* Every thread parked for a mutex, by ArbitrateLock or by a signal of its
\* condition variable, is released in the end, unless a thread is terminated
\* (the owner might be).
MutexWaitEnds ==
  \A t \in GuestThreads :
    m_waiting_lock_info[t] # NoInfo ~>
      \/ m_waiting_lock_info[t] = NoInfo
      \/ \E u \in GuestThreads : m_termination_requested[u]

=============================================================================
