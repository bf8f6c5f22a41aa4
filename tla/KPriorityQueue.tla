---------------------------- MODULE KPriorityQueue ----------------------------
(***************************************************************************)
(* Which thread each core is to run: the scheduled and the suggested queue *)
(* of every core, the choice UpdateHighestPriorityThreadsImpl makes from   *)
(* them when the scheduler lock is released, the migration of threads to   *)
(* idle cores, the three kinds of yield, the periodic preemption, changes  *)
(* of priority and affinity, and pinning.                                  *)
(*                                                                         *)
(* Every operation runs under the scheduler lock, so it is one step that   *)
(* ends with the update if it has asked for one.  A core switches to its   *)
(* choice later (KScheduler): until then the old thread goes on, and may   *)
(* itself call the kernel.                                                 *)
(*                                                                         *)
(* A core's queue, an array of lists with a bit set of the nonempty ones,  *)
(* is one sequence ordered by priority.  The counters a yield compares are *)
(* kept as the result of the comparison, and the comparison of two last    *)
(* scheduled ticks is left open (the set "older").                         *)
(***************************************************************************)
EXTENDS Integers, Sequences, SequencesExt, Sequencing

CONSTANTS
  NumCores,
  Threads,
  Guests,            \* the sets of threads a guest may have created
  Process,           \* the owner of each thread
  LowestPriority,    \* priorities are 0 (best) to LowestPriority
  MigrationLimit,    \* HighestCoreMigrationAllowedPriority
  PreemptPriority,   \* per core: the priority PreemptThreads rotates
  Pinnable,          \* threads that set their user disable count
  Contended,         \* threads that others may wait for inside the kernel
  Masks,             \* the affinity masks SetCoreMask is called with
  NoThread

Cores == 0..(NumCores - 1)
NoCore == -1
Priorities == 0..LowestPriority
Processes == {Process[t] : t \in Threads}

ASSUME PriorityQueueAssumption ==
  /\ NumCores \in Nat \ {0}
  /\ LowestPriority \in Nat
  /\ Masks \subseteq (SUBSET Cores) \ {{}}
  /\ Guests \subseteq SUBSET Threads
  /\ Pinnable \subseteq Threads
  /\ NoThread \notin Threads

VARIABLES
  created,     \* the threads of the guest
  runnable,    \* the threads in state Runnable
  active,      \* per thread: m_core_id, NoCore after YieldToAnyThread
  aff,         \* per thread: m_physical_affinity_mask
  prio,        \* per thread: m_priority
  sched,       \* per core: m_scheduled_queue
  sugg,        \* per core: m_suggested_queue
  highest,     \* per core: highest_priority_thread
  running,     \* per core: the thread it executes
  leaving,     \* cores that must switch before their thread does anything else
  match,       \* threads whose yield count equals the process's scheduled count
  waited,      \* threads with kernel waiters (GetNumKernelWaiters() # 0)
  pinned,      \* per process and core: the pinned thread
  original     \* per thread: m_original_physical_affinity_mask

queueVars == <<runnable, active, aff, prio, sched, sugg>>
priorityQueueVars == <<created, queueVars, highest, running, leaving, match, waited, pinned, original>>

PriorityQueueTypeOK ==
  /\ created \in Guests
  /\ runnable \in SUBSET Threads
  /\ active \in [Threads -> Cores \cup {NoCore}]
  /\ aff \in [Threads -> (SUBSET Cores) \ {{}}]
  /\ prio \in [Threads -> Priorities]
  /\ \A c \in Cores : Range(sched[c]) \cup Range(sugg[c]) \subseteq Threads
  /\ highest \in [Cores -> Threads \cup {NoThread}]
  /\ running \in [Cores -> Threads \cup {NoThread}]
  /\ leaving \in SUBSET Cores
  /\ match \in SUBSET Threads
  /\ waited \in SUBSET Threads
  /\ pinned \in [Processes -> [Cores -> Threads \cup {NoThread}]]
  /\ original \in [Threads -> SUBSET Cores]

\* Threads have been created but not run; any priority, core and affinity.
PriorityQueueInit ==
  /\ runnable = {}
  /\ created \in Guests
  /\ aff \in {f \in [Threads -> Masks] : \A t \in Threads \ created : f[t] = Cores}
  /\ active \in {f \in [Threads -> Cores] :
                  /\ \A t \in created : f[t] \in aff[t]
                  /\ \A t \in Threads \ created : f[t] = 0}
  /\ prio \in {f \in [Threads -> Priorities] : \A t \in Threads \ created : f[t] = 0}
  /\ sched = [c \in Cores |-> << >>] /\ sugg = sched
  /\ highest = [c \in Cores |-> NoThread] /\ running = highest
  /\ leaving = {} /\ match = {} /\ waited = {}
  /\ pinned = [p \in Processes |-> [c \in Cores |-> NoThread]]
  /\ original = [t \in Threads |-> {}]

-----------------------------------------------------------------------------
(* The queues.  The operators map one state of the queues, a record, to    *)
(* the next: s.bumped collects the threads whose IncrementScheduledCount   *)
(* is called.                                                              *)

Now == [run |-> runnable, active |-> active, aff |-> aff, prio |-> prio,
        sched |-> sched, sugg |-> sugg, top |-> highest, bumped |-> {}]

Bump(s, threads) == [s EXCEPT !.bumped = @ \cup (threads \ {NoThread})]

PutBack(q, t, p) == Keep(q, {i \in DOMAIN q : p[q[i]] <= p[t]}) \o <<t>>
                      \o Keep(q, {i \in DOMAIN q : p[q[i]] > p[t]})

PutFront(q, t, p) == Keep(q, {i \in DOMAIN q : p[q[i]] < p[t]}) \o <<t>>
                       \o Keep(q, {i \in DOMAIN q : p[q[i]] >= p[t]})

Put(q, t, p, end) == IF end = "back" THEN PutBack(q, t, p) ELSE PutFront(q, t, p)

GetFront(q) == IF q = << >> THEN NoThread ELSE Head(q)

GetNext(q, t) ==
  IF t \notin Range(q) \/ t = Last(q) THEN NoThread
  ELSE q[(CHOOSE i \in 1..Len(q) : q[i] = t) + 1]

OfPriority(q, p, k) == Keep(q, {i \in DOMAIN q : p[q[i]] = k})

Removed(q, t) == Keep(q, {i \in DOMAIN q : q[i] # t})

\* PushBack and PushFront: into the scheduled queue of the active core, and to
\* the back of the suggested queues of the other cores.
Push(s, t, end) ==
  [s EXCEPT !.sched = [c \in Cores |-> IF c = s.active[t]
                                       THEN Put(@[c], t, s.prio, end) ELSE @[c]],
            !.sugg = [c \in Cores |-> IF c \in s.aff[t] \ {s.active[t]}
                                      THEN PutBack(@[c], t, s.prio) ELSE @[c]]]

Dequeue(s, t) ==
  [s EXCEPT !.sched = [c \in Cores |-> IF c = s.active[t] THEN Removed(@[c], t) ELSE @[c]],
            !.sugg = [c \in Cores |-> IF c \in s.aff[t] \ {s.active[t]}
                                      THEN Removed(@[c], t) ELSE @[c]]]

\* SetActiveCore and SetAffinityMask of a thread.
Assign(s, t, core, mask) == [s EXCEPT !.active[t] = core, !.aff[t] = mask]

\* ChangeAffinityMask: leave the queues of the old mask and core, join the new.
ChangeAffinityMask(s, t, core, mask) == Push(Assign(Dequeue(s, t), t, core, mask), t, "back")

\* SetActiveCore followed by ChangeCore.
ChangeCore(s, t, core, end) ==
  LET prev == s.active[t]
  IN  IF prev = core THEN s
      ELSE [s EXCEPT
              !.active[t] = core,
              !.sched = [c \in Cores |-> IF c = prev THEN Removed(@[c], t)
                                         ELSE IF c = core THEN Put(@[c], t, s.prio, end) ELSE @[c]],
              !.sugg = [c \in Cores |-> IF c = prev THEN PutBack(@[c], t, s.prio)
                                        ELSE IF c = core THEN Removed(@[c], t) ELSE @[c]]]

\* MoveToScheduledBack.
MoveToBack(s, t) ==
  [s EXCEPT !.sched[s.active[t]] = PutBack(Removed(@, t), t, s.prio)]

\* The first thread of a queue that is one of the given, NoThread if there is none.
FirstIn(q, threads) == GetFront(Keep(q, {i \in DOMAIN q : q[i] \in threads}))

-----------------------------------------------------------------------------
(* UpdateHighestPriorityThreadsImpl.                                       *)

\* The top thread of a core: the front of its queue, unless that thread has no
\* kernel waiters and its process has another thread pinned to the core.
TopThread(s, c, pins, kept) ==
  LET front == GetFront(s.sched[c])
      pin == IF front = NoThread THEN NoThread ELSE pins[Process[front]][c]
  IN  IF pin \in {NoThread, front} \/ front \in kept THEN front
      ELSE IF pin \in s.run THEN pin ELSE NoThread

\* The top thread of the core a thread is on.
TopOn(tops, core) == IF core = NoCore THEN NoThread ELSE tops[core]

\* Whether the threads behind this top thread may be taken away from it.
Movable(s, t) == t = NoThread \/ s.prio[t] >= MigrationLimit

\* An idle core takes the first thread suggested to it that is not its core's
\* top thread; if all are, the first of them that leaves another thread to its
\* core.
MigrateToIdle(s, c) ==
  LET t == FirstIn(s.sugg[c], {u \in Range(s.sugg[c]) : TopOn(s.top, s.active[u]) # u})
      u == FirstIn(s.sugg[c],
                   {v \in Range(s.sugg[c]) : GetNext(s.sched[s.active[v]], v) # NoThread})
  IN  IF t # NoThread
      THEN IF ~Movable(s, TopOn(s.top, s.active[t])) THEN s
           ELSE [ChangeCore(s, t, c, "back") EXCEPT !.top[c] = t]
      ELSE IF u = NoThread THEN s
      ELSE Bump([ChangeCore(s, u, c, "back") EXCEPT
                   !.top[c] = u, !.top[s.active[u]] = GetNext(s.sched[s.active[u]], u)], {u})

\* The loop over the cores that were idle when it began.
Migrated(s, idle) ==
  LET after[n \in 0..NumCores] ==
        IF n = 0 THEN s
        ELSE IF n - 1 \in idle THEN MigrateToIdle(after[n - 1], n - 1) ELSE after[n - 1]
  IN  after[NumCores]

Update(s0, pins, kept) ==
  LET tops == [c \in Cores |-> TopThread(s0, c, pins, kept)]
      s == [Bump(s0, {highest[c] : c \in {d \in Cores : highest[d] # tops[d]}}) EXCEPT !.top = tops]
  IN  Migrated(s, {c \in Cores : s.sched[c] = << >>})

\* The state of the queues becomes s; "own" holds the core whose thread called.
Commit(s, own) ==
  /\ runnable' = s.run /\ active' = s.active /\ aff' = s.aff /\ prio' = s.prio
  /\ sched' = s.sched /\ sugg' = s.sugg
  /\ highest' = s.top
  /\ leaving' = leaving \cup {c \in own : s.top[c] # running[c]}
  /\ running' = running

\* Yield counts that still match after the increments of s.
StillMatch(s) == {t \in match : \A u \in s.bumped : Process[u] # Process[t]}

\* A call that has asked for an update, and leaves pinning alone.
Finish(s, callers) ==
  LET r == Update(s, pinned, waited)
  IN  /\ \E own \in callers : Commit(r, own)
      /\ match' = StillMatch(r)
      /\ UNCHANGED <<waited, pinned, original>>

\* The thread of a core that may call the kernel.
Caller(c) == IF c \in leaving THEN NoThread ELSE running[c]

\* Whose thread calls: nobody's (a host thread), or that of one core.
Callers == {{}} \cup {{c} : c \in {d \in Cores : Caller(d) # NoThread}}

-----------------------------------------------------------------------------
(* Operations on threads.                                                  *)

Wake_NotCounted(t) ==
  /\ t \notin runnable
  /\ Finish(Push([Now EXCEPT !.run = @ \cup {t}], t, "back"), Callers)

\* OnThreadStateChanged, by a thread or from the host.
Wake(t) ==
  /\ t \notin runnable
  /\ Finish(Bump(Push([Now EXCEPT !.run = @ \cup {t}], t, "back"), {t}), Callers)

Block(t) ==
  /\ t \in runnable
  /\ Finish(Bump(Dequeue([Now EXCEPT !.run = @ \ {t}], t), {t}), Callers)

ChangePriority_NewQueue(t, p) ==
  /\ p # prio[t] /\ t \in runnable
  /\ Finish(Bump(Push([Now EXCEPT !.prio[t] = p], t, "back"), {t}), Callers)

\* OnThreadPriorityChanged: a thread that changes its own priority goes in front
\* of its equals.
ChangePriority(t, p) ==
  /\ p # prio[t]
  /\ LET own == {{c} : c \in {d \in Cores : Caller(d) = t}}
         s == [Dequeue(Now, t) EXCEPT !.prio[t] = p]
     IN  IF t \in runnable
         THEN \/ Finish(Bump(Push(s, t, "front"), {t}), own)
              \/ Finish(Bump(Push(s, t, "back"), {t}), Callers \ own)
         ELSE /\ Commit([Now EXCEPT !.prio[t] = p], {})
              /\ UNCHANGED <<match, waited, pinned, original>>

IsPinned(t) == \E p \in Processes, c \in Cores : pinned[p][c] = t

\* The active core under a new mask: it changes if it is not in the mask, to the
\* ideal core or the last of the mask.
NewActive(t, mask) == IF active[t] \in mask \cup {NoCore} THEN {active[t]} ELSE mask

\* SetCoreMask, up to the wait for a running thread to leave its core.
SetCoreMask(t, mask) ==
  /\ mask # IF IsPinned(t) THEN original[t] ELSE aff[t]
  /\ IF IsPinned(t)
     THEN /\ original' = [original EXCEPT ![t] = mask]
          /\ UNCHANGED <<queueVars, highest, running, leaving, match, waited, pinned>>
     ELSE \E core \in NewActive(t, mask) :
            IF t \in runnable
            THEN Finish(Bump(ChangeAffinityMask(Now, t, core, mask), {t}), Callers)
            ELSE /\ Commit(Assign(Now, t, core, mask), {})
                 /\ UNCHANGED <<match, waited, pinned, original>>

\* A kernel waiter of the thread comes or goes; the update is asked for.
ChangeKernelWaiters(t) ==
  /\ t \in Contended
  /\ waited' = IF t \in waited THEN waited \ {t} ELSE waited \cup {t}
  /\ LET r == Update(Now, pinned, waited')
     IN  Commit(r, {}) /\ match' = StillMatch(r)
  /\ UNCHANGED <<pinned, original>>

\* HandleInterrupt pins the current thread when its user disable count is set.
PinCurrentThread(c) ==
  LET t == Caller(c)
  IN  /\ t \in Pinnable
      /\ pinned[Process[t]][c] = NoThread
      /\ pinned' = [pinned EXCEPT ![Process[t]][c] = t]
      /\ original' = [original EXCEPT ![t] = aff[t]]
      /\ LET changed == active[t] # c \/ aff[t] # {c}
             s == IF changed /\ t \in runnable
                  THEN Bump(ChangeAffinityMask(Now, t, c, {c}), {t})
                  ELSE Assign(Now, t, c, {c})
             r == Update(s, pinned', waited)
         IN  Commit(r, {c}) /\ match' = StillMatch(r)
      /\ UNCHANGED waited

\* UnpinCurrentThread, from SynchronizePreemptionState.
UnpinCurrentThread(c) ==
  LET t == Caller(c)
      mask == original[t]
  IN  /\ t # NoThread /\ pinned[Process[t]][c] = t
      /\ pinned' = [pinned EXCEPT ![Process[t]][c] = NoThread]
      /\ \E core \in IF mask = aff[t] \/ active[t] \in mask THEN {active[t]} ELSE mask :
           LET s == IF mask # aff[t] /\ t \in runnable
                    THEN Bump(ChangeAffinityMask(Now, t, core, mask), {t})
                    ELSE Assign(Now, t, core, mask)
               r == Update(s, pinned', waited)
           IN  Commit(r, {c}) /\ match' = StillMatch(r)
      /\ UNCHANGED <<waited, original>>

-----------------------------------------------------------------------------
(* Preemption and yields.                                                  *)

FrontOn(s, core) == IF core = NoCore THEN NoThread ELSE GetFront(s.sched[core])

\* RotateScheduledQueue, in three parts.  The first: the front thread of the priority
\* that is rotated goes behind its equals.
FrontAt(s, c) == GetFront(OfPriority(s.sched[c], s.prio, PreemptPriority[c]))

RotateFront(s, c) ==
  LET front == FrontAt(s, c)
      r == IF front = NoThread THEN s ELSE MoveToBack(s, front)
  IN  IF FrontAt(r, c) = front THEN r ELSE Bump(r, {front, FrontAt(r, c)})

\* The core takes a thread of that priority from another core, unless the first
\* that could come is one of those for which the core's own next thread has been
\* waiting longer.
TakeEqual(s, c, waits) ==
  LET Stops == {u \in Range(s.sugg[c]) :
                  /\ FrontOn(s, s.active[u]) # u
                  /\ u \in waits \/ Movable(s, FrontOn(s, s.active[u]))}
      t == FirstIn(OfPriority(s.sugg[c], s.prio, PreemptPriority[c]), Stops)
  IN  IF t \in waits \cup {NoThread} THEN s ELSE Bump(ChangeCore(s, t, c, "front"), {t})

\* The core takes a better thread than its best, if that is not above the priority.
\* The caller is the host's timing thread, which is in no queue: the best thread is
\* never the current one, for which the code would look at the next.
TakeBetter(s, c) ==
  LET best == GetFront(s.sched[c])
      Better == {u \in Range(s.sugg[c]) :
                   /\ s.prio[u] < s.prio[best]
                   /\ FrontOn(s, s.active[u]) # u
                   /\ Movable(s, FrontOn(s, s.active[u]))}
      b == IF best # NoThread /\ s.prio[best] >= PreemptPriority[c]
           THEN FirstIn(s.sugg[c], Better) ELSE NoThread
  IN  IF b = NoThread THEN s ELSE Bump(ChangeCore(s, b, c, "front"), {b})

\* "older" holds the suggested threads for which the next thread of a core has
\* been waiting longer; it counts if the front thread is another now.
RotateScheduledQueue(s, c, older) ==
  LET r == RotateFront(s, c)
  IN  TakeBetter(TakeEqual(r, c, IF FrontAt(r, c) = FrontAt(s, c) THEN {} ELSE older), c)

\* The loop over the cores.
Rotated(s, older) ==
  LET after[n \in 0..NumCores] ==
        IF n = 0 THEN s ELSE RotateScheduledQueue(after[n - 1], n - 1, older)
  IN  after[NumCores]

\* Every 10 ms, from the host's timer.
PreemptThreads ==
  \E older \in SUBSET UNION {Range(sugg[c]) : c \in Cores} : Finish(Rotated(Now, older), {{}})

\* A call without an update: only the counts change.
NoUpdate(s, c, t) ==
  /\ Commit(s, {c})
  /\ match' = StillMatch(s) \cup t
  /\ UNCHANGED <<waited, pinned, original>>

\* The current thread of the core, if it is runnable and its count differs.
Yielder(c) == IF Caller(c) \in runnable \ match THEN Caller(c) ELSE NoThread

YieldWithoutCoreMigration_NoUpdate(c) ==
  LET t == Yielder(c)
  IN  /\ t # NoThread
      /\ active[t] # NoCore
      /\ NoUpdate(Bump(MoveToBack(Now, t), {t}), c, {})

YieldWithoutCoreMigration(c) ==
  LET t == Yielder(c)
      s == Bump(MoveToBack(Now, t), {t})
      next == GetFront(OfPriority(s.sched[active[t]], prio, prio[t]))
  IN  /\ t # NoThread
      /\ active[t] # NoCore
      /\ IF next # t THEN Finish(s, {{c}}) ELSE NoUpdate(s, c, {t})

YieldWithCoreMigration(c) ==
  \E older \in SUBSET UNION {Range(sugg[d]) : d \in Cores} :
    LET t == Yielder(c)
        core == active[t]
        s == Bump(MoveToBack(Now, t), {t})
        next == GetFront(OfPriority(s.sched[core], prio, prio[t]))
        On(u) == TopOn(highest, active[u])
        Prefer(u) == prio[u] > prio[t] \/ (prio[u] = prio[t] /\ next # t /\ u \in older)
        u == FirstIn(s.sugg[core],
                     {v \in Range(s.sugg[core]) :
                        On(v) # v /\ (Prefer(v) \/ Movable(s, On(v)))})
        recheck == \E v \in Range(s.sugg[core]) :
                     On(v) # v /\ ~Prefer(v) /\ ~Movable(s, On(v))
    IN  /\ t # NoThread
        /\ active[t] # NoCore
        /\ IF u # NoThread /\ ~Prefer(u)
           THEN Finish(Bump(ChangeCore(s, u, core, "front"), {u}), {{c}})
           ELSE IF next # t THEN Finish(s, {{c}})
           ELSE NoUpdate(s, c, IF recheck THEN {} ELSE {t})

YieldToAnyThread(c) ==
  LET t == Yielder(c)
      core == active[t]
      s == Bump(ChangeCore(Now, t, NoCore, "back"), {t})
      u == FirstIn(s.sugg[core], {v \in Range(s.sugg[core]) : FrontOn(s, s.active[v]) # v})
      r == IF u # NoThread /\ Movable(s, FrontOn(s, s.active[u]))
           THEN Bump(ChangeCore(s, u, core, "back"), {u}) ELSE s
  IN  /\ t # NoThread
      /\ active[t] # NoCore
      /\ IF GetFront(s.sched[core]) # NoThread THEN Finish(s, {{c}})
         ELSE IF u # t THEN Finish(r, {{c}})
         ELSE NoUpdate(r, c, {t})

\* The switch of KScheduler, when the chosen thread has left its last core.
SwitchThread(c) ==
  /\ running[c] # highest[c] \/ c \in leaving
  /\ highest[c] # NoThread => \A d \in Cores \ {c} : running[d] # highest[c]
  /\ running' = [running EXCEPT ![c] = highest[c]]
  /\ leaving' = leaving \ {c}
  /\ UNCHANGED <<queueVars, highest, match, waited, pinned, original>>

PriorityQueueNext ==
  /\ \/ \E t \in created :
          \/ Wake(t) \/ Block(t) \/ ChangeKernelWaiters(t)
          \/ \E p \in Priorities : ChangePriority(t, p)
          \/ \E mask \in Masks : SetCoreMask(t, mask)
     \/ PreemptThreads
     \/ \E c \in Cores :
          \/ PinCurrentThread(c) \/ UnpinCurrentThread(c)
          \/ YieldWithoutCoreMigration(c) \/ YieldWithCoreMigration(c) \/ YieldToAnyThread(c)
          \/ SwitchThread(c)
  /\ UNCHANGED created

PriorityQueueSpec == PriorityQueueInit /\ [][PriorityQueueNext]_priorityQueueVars

-----------------------------------------------------------------------------
(* Properties.                                                             *)

NothingPinned == \A t \in Threads : ~IsPinned(t)

InOrder(q) == \A i, j \in 1..Len(q) : i < j => q[i] # q[j] /\ prio[q[i]] <= prio[q[j]]

\* The queues say what the threads' fields say, through every migration, change
\* of mask and change of priority: a thread has one list entry per core, so it
\* must never be linked twice for a core or stay behind in an old list.
QueuesMatch ==
  \A c \in Cores :
    /\ Range(sched[c]) = {t \in runnable : active[t] = c}
    /\ Range(sugg[c]) = {t \in runnable : active[t] # c /\ c \in aff[t]}
    /\ InOrder(sched[c]) /\ InOrder(sugg[c])

\* While no thread is pinned, a core's choice is never out of date, although
\* operations decide themselves whether to ask for an update: it is the front of
\* the core's queue.
ChoiceIsCurrent ==
  NothingPinned => \A c \in Cores : highest[c] = GetFront(sched[c])

\* While a thread is pinned to a core and can run, the core runs no other
\* thread of its process, except one that others wait for inside the kernel.
PinnedIsPreferred ==
  \A c \in Cores :
    LET u == highest[c]
        pin == IF u = NoThread THEN NoThread ELSE pinned[Process[u]][c]
    IN  pin \in runnable \ {u} => u \in waited

\* No thread is the choice of two cores.
OneChoicePerThread ==
  \A c, d \in Cores : c # d /\ highest[c] = highest[d] => highest[c] = NoThread

\* An idle core c has nothing to take: the first thread suggested to it that is not
\* its core's top thread may not be taken away, or they are all alone on their cores.
Settled(s, c) ==
  LET t == FirstIn(s.sugg[c], {u \in Range(s.sugg[c]) : TopOn(s.top, s.active[u]) # u})
  IN  IF t # NoThread THEN ~Movable(s, TopOn(s.top, s.active[t]))
      ELSE \A u \in Range(s.sugg[c]) : GetNext(s.sched[s.active[u]], u) = NoThread

\* A core that comes after c in the loop over the idle cores took its only thread
\* from a third core, whose next thread may now wait behind another.
TookLater(s, c) ==
  \E d \in Cores : d > c /\ Len(s.sched[d]) = 1 /\ s.aff[Head(s.sched[d])] \ {c, d} # {}

\* While no thread is pinned, no core idles while a thread it could run waits
\* behind another one that may be left: it would have been migrated.  (A pin
\* whose thread waits empties its core after the idle cores were determined, and
\* a core that found nothing to take is not looked at again in the same update.)
NoIdleCore ==
  \A c \in Cores : NothingPinned /\ sched[c] = << >> /\ highest[c] = NoThread =>
    Settled(Now, c) \/ TookLater(Now, c)

\* So it is for two cores.
EveryIdleCoreIsSettled ==
  \A c \in Cores : NothingPinned /\ sched[c] = << >> /\ highest[c] = NoThread => Settled(Now, c)

\* The choices of the cores are those a look at the queues would make, whatever
\* sequence of operations, each with its own idea of what to update, led here.
ChoicesAreRight == ChoiceIsCurrent /\ OneChoicePerThread /\ NoIdleCore

\* "If the thread's yield count matches, there's nothing for us to do": no other
\* thread of its priority waits on its core.
NothingToYieldTo ==
  \A c \in Cores :
    LET t == Caller(c)
    IN  t \in match \cap runnable =>
          \A u \in runnable \ {t} : active[u] = active[t] => prio[u] # prio[t]

\* The queue's ASSERT(IsValidCore(core)): a thread that calls the kernel is
\* active on some core, so that its yield finds its queue.
EveryCallerHasACore ==
  \A c \in Cores : Caller(c) \in runnable => active[Caller(c)] # NoCore

\* So it is for every thread that is not pinned: YieldToAnyThread leaves its
\* caller without a core only if another thread takes over, and whatever runs
\* the caller again has given it a core before.
CallerHasACore ==
  \A c \in Cores :
    Caller(c) \in runnable /\ ~IsPinned(Caller(c)) => active[Caller(c)] # NoCore

\* What the yields rely on: a count that matches means that there is nothing to
\* yield to, and the caller is in the queue of a core.
YieldsAreRight == NothingToYieldTo /\ CallerHasACore

==============================================================================
