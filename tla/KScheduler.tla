------------------------------ MODULE KScheduler ------------------------------
(***************************************************************************)
(* The hand-over of guest threads between the cores' schedulers.           *)
(*                                                                         *)
(* Whoever releases the scheduler lock - a core running a guest thread, or *)
(* a host thread - writes for every core which thread it should run        *)
(* (highest_priority_thread), sets that core's needs_scheduling and then,  *)
(* without the lock, interrupts it.  The core itself reads those variables *)
(* without any lock, in the loop of ScheduleImpl and ScheduleImplFiber:    *)
(* it gives up the context guard of the thread it ran, spins for the guard *)
(* of the one it should run, switches, and starts again if another core    *)
(* interfered.  A thread may be wanted by one core while it still runs on  *)
(* another; only its context guard keeps the two apart.                    *)
(*                                                                         *)
(* Which thread is best for a core (priority, affinity, pinning) is the    *)
(* subject of KPriorityQueue; here any choice of living threads that gives *)
(* no thread to two cores may be made.  Memory is taken to be sequentially *)
(* consistent, as the code's fences make it.  The mode is multicore;       *)
(* interrupt_task_runnable is never set by the program.                    *)
(***************************************************************************)
EXTENDS Integers

CONSTANTS
  NumCores,   \* NUM_CPU_CORES
  Threads,    \* guest threads
  Host,       \* a host thread that is not a core (timer, HLE service, worker)
  Main,       \* the thread a core boots with
  Nobody      \* nullptr

Cores == 0..(NumCores - 1)
Actors == Cores \cup {Host}

\* A core also stands for its own idle thread.
Contexts == Threads \cup Cores

ASSUME SchedulerAssumption ==
  /\ NumCores \in Nat \ {0}
  /\ Threads \cap Cores = {}
  /\ Host \notin Contexts
  /\ Main \notin Contexts
  /\ Nobody \notin Contexts \cup {Host, Main}

VARIABLES
  pc,            \* per actor: where it is
  terminated,    \* threads whose DpcFlag::Terminated is set
  owner,         \* m_owner_thread of the scheduler lock
  top,           \* top_threads of the update under way
  written,       \* the core whose highest thread is written, its flag not yet
  mask,          \* per actor: cores it still has to interrupt
  highest,       \* per core: m_state.highest_priority_thread
  needs,         \* per core: m_state.needs_scheduling
  current,       \* per core: m_current_thread
  next,          \* per core: the local highest_priority_thread of the switcher
                 \* (the core itself while that variable is not in use)
  guard,         \* per context: whether m_context_guard is taken
  interrupted,   \* per core: m_is_interrupted
  scanned        \* per thread: cores FinishTermination() has looked at

lockVars == <<terminated, owner, top>>
coreVars == <<needs, next, current, guard, interrupted>>
vars == <<pc, lockVars, written, mask, highest, coreVars, scanned>>

\* At these places a core executes its current thread, in the guest or inside
\* the kernel, or has not left it yet.
Executing == {"run", "update", "ipi", "handle", "clear", "load", "unload"}
Switching == {"try", "check", "switch", "verify", "retry", "reload"}

TypeOK ==
  /\ pc \in [Actors -> Executing \cup Switching]
  /\ terminated \in SUBSET Threads
  /\ owner \in Actors \cup {Nobody}
  /\ top \in [Cores -> Threads \cup {Nobody}]
  /\ written \in Cores \cup {Nobody}
  /\ mask \in [Actors -> SUBSET Cores]
  /\ highest \in [Cores -> Threads \cup {Nobody}]
  /\ needs \in [Cores -> BOOLEAN]
  /\ current \in [Cores -> Contexts \cup {Main}]
  /\ next \in [Cores -> Contexts]
  /\ guard \in [Contexts -> BOOLEAN]
  /\ interrupted \in [Cores -> BOOLEAN]
  /\ scanned \in [Threads -> 0..NumCores]

\* Every core has just been activated: needs_scheduling is set from the start,
\* so it enters the scheduler from its boot thread.
Init ==
  /\ pc = [a \in Actors |-> IF a = Host THEN "run" ELSE "clear"]
  /\ terminated = {}
  /\ owner = Nobody
  /\ top = [c \in Cores |-> Nobody]
  /\ written = Nobody
  /\ mask = [a \in Actors |-> {}]
  /\ highest = [c \in Cores |-> Nobody]
  /\ needs = [c \in Cores |-> TRUE]
  /\ current = [c \in Cores |-> Main]
  /\ next = [c \in Cores |-> c]
  /\ guard = [x \in Contexts |-> FALSE]
  /\ interrupted = [c \in Cores |-> FALSE]
  /\ scanned = [t \in Threads |-> 0]

\* The thread a core is to run: its idle thread when there is no other.
Wanted(c) == IF highest[c] = Nobody THEN c ELSE highest[c]

Goto(a, place) == pc' = [pc EXCEPT ![a] = place]

-----------------------------------------------------------------------------
(* Under the scheduler lock.                                               *)

\* The cores' top threads: no thread is the top thread of two cores.
Tops(threads) ==
  {f \in [Cores -> threads \cup {Nobody}] :
     \A c, d \in Cores : c # d /\ f[c] = f[d] => f[c] = Nobody}

\* An actor takes the free scheduler lock, terminates the given threads and
\* determines the top threads.
Lock(a, dead) ==
  /\ pc[a] = "run" /\ owner = Nobody
  /\ a \in Cores => current[a] \in Threads
  /\ owner' = a
  /\ Goto(a, "update")
  /\ terminated' = terminated \cup dead
  /\ top' \in Tops(Threads \ (terminated \cup dead))
  /\ UNCHANGED <<written, mask, highest, coreVars, scanned>>

\* Any operation of the kernel that changes the state, the priority, the
\* affinity or the place in the queue of any threads.
ChangeThreads(a) == Lock(a, {})

\* KThread::Exit of the thread the core runs: StartTermination sets the state
\* and the Terminated flag.
Exit(c) ==
  /\ current[c] \in Threads \ terminated
  /\ Lock(c, {current[c]})

\* The worker looks at one core after the other and spins while the terminated
\* thread is the core's current thread.  Then it signals the thread under the
\* scheduler lock, which is a ChangeThreads of the host.
FinishTermination(t) ==
  /\ t \in terminated /\ scanned[t] < NumCores
  /\ current[scanned[t]] # t
  /\ scanned' = [scanned EXCEPT ![t] = @ + 1]
  /\ UNCHANGED <<pc, lockVars, written, mask, highest, coreVars>>

\* UpdateHighestPriorityThread: a changed thread is written first (the code goes
\* through the cores in turn, here the order is left open) ...
WriteHighest(a, c) ==
  /\ pc[a] = "update" /\ written = Nobody
  /\ highest[c] # top[c]
  /\ highest' = [highest EXCEPT ![c] = top[c]]
  /\ written' = c
  /\ UNCHANGED <<pc, lockVars, mask, coreVars, scanned>>

UpdateHighestPriorityThread_MarksFirst(a) ==
  \E c \in Cores :
    /\ pc[a] = "update"
    /\ \/ /\ written = Nobody /\ highest[c] # top[c]
          /\ needs' = [needs EXCEPT ![c] = TRUE]
          /\ mask' = [mask EXCEPT ![a] = @ \cup ({c} \ {a})]
          /\ written' = c
          /\ highest' = highest
       \/ /\ written = c
          /\ highest' = [highest EXCEPT ![c] = top[c]]
          /\ written' = Nobody
          /\ UNCHANGED <<needs, mask>>
    /\ UNCHANGED <<pc, lockVars, next, current, guard, interrupted, scanned>>

MarkNeeds_IdleCoresOnly(a, c) ==
  /\ pc[a] = "update" /\ written = c
  /\ needs' = [needs EXCEPT ![c] = TRUE]
  /\ mask' = [mask EXCEPT ![a] = @ \cup (IF current[c] = c THEN {c} \ {a} ELSE {})]
  /\ written' = Nobody
  /\ UNCHANGED <<pc, lockVars, highest, next, current, guard, interrupted, scanned>>

\* ... and then needs_scheduling; the core joins cores_needing_scheduling.
MarkNeeds(a, c) ==
  /\ pc[a] = "update" /\ written = c
  /\ needs' = [needs EXCEPT ![c] = TRUE]
  /\ mask' = [mask EXCEPT ![a] = @ \cup ({c} \ {a})]
  /\ written' = Nobody
  /\ UNCHANGED <<pc, lockVars, highest, next, current, guard, interrupted, scanned>>

UpdateHighestPriorityThread(a) ==
  \E c \in Cores : WriteHighest(a, c) \/ MarkNeeds(a, c)

\* A migration to an idle core of a thread that no core has as its top thread,
\* or of another core's top thread that leaves a different thread to that core.
Migrate(a, idle) ==
  /\ pc[a] = "update" /\ written = Nobody /\ highest = top
  /\ top[idle] = Nobody
  /\ \E t \in Threads \ terminated :
       \/ /\ \A c \in Cores : top[c] # t
          /\ top' = [top EXCEPT ![idle] = t]
       \/ \E c \in Cores, u \in Threads \ terminated :
            /\ top[c] = t
            /\ \A d \in Cores : top[d] # u
            /\ top' = [top EXCEPT ![idle] = t, ![c] = u]
  /\ UNCHANGED <<pc, terminated, owner, written, mask, highest, coreVars, scanned>>

\* All cores are up to date: the lock is released, and top_threads is gone.
Unlock(a) ==
  /\ pc[a] = "update" /\ written = Nobody /\ highest = top
  /\ owner' = Nobody
  /\ top' = [c \in Cores |-> Nobody]
  /\ Goto(a, "ipi")
  /\ UNCHANGED <<terminated, written, mask, highest, coreVars, scanned>>

-----------------------------------------------------------------------------
(* EnableScheduling, without the lock.                                     *)

\* RescheduleCores interrupts the cores one by one.
Interrupt(a, c) ==
  /\ pc[a] = "ipi" /\ c \in mask[a]
  /\ mask' = [mask EXCEPT ![a] = @ \ {c}]
  /\ interrupted' = [interrupted EXCEPT ![c] = TRUE]
  /\ UNCHANGED <<pc, lockVars, written, highest, needs, next, current, guard, scanned>>

\* RescheduleCurrentCore: enter the scheduler if this core needs it.
RescheduleCurrentCore(c) ==
  /\ pc[c] = "ipi" /\ mask[c] = {}
  /\ Goto(c, IF needs[c] THEN "clear" ELSE "run")
  /\ UNCHANGED <<lockVars, written, mask, highest, coreVars, scanned>>

\* RescheduleCurrentHLEThread: a host thread just goes on.
RescheduleHost ==
  /\ pc[Host] = "ipi" /\ mask[Host] = {}
  /\ Goto(Host, "run")
  /\ UNCHANGED <<lockVars, written, mask, highest, coreVars, scanned>>

-----------------------------------------------------------------------------
(* A core's reaction to an interrupt.                                      *)

\* The guest or the idle thread leaves its loop and the interrupt is cleared ...
ClearInterrupt(c) ==
  /\ pc[c] = "run" /\ interrupted[c]
  /\ interrupted' = [interrupted EXCEPT ![c] = FALSE]
  /\ Goto(c, "handle")
  /\ UNCHANGED <<lockVars, written, mask, highest, needs, next, current, guard, scanned>>

\* ... before RequestScheduleOnInterrupt enters the scheduler unconditionally.
RequestScheduleOnInterrupt(c) ==
  /\ pc[c] = "handle"
  /\ needs' = [needs EXCEPT ![c] = TRUE]
  /\ Goto(c, "clear")
  /\ UNCHANGED <<lockVars, written, mask, highest, next, current, guard, interrupted, scanned>>

-----------------------------------------------------------------------------
(* ScheduleImpl and ScheduleImplFiber.                                     *)

\* Clear needs_scheduling before reading highest_priority_thread; the retry
\* of the switcher does the same.
ClearNeeds(c) ==
  /\ pc[c] \in {"clear", "retry"}
  /\ needs' = [needs EXCEPT ![c] = FALSE]
  /\ Goto(c, IF pc[c] = "clear" THEN "load" ELSE "reload")
  /\ UNCHANGED <<lockVars, written, mask, highest, next, current, guard, interrupted, scanned>>

\* Read the thread to run: if it is the current one there is nothing to do,
\* else the switcher takes over.
LoadHighest(c) ==
  /\ pc[c] = "load"
  /\ next' = [next EXCEPT ![c] = IF highest[c] = current[c] THEN c ELSE Wanted(c)]
  /\ Goto(c, IF highest[c] = current[c] THEN "run" ELSE "unload")
  /\ UNCHANGED <<lockVars, written, mask, highest, needs, current, guard, interrupted, scanned>>

Unload_Always(c) ==
  /\ pc[c] = "unload"
  /\ guard' = [x \in Contexts |-> IF x = current[c] THEN FALSE ELSE guard[x]]
  /\ Goto(c, "try")
  /\ UNCHANGED <<lockVars, written, mask, highest, needs, next, current, interrupted, scanned>>

\* Save the context and free it for other cores, unless the thread is dead.
Unload(c) ==
  /\ pc[c] = "unload"
  /\ guard' = [x \in Contexts |-> IF x = current[c] /\ x \notin terminated
                                  THEN FALSE ELSE guard[x]]
  /\ Goto(c, "try")
  /\ UNCHANGED <<lockVars, written, mask, highest, needs, next, current, interrupted, scanned>>

TryLock_Ignored(c) ==
  /\ pc[c] = "try"
  /\ guard' = [guard EXCEPT ![next[c]] = TRUE]
  /\ Goto(c, "switch")
  /\ UNCHANGED <<lockVars, written, mask, highest, needs, next, current, interrupted, scanned>>

\* try_lock on the context guard of the thread to run.
TryLock(c) ==
  /\ pc[c] = "try"
  /\ guard' = [guard EXCEPT ![next[c]] = TRUE]
  /\ Goto(c, IF guard[next[c]] THEN "check" ELSE "switch")
  /\ UNCHANGED <<lockVars, written, mask, highest, needs, next, current, interrupted, scanned>>

CheckNeeds_Never(c) ==
  /\ pc[c] = "check"
  /\ Goto(c, "try")
  /\ UNCHANGED <<lockVars, written, mask, highest, coreVars, scanned>>

\* The guard was taken: spin, unless another core has interfered.
CheckNeeds(c) ==
  /\ pc[c] = "check"
  /\ Goto(c, IF needs[c] THEN "retry" ELSE "try")
  /\ next' = [next EXCEPT ![c] = IF needs[c] THEN c ELSE @]
  /\ UNCHANGED <<lockVars, written, mask, highest, needs, current, guard, interrupted, scanned>>

SwitchThread(c) ==
  /\ pc[c] = "switch"
  /\ current' = [current EXCEPT ![c] = next[c]]
  /\ Goto(c, "verify")
  /\ UNCHANGED <<lockVars, written, mask, highest, needs, next, guard, interrupted, scanned>>

\* Either nobody interfered and the thread runs, or its guard is given back
\* and the switcher starts again.
CompleteSwitch(c) ==
  /\ pc[c] = "verify"
  /\ guard' = IF needs[c] THEN [guard EXCEPT ![next[c]] = FALSE] ELSE guard
  /\ next' = [next EXCEPT ![c] = c]
  /\ Goto(c, IF needs[c] THEN "retry" ELSE "run")
  /\ UNCHANGED <<lockVars, written, mask, highest, needs, current, interrupted, scanned>>

\* Refresh the thread to run.
ReloadHighest(c) ==
  /\ pc[c] = "reload"
  /\ next' = [next EXCEPT ![c] = Wanted(c)]
  /\ Goto(c, "try")
  /\ UNCHANGED <<lockVars, written, mask, highest, needs, current, guard, interrupted, scanned>>

-----------------------------------------------------------------------------
\* What an actor that has taken the scheduler lock goes on to do by itself.
Release(a) ==
  \/ UpdateHighestPriorityThread(a)
  \/ Unlock(a)
  \/ \E c \in Cores : Interrupt(a, c)

\* The steps of a core that depend on nobody's will.
Schedule(c) ==
  \/ RescheduleCurrentCore(c)
  \/ ClearInterrupt(c) \/ RequestScheduleOnInterrupt(c)
  \/ ClearNeeds(c) \/ LoadHighest(c) \/ Unload(c)
  \/ TryLock(c) \/ CheckNeeds(c) \/ SwitchThread(c)
  \/ CompleteSwitch(c) \/ ReloadHighest(c)

Next ==
  \/ \E a \in Actors : ChangeThreads(a) \/ Release(a) \/ \E c \in Cores : Migrate(a, c)
  \/ \E c \in Cores : Exit(c) \/ Schedule(c)
  \/ RescheduleHost
  \/ \E t \in Threads : FinishTermination(t)

Spec == Init /\ [][Next]_vars

\* The host gives every core's thread and every host thread time; nothing
\* makes a guest thread call the kernel.
FairSpec ==
  /\ Spec
  /\ \A a \in Actors : WF_vars(Release(a))
  /\ \A c \in Cores : WF_vars(Schedule(c))
  /\ WF_vars(RescheduleHost)
  /\ \A t \in Threads : WF_vars(FinishTermination(t))

-----------------------------------------------------------------------------
(* Properties.                                                             *)

\* No thread is executed by two cores, whatever the schedulers' variables say
\* meanwhile: a thread that is given to another core while it still runs is
\* kept apart by its context guard alone.
OneCorePerThread ==
  \A c, d \in Cores :
    c # d /\ pc[c] \in Executing /\ pc[d] \in Executing
      => current[c] # current[d] \/ current[c] = Main

\* A core that executes a thread other than the one chosen for it is, or is
\* about to be, interrupted: no rescheduling request is lost between the
\* switcher's last look at needs_scheduling and the thread's code.
RescheduleNotLost ==
  \A c \in Cores :
    pc[c] = "run" /\ current[c] # Wanted(c)
      => \/ interrupted[c]
         \/ \E a \in Actors \ {c} :
              c \in mask[a] \/ (pc[a] = "update" /\ written = c)

\* KThread::Exit does not return: a thread that has terminated never gets
\* past the release of the scheduler lock, to the UNREACHABLE_MSG.
ExitNeverReturns == \A c \in Cores : pc[c] = "run" => current[c] \notin terminated

\* When FinishTermination has looked at one core after the other, no core has
\* the thread as its current thread, and none ever will again.
TerminatedIsGone ==
  \A t \in Threads, c \in Cores :
    scanned[t] = NumCores
      => current[c] # t /\ ~(pc[c] \in {"switch", "verify"} /\ next[c] = t)

\* A core comes to execute the thread chosen for it, again and again, unless
\* the choice itself keeps changing.
RunsTheHighest ==
  \A c \in Cores :
    \/ []<>(pc[c] = "run" /\ current[c] = Wanted(c))
    \/ []<><<highest'[c] # highest[c]>>_vars

\* The worker that waits for a terminated thread to leave its core gets done.
TerminationFinishes == \A t \in Threads : t \in terminated ~> scanned[t] = NumCores

\* The cores follow the choices made for them, and nobody who waits for them to
\* do so waits for ever.
CoresFollow == RunsTheHighest /\ TerminationFinishes

==============================================================================
