# Formal models of Sudachi

This directory holds TLA+ models of Sudachi, an emulator whose core is a
re-implementation of the Horizon kernel on host threads. The models are read off
the source; each definition that stands for code is mapped to its lines in
`PROJECT.json`. TLC checks them on small instances, and TLAPS proves the most
important invariants for every value of the constants.

Paths below are relative to the repository; `kernel/` is
`src/core/hle/kernel/`.

## 1. Inventory

### 1.1 How the system works

A guest process runs on four emulated cores. Each core is a host thread
(`CpuManager`) that executes the current guest thread until an interrupt or a
supervisor call. Kernel code runs on the host stack of the calling guest thread
(a fiber), on the host thread of an HLE service, or on the host timing thread.
All kernel state about waiting and scheduling is protected by one lock, the
scheduler lock; on its last release the releasing thread recomputes what every
core should run and interrupts the cores that have to switch.

Time comes from `CoreTiming`, a host thread with a queue of timed events.
`KHardwareTimer` keeps the timeouts of all waits and uses one event of that
queue as its interrupt; `GlobalSchedulerContext::PreemptThreads` uses another.
Guest services are HLE request handlers that wait on kernel objects, and the GPU
is a further host thread fed through command queues; its completion comes back
as syncpoints, which end in `KEvent::Signal`.

### 1.2 Components

| component | state | operations | interacts with | what is hard, and what makes it correct |
|---|---|---|---|---|
| `KLightLock` | one tag word per lock; kernel waiters of a thread | Lock, Unlock and their slow paths | `KThread` waiters, suspension, termination | compare-and-swaps race with slow paths; mutual exclusion, no forgotten waiter, a suspended owner must still release |
| `KThread` | state, priorities, lock infos, wait queue, affinity, DPC flags | Begin/End/CancelWait, AddWaiter/RemoveWaiterByKey, RestorePriority, suspend, pin, terminate, exit | everything | inheritance along chains, waits ended by several causes, termination seen by all cores |
| `KConditionVariable` | tree of waiters, guest words | SignalToAddress, WaitForAddress, Signal, Wait | guest memory, `KThread`, timer | a tree ordered by priorities that change while it is walked; words agree with waiters |
| `KSynchronizationObject`, events | list of stack-allocated nodes per object | Wait, NotifyAvailable, Signal, Clear, Reset | timer, termination, CancelSynchronization | no missed signal, no stale node, one outcome per wait |
| `KHardwareTimer` | task tree, wakeup time | RegisterAbsoluteTask, CancelTask, DoTask | `CoreTiming`, waits | late and superfluous interrupts; no task without interrupt |
| `CoreTiming` | event queue, pause flags | Schedule, Unschedule, SyncPause, Reset, ThreadLoop | clients on other host threads | callbacks run without the lock; lost wakeups; handshake with flags |
| `KScheduler`, scheduler lock, `PhysicalCore` | per-core choice, flags, context guards, interrupts | lock release, ScheduleImpl, Exit, FinishTermination | all cores | lock-free hand-over between cores |
| `KPriorityQueue`, `GlobalSchedulerContext` | scheduled and suggested queues | wake, wait, priority, affinity, yields, preemption | `KScheduler` | long call sequences keep queues, choices and masks consistent |
| `KAddressArbiter` | tree of waiters | Signal*, WaitIf* | guest memory | waiter counting at its boundaries, check-then-wait against guest stores, best waiter first |
| `KLightConditionVariable`, `KResourceLimit` | waiter list; values, hints | Wait, Broadcast; Reserve, Release | light lock, timer, termination | a wait that unlocks before it is in the list, resources given back in two steps, sums that overflow, termination while waiting |
| process life cycle, worker tasks | process state, thread lists | Run, Exit, Terminate, Reset | threads, handles | terminating children while they create threads |
| handle table, auto objects, slab heaps | handles, reference counts | Add, Remove, Open, Close | all objects | concurrent Close and lookup |
| ports, sessions, light sessions | session lists, requests, counts | Connect, SendSyncRequest, Receive, Reply, close by either side | service framework | closing against requests in flight |
| page tables, memory blocks, physical memory | block tree, page heap, groups | map, unmap, permission changes | SVC layer | sequential under one lock; splitting and coalescing |
| SVC layer | none | argument checks, dispatch | kernel objects | preconditions of the calls |
| service framework (`server_manager`, `os/multi_wait`) | holders, deferred list | Process, Link, deferral, stop | sessions, events | a holder processed while another thread links |
| nvdrv (`nvhost_ctrl`, syncpoints, nvmap) | events, syncpoint counters, handles | EventWait, ClearEventWait, Register/Free | GPU, kernel events | a cancel races with the host action through one atomic status; no completion lost, no event signalled for a wait that is over |
| nvnflinger buffer queue | slots, FIFO of queued buffers | Dequeue, Queue, Acquire, Release, Cancel, disconnect | guest, hardware composer | slot ownership across two sections of the mutex; frames of slots that were freed and given new buffers; a dequeue that sleeps is woken |
| GPU thread, `DmaPusher`, `FenceManager` | command queue, fences, pending operations | PushCommand, SignalFence, release thread | syncpoints, caches | queues that move together, order of completion, full queues, requests that live on the caller's stack, stop and join |
| caches and renderers | GPU-modified ranges, textures, pipelines | upload, download, invalidate | guest memory | range bookkeeping |
| `common` containers | ring buffers, bounded queues, range maps | Push, Pop, Add, Subtract | host threads | index arithmetic, wakeups |
| network room | members, bans, sequence of packets | Join, Leave, Kick, relay | ENet | messages against leaving members |
| `shader_recompiler`, `audio_core`, `hid_core`, `input_common`, loaders, `file_sys`, frontends, `web_service` | - | - | - | not concurrent protocols of their own, or pure I/O and translation |

`PROJECT.json` lists every component with its status, and the places where this
code is hard to test ("hazards") with the properties that cover them. A hazard
without a property says why.

## 2. Modules

| module | stands for | kind |
|---|---|---|
| `KLightLock` | light locks, kernel waiters, suspension | component |
| `KConditionVariable` | user mutexes, condition variables, priority inheritance | component |
| `WaitSynchronization` | what waiting for objects promises | abstract specification |
| `KSynchronizationObject` | the list implementation of it | component, refines the former |
| `KHardwareTimer` | timer tasks and their interrupt | component |
| `CoreTiming` | the host timing thread | component |
| `KScheduler` | hand-over of threads between cores | component |
| `KPriorityQueue` | which thread each core should run | component |
| `KAddressArbiter` | waiting for a word of memory, signalling it | component |
| `KResourceLimit` | resource limits and light condition variables | component |
| `SyncpointManager` | host syncpoints and their actions | component |
| `NvHostCtrl` | events of nvhost_ctrl, extends `SyncpointManager` | composition |
| `BoundedQueue` | the bounded queue of `common` | component |
| `FenceManager` | fences, committed downloads, the fencing thread | component |
| `GpuThread` | GPU thread, pushers, sync requests, extends the two former | composition |
| `BufferQueueCore`, `BufferQueueProducer` | slots and queue of a layer; the guest's transactions | components |
| `BufferQueue` | both ends of it, with the composer, extends the two former | composition |
| `Sequencing` | what is left of an ordered container after erasing | operators, for `CoreTiming`, `KAddressArbiter`, `KConditionVariable` and `KPriorityQueue` |
| `MCKConditionVariable`, `MCKPriorityQueue`, `MCGpuThread`, `MCKAddressArbiter` | constants of instances, symmetry | for TLC |
| `KLightLockProofs`, `KSynchronizationObjectProofs`, `OrderedQueueProofs` (`CoreTiming` and `KPriorityQueue`), `KSchedulerProofs` (with the timer), `AddressWaitProofs` (`KAddressArbiter` and `KConditionVariable`), `KResourceLimitProofs`, `NvHostCtrlProofs`, `GraphicsProofs` (`GpuThread` and `BufferQueue`) | theorems | for TLAPS |

Operators whose name has an underscore (`Unlock_...`) are variants of the
operator after them with a plausible bug in it. They are not part of any
specification; they are used to see that a property notices the bug.

### 2.1 Granularity

A section of code under the scheduler lock is one step, because nobody else can
look at that state in between; where it also touches what others change without
that lock (the words of `KAddressArbiter`, `m_lock` of `KResourceLimit`) it is
split there, and the lock is a variable. What happens outside it is split at every access
another thread can observe: the compare-and-swaps of `KLightLock`, each atomic
and each critical section of `CoreTiming`, each read and write of the lock-free
hand-over in `KScheduler`, the guest's exclusive accesses to mutex words, the
counters and statuses of the syncpoint events, the indices of the bounded queue.
The parts above the kernel have mutexes of their own: a section under one is a
step of the module, and a thread between two sections is a program counter.
Atomics are sequentially consistent in the models. That is what x86 gives the
default-ordered atomics and fences of these files; the relaxed accesses
(`m_tag.load` in `LockSlowPath`, the tag in `IsLocked`) are all either made under
the scheduler lock or repeated under it.

### 2.2 KLightLock

`m_tag` is the owner and the waiter bit, `m_waiting_lock_info` the link of a
waiting thread to the lock info of the owner, `pc` where a thread is in `Lock()`
or `Unlock()`. `Lock`, `LockSlowPathRetry`/`LockSlowPathWait`, `LockReturn`,
`Unlock`, `UnlockSlowPathFree`/`UnlockSlowPathPass` are the two paths of each
function; `RequestSuspend`, `Resume` and `RequestTerminate` come from other
threads, to the threads of `Suspendable` and `Terminatable`. Which waiter has
the highest priority is left open. A thread holds several locks only in the
order of their numbers, and one thread makes at most `MaxLocks` calls. The
history variable `cancelled` becomes true when a termination request cancels a
wait for a lock: from then on a thread may be inside a critical section it does
not own (section 4), so `HolderOwnsTag` and `WaiterIsAnnounced` speak about the
behaviour up to that point, `LockMeansOwned` about all of it. The counter and
the suspension are exact in either case.

### 2.3 KConditionVariable

One step is one supervisor call or one exclusive access of the guest. The guest
side (lock, unlock, set the wait bit, call the kernel) is external and modelled
from the protocol the kernel code documents and relies on. The trees are the
sequence `m_queue` of linked threads in insertion order: with the priorities it
determines both the tree of a lock info and the tree of condition variables,
because both are ordered by priority, then insertion, and a thread whose
priority changes is erased and inserted again. `Signal` walks the tree with the
iterator of the code, so that a reordering in the middle of the walk has the
effect it has in the program. The functions of the kernel take a record of the
state to the next (`State`), as the code takes several of them in one section of
the scheduler lock. `MaxSvcCalls` bounds the supervisor calls of all threads
together. Some names differ from those of `KAddressArbiter` (`CvSpec`,
`GuestThreads`) because one module of proofs extends both. `FlagCoversAllWaiters` is what the comment in `Signal` says,
and fails (section 4); `FlagCoversWaiters` is its part about threads that own no
mutex while they wait, which cannot be moved in the tree by a waiter they gain.

### 2.4 WaitSynchronization and KSynchronizationObject

The abstract module has no lists: a thread waits for a sequence of objects, and
signalling an object releases every thread that waits for it, with the first
matching index. The detailed module has the singly linked lists whose nodes are
on the stack of the waiter, `LinkNode`, `UnlinkNode` (which searches without an
end test; leaving the list sets `fault`), and the walk of `NotifyAvailable` over
a list its own body takes apart. The refinement maps the thread records to the
abstract variables and forgets the lists. A loop of the code is a function over
the number of its rounds; that of a walk has as many rounds as there are nodes,
and a walk that needs more sets `fault`.

### 2.5 KHardwareTimer

The tree is a sequence ordered by time. `PopEvent` takes the event out of the
CoreTiming queue, `DoTask` obtains the locks later, and `DoInterruptTask`
handles one due task. `MaxTime` stands for the largest s64, which is the mark
for a disabled interrupt as well as a legal deadline; the clock stops at
`Horizon < MaxTime`.

### 2.6 CoreTiming

Three host threads: the timing thread, a client, the system thread. The timing
thread's `pc` names the place between two critical sections or atomic accesses.
`event` and `pause_event` are `Common::Event` flags, `paused`, `paused_set`,
`wait_set` and `shutting_down` the atomics. Types in `SelfSched` have a callback
that schedules the type again, as `Freezer::FrameCallback` does. The model
starts when the timing thread is created; the history variable `start` records
whether `SyncPause` was called before that thread reached its first pause.
`PauseReturnsPaused` is the plain promise of `SyncPause(true)`; `PauseHolds` is
the promise for a system that waits with its first call until then.
`UnscheduleIsFinal` leaves out the types in `SelfSched`, whose callback may
schedule the type again after it was unscheduled.

### 2.7 KScheduler

Actors are the cores and one other host thread. `Reassign`, `Exit` and
`Migrate`-like choices all appear as an update that writes `highest` and `needs`
core by core and then, without the lock, interrupts the cores in the mask. The
switcher fiber of a core goes through try, check, switch, verify; `guard` is the
context guard of each thread. `FinishTermination` looks at one core per step.
Which threads are chosen is open, except that a thread is given to one core only
(that is `OneChoicePerThread` of `KPriorityQueue`) and a terminated thread to
none.

### 2.8 KPriorityQueue

A queue is one sequence ordered by priority, instead of an array of lists with a
bit set. `older` stands for the comparison of two last-scheduled ticks, and
`match` for the comparison of yield counts. `UpdateHighestPriorityThreadsImpl`
is `Update`: take the front of each queue, prefer a pinned thread, and let idle
cores take suggested threads. The unpinning of a terminating thread and the wait
of `SetCoreMask` for a pinned thread are not modelled. Pinning overrides the
queues, so `ChoiceIsCurrent` and `NoIdleCore` speak about states without a
pinned thread and `CallerHasACore` about callers that are not pinned. `created`
is the set of threads the guest has, one of `Guests`, fixed at the start.

The update visits the idle cores once, in order. `NoIdleCore` says what that is
good for: an idle core is `Settled` (there is no thread it would take if it were
visited now), or a core visited later took its only thread from a third core
(`TookLater`), which may have left something to take behind. With two cores there
is no third one, and every idle core is settled; section 4 has the case of three.

### 2.9 KAddressArbiter

A call is two steps with the scheduler lock held: the access to the word, then
the rest. The words are signed numbers whose highest bit weighs `SignBit` (2^31
in the code), so that increments and decrements overflow as they do in the
build. A guest that stores to a word
signals its address later (`owes`); `stale` are the waiters whose word was
stored to since they read it. The tree is a sequence ordered by address,
priority and arrival. `NoSleepPastSignal`: a waiter with a stale word is asleep
only as long as somebody still owes the signal, or is in it. `BestWaitersFirst`:
a signal never wakes a waiter and leaves a better one of the same address,
through changes of priority. `ModifyTellsWaiters`: the value written by
SignalAndModifyByWaitingCountIfEqual tells the guest whether waiters remain.

### 2.10 KResourceLimit

A call waits for `m_lock` at "reserve", "release" or "limit", and at "relock"
after a sleep; `Lock` takes it to the place `Entry` names. `Reserve` gives up at
once if the hints are full (`ReserveCheck`) and otherwise goes round a loop of
three outcomes: `ReserveFits` with `ReserveTake`, `ReserveFail`, and `ReserveWait`
with `ReserveWoken`. `KLightConditionVariable::Wait` is `WaitUnlock`, `WaitPark`
and `Lock`: other threads can take `m_lock` between the first two, but cannot
broadcast, because the scheduler lock is held. `WaitRefused` is the wait of a
terminating thread, which returns with `m_lock` held. `BeginRelease` has the
three uses of `Release`: value and hint, the hint (`KThread::Exit`), the value
(`KThread::PostDestroy` after it); `live` and `exiting` record what the guest
owns by then. A deadline is always the tick of the call plus a timeout
(k_resource_limit.cpp:88, svc_thread.cpp:46): no caller passes the negative one
for which line 119 would wait without end.

`m_lock` is a light lock, and `Terminate` also cancels a wait for it
(`CancelLockWait`): the thread goes on without owning it, beside the owner, and
its `Unlock` takes the lock from the owner. The test of `Reserve` and what
follows it are steps of their own for that reason, and when two threads are
about to update the same words, one update can be lost (`Updated`). The history
variable `cancelled` records that this has happened, as in `KLightLock`.
`Accounted` is what every function of the class asserts, with what it is for, and
`NoSleepWithRoom` that nobody sleeps while there is room, with `raised` for the
waiters nobody tells of a higher limit: both hold until a wait for `m_lock` is
cancelled, and section 4 shows how each fails after it. `LimitCallsReturn` holds
after it as well.

### 2.11 SyncpointManager and NvHostCtrl

Engines increment a counter outside the mutex `guard`, then take it and run the
actions whose value is reached. `NvHostCtrl` gives slots to waiting guests and
registers their host action; the action, in an engine's thread or in the guest's
own, agrees with cancelling and clearing guests by exchanges of the slot's
status only. Steps are the exchanges, the sections of `events_mutex` and
`guard`, and the counter accesses. Counters are compared modulo the word, as the
code does. The history variable `torn` marks a slot cancelled in the middle of
its action (section 4): `SignalIsDue` speaks about the other slots. The two other
properties are about slots whose status is Waiting. After a torn cancel the late
store of the host action (`ActionStore`) can overwrite the Waiting of the next
wait on the slot, whose own action then finds another status and signals nothing;
the slot is not Waiting any more, and neither property sees it. That no completion
is lost is therefore true up to a torn cancel. A wait that names a slot beyond
`MaxNvEvents` is answered BadParameter (nvhost_ctrl.cpp:158) and changes no slot;
on the paths that return before that test the code resets the failure counter of
the slot named without looking at its number (line 97). Neither is modelled:
guests name slots that exist.

### 2.12 BoundedQueue, FenceManager, GpuThread

`BoundedQueue` has the ring, both indices (modulo `IndexSize`) and both
condition variables; an index moves outside the mutex the other side sleeps
with. `FenceManager` has the three queues that must move together, for renderers
whose fences are waited for in a thread of their own and for the others.
`GpuThread` joins them: pushers with `write_lock`, synchronous mode, the requests
run at a tick (`RequestSyncOperation`), the stop and the destructors. A `budget`,
chosen at the start, bounds calls, fences and operations and selects the mode.

### 2.13 BufferQueueCore, BufferQueueProducer, BufferQueue

One step is one hold of the queue's mutex. The producer's transactions come from
a guest that may send any of them, in any order and for any slot; DequeueBuffer
has two sections, with the sleep for a free slot before and the allocation
between them, and the callbacks run after the mutex was released. The composer
acquires a frame when it has none and releases it later, at any composition.
Buffers are numbered, so that a slot that was given another buffer can be told
from the old one. Not reachable by a transaction, and left out: AttachBuffer and
DetachNextBuffer, and AcquireBuffer with a present time.

## 3. Runs

Each run finishes within about two minutes; the bounds are constants of the
modules.

| run | instance | checks | shows |
|---|---|---|---|
| `light_lock` | 3 threads, 2 locks, 2 calls each; one thread may be suspended, another terminated, at any time | `TagIsTrue`, `SuspendExact`, `WaiterProceeds` | mutual exclusion, no forgotten waiter, exact suspension, and waiters proceed although owners are suspended |
| `cond_var` | 3 threads, 2 nested mutexes, 1 key, a priority change, a terminable thread, 6 calls | `MutexWordIsTrue`, `PriorityInherited`, `FlagCoversWaiters`, `WaitsAreTidy` | words, waiters, timers and priorities agree, along chains of waits |
| `wait_lists` | 2 threads, 2 objects, lists of 2 | `ListsAreSound`, `WaitsKeepPromises`, `FirstComeFirstServed`, `ImplementsWaitSynchronization` | the lists implement the promise of `WaitSynchronization` |
| `hardware_timer` | 3 tasks, times 0..4, clock 0..3 | `InterruptCovers`, `DueTaskHandled` | no task without interrupt |
| `core_timing` | 1 one-shot and 1 looping type, 2 events, 2 pauses | `NoLostWakeup`, `AnswersHold`, `TimingThreadProceeds` | no lost wakeup; unscheduling, pausing and "no pending events" mean what they say; events run, pause and shutdown end |
| `scheduler` | 2 cores, 1 thread besides the idle ones, a host thread | `OneCorePerThread`, `RescheduleNotLost`, `ExitNeverReturns`, `TerminatedIsGone`, `CoresFollow` | no thread twice, no lost request, and cores come to run the choice |
| `priority_queue` | 2 cores, 2 priorities, every mask; 3 equal threads, or 2 of which one pins itself and one gains kernel waiters | `QueuesMatch`, `ChoicesAreRight`, `YieldsAreRight` | queues and choices stay consistent, also with pinning, and a yield finds its queue and whom to yield to |
| `address_arbiter` | 4 threads, 2 words of 3 bits, 2 priorities, 4 calls, a change of priority | `NoSleepPastSignal`, `BestWaitersFirst`, `ModifyTellsWaiters` | no missed signal, order of waking, the counting of waiters |
| `resource_limit` | 3 threads, amounts 1 and 2, limits 1 to 3 in words of 3 bits, 5 calls (3 once a wait for `m_lock` is cancelled), deadlines one tick away, a terminable thread | `Accounted`, `NoSleepWithRoom`, `LimitCallsReturn` | the books balance and no release is missed until a wait for `m_lock` is cancelled; every call returns, also after it |
| `host1x` | a waiting guest, a managing guest, two engines, one syncpoint up to 2, one slot | `NoLostCompletion`, `SignalIsDue`, `CompletionArrives` | no completion lost up to a torn cancel, none too early, none for ever late |
| `gpu_thread` | 2 pushers, a ring of 2, up to 3 calls, 2 fences and 2 operations, all modes | `ExecutedInOrder`, `NoDanglingRequest`, `FencesReleaseInOrder`, `CallsReturn` | commands once and in order, requests end before their callers go on, queues in step, no hang |
| `buffer_queue` | 2 slots, 3 frames, 2 changes of configuration, 4 buffers per slot, a guest of either swap mode | `OneOwner`, `FrameIsTheOneQueued`, `DequeueReturns` | a slot has one owner, frames are shown from the buffer they were drawn into, a dequeue returns |

Why the bounds are enough. Three threads give an owner, a waiter that is handed
the lock, and a third that arrives in between; two locks or mutexes give the
chain through which priorities and suspension travel. Two objects with lists of
two include the same object twice, which is the case the lists are delicate for.
Two cores with one host thread give both directions of a migration while a third
party updates. A second thread makes the hand-over no harder to get wrong but the
liveness check far longer; the safety properties of `KScheduler` are proved for
any number of cores and threads, so the run is there for the liveness. Three tasks
give equal times, an earlier and a later one. In `KPriorityQueue` three threads
on two cores are the least for which a core has a queue behind its top thread
while the other is idle; two priorities and a migration limit of 1 give movable
and immovable tops. Call bounds (`MaxLocks`, `MaxSvcCalls`, `MaxCalls`) let every thread be
waiter and owner in turn.

Four threads at the address arbiter are a signaller and three waiters: more than
the count of 2 the guest passes, fewer, and as many. Words of three bits, there
and in the resource limit, wrap within two operations. In `resource_limit` five
calls are a reservation, its two releases and two waiters. Once a wait for
`m_lock` is cancelled, updates are lost in every combination: calls begin then
only while fewer than three were made (`MaxLateCalls`), which is a thread inside,
the one let in beside it and a third. Lost updates could carry `m_waiter_count`
away without end as a terminating thread goes round its loop; `MaxWaiters` bounds that. Two engines in
`host1x` can both be between the increment and the guard, in either order. A ring
of two with indices modulo 4 is full, empty and wrapped within three pushes, and
two pushers are as many as the ring holds (section 4 says what happens with
more). Two slots and three frames reuse a slot while a frame of its former
content is still queued or shown. The modes and guests of a run
(`Budgets`, `AsyncModes`, `Guests`) are chosen in its initial states and never
change: one run covers them all.

Deadlock checking is off where calls are bounded and the model stops
(`KConditionVariable`, `CoreTiming`, `KAddressArbiter`, `KResourceLimit`,
`GpuThread`, `BufferQueue`). Symmetry is used only for safety, in
`priority_queue` and `address_arbiter`, where the permuted threads differ in
nothing the module looks at.

### 3.1 Fairness

- `KLightLock`: each thread that is not suspended goes on: the scheduler runs
  runnable threads (`KScheduler`, `RunsTheHighest`), and preemption rotates
  threads of equal priority. It may call Lock again while it has calls left, and
  then releases what it holds. Suspends, resumes and terminations are not fair:
  `WaiterProceeds` must follow from the kernel letting a suspended owner of a
  waited-for lock continue.
- `KConditionVariable`: threads that hold or wait for a mutex progress. Guest
  code is assumed to release what it holds, which the kernel cannot enforce.
- `KHardwareTimer`: the clock ticks, and the timing thread pops a due event and
  carries the handler through; it is a host thread that does nothing else.
- `CoreTiming`: the clock, the timing thread, and the calls under way of the
  client and the system thread. New calls are not fair.
- `KScheduler`: a released lock is carried through, a core runs its switcher, and
  FinishTermination looks on: each is a host thread executing straight code or a
  spin loop, and the host scheduler is fair. Guests are not fair.
- `KResourceLimit`: a thread in a call goes on, its timer task runs once it is
  due, and the clock ticks. New calls and terminations are not fair.
- `NvHostCtrl`: a thread goes on with a call it has begun. Guests need not call
  and engines need not have more work.
- `GpuThread`: pushers, GPU thread, fencing thread and a destructor that has
  begun go on, and the host GPU reaches the fences queued to it. Calls and the
  stop need not come.
- `BufferQueue`: the display is composed at every vsync, and a transaction that
  can go on does. The guest may stop sending them.

`KConditionVariable_live.cfg` (`MutexWaitEnds`, three threads and one mutex) is a
further configuration TLC passes: every wait for a mutex ends if threads that
hold one go on and release it.

## 4. Observations

Modelling showed behaviours of the code that a reader of it would not expect. A
configuration beside the modules, or a run's with another property, reproduces
each with TLC, which reports the property named as violated; the runs check the
corresponding property where the ingredient named here is absent, as section 2
explains.

Kernel:

- `KLightLock_term.cfg` (`LockMeansOwned`): a termination request cancels the
  wait for a light lock, and `Lock()` returns to a thread that does not own it
  (k_thread.cpp:1273, k_light_lock.cpp:83), while the code such locks protect
  says `ASSERT(this->IsLockedByCurrentThread())` (k_page_table_base.cpp:639).
- `KConditionVariable_reorder.cfg` (`FlagCoversAllWaiters`): a broadcast can skip
  a waiter that its own priority changes moved in front of its iterator
  (k_condition_variable.cpp:250), and clears the word although the comment says
  "If we have no waiters, clear the has waiter flag."
- `KConditionVariable_exit.cfg` (`OwnerOutlivesWait`): after a hand-over the
  reference a waiter holds is to the previous owner; if the new owner exits while
  it holds the mutex, nothing keeps it alive for its waiters.
- `CoreTiming_expired.cfg` (`NoExpiredEvent`): unscheduling with Wait does not
  undo what the callback in progress scheduled, the way core_timing.h:54
  recommends; an event of a destroyed type makes `Advance` loop with its locks.
- `CoreTiming_pause.cfg` (`PauseReturnsPaused`): a `SyncPause(true)` around the
  very first pause can return before the thread is paused.
- `KPriorityQueue_core.cfg` (`EveryCallerHasACore`): `YieldToAnyThread` of a
  pinned thread can leave it running with core -1.
- `KPriorityQueue_yield.cfg` (`NothingToYieldTo`): the scheduled count of one
  process does not see threads of another that became eligible, so a repeated
  yield returns at once although there is a thread to yield to.
- `KPriorityQueue_prefer.cfg` (`PinnedIsPreferred`): the thread pinned to a core
  is passed over when the core's top thread migrates away.
- `KPriorityQueue_cores.cfg` (`EveryIdleCoreIsSettled`, three cores): an idle core
  finds the next thread of another core behind a top thread that may not be left,
  and passes; an idle core visited after it takes that top thread, so that the
  next one now waits behind a thread that may be left, and the first core stays
  idle until the next update (k_scheduler.cpp:250). The proof of `NoIdleCore`
  found it: the property was stated without `TookLater`, and holds so for two
  cores only.
- `KResourceLimit.cfg` with `BooksBalance` for `Accounted`: a termination request
  cancels the wait for `m_lock`, and the thread enters `Reserve` beside the owner
  of the lock. Between its test (k_resource_limit.cpp:111) and its addition
  another thread lowers the limit, or reserves as well, and the value passes the
  limit that line 103 asserts.
- `KResourceLimit.cfg` with `SleepersAreTold` for `NoSleepWithRoom`: a thread let
  in that way changes the values between the test of a reserver and its insertion
  into the wait list. With 1 as the only amount and limit, and `MaxLateCalls = 5`,
  it is a `Release`, which has broadcast by then: the reserver sleeps although
  there is room, up to its deadline or the next release.
- `SetLimitValue` tells no waiter that a limit was raised: it sleeps until the
  next release or its deadline. A terminating thread goes round the loop of
  `Reserve` with the lock of the limit held, for up to ten seconds.

Host1x, GPU and display:

- `NvHostCtrl_cancel.cfg` (`SignalIsAlwaysDue`): a cancel that falls between the
  exchange and the store of the host action returns at once, and the event is
  signalled after it. The store that comes late can also end a new wait on the
  same slot without a signal (section 2.11).
- `GpuThread_full.cfg` (`CallsReturn`): one more synchronous pusher than the ring
  has places, and they deadlock: the pusher without room holds `write_lock`,
  which the GPU thread needs to notify. The ring of the program has 4096 places.
- `GpuThread_destroy.cfg` (`DestructorEnds`): `~FenceManager` notifies without
  `guard`; the fencing thread can miss it, and the join hangs.
- `WaitPendingFences(true)` does not wait unless the GPU accuracy is high, and
  producers that wait in `EmplaceWait` or for a sync operation have no stop token.
- `BufferQueue_async.cfg` (`OneOwner`): a window that mixes swap modes and sets
  its buffer count can replace a droppable frame while a stale frame of the same
  slot is queued behind it. ReleaseBuffer then answers BadValue, the composer
  forgets the frame, and the queue takes no frame any more.
- `BufferQueue_threads.cfg` (`OneOwner`): two threads that run transactions of one
  queue, as the two servers of the binder driver do, can queue or overwrite the
  slot between the two sections of DequeueBuffer.
- A window that dequeues every slot before it has queued a frame sleeps for good
  on the thread that runs its transactions; and slots beyond a lowered buffer
  count need not be free, as buffer_queue_producer.cpp:139 asserts.

## 5. Proofs

- **`KLightLockProofs`**. `MutualExclusion`: until a wait is cancelled, whoever
  returned from `Lock()` owns the tag, and a blocked thread is announced in it.
  `TagIsTrue` is not inductive: a woken thread claims a lock without looking
  at the tag again. The strengthening `LockInv` has a part that holds always
  (`BaseInv` with `Basic` and `FreeTags`: what the program counter, the lock
  asked for and the waiter link of a thread have to do with each other) and a
  part that holds
  until a wait is cancelled (`Owned` with `Claim`: woken and unlocking threads
  own the tag, a waiting thread is linked to the owner the tag names with the
  bit set); a free tag never has the bit. `SuspensionIsExact`: whether or
  not waits are cancelled, the kernel-waiter counter is the number of waiters
  linked to the thread (`KernelWaiterCount`), and a suspend is in effect only
  where nobody waits, and is in effect where it can be (`Counted`). The counting
  steps use cardinalities of finite sets.
- **`KSchedulerProofs`**, the timer. `NoTaskIsMissed`: the tree stays ordered and
  an interrupt is on its way for the earliest task. The strengthening
  `WakeupScheduled` says that a wakeup time that is not "disabled" is in the
  CoreTiming queue or belongs to a handler under way. Two lemmas, insertion and
  erasure keep the order, carry the argument.
- **`KSchedulerProofs`**, the scheduler. `NoThreadRunsTwice`, `NoRequestIsLost`, `ExitIsFinal`,
  `TerminationIsFinal` for any number of cores and threads. The invariant `IInv`
  has one part per mechanism: `LockInv` (who updates, and what is already
  written), `GuardInv` (a context is guarded exactly while some core has it),
  `FlagInv` (a flag that is down means the core's variables agree), `DeadInv`
  (terminated threads are no choice), `ScanInv` (cores FinishTermination passed
  do not have the thread), and `RescheduleNotLost` itself.

- **`KSynchronizationObjectProofs`**. `ListsStaySound` (`ListsAreSound`),
  `WaitersKeepTheirOrder` (`FirstComeFirstServed`) and `ListsImplementWaiting`:
  the pointer lists implement `WaitSynchronization`; `PromisesAreKept`
  (`WaitsKeepPromises`): nobody waits for a signalled object, with a pending
  cancel or with its termination requested, and timer tasks belong to waits; the
  signalled objects follow from the abstract step each step was shown to be
  (`QuietStep`), the rest from `FieldsOK`. `ListsAreSound` is not inductive: it says nothing about
  what follows a node. The invariant `Inv` gives every node of a wait a place, a
  number that grows along its list (`Arranged`), and relates the fields of a
  thread to each other (`FieldsOK`). In the middle of a handler `Follows` says
  more: from an unlinked node the list goes on behind it, and no linked node is
  skipped. That is why `NotifyAvailable` may read `next` of a node it has just
  taken out, even if the same thread was in the list twice. A walk whose places
  grow ends because nodes are finitely many (`RunsOut`). Every action is then
  both a rearrangement of the lists that keeps their order (`Rearranged`) and a
  step of the abstract specification. Assumption (`SyncAssumption`): threads are
  finitely many; objects, nodes and the null pointer are different things.
- **`OrderedQueueProofs`**, the timing thread. `NothingIsOverlooked` (`NoLostWakeup`) and
  `AnswersAreKept` (`AnswersHold`), for any event types, delays, number of
  pauses and horizon. The invariant adds to the type: the queue is sorted and
  the thread's place says what is in it (`QueueInv`), a type that was
  unscheduled has no event and nobody about to insert one (`SilenceOK`), and
  which answers `paused` and `paused_set` stand for at each place of the thread
  (`HandshakeOK`). Assumption (`TimingAssumption`): a looping type is not
  scheduled by its own callback; times are natural numbers.
- **`OrderedQueueProofs`**, the priority queue. `QueuesAlwaysMatch` (`QueuesMatch`)
  and `ChoicesStayRight` (`ChoicesAreRight`), for any number of cores, any
  threads, processes, priorities, masks and migration limit. `QueuesMatch` is
  close to inductive; the work is in the operators, which take a state of the
  queues to the next. `Valid` says that a state is well typed and its queues match
  its fields, and one lemma per operator (insertion at either end of the equals,
  removal, change of core, of mask and of priority, move to the back) says that
  it keeps that and what it does to the front of each queue. The choices need
  more (`ChoiceInv`): a thread chosen by a core can run, and is active there or
  may run on that core only (`Owned`, from which no two cores have the same
  choice); without a pinned thread, choices are fronts and idle cores have
  nothing to take (`Placed`); a pinned thread has the mask of its core
  (`PinsHold`), runs on no other core, as no thread runs on two (`RunsHold`), and
  has a mask to go back to (`OriginalsHold`). The two loops over the cores, of
  the migration and of the preemption, are recursive functions of the number of
  cores visited; what a round keeps is proved first (`KeptSoFar`,
  `SettledSoFar`, `Rearranged`), then the loop by its smallest
  counterexample. `YieldsStayRight` (`YieldsAreRight`) is for a guest of one
  process (`SingleProcess`), and its second half, `CallersHaveCores`
  (`CallerHasACore`), for any. The hypothesis is needed: `KPriorityQueue_yield.cfg`
  refutes `NothingToYieldTo` for two processes. What a yield finds was decided by
  an earlier step, so the invariant `YieldInv` follows threads that do not call.
  `SeatInv` says that every choice, and every running thread that need not leave
  its core first, has a core or is pinned: only `YieldToAnyThread` takes a core
  away (`Seated`), and its caller leaves unless the update has chosen it again.
  `MatchInv` says that a thread whose count matches can run, has a core, and
  shares it with no thread of its priority (`Alone`). Between two states either
  somebody was counted, and no count matches any more, or whoever was alone still
  is (`Counted`); the update is the case to look at, as its migration of a waiting
  thread counts nobody, and keeps this because the core it fills was idle. Assumption
  (`PriorityQueueAssumption`): there is a core, masks are not empty, NoThread is
  no thread.
- **`AddressWaitProofs`**, the address arbiter. `NobodySleepsPastSignal` (`NoSleepPastSignal`),
  `BestAreWokenFirst` (`BestWaitersFirst`) and `TheGuestIsTold`
  (`ModifyTellsWaiters`), for any threads, addresses, priorities, counts and
  width of the word. The invariant: the tree holds exactly the parked threads,
  each once, in order (`TreeOK`); the lock belongs to the thread in the middle
  of a call; and what that call found in the tree is still there when it acts on
  it (`ToldOK`), although the word may have changed. Assumption
  (`ArbiterAssumption`): addresses and priorities are numbers, the word has at
  least two bits.
- **`AddressWaitProofs`**, the user mutexes. `WordIsAlwaysTrue`
  (`MutexWordIsTrue`) and `WaitsStayTidy` (`WaitsAreTidy`), for any threads,
  mutexes, condition variables, priorities, timeouts, terminations and exits. A
  step of the model is a supervisor call, made of several functions of `KThread`
  and the wait queues, so the invariant `CvInv` is about the record these
  functions act on (`CvSound`): its fields have their types, a thread is linked
  to at most one thing and to none unless it is parked (`LinksHold`), a timer
  belongs to a wait on a condition variable (`TimersHold`), and the words name
  the owners that waiters are linked to, with the wait bit (`WordsHold`).
  Within a call that does not hold: `Wait` releases the mutex of a thread that
  still runs, `SignalImpl` sees a thread that is erased from the tree and not yet
  linked to an owner. `Unlinked` and `Detached` are what holds then, all of it but
  for one thread. There is one lemma per function: `RestorePriority` changes
  priorities and the order of the queue and nothing else (`Reordered`),
  `AddWaiter`, `RemoveWaiter` and `RemoveWaiterByKey` change one thread's link, or
  the owner of all waiters of one mutex (`Relinked`), and `PassLock`, `EndWait`,
  `CancelWait` and `SignalImpl` lead back to `CvSound`.
  `PrioritiesAreInherited` (`PriorityInherited`) is proved on top of it: after
  every call each live thread has the better of its base priority and the best of
  those who wait for it. In the middle of a call this fails for one thread at most
  (`PrioritiesDue(s, u)`): `AddWaiter` and `RemoveWaiter` disturb the owner,
  `RemoveWaiterByKey` the old owner or the next one, `SetBasePriority` and
  `RequestTerminate` the thread itself, and each condition under which one of
  them does not call `RestorePriority` is shown to leave nothing to restore. The
  rest is that `RestorePriority` comes to its end. A round that changes a thread
  moves the disturbance to the thread it waits for, and that thread may have come
  before: the guest can build a circle of owners. When priorities rise, all who
  rise get the same priority, so a second visit finds it there (`Rises`); when
  they fall, all lose the same priority, and a thread that has fallen has no
  waiter left with it (`Falls`). So nobody changes twice, and a round more than
  there are threads changes nobody (`FewChange`, `RestoreMakesDue`), on a circle as
  on a chain; the loop in the source, which has no bound, always ends.
  `FlagsCoverWaiters` (`FlagCoversWaiters`) rests on both. `Signal` clears the word
  when its iterator is at the end, and keeps the successor of the thread it
  signals while `SignalImpl` raises priorities in the same tree. The invariant of
  its loop (`Covered`) is that every waiter of the key that owns no mutex is at
  the iterator or after it. `AddWaiter` can only raise (`Supported`: nobody has a
  better priority than it inherits), and raises owners of mutexes only, so whoever
  preceded a waiter without a mutex still does (`Ahead`), be it by priority or by
  its place among equals. A waiter that owns a mutex may be passed by; that
  a waiting thread keeps what it owns (`KeyedAsBefore`) makes the property an
  invariant between calls as well. Assumption
  (`CvAssumption`): threads are finitely many, `NoThread` and `NoKey` are none,
  mutexes and priorities are numbers.
- **`KResourceLimitProofs`**. `AccountsAreExact` (`Accounted`),
  `SleepersHaveNoRoom` (`NoSleepWithRoom`) and `WaitersAreCounted` (the locks,
  the wait list, the timers and `m_waiter_count` agree at every step), for any
  threads, amounts and limits and any width of the numbers, until a wait for
  `m_lock` is cancelled. Values and hints are sums over the threads that are
  still giving something back, so the proof begins with what such a sum is when
  one summand comes or goes. The invariant (`InvUntilCancel`) needs who holds
  `m_lock` at which place (`BaseInv`), what `Reserve` has tested before it adds
  (`TakeOK`), and what `Release` has already subtracted (`SleepOK`). `BaseInv`
  makes a thread inside the only one there (`NoRace`), and that is why no update
  is lost and the test still holds when the addition is made (`TakeAlone`,
  `ReleaseAlone`); the step that cancels is the one that ends it, and nothing
  takes it back (`CancelledStays`). Assumption (`ConstAssumption`): amounts are
  positive and limits not negative, as the code's assertions say.

- **`NvHostCtrlProofs`**. `CompletionsAreKept` (`NoLostCompletion`),
  `SignalsAreDue` (`SignalIsDue`) and `TypesHold`, for any threads, syncpoints,
  slots and bounds. A completion is handed on: from the guest's thread to the
  list, or to itself if the value is reached, and from the list to a thread that
  increments. The invariant `Inv` says who has it (`Served`: a thread that
  handles the slot, or an entry nobody is erasing, and an increment on its way to
  the list if the value is reached), that for a slot that is not torn at most one
  thread or entry stands for its action (`Single`), which mutex a thread holds at
  each place (`Locks`), and that the lists are ordered by value. Neither property
  is inductive without the rest: the order is why an increment that stops at the
  first entry that is not due has not left one behind, and guard is why a cancel
  that finds its entry gone, with nobody running it, has no action to fear. Most
  steps touch one slot and no list, and one lemma (`Touches`) says what such a
  step has to keep; those that change a counter, a list or who is on the way to
  one are done each by itself, with the lists before and after related by a map
  between their places (`SingleMapped`). Assumptions (`SyncpointAssumption`,
  `NvHostAssumption`): NONE is no thread, there is a slot, and engines are other
  threads than those of the guests.
- **`GraphicsProofs`**, the GPU thread. `CommandsExecuteInOrder` (`ExecutedInOrder`),
  `RequestsDoNotDangle` (`NoDanglingRequest`) and `FencesStayInOrder`
  (`FencesReleaseInOrder`), for any pushers, capacity of the ring, mode and
  renderer. None is inductive: each speaks about what has come out, and has to
  be led back to what is on its way. `CommandInv` counts the commands written and
  read (`Written`, `Read`); a fence number is the position of its command, the
  indices are the counts modulo `IndexSize`, and the ring holds the commands in
  between at the slot of their number (`RingInv`). That the slot is right after a
  wrap is the reason for `IndexSize % Capacity = 0`; that an index cannot catch up
  with the other unnoticed is the reason for `IndexSize > Capacity`.
  `RequestInv` says that requests are taken in order and that the count a caller
  compares is that of the request it made; with `CommandInv`, because the caller
  is not done before its command. `FenceInv` places the three queues of the fence
  manager in the numbers of fences and operations: the k-th fence queued is
  number `Released + k` (`PositionInv`), the lists of operations are consecutive
  stretches from the last one that ran to the last one issued (`OperationInv`),
  the host has still to reach only fences that nobody released (`HostInv`), and a
  fence the GPU thread does not wait for is a stub (`DirtyInv`). Assumptions
  (`QueueAssumption`, `GpuAssumption`): the consumer is no producer, the sizes
  as above, budgets are numbers.
- **`GraphicsProofs`**, the buffer queue. `SlotsHaveOneOwner` (`OneOwner`) and
  `FramesAreShownAsQueued` (`FrameIsTheOneQueued`), for any number of slots,
  buffers, frames and transactions, any shapes and handles, of a guest with one
  thread and one swap mode (`OrderlyGuest`). The hypothesis is needed: the two
  runs of section 4 refute `OneOwner` without either half of it. Both properties
  are about where a frame is, and hold because of what `ConsumerBase` remembers.
  `SlotOK` says of each slot: the frame that shows its buffer is the last of the
  slot in the queue and has its frame number; once acquired, it is the composer's
  and the table has its buffer and its number, so that `ReleaseBuffer` does not
  take it for stale; and while `acquire_called` is set, the table has the buffer
  and no older frame of the slot is left in the queue to overwrite it. `FramesOK`
  says of the frames: no buffer is in the queue twice, and a frame without its
  buffer is the first of its slot. `AllocationOK` says that a slot the producer
  has is without a buffer only between the two sections of `DequeueBuffer`. Most
  transactions change slots only, and one of five small lemmas says of each such
  change that the slot is still all right; the five steps that move frames are
  done by themselves. Assumptions (`BufferQueueAssumption`, `ProducerAssumption`):
  there is a slot, NULL is no buffer and no frame.

How induction over data is done. The provers cannot instantiate an induction
theorem, but they can reason from a smallest counterexample: a nonempty set of
natural numbers has a least element (`LeastNatural`), and the step before it is
right. In this way the loops of `KSynchronizationObject`, the sums of
`KResourceLimit`, the rounds over the cores of `KPriorityQueue`, the loops of
`RestorePriority` and `Signal` in `KConditionVariable` and the orders of the trees
and queues are proved for every length. Three things the provers do not understand were replaced in the models by definitions
that they do: the selection of a subsequence by `Keep` of `Sequencing`, the
powers of two in `KAddressArbiter` by the constant `SignBit`, and the search for
the place of a new action in `Emplace` by the least place whose value is not
smaller, which is where the loop of `RegisterAction` stops.

Only model-checked: all liveness (`WaiterProceeds`, `DueTaskHandled`,
`TimingThreadProceeds`, `CoresFollow`, `CompletionArrives`, `CallsReturn`,
`DequeueReturns`, `LimitCallsReturn`), since the prover has no fairness reasoning.
Every invariant and action property of the runs is also stated by a theorem, three
of them under a hypothesis named above: `OneOwner` and `FrameIsTheOneQueued` for a
guest with one thread and one swap mode, `YieldsAreRight` for one process.

## 6. Not modelled

`PROJECT.json` gives the reason per component. In short: the CPU back ends and
graphics interfaces are external; loaders, file systems, input and user
interfaces are I/O; the shader recompiler and the renderers are translation,
whose correctness is not about states; the page tables are sequential under one
lock. Within the modelled components: single-core mode, memory ordering weaker
than sequential consistency, thread creation, and the CPU contexts.

The repository has about 683 000 lines, of which the models cover a small share
and always will. Most of it has no state protocol to model: vendored libraries
(`externals`, the OpenGL loader alone is 27 000 lines), fonts and lookup tables
kept as source (over 80 000 lines), instruction decoders and emitters, the two
renderers, the Qt and Android front ends, and several hundred service handlers
that unpack a request and return a constant. The models are about the part where
threads meet: kernel waiting and scheduling, timing, and the way from the guest
to the GPU and the display.

## 7. Plan

Next, in this order:

1. Ports, sessions, light sessions and the server manager: a request is answered
   exactly once although either side closes.
2. Handle table and auto objects; process life cycle with worker tasks.
3. An abstract syncpoint ("an action runs when the counter reaches its value")
   and an abstract queue, refined by `NvHostCtrl` and `BoundedQueue`.
4. The ring buffer and `thread_worker.h`; memory block manager, page heap and the
   buffer cache's memory tracker as algorithms against reference definitions; the
   network room.
