----------------------------- MODULE GpuThread -----------------------------
(***************************************************************************)
(* The GPU thread (video_core/gpu_thread.cpp), the threads that push       *)
(* commands to it, and the requests they leave for it to run at its next   *)
(* tick (video_core/gpu.cpp), over the bounded queue and the fence manager *)
(* the commands end up in.                                                 *)
(*                                                                         *)
(* A pusher holds write_lock from the moment it takes a fence number until *)
(* the command is in the queue, also while it waits for room; in           *)
(* synchronous mode it then sleeps on cv, which releases write_lock, until *)
(* the GPU thread has stored a fence that is not smaller.  The GPU thread  *)
(* takes write_lock to notify.  sync_request_mutex is never held from one  *)
(* step to the next, so it does not appear.                                *)
(***************************************************************************)
EXTENDS BoundedQueue, FenceManager, FiniteSets

CONSTANTS
    Budgets         \* the configurations to consider: asynchronous GPU or not, the
                    \* kind of renderer, whether the GPU may be destroyed, and the
                    \* bounds on the calls, the fences and the operations

ASSUME GpuAssumption ==
    Budgets \subseteq [is_async : BOOLEAN, can_async_check : BOOLEAN, stop : BOOLEAN,
                       calls : Nat, fences : Nat, operations : Nat]

VARIABLES
    is_async,           \* asynchronous GPU emulation
    write_lock,         \* holder of the mutex, or NONE
    last_fence,
    signaled_fence,
    sync_requests,      \* requests for the GPU thread, oldest first
    last_sync_fence,
    current_sync_fence,
    sync_fence,         \* per pusher, the request it waits for, 0 if none
    running,            \* the request the GPU thread runs
    done,               \* requests that ran
    executed            \* fences of the commands executed, in that order

pushVars == <<is_async, write_lock, last_fence, signaled_fence>>
syncVars == <<sync_requests, last_sync_fence, current_sync_fence, sync_fence, running, done>>
vars == <<pc, item, stop, queueVars, fenceVars, pushVars, syncVars, executed>>

NoCommand == [data |-> "none", fence |-> 0, block |-> FALSE]

Init ==
    /\ budget \in Budgets
    /\ QueueInit
    /\ FenceInit
    /\ pc = [t \in Threads |-> IF t = Consumer THEN "top" ELSE "idle"]
    /\ item = [t \in Threads |-> NoCommand]
    /\ stop = FALSE
    /\ is_async = budget.is_async
    /\ write_lock = NONE
    /\ last_fence = 0
    /\ signaled_fence = 0
    /\ sync_requests = <<>>
    /\ last_sync_fence = 0
    /\ current_sync_fence = 0
    /\ sync_fence = [p \in Producers |-> 0]
    /\ running = 0
    /\ done = {}
    /\ executed = <<>>

-----------------------------------------------------------------------------
(***************************************************************************)
(* The calls: SubmitList(); FlushRegion() in synchronous mode; and the     *)
(* callers of RequestSyncOperation() (FlushRegion() in asynchronous mode,  *)
(* OnCPURead(), RequestComposite(), GetAppletCaptureBuffer()), which push  *)
(* a tick and wait for their request.                                      *)
(***************************************************************************)
Room == last_fence + Cardinality({p \in Producers : pc[p] = "push"}) < budget.calls

Begin(p, data) ==
    /\ pc' = [pc EXCEPT ![p] = "push"]
    /\ item' = [item EXCEPT ![p] = [data |-> data, fence |-> 0, block |-> ~is_async]]

PushOnly(p) ==
    /\ pc[p] = "idle"
    /\ Room
    /\ \/ Begin(p, "submit")
       \/ ~is_async /\ Begin(p, "flush")
    /\ UNCHANGED <<stop, queueVars, fenceVars, pushVars, syncVars, executed>>

RequestSyncOperation(p) ==
    /\ pc[p] = "idle"
    /\ Room
    /\ last_sync_fence' = last_sync_fence + 1
    /\ sync_requests' = Append(sync_requests, last_sync_fence')
    /\ sync_fence' = [sync_fence EXCEPT ![p] = last_sync_fence']
    /\ Begin(p, "tick")
    /\ UNCHANGED <<stop, queueVars, fenceVars, pushVars, current_sync_fence, running, done,
                   executed>>

(***************************************************************************)
(* PushCommand().                                                          *)
(***************************************************************************)
PushLock(p) ==
    /\ pc[p] = "push"
    /\ write_lock = NONE
    /\ write_lock' = p
    /\ last_fence' = last_fence + 1
    /\ item' = [item EXCEPT ![p].fence = last_fence']
    /\ Goto(p, "emplace")
    /\ UNCHANGED <<stop, queueVars, fenceVars, is_async, signaled_fence, syncVars, executed>>

PushEmplace(p) ==
    /\ EmplaceWait(p)
    /\ UNCHANGED <<fenceVars, pushVars, syncVars, executed>>

AfterPush(p) == IF sync_fence[p] = 0 THEN "idle" ELSE "sync"

(***************************************************************************)
(* The rest of PushCommand(): return, or look at signaled_fence and sleep, *)
(* two steps with write_lock held.                                         *)
(***************************************************************************)
PushReturn(p) ==
    /\ \/ pc[p] = "emplaced" /\ write_lock = p
       \/ pc[p] = "block" /\ write_lock = NONE
    /\ IF ~item[p].block \/ stop \/ item[p].fence <= signaled_fence
       THEN Goto(p, AfterPush(p)) /\ write_lock' = NONE
       ELSE Goto(p, "block_sleep") /\ write_lock' = p
    /\ UNCHANGED <<item, stop, queueVars, fenceVars, is_async, last_fence, signaled_fence,
                   syncVars, executed>>

PushSleep(p) ==
    /\ pc[p] = "block_sleep"
    /\ write_lock' = NONE
    /\ Goto(p, IF stop THEN "block" ELSE "block_asleep")
    /\ UNCHANGED <<item, stop, queueVars, fenceVars, is_async, last_fence, signaled_fence,
                   syncVars, executed>>

(***************************************************************************)
(* WaitForSyncOperation().                                                 *)
(***************************************************************************)
WaitForSyncOperation(p) ==
    /\ pc[p] = "sync"
    /\ IF current_sync_fence >= sync_fence[p]
       THEN Goto(p, "idle") /\ sync_fence' = [sync_fence EXCEPT ![p] = 0]
       ELSE Goto(p, "sync_asleep") /\ UNCHANGED sync_fence
    /\ UNCHANGED <<item, stop, queueVars, fenceVars, pushVars, sync_requests, last_sync_fence,
                   current_sync_fence, running, done, executed>>

-----------------------------------------------------------------------------
(***************************************************************************)
(* RunThread(): the loop, the command by its kind, the fence and the       *)
(* notification of blocked pushers.                                        *)
(***************************************************************************)
RunTop ==
    /\ pc[Consumer] = "top"
    /\ Goto(Consumer, IF stop THEN "exited" ELSE "pop")
    /\ UNCHANGED <<item, stop, queueVars, fenceVars, pushVars, syncVars, executed>>

RunPop ==
    /\ PopWait
    /\ UNCHANGED <<fenceVars, pushVars, syncVars, executed>>

RunCommand ==
    \/ /\ \/ pc[Consumer] = "pop_stopped"
          \/ pc[Consumer] = "popped" /\ stop
       /\ Goto(Consumer, "exited")
       /\ UNCHANGED <<item, stop, queueVars, fenceVars, pushVars, syncVars, executed>>
    \/ /\ pc[Consumer] = "popped"
       /\ ~stop
       /\ executed' = Append(executed, item[Consumer].fence)
       /\ Goto(Consumer, CASE item[Consumer].data = "submit" -> "work"
                           [] item[Consumer].data = "tick" -> "tick"
                           [] OTHER -> "store")
       /\ UNCHANGED <<item, stop, queueVars, fenceVars, pushVars, syncVars>>

RunStore ==
    /\ pc[Consumer] = "store"
    /\ signaled_fence' = item[Consumer].fence
    /\ Goto(Consumer, IF item[Consumer].block THEN "notify" ELSE "top")
    /\ UNCHANGED <<item, stop, queueVars, fenceVars, is_async, write_lock, last_fence, syncVars,
                   executed>>

WakeBlocked ==
    pc' = [t \in Threads |-> IF t = Consumer THEN "top"
                             ELSE IF pc[t] = "block_asleep" THEN "block" ELSE pc[t]]

RunNotify_NoLock ==
    /\ pc[Consumer] = "notify"
    /\ WakeBlocked
    /\ UNCHANGED <<item, stop, queueVars, fenceVars, pushVars, syncVars, executed>>

RunNotify ==
    /\ pc[Consumer] = "notify"
    /\ write_lock = NONE
    /\ WakeBlocked
    /\ UNCHANGED <<item, stop, queueVars, fenceVars, pushVars, syncVars, executed>>

(***************************************************************************)
(* A submitted list, as far as the fence manager sees it (scheduler.Push() *)
(* to OnCommandListEnd()): draws, each of which may tick the GPU,          *)
(* operations, fences, orderings and forced waits, in any number and       *)
(* order, and at the end ReleaseFences(false).                             *)
(***************************************************************************)
SubmitWork ==
    /\ pc[Consumer] = "work"
    /\ \/ /\ signaller.at = "idle"
          /\ \/ Draw
             \/ SyncOperation
             \/ SignalFence(FALSE)
             \/ WaitPendingFences(TRUE)
             \/ SignalOrdering
       \/ SignalRelease
       \/ SignalCommit
       \/ \E delay_fence \in BOOLEAN : SignalQueue(delay_fence)
       \/ SignalNotify
       \/ WaitFinished
       \/ ReleaseAll
    /\ UNCHANGED <<pc, item, stop, queueVars, pushVars, syncVars, executed>>

SubmitTick ==
    /\ pc[Consumer] = "work"
    /\ signaller.at = "idle"
    /\ sync_requests # <<>>
    /\ Goto(Consumer, "tick")
    /\ UNCHANGED <<item, stop, queueVars, fenceVars, pushVars, syncVars, executed>>

SubmitEnd ==
    /\ pc[Consumer] = "work"
    /\ signaller.at = "idle"
    /\ IF can_async_check \/ fences = <<>> THEN UNCHANGED fenceVars ELSE WaitPendingFences(FALSE)
    /\ Goto(Consumer, "list_end")
    /\ UNCHANGED <<item, stop, queueVars, pushVars, syncVars, executed>>

SubmitDrain ==
    /\ pc[Consumer] = "list_end"
    /\ \/ ReleaseAll /\ UNCHANGED pc
       \/ signaller.at = "idle" /\ Goto(Consumer, "store") /\ UNCHANGED fenceVars
    /\ UNCHANGED <<item, stop, queueVars, pushVars, syncVars, executed>>

(***************************************************************************)
(* TickWork(): a request runs with the mutex released, then it is counted, *)
(* then the waiters are notified and the next request is taken.            *)
(***************************************************************************)
TakeRequest ==
    /\ IF sync_requests = <<>>
       THEN UNCHANGED <<sync_requests, running>>
       ELSE /\ running' = Head(sync_requests)
            /\ sync_requests' = Tail(sync_requests)

AfterTake ==
    IF sync_requests # <<>> THEN "request"
    ELSE IF item[Consumer].data = "submit" THEN "work" ELSE "store"

TickBegin ==
    /\ pc[Consumer] = "tick"
    /\ TakeRequest
    /\ Goto(Consumer, AfterTake)
    /\ UNCHANGED <<item, stop, queueVars, fenceVars, pushVars, last_sync_fence,
                   current_sync_fence, sync_fence, done, executed>>

TickRun_CountedFirst ==
    /\ pc[Consumer] \in {"request", "count"}
    /\ IF pc[Consumer] = "request"
       THEN current_sync_fence' = current_sync_fence + 1 /\ Goto(Consumer, "count")
            /\ UNCHANGED done
       ELSE done' = done \union {running} /\ Goto(Consumer, "wake") /\ UNCHANGED current_sync_fence
    /\ UNCHANGED <<item, stop, queueVars, fenceVars, pushVars, sync_requests, last_sync_fence,
                   sync_fence, running, executed>>

TickRun ==
    /\ pc[Consumer] \in {"request", "count"}
    /\ IF pc[Consumer] = "request"
       THEN done' = done \union {running} /\ Goto(Consumer, "count") /\ UNCHANGED current_sync_fence
       ELSE current_sync_fence' = current_sync_fence + 1 /\ Goto(Consumer, "wake")
            /\ UNCHANGED done
    /\ UNCHANGED <<item, stop, queueVars, fenceVars, pushVars, sync_requests, last_sync_fence,
                   sync_fence, running, executed>>

TickWake ==
    /\ pc[Consumer] = "wake"
    /\ TakeRequest
    /\ pc' = [t \in Threads |-> IF t = Consumer THEN AfterTake
                                ELSE IF pc[t] = "sync_asleep" THEN "sync" ELSE pc[t]]
    /\ UNCHANGED <<item, stop, queueVars, fenceVars, pushVars, last_sync_fence,
                   current_sync_fence, sync_fence, done, executed>>

-----------------------------------------------------------------------------
(***************************************************************************)
(* The destruction of the GPU: the GPU thread's jthread requests the stop, *)
(* which wakes what sleeps with its token, and is joined; then the         *)
(* renderer with the fence manager goes.                                   *)
(***************************************************************************)
RequestStop ==
    /\ budget.stop
    /\ ~stop
    /\ stop' = TRUE
    /\ pc' = [t \in Threads |-> CASE pc[t] = "empty_asleep" -> "pop"
                                  [] pc[t] = "block_asleep" -> "block"
                                  [] OTHER -> pc[t]]
    /\ UNCHANGED <<item, queueVars, fenceVars, pushVars, syncVars, executed>>

Destroy ==
    /\ pc[Consumer] = "exited"
    /\ can_async_check
    /\ \/ DestroyRequest
       \/ token /\ DestroyNotify
    /\ UNCHANGED <<pc, item, stop, queueVars, pushVars, syncVars, executed>>

FencingThread ==
    /\ ReleaseThreadFunc
    /\ UNCHANGED <<pc, item, stop, queueVars, pushVars, syncVars, executed>>

HostGpu ==
    /\ HostReach
    /\ UNCHANGED <<pc, item, stop, queueVars, pushVars, syncVars, executed>>

-----------------------------------------------------------------------------
Call(p) == PushOnly(p) \/ RequestSyncOperation(p)

Push(p) ==
    \/ PushLock(p)
    \/ PushEmplace(p)
    \/ PushReturn(p)
    \/ PushSleep(p)
    \/ WaitForSyncOperation(p)

RunThread ==
    \/ RunTop
    \/ RunPop
    \/ RunCommand
    \/ RunStore
    \/ RunNotify
    \/ SubmitWork
    \/ SubmitTick
    \/ SubmitEnd
    \/ SubmitDrain
    \/ TickBegin
    \/ TickRun
    \/ TickWake

Next ==
    \/ \E p \in Producers : Call(p) \/ Push(p)
    \/ RunThread
    \/ FencingThread
    \/ HostGpu
    \/ RequestStop
    \/ Destroy

(***************************************************************************)
(* Every thread goes on as long as it can, a destructor runs to its end,   *)
(* and the host GPU reaches the fences queued to it.  Calls and the stop   *)
(* need not come.                                                          *)
(***************************************************************************)
Spec ==
    /\ Init
    /\ [][Next]_vars
    /\ \A p \in Producers : WF_vars(Push(p))
    /\ WF_vars(RunThread)
    /\ WF_vars(FencingThread)
    /\ WF_vars(HostGpu)
    /\ WF_vars(Destroy)

-----------------------------------------------------------------------------
TypeOK ==
    /\ item \in [Threads -> [data : {"none", "submit", "tick", "flush"},
                             fence : 0..budget.calls,
                             block : BOOLEAN]]
    /\ m_read_index \in 0..(IndexSize - 1)
    /\ m_write_index \in 0..(IndexSize - 1)
    /\ {producer_cv_mutex, consumer_cv_mutex, write_lock} \subseteq Threads \union {NONE}
    /\ current_sync_fence \in 0..last_sync_fence

(***************************************************************************)
(* The commands are executed in the order of their fences, each exactly    *)
(* once, through a ring whose indices wrap around, and signaled_fence      *)
(* never claims a command that was not executed (the ring of               *)
(* bounded_threadsafe_queue.h under PushCommand() and RunThread()).        *)
(***************************************************************************)
ExecutedInOrder ==
    /\ executed = [i \in 1..Len(executed) |-> i]
    /\ signaled_fence <= Len(executed)

(***************************************************************************)
(* A thread that left WaitForSyncOperation() has had its own request run:  *)
(* requests capture references to the caller's frame (OnCPURead(),         *)
(* RequestComposite(), GetAppletCaptureBuffer()), and what the caller      *)
(* compares is only a count of the requests that ran.                      *)
(***************************************************************************)
NoDanglingRequest ==
    \A r \in 1..last_sync_fence :
        r \notin done => \E p \in Producers : sync_fence[p] = r

(***************************************************************************)
(* The committed downloads, the fences and the lists of operations stay in *)
(* step: what is written back when a fence is released was committed for   *)
(* that fence.                                                             *)
(***************************************************************************)
BeingReleased == IF releaser.at \in {"host", "pop"} THEN <<releaser.fence.id>> ELSE <<>>
BeingMade == IF signaller.at = "queue" THEN <<signaller.fence.id>> ELSE <<>>

QueuesInStep ==
    /\ [i \in 1..Len(committed) |-> committed[i].id]
         = BeingReleased \o [i \in 1..Len(fences) |-> fences[i].id] \o BeingMade
    /\ Len(pending_operations) = Len(fences)

(***************************************************************************)
(* Deferred operations run in the order they were issued, each once, and   *)
(* only once the host reached every fence up to their own: whatever the    *)
(* host still has to reach belongs to operations that did not run          *)
(* (SignalFence(), ReleaseThreadFunc(), TryReleasePendingFences()).        *)
(***************************************************************************)
OperationsInOrder ==
    /\ ran = [i \in 1..Len(ran) |-> i]
    /\ releaser.at \in {"pop", "run"} => \A i \in 1..Len(host) : host[i] > releaser.fence.id
    /\ ~can_async_check =>
          \A i \in 1..Len(host) : \E j \in 1..Len(fences) : fences[j].id = host[i]

FencesReleaseInOrder == QueuesInStep /\ OperationsInOrder

(***************************************************************************)
(* Every call returns unless the GPU is destroyed under it: PushCommand()  *)
(* may wait for room with write_lock held, the lock the GPU thread takes   *)
(* between two commands, and a tick that carries a request always comes    *)
(* after the request.  With at most Capacity pushers in synchronous mode   *)
(* the queue is never full when the GPU thread wants write_lock.           *)
(***************************************************************************)
CallsReturn ==
    \A p \in Producers : (pc[p] # "idle") ~> (pc[p] = "idle" \/ stop)

(***************************************************************************)
(* The destructor of the fence manager ends: the fencing thread it joins   *)
(* exits.                                                                  *)
(***************************************************************************)
DestructorEnds == token ~> (releaser.at = "exited")
=============================================================================
