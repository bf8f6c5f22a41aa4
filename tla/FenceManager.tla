---------------------------- MODULE FenceManager ----------------------------
(***************************************************************************)
(* The fence manager of the rasterizers (video_core/fence_manager.h).      *)
(*                                                                         *)
(* The GPU thread commits the downloads that the caches gathered, makes a  *)
(* fence for them (a stub if there are none), and hands the fence and the  *)
(* operations gathered since the last one to whoever releases them: a      *)
(* fencing thread where the host fences can be waited for off the GPU      *)
(* thread (Vulkan, can_async_check), the GPU thread itself otherwise       *)
(* (OpenGL).  Releasing a fence waits for the host, writes back the oldest *)
(* committed downloads and runs the operations: three queues, committed,   *)
(* pending_operations and fences, that have to move together.              *)
(*                                                                         *)
(* Fences and operations are numbered in the order they are made.  The     *)
(* caches are reduced to whether they hold downloads that are not          *)
(* committed (dirty) and to the committed ones, a flag per fence.          *)
(***************************************************************************)
EXTENDS Naturals, Sequences, SequencesExt

VARIABLES
    budget,                 \* renderer and bounds of this behaviour
    can_async_check,        \* Traits::HAS_ASYNC_CHECK of the renderer
    dirty,                  \* the caches hold uncommitted downloads
    committed,              \* committed downloads, oldest first
    fences,                 \* fences not released yet, oldest first
    uncommitted_operations, \* operations for the next fence
    pending_operations,     \* one list of operations per fence
    guard,                  \* the mutex guard is held, by the fencing thread
    host,                   \* fences in the queue of the host GPU
    made,                   \* fences made so far
    issued,                 \* deferred operations issued so far
    ran,                    \* deferred operations that ran, in that order
    releaser,               \* where the releasing thread is, with its locals
    signaller,              \* where SignalFence() is, with its locals
    token                   \* the stop token of the fencing thread

fenceVars == <<budget, can_async_check, dirty, committed, fences, uncommitted_operations,
               pending_operations, guard, host, made, issued, ran, releaser, signaller, token>>

NoFence == [id |-> 0, is_stubbed |-> TRUE]

FenceInit ==
    /\ can_async_check = budget.can_async_check
    /\ dirty = FALSE
    /\ committed = <<>>
    /\ fences = <<>>
    /\ uncommitted_operations = <<>>
    /\ pending_operations = <<>>
    /\ guard = FALSE
    /\ host = <<>>
    /\ made = 0
    /\ issued = 0
    /\ ran = <<>>
    /\ releaser = [at |-> IF can_async_check THEN "wait" ELSE "none",
                   fence |-> NoFence, operations |-> <<>>]
    /\ signaller = [at |-> "idle", fence |-> NoFence, force |-> FALSE, owed |-> 0]
    /\ token = FALSE

(***************************************************************************)
(* The host GPU reaches the fences queued to it in their order; a stub is  *)
(* never queued.                                                           *)
(***************************************************************************)
HostReach ==
    /\ host # <<>>
    /\ host' = Tail(host)
    /\ UNCHANGED <<budget, can_async_check, dirty, committed, fences, uncommitted_operations,
                   pending_operations, guard, made, issued, ran, releaser, signaller, token>>

IsFenceSignaled(fence) == ~Contains(host, fence.id)

-----------------------------------------------------------------------------
(***************************************************************************)
(* What the GPU thread does between fences: a draw that leaves something   *)
(* to download (considered while there is a fence to come that commits     *)
(* it), and SyncOperation().                                               *)
(***************************************************************************)
Draw ==
    /\ ~dirty
    /\ made < budget.fences
    /\ dirty' = TRUE
    /\ UNCHANGED <<budget, can_async_check, committed, fences, uncommitted_operations, pending_operations,
                   guard, host, made, issued, ran, releaser, signaller, token>>

SyncOperation ==
    /\ issued < budget.operations
    /\ issued' = issued + 1
    /\ uncommitted_operations' = Append(uncommitted_operations, issued')
    /\ UNCHANGED <<budget, can_async_check, dirty, committed, fences, pending_operations, guard, host,
                   made, ran, releaser, signaller, token>>

(***************************************************************************)
(* One turn of TryReleasePendingFences<force>() in the GPU thread: the     *)
(* oldest fence is released, unless its downloads are not there yet; then  *)
(* the thread waits, or gives up when it is not forced to.                 *)
(***************************************************************************)
ShouldWait == committed # <<>> /\ Head(committed).dirty

ReleaseFront(next) ==
    /\ fences # <<>>
    /\ ShouldWait => IsFenceSignaled(Head(fences))
    /\ committed' = Tail(committed)
    /\ ran' = ran \o Head(pending_operations)
    /\ pending_operations' = Tail(pending_operations)
    /\ fences' = Tail(fences)
    /\ signaller' = [signaller EXCEPT !.at = next]
    /\ UNCHANGED <<budget, can_async_check, dirty, uncommitted_operations, guard, host, made, issued,
                   releaser, token>>

StopReleasing(force, next) ==
    /\ \/ fences = <<>>
       \/ ~force /\ ShouldWait /\ ~IsFenceSignaled(Head(fences))
    /\ signaller' = [signaller EXCEPT !.at = next]
    /\ UNCHANGED <<budget, can_async_check, dirty, committed, fences, uncommitted_operations,
                   pending_operations, guard, host, made, issued, ran, releaser, token>>

(***************************************************************************)
(* SignalFence(): called with the caller's force when WaitPendingFences()  *)
(* is behind it.  delay_fence is Settings::IsGPULevelHigh(), which may     *)
(* change from call to call.                                               *)
(***************************************************************************)
SignalFence(force) ==
    /\ signaller.at = "idle"
    /\ made < budget.fences
    /\ signaller' = [at |-> IF can_async_check THEN "commit" ELSE "try_release",
                     fence |-> NoFence, force |-> force, owed |-> 0]
    /\ UNCHANGED <<budget, can_async_check, dirty, committed, fences, uncommitted_operations,
                   pending_operations, guard, host, made, issued, ran, releaser, token>>

SignalRelease ==
    /\ signaller.at = "try_release"
    /\ \/ ReleaseFront("try_release")
       \/ StopReleasing(FALSE, "commit")

SignalCommit ==
    /\ signaller.at = "commit"
    /\ made' = made + 1
    /\ signaller' = [signaller EXCEPT !.at = "queue",
                                      !.fence = [id |-> made', is_stubbed |-> ~dirty]]
    /\ committed' = Append(committed, [id |-> made', dirty |-> dirty])
    /\ dirty' = FALSE
    /\ UNCHANGED <<budget, can_async_check, fences, uncommitted_operations, pending_operations, guard,
                   host, issued, ran, releaser, token>>

(***************************************************************************)
(* The section under guard: a delayed function joins the operations of     *)
(* this fence, one that is not runs here and now.                          *)
(***************************************************************************)
SignalQueue(delay_fence) ==
    /\ signaller.at = "queue"
    /\ ~guard
    /\ delay_fence => issued < budget.operations
    /\ issued' = IF delay_fence THEN issued + 1 ELSE issued
    /\ pending_operations' = Append(pending_operations,
           IF delay_fence THEN Append(uncommitted_operations, issued') ELSE uncommitted_operations)
    /\ uncommitted_operations' = <<>>
    /\ host' = IF signaller.fence.is_stubbed THEN host ELSE Append(host, signaller.fence.id)
    /\ fences' = Append(fences, signaller.fence)
    /\ signaller' = [signaller EXCEPT !.at = IF can_async_check THEN "notify" ELSE "idle",
                                      !.owed = IF delay_fence THEN issued' ELSE 0]
    /\ UNCHANGED <<budget, can_async_check, dirty, committed, guard, made, ran, releaser, token>>

SignalNotify ==
    /\ signaller.at = "notify"
    /\ signaller' = [signaller EXCEPT !.at = IF signaller.force THEN "finished" ELSE "idle"]
    /\ releaser' = [releaser EXCEPT !.at = IF @ = "asleep" THEN "wait" ELSE @]
    /\ UNCHANGED <<budget, can_async_check, dirty, committed, fences, uncommitted_operations,
                   pending_operations, guard, host, made, issued, ran, token>>

(***************************************************************************)
(* The end of a forced WaitPendingFences(): wait_finished was set by the   *)
(* function handed to SignalFence(), at once or when its fence was         *)
(* released.                                                               *)
(***************************************************************************)
WaitFinished ==
    /\ signaller.at = "finished"
    /\ signaller.owed # 0 => Contains(ran, signaller.owed)
    /\ signaller' = [signaller EXCEPT !.at = "idle"]
    /\ UNCHANGED <<budget, can_async_check, dirty, committed, fences, uncommitted_operations,
                   pending_operations, guard, host, made, issued, ran, releaser, token>>

(***************************************************************************)
(* WaitPendingFences(force) and SignalOrdering(); when no fence is left    *)
(* they return at once and nothing has changed.                            *)
(***************************************************************************)
StartReleasing(place) ==
    /\ signaller.at = "idle"
    /\ ~can_async_check
    /\ fences # <<>>
    /\ signaller' = [signaller EXCEPT !.at = place]
    /\ UNCHANGED <<budget, can_async_check, dirty, committed, fences, uncommitted_operations,
                   pending_operations, guard, host, made, issued, ran, releaser, token>>

WaitPendingFences(force) ==
    \/ StartReleasing("drain")
    \/ can_async_check /\ force /\ SignalFence(TRUE)

SignalOrdering == StartReleasing("order")

ReleaseAll ==
    \/ signaller.at = "drain" /\ (ReleaseFront("drain") \/ StopReleasing(TRUE, "idle"))
    \/ signaller.at = "order" /\ (ReleaseFront("order") \/ StopReleasing(FALSE, "idle"))

-----------------------------------------------------------------------------
(***************************************************************************)
(* ReleaseThreadFunc(), the fencing thread.  The look at the queue and the *)
(* sleep are two steps under guard: the destructor requests the stop and   *)
(* notifies without it.                                                    *)
(***************************************************************************)
ReleaseCheck ==
    /\ releaser.at = "wait"
    /\ ~guard
    /\ \/ token /\ releaser' = [releaser EXCEPT !.at = "exited"]
          /\ UNCHANGED <<fences, pending_operations, guard>>
       \/ ~token /\ fences = <<>> /\ releaser' = [releaser EXCEPT !.at = "checked"]
          /\ guard' = TRUE
          /\ UNCHANGED <<fences, pending_operations>>
       \/ ~token /\ fences # <<>>
          /\ releaser' = [at |-> "host", fence |-> Head(fences),
                          operations |-> Head(pending_operations)]
          /\ fences' = Tail(fences)
          /\ pending_operations' = Tail(pending_operations)
          /\ UNCHANGED guard
    /\ UNCHANGED <<budget, can_async_check, dirty, committed, uncommitted_operations, host, made, issued,
                   ran, signaller, token>>

ReleaseSleep ==
    /\ releaser.at = "checked"
    /\ guard' = FALSE
    /\ releaser' = [releaser EXCEPT !.at = "asleep"]
    /\ UNCHANGED <<budget, can_async_check, dirty, committed, fences, uncommitted_operations,
                   pending_operations, host, made, issued, ran, signaller, token>>

WaitFence_Skipped ==
    /\ releaser.at = "host"
    /\ releaser' = [releaser EXCEPT !.at = "pop"]
    /\ UNCHANGED <<budget, can_async_check, dirty, committed, fences, uncommitted_operations,
                   pending_operations, guard, host, made, issued, ran, signaller, token>>

WaitFence ==
    /\ releaser.at = "host"
    /\ ~releaser.fence.is_stubbed => IsFenceSignaled(releaser.fence)
    /\ releaser' = [releaser EXCEPT !.at = "pop"]
    /\ UNCHANGED <<budget, can_async_check, dirty, committed, fences, uncommitted_operations,
                   pending_operations, guard, host, made, issued, ran, signaller, token>>

PopAsyncFlushes ==
    /\ releaser.at = "pop"
    /\ committed' = Tail(committed)
    /\ releaser' = [releaser EXCEPT !.at = "run"]
    /\ UNCHANGED <<budget, can_async_check, dirty, fences, uncommitted_operations, pending_operations,
                   guard, host, made, issued, ran, signaller, token>>

RunOperations ==
    /\ releaser.at = "run"
    /\ ran' = ran \o releaser.operations
    /\ releaser' = [at |-> "wait", fence |-> NoFence, operations |-> <<>>]
    /\ UNCHANGED <<budget, can_async_check, dirty, committed, fences, uncommitted_operations,
                   pending_operations, guard, host, made, issued, signaller, token>>

ReleaseThreadFunc ==
    \/ ReleaseCheck
    \/ ReleaseSleep
    \/ WaitFence
    \/ PopAsyncFlushes
    \/ RunOperations

(***************************************************************************)
(* ~FenceManager(): request_stop(), then notify_all(), neither under       *)
(* guard.                                                                  *)
(***************************************************************************)
DestroyRequest ==
    /\ ~token
    /\ token' = TRUE
    /\ UNCHANGED <<budget, can_async_check, dirty, committed, fences, uncommitted_operations,
                   pending_operations, guard, host, made, issued, ran, releaser, signaller>>

DestroyNotify ==
    /\ signaller.at = "idle"
    /\ signaller' = [signaller EXCEPT !.at = "joining"]
    /\ releaser' = [releaser EXCEPT !.at = IF @ = "asleep" THEN "wait" ELSE @]
    /\ UNCHANGED <<budget, can_async_check, dirty, committed, fences, uncommitted_operations,
                   pending_operations, guard, host, made, issued, ran, token>>
=============================================================================
