-------------------------- MODULE BufferQueueCore ---------------------------
(***************************************************************************)
(* The state shared by the two ends of a layer's buffer queue              *)
(* (service/nvnflinger/buffer_queue_core): the slots that hold graphic     *)
(* buffers, and the queue of frames the producer has finished and the      *)
(* consumer has not taken yet.  Everything here is protected by            *)
(* BufferQueueCore::mutex, and each step of the modules that extend this   *)
(* one is one hold of that mutex.                                          *)
(*                                                                         *)
(* Fixed on this system, by the code that creates the queue: there is no   *)
(* async buffer (use_async_buffer), the consumer may hold one frame        *)
(* (max_acquired_buffer_count is 0), the consumer is not controlled by the *)
(* application, so that a dequeue may always block, nothing sets           *)
(* is_allocating, and no producer listener is registered.                  *)
(***************************************************************************)
EXTENDS Naturals, Sequences, FiniteSets, FiniteSetsExt

CONSTANTS
    NumSlots,       \* NUM_BUFFER_SLOTS
    DefaultMaxBufferCount,  \* default_max_buffer_count
    MaxFrames,      \* bound on frame_counter
    MaxBuffers,     \* bound on the graphic buffers of a slot that exist at a time
    NULL            \* no buffer, no frame

ASSUME BufferQueueAssumption ==
    /\ NumSlots \in Nat /\ DefaultMaxBufferCount \in 1..NumSlots
    /\ MaxFrames \in Nat /\ MaxBuffers \in Nat

VARIABLES
    slots,          \* the slots, each with the state of its buffer
    queue,          \* the frames queued and not yet acquired
    override_max_buffer_count,
    is_abandoned,
    connected,      \* connected_api is not NoConnectedApi
    buffer_has_been_queued,
    frame_counter,
    dequeue_possible

coreVars == <<slots, queue, override_max_buffer_count, is_abandoned, connected,
              buffer_has_been_queued, frame_counter, dequeue_possible>>

Slots == 0..(NumSlots - 1)

\* UINT32_MAX: the frame number of a slot that holds no frame
NoFrameNumber == MaxFrames + 1

EmptySlot ==
    [buffer_state |-> "Free", graphic_buffer |-> NULL, frame_number |-> 0,
     request_buffer_called |-> FALSE, acquire_called |-> FALSE,
     needs_cleanup_on_release |-> FALSE, is_preallocated |-> FALSE]

CoreInit ==
    /\ slots = [s \in Slots |-> EmptySlot]
    /\ queue = <<>>
    /\ override_max_buffer_count = 0
    /\ is_abandoned = FALSE
    /\ connected = FALSE
    /\ buffer_has_been_queued = FALSE
    /\ frame_counter = 0
    /\ dequeue_possible = FALSE

SlotsIn(state) == {s \in Slots : slots[s].buffer_state = state}

-----------------------------------------------------------------------------
(***************************************************************************)
(* SignalDequeueCondition().  The flag is set and every sleeper notified   *)
(* with the mutex held, and a sleeper went to sleep on a cleared flag: a   *)
(* thread waiting in WaitForDequeueCondition() may go on exactly when the  *)
(* flag is set.                                                            *)
(***************************************************************************)
SignalDequeueCondition == dequeue_possible' = TRUE

(***************************************************************************)
(* GetMaxBufferCountLocked(): the count that was set or, without one, the  *)
(* default, raised to keep the slots of frames that are with the producer  *)
(* or in the queue.                                                        *)
(***************************************************************************)
MaxBufferCount ==
    IF override_max_buffer_count # 0
    THEN override_max_buffer_count
    ELSE Max({DefaultMaxBufferCount}
                \cup {s + 1 : s \in SlotsIn("Queued") \cup SlotsIn("Dequeued")})

(***************************************************************************)
(* FreeBufferLocked().                                                     *)
(***************************************************************************)
FreeBuffer(slot) ==
    [slot EXCEPT
        !.graphic_buffer = NULL,
        !.needs_cleanup_on_release = @ \/ slot.buffer_state = "Acquired",
        !.buffer_state = "Free",
        !.frame_number = NoFrameNumber,
        !.acquire_called = FALSE]

FreeAllBuffers == slots' = [s \in Slots |-> FreeBuffer(slots[s])]

(***************************************************************************)
(* StillTracking(): the slot still holds the buffer the frame was queued   *)
(* with.                                                                   *)
(***************************************************************************)
StillTracking_AnyBuffer(item) == slots[item.slot].graphic_buffer # NULL

StillTracking(item) ==
    /\ slots[item.slot].graphic_buffer # NULL
    /\ slots[item.slot].graphic_buffer = item.graphic_buffer
=============================================================================
