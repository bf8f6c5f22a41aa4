------------------------ MODULE BufferQueueProducer -------------------------
(***************************************************************************)
(* The producer's end of a buffer queue                                    *)
(* (service/nvnflinger/buffer_queue_producer): the transactions a guest    *)
(* may send to the binder, in any order and with any slot.  A thread of    *)
(* the server that runs them holds the mutex for one step, except where    *)
(* the code lets it go: while DequeueBuffer() waits for a slot, while it   *)
(* allocates a buffer, and before the callbacks.  Query() and the parcels  *)
(* change nothing and are left out.                                        *)
(***************************************************************************)
EXTENDS BufferQueueCore

CONSTANTS
    BinderThreads,      \* host threads that run transactions
    Shapes,         \* the sizes, formats and usages a guest asks for
    Handles,        \* the memory handles of the buffers a guest preallocates
    AsyncModes,     \* the sets of async flags a window's guest may pass
    MaxControls     \* bound on the transactions other than those of a frame

(***************************************************************************)
(* A GraphicBuffer: the object, and what the code compares of it.  One     *)
(* that DequeueBuffer() allocates has no memory handle, and neither has an *)
(* empty preallocated one, which fits no request either.                   *)
(***************************************************************************)
Buffers == [id: 1..MaxBuffers, handle: Handles \cup {0}, shape: Shapes \cup {NULL}]

NewBuffer(id, handle, shape) == [id |-> id, handle |-> handle, shape |-> shape]

\* BufferItem, the frames in the queue; queued is the buffer it was drawn into
Frames ==
    [slot: Slots, graphic_buffer: Buffers, frame_number: 1..MaxFrames,
     acquire_called: BOOLEAN, is_droppable: BOOLEAN, queued: Buffers]

ASSUME ProducerAssumption ==
    /\ NULL \notin Buffers /\ NULL \notin Frames
    /\ AsyncModes \subseteq SUBSET BOOLEAN
    /\ MaxControls \in Nat

VARIABLES
    call,           \* per thread, where it is inside a transaction
    next_callback_ticket,
    current_callback_ticket,
    asyncs,         \* the async flags the guest of this window passes
    controls        \* transactions so far other than those of a frame

producerVars == <<call, next_callback_ticket, current_callback_ticket, asyncs, controls>>

Idle == [at |-> "idle", slot |-> 0, shape |-> NULL, ticket |-> 0]

ProducerInit ==
    /\ call = [p \in BinderThreads |-> Idle]
    /\ next_callback_ticket = 0
    /\ current_callback_ticket = 0
    /\ asyncs \in AsyncModes
    /\ controls = 0

Ready(p) == call[p].at = "idle"
Return(p) == call' = [call EXCEPT ![p] = Idle]
Control == controls < MaxControls /\ controls' = controls + 1

UnchangedTickets == UNCHANGED <<next_callback_ticket, current_callback_ticket, asyncs>>

\* what a transaction that only touches slots and the condition leaves alone
UnchangedButSlots ==
    UNCHANGED <<queue, override_max_buffer_count, is_abandoned, connected,
                buffer_has_been_queued, frame_counter, next_callback_ticket,
                current_callback_ticket, asyncs>>

-----------------------------------------------------------------------------
(***************************************************************************)
(* WaitForFreeSlotThenRelock(), one turn of its loop: the slots beyond the *)
(* count give up their buffers, then the oldest free slot is taken unless  *)
(* too many frames are queued.                                             *)
(***************************************************************************)
Trimmed ==
    [s \in Slots |->
        IF /\ s >= MaxBufferCount
           /\ slots[s].graphic_buffer # NULL
           /\ slots[s].buffer_state = "Free"
           /\ ~slots[s].is_preallocated
        THEN FreeBuffer(slots[s])
        ELSE slots[s]]

InCount(state) == {s \in SlotsIn(state) : s < MaxBufferCount}

OldestFree ==
    CHOOSE s \in InCount("Free") : \A r \in InCount("Free") :
        \/ slots[s].frame_number < slots[r].frame_number
        \/ slots[s].frame_number = slots[r].frame_number /\ s <= r

TooManyDequeued ==
    \/ override_max_buffer_count = 0 /\ InCount("Dequeued") # {}
    \/ buffer_has_been_queued /\ MaxBufferCount < Cardinality(InCount("Dequeued")) + 1

MustWait == InCount("Free") = {} \/ Len(queue) > MaxBufferCount

(***************************************************************************)
(* DequeueBuffer(), up to the end of its first critical section, entered   *)
(* with a request or woken from the wait for a slot.  A set flag lets the  *)
(* wait end without sleeping: the loop turns once more on the same state   *)
(* and then sleeps on the cleared flag.                                    *)
(***************************************************************************)
BeginDequeue(p, shape) ==
    /\ Ready(p)
    /\ call' = [call EXCEPT ![p].at = "dequeue", ![p].shape = shape]
    /\ UNCHANGED <<coreVars, controls>> /\ UnchangedTickets

MayLook(p) ==
    \/ call[p].at = "dequeue"
    \/ call[p].at = "asleep" /\ dequeue_possible

DequeueFails(p) ==
    /\ MayLook(p)
    /\ is_abandoned \/ TooManyDequeued
    /\ slots' = IF is_abandoned THEN slots ELSE Trimmed
    /\ dequeue_possible' = (dequeue_possible /\ call[p].at = "dequeue")
    /\ Return(p)
    /\ UnchangedButSlots /\ UNCHANGED controls

DequeueWaits(p) ==
    /\ MayLook(p)
    /\ ~is_abandoned /\ ~TooManyDequeued /\ MustWait
    /\ slots' = Trimmed
    /\ dequeue_possible' = FALSE
    /\ call' = [call EXCEPT ![p].at = "asleep"]
    /\ UnchangedButSlots /\ UNCHANGED controls

Fits(buffer, shape) == buffer # NULL /\ buffer.shape = shape

DequeueFinds(p) ==
    /\ MayLook(p)
    /\ ~is_abandoned /\ ~TooManyDequeued /\ ~MustWait
    /\ LET found == OldestFree
           fits == Fits(slots[found].graphic_buffer, call[p].shape)
       IN  /\ slots' = [Trimmed EXCEPT
                ![found].buffer_state = "Dequeued",
                ![found].graphic_buffer = IF fits THEN @ ELSE NULL,
                ![found].acquire_called = fits /\ @,
                ![found].request_buffer_called = fits /\ @]
           /\ call' = [call EXCEPT ![p] =
                IF fits THEN Idle ELSE [@ EXCEPT !.at = "allocate", !.slot = found]]
    /\ dequeue_possible' = (dequeue_possible /\ call[p].at = "dequeue")
    /\ UnchangedButSlots /\ UNCHANGED controls

(***************************************************************************)
(* DequeueBuffer(), its second critical section: the buffer allocated      *)
(* without the mutex is put into the slot chosen before.                   *)
(***************************************************************************)
DequeueAllocates(p, id) ==
    /\ call[p].at = "allocate"
    /\ slots' = IF is_abandoned THEN slots
                ELSE [slots EXCEPT
                        ![call[p].slot].frame_number = NoFrameNumber,
                        ![call[p].slot].graphic_buffer = NewBuffer(id, 0, call[p].shape)]
    /\ Return(p)
    /\ UNCHANGED <<dequeue_possible, controls>> /\ UnchangedButSlots

-----------------------------------------------------------------------------
OwnedByProducer(s) == ~is_abandoned /\ slots[s].buffer_state = "Dequeued"

(***************************************************************************)
(* RequestBuffer().                                                        *)
(***************************************************************************)
RequestBuffer(p, s) ==
    /\ Ready(p) /\ OwnedByProducer(s)
    /\ slots' = [slots EXCEPT ![s].request_buffer_called = TRUE]
    /\ UNCHANGED <<dequeue_possible, call, controls>> /\ UnchangedButSlots

(***************************************************************************)
(* DetachBuffer().                                                         *)
(***************************************************************************)
DetachBuffer(p, s) ==
    /\ Ready(p) /\ Control /\ OwnedByProducer(s) /\ slots[s].request_buffer_called
    /\ slots' = [slots EXCEPT ![s] = FreeBuffer(@)]
    /\ SignalDequeueCondition
    /\ UNCHANGED call /\ UnchangedButSlots

(***************************************************************************)
(* CancelBuffer().                                                         *)
(***************************************************************************)
CancelBuffer(p, s) ==
    /\ Ready(p) /\ Control /\ OwnedByProducer(s)
    /\ slots' = [slots EXCEPT ![s].buffer_state = "Free", ![s].frame_number = 0]
    /\ SignalDequeueCondition
    /\ UNCHANGED call /\ UnchangedButSlots

(***************************************************************************)
(* QueueBuffer(): the frame goes to the end of the queue, or replaces a    *)
(* droppable frame at its front, whose slot is then the first in line to   *)
(* be dequeued again.  The field queued remembers the buffer the frame was *)
(* drawn into.                                                             *)
(***************************************************************************)
Frame(s, async) ==
    [slot |-> s, graphic_buffer |-> slots[s].graphic_buffer, frame_number |-> frame_counter + 1,
     acquire_called |-> slots[s].acquire_called, is_droppable |-> async,
     queued |-> slots[s].graphic_buffer]

QueueBuffer(p, s, async) ==
    /\ Ready(p) /\ OwnedByProducer(s) /\ slots[s].request_buffer_called
    /\ s < MaxBufferCount
    /\ frame_counter < MaxFrames
    /\ LET replaces == queue # <<>> /\ Head(queue).is_droppable
           drops == replaces /\ StillTracking(Head(queue))
           queued == [slots EXCEPT ![s].buffer_state = "Queued",
                                   ![s].frame_number = frame_counter + 1]
       IN  /\ slots' = IF drops
                       THEN [queued EXCEPT ![Head(queue).slot].buffer_state = "Free",
                                           ![Head(queue).slot].frame_number = 0]
                       ELSE queued
           /\ queue' = IF replaces THEN <<Frame(s, async)>> \o Tail(queue)
                                   ELSE Append(queue, Frame(s, async))
    /\ frame_counter' = frame_counter + 1
    /\ buffer_has_been_queued' = TRUE
    /\ SignalDequeueCondition
    /\ call' = [call EXCEPT ![p].at = "ticket", ![p].ticket = next_callback_ticket]
    /\ next_callback_ticket' = next_callback_ticket + 1
    /\ UNCHANGED <<override_max_buffer_count, is_abandoned, connected,
                   current_callback_ticket, asyncs, controls>>

(***************************************************************************)
(* QueueBuffer(), the callback: in the order of the tickets, without the   *)
(* mutex of the queue.  The consumer's listener only logs it.              *)
(***************************************************************************)
FrameCallback(p) ==
    /\ call[p].at = "ticket"
    /\ call[p].ticket = current_callback_ticket
    /\ current_callback_ticket' = current_callback_ticket + 1
    /\ Return(p)
    /\ UNCHANGED <<coreVars, next_callback_ticket, asyncs, controls>>

-----------------------------------------------------------------------------
(***************************************************************************)
(* SetBufferCount().  Frames already queued stay in the queue, even when   *)
(* their slots are freed.                                                  *)
(***************************************************************************)
PreallocatedCount(ss) == Cardinality({s \in Slots : ss[s].is_preallocated})

SetBufferCount(p, count) ==
    /\ Ready(p) /\ Control
    /\ ~is_abandoned /\ SlotsIn("Dequeued") = {}
    /\ override_max_buffer_count' = count
    /\ IF count # 0 /\ PreallocatedCount(slots) = 0
       THEN FreeAllBuffers /\ buffer_has_been_queued' = FALSE
       ELSE UNCHANGED <<slots, buffer_has_been_queued>>
    /\ SignalDequeueCondition
    /\ call' = [call EXCEPT ![p].at = IF count # 0 THEN "released" ELSE "idle"]
    /\ UNCHANGED <<queue, is_abandoned, connected, frame_counter>> /\ UnchangedTickets

(***************************************************************************)
(* Connect(), with a known api or another: both start a new count of       *)
(* queued buffers.                                                         *)
(***************************************************************************)
Connect(p, known) ==
    /\ Ready(p)
    /\ ~is_abandoned /\ ~connected
    /\ connected' = known
    /\ buffer_has_been_queued' = FALSE
    /\ UNCHANGED <<slots, queue, override_max_buffer_count, is_abandoned, frame_counter,
                   dequeue_possible, call, controls>> /\ UnchangedTickets

(***************************************************************************)
(* Disconnect().                                                           *)
(***************************************************************************)
Disconnect(p) ==
    /\ Ready(p) /\ Control
    /\ ~is_abandoned /\ connected
    /\ queue' = <<>>
    /\ FreeAllBuffers /\ buffer_has_been_queued' = FALSE
    /\ connected' = FALSE
    /\ SignalDequeueCondition
    /\ call' = [call EXCEPT ![p].at = "released"]
    /\ UNCHANGED <<override_max_buffer_count, is_abandoned, frame_counter>> /\ UnchangedTickets

(***************************************************************************)
(* SetPreallocatedBuffer(): whatever the slot was used for.  An empty      *)
(* buffer is stored, but does not count.                                   *)
(***************************************************************************)
SetPreallocatedBuffer(p, s, buffer) ==
    LET preallocated == buffer.shape # NULL
        new == [slots EXCEPT ![s] = [EmptySlot EXCEPT
                    !.graphic_buffer = buffer, !.is_preallocated = preallocated]]
    IN  /\ Ready(p) /\ Control
        /\ slots' = new
        /\ override_max_buffer_count' =
                IF preallocated THEN PreallocatedCount(new) ELSE override_max_buffer_count
        /\ SignalDequeueCondition
        /\ UNCHANGED <<queue, is_abandoned, connected, buffer_has_been_queued,
                       frame_counter, call>> /\ UnchangedTickets
=============================================================================
