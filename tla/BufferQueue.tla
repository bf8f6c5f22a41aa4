---------------------------- MODULE BufferQueue -----------------------------
(***************************************************************************)
(* A layer's buffer queue with both its ends: the threads that run the     *)
(* guest's transactions (BufferQueueProducer) and the thread that composes *)
(* the display at every vsync (nvnflinger/hardware_composer), which takes  *)
(* frames through BufferItemConsumer, ConsumerBase and                     *)
(* BufferQueueConsumer.                                                    *)
(*                                                                         *)
(* ConsumerBase has a mutex and a table of its own.  Each of its calls     *)
(* holds that mutex throughout and takes the mutex of the queue once, so   *)
(* that each is one step here, the callback OnBuffersReleased() too.  The  *)
(* composer passes no present time, and with it AcquireBuffer() neither    *)
(* drops nor defers frames.                                                *)
(***************************************************************************)
EXTENDS BufferQueueProducer

VARIABLES
    base,           \* ConsumerBase::slots: the buffer and the frame last acquired
    framebuffer     \* the frame the composer holds acquired, or NULL

layerVars == <<coreVars, producerVars, base, framebuffer>>

NoBase == [graphic_buffer |-> NULL, frame_number |-> 0]

LayerInit ==
    /\ CoreInit /\ ProducerInit
    /\ base = [s \in Slots |-> NoBase]
    /\ framebuffer = NULL

UnchangedOnAcquire ==
    UNCHANGED <<override_max_buffer_count, is_abandoned, connected, buffer_has_been_queued,
                frame_counter, producerVars>>

-----------------------------------------------------------------------------
(***************************************************************************)
(* The composition of a layer in the display's stack: ComposeLocked() asks *)
(* for a frame when it holds none, and lets go of the one it holds in the  *)
(* same composition or a later one.                                        *)
(***************************************************************************)
MayAcquire == ~is_abandoned /\ framebuffer = NULL
MayRelease == ~is_abandoned /\ framebuffer # NULL

(***************************************************************************)
(* AcquireBufferLocked() of ConsumerBase: a frame whose buffer was         *)
(* acquired before comes without it, and the table has the buffer.         *)
(***************************************************************************)
KnownBuffer(item) ==
    IF item.acquire_called THEN base[item.slot].graphic_buffer ELSE item.graphic_buffer

(***************************************************************************)
(* TryAcquireFramebufferLocked(), down to BufferQueueConsumer.             *)
(***************************************************************************)
AcquireBuffer ==
    /\ MayAcquire
    /\ SlotsIn("Acquired") = {}
    /\ queue # <<>>
    /\ LET item == Head(queue)
           s == item.slot
           known == KnownBuffer(item)
       IN  /\ slots' = IF StillTracking(item)
                       THEN [slots EXCEPT ![s].acquire_called = TRUE,
                                          ![s].needs_cleanup_on_release = FALSE,
                                          ![s].buffer_state = "Acquired"]
                       ELSE slots
           /\ base' = [base EXCEPT ![s] = [graphic_buffer |-> known,
                                           frame_number |-> item.frame_number]]
           /\ framebuffer' = [item EXCEPT !.graphic_buffer = known]
    /\ queue' = Tail(queue)
    /\ SignalDequeueCondition
    /\ UnchangedOnAcquire

(***************************************************************************)
(* BufferItemConsumer::ReleaseBuffer(), down to BufferQueueConsumer.       *)
(* Whatever that answers, the composer no longer holds the frame; when it  *)
(* answers that the slot is stale, ConsumerBase forgets the buffer.        *)
(***************************************************************************)
BaseStillTracking(s, buffer) ==
    base[s].graphic_buffer # NULL /\ base[s].graphic_buffer.handle = buffer.handle

StaleFrame(s) == base[s].frame_number # slots[s].frame_number

IsQueued(s) == \E i \in DOMAIN queue : queue[i].slot = s

Forget(s, stale) == base' = IF stale THEN [base EXCEPT ![s] = NoBase] ELSE base

WakeProducer_Not(released) == UNCHANGED dequeue_possible

WakeProducer(released) == dequeue_possible' = (dequeue_possible \/ released)

ReleaseBuffer ==
    /\ MayRelease
    /\ LET s == framebuffer.slot
           asks == BaseStillTracking(s, framebuffer.graphic_buffer)
           stale == asks /\ StaleFrame(s)
           settles == asks /\ ~StaleFrame(s) /\ ~IsQueued(s)
           acquired == settles /\ slots[s].buffer_state = "Acquired"
           cleans == settles /\ ~acquired /\ slots[s].needs_cleanup_on_release
       IN  /\ slots' = [slots EXCEPT ![s].buffer_state = IF acquired THEN "Free" ELSE @,
                                     ![s].needs_cleanup_on_release = @ /\ ~cleans]
           /\ Forget(s, stale \/ cleans)
           /\ WakeProducer(acquired)
    /\ framebuffer' = NULL
    /\ UNCHANGED queue /\ UnchangedOnAcquire

(***************************************************************************)
(* OnBuffersReleased(), called without the mutex by the producer's thread: *)
(* the buffers no frame refers to by acquire_called are forgotten.         *)
(***************************************************************************)
ReleasedBuffers_NotQueued == {s \in Slots : ~slots[s].acquire_called}

ReleasedBuffers ==
    {s \in Slots : /\ ~slots[s].acquire_called
                   /\ ~\E i \in DOMAIN queue : queue[i].slot = s /\ queue[i].acquire_called}

OnBuffersReleased(p) ==
    /\ call[p].at = "released"
    /\ base' = IF is_abandoned THEN base
               ELSE [s \in Slots |-> IF s \in ReleasedBuffers THEN NoBase ELSE base[s]]
    /\ Return(p)
    /\ UNCHANGED <<coreVars, framebuffer, controls>> /\ UnchangedTickets

(***************************************************************************)
(* The layer is destroyed: ConsumerBase::Abandon() and the Disconnect() of *)
(* the consumer.  A frame the composer holds is released before, or not at *)
(* all when the service terminates.                                        *)
(***************************************************************************)
Abandon ==
    /\ ~is_abandoned
    /\ is_abandoned' = TRUE
    /\ base' = [s \in Slots |-> NoBase]
    /\ queue' = <<>>
    /\ FreeAllBuffers /\ buffer_has_been_queued' = FALSE
    /\ SignalDequeueCondition
    /\ UNCHANGED <<override_max_buffer_count, connected, frame_counter, producerVars, framebuffer>>

-----------------------------------------------------------------------------
(***************************************************************************)
(* A new graphic buffer is none of those something still refers to.  The   *)
(* code only compares buffers of the same slot, so that the identities of  *)
(* each slot are enough.                                                   *)
(***************************************************************************)
LiveBuffers(s) ==
    {slots[s].graphic_buffer, base[s].graphic_buffer}
        \cup {queue[i].graphic_buffer : i \in {j \in DOMAIN queue : queue[j].slot = s}}
        \cup {f.graphic_buffer : f \in {f \in {framebuffer} \ {NULL} : f.slot = s}}

FreshIds(s) ==
    LET free == (1..MaxBuffers) \ {b.id : b \in LiveBuffers(s) \ {NULL}}
    IN  IF free = {} THEN {} ELSE {Min(free)}

\* the rest of a transaction that has begun
Continue(p) ==
    \/ DequeueFails(p) /\ UNCHANGED <<base, framebuffer>>
    \/ DequeueWaits(p) /\ UNCHANGED <<base, framebuffer>>
    \/ DequeueFinds(p) /\ UNCHANGED <<base, framebuffer>>
    \/ \E id \in FreshIds(call[p].slot) : DequeueAllocates(p, id) /\ UNCHANGED <<base, framebuffer>>
    \/ FrameCallback(p) /\ UNCHANGED <<base, framebuffer>>
    \/ OnBuffersReleased(p)

PreallocatedBuffers(s) ==
    {NewBuffer(id, h, shape) : id \in FreshIds(s), h \in Handles, shape \in Shapes}
        \cup {NewBuffer(id, 0, NULL) : id \in FreshIds(s)}

Transact(p) ==
    /\ \/ \E shape \in Shapes : BeginDequeue(p, shape)
       \/ \E s \in Slots :
            \/ RequestBuffer(p, s)
            \/ DetachBuffer(p, s)
            \/ CancelBuffer(p, s)
            \/ \E async \in asyncs : QueueBuffer(p, s, async)
            \/ \E buffer \in PreallocatedBuffers(s) : SetPreallocatedBuffer(p, s, buffer)
       \/ \E count \in 0..NumSlots : SetBufferCount(p, count)
       \/ \E known \in BOOLEAN : Connect(p, known)
       \/ Disconnect(p)
    /\ UNCHANGED <<base, framebuffer>>

LayerNext ==
    \/ AcquireBuffer \/ ReleaseBuffer \/ Abandon
    \/ \E p \in BinderThreads : Transact(p) \/ Continue(p)

(***************************************************************************)
(* The display is composed at every vsync, and a transaction that can go   *)
(* on does; the guest may stop sending them.                               *)
(***************************************************************************)
Fairness ==
    /\ WF_layerVars(AcquireBuffer) /\ WF_layerVars(ReleaseBuffer)
    /\ \A p \in BinderThreads : WF_layerVars(Continue(p))

LayerSpec == LayerInit /\ [][LayerNext]_layerVars /\ Fairness

-----------------------------------------------------------------------------
Tracked == {i \in DOMAIN queue : StillTracking(queue[i])}

(***************************************************************************)
(* Every slot is with one side.  A queued slot is in the queue exactly     *)
(* once, with the frame number the slot was queued with, and only queued   *)
(* slots are; an acquired slot is the one whose frame the composer holds;  *)
(* and a frame the composer holds is not with the producer, unless the     *)
(* slot has been given another buffer since.                               *)
(***************************************************************************)
OneOwner ==
    /\ \A s \in SlotsIn("Queued") :
            Cardinality({i \in Tracked : queue[i].slot = s}) = 1
    /\ \A i \in Tracked : /\ slots[queue[i].slot].buffer_state = "Queued"
                          /\ slots[queue[i].slot].frame_number = queue[i].frame_number
    /\ \A s \in SlotsIn("Acquired") :
            framebuffer # NULL /\ framebuffer.slot = s
    /\ framebuffer # NULL /\ StillTracking(framebuffer)
            => slots[framebuffer.slot].buffer_state = "Acquired"

(***************************************************************************)
(* The buffer the composer shows for a frame is the one the producer       *)
(* queued it with: ConsumerBase has not forgotten or replaced the buffer   *)
(* it was spared, whatever freed, reallocated or preallocated the slot in  *)
(* the meantime.                                                           *)
(***************************************************************************)
FrameIsTheOneQueued ==
    framebuffer # NULL => framebuffer.graphic_buffer = framebuffer.queued

(***************************************************************************)
(* A dequeue that waits while some slot is with the consumer gets out of   *)
(* its wait: no release, acquisition or destruction forgets to wake it.    *)
(***************************************************************************)
DequeueReturns ==
    \A p \in BinderThreads :
        call[p].at = "asleep" /\ InCount("Queued") \cup InCount("Acquired") # {}
            ~> call[p].at # "asleep"
=============================================================================
