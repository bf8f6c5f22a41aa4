---------------------------- MODULE BoundedQueue ----------------------------
(***************************************************************************)
(* The bounded queue between threads of common/bounded_threadsafe_queue.h: *)
(* a ring of Capacity places, a write index that the producer advances and *)
(* a read index that the consumer advances, both outside any mutex; each   *)
(* side sleeps on a condition variable of its own and is notified, under   *)
(* that condition variable's mutex, after the other side's index moved.    *)
(*                                                                         *)
(* MPSCQueue adds write_mutex around the producer's side.  The queue's     *)
(* only user in the GPU holds a lock of its own around EmplaceWait, so     *)
(* write_mutex is never contended and is left out: a client module starts  *)
(* at most one producer at a time, sets pc to "emplace", and goes on from  *)
(* "emplaced"; it sends the consumer to "pop" and goes on from "popped",   *)
(* or from "pop_stopped" when the stop token fired.                        *)
(***************************************************************************)
EXTENDS Naturals

CONSTANTS
    Producers,      \* threads that push
    Consumer,       \* the thread that pops
    Capacity,       \* places in the ring, a power of two
    IndexSize,      \* values of a size_t index: a multiple of Capacity
    NONE            \* no thread

Threads == Producers \union {Consumer}

ASSUME QueueAssumption ==
    /\ Consumer \notin Producers
    /\ NONE \notin Threads
    /\ Capacity \in Nat \ {0}
    /\ IndexSize \in Nat
    /\ IndexSize > Capacity
    /\ IndexSize % Capacity = 0

VARIABLES
    pc,                 \* per thread, the place in its code
    item,               \* per thread, the element it pushes or has popped
    m_data,             \* the ring
    m_read_index,
    m_write_index,
    producer_cv_mutex,  \* holder of the mutex, or NONE
    consumer_cv_mutex,
    stop                \* the stop token of the consumer's thread

queueVars == <<m_data, m_read_index, m_write_index, producer_cv_mutex, consumer_cv_mutex>>

Goto(t, place) == pc' = [pc EXCEPT ![t] = place]

QueueInit ==
    /\ m_data = [i \in 0..(Capacity - 1) |-> NONE]
    /\ m_read_index = 0
    /\ m_write_index = 0
    /\ producer_cv_mutex = NONE
    /\ consumer_cv_mutex = NONE

(***************************************************************************)
(* write_index - read_index in size_t.                                     *)
(***************************************************************************)
Used == (m_write_index + IndexSize - m_read_index) % IndexSize

-----------------------------------------------------------------------------
(***************************************************************************)
(* Emplace() with PushMode::Wait.                                          *)
(***************************************************************************)
HasRoom_OneTooMany == Used <= Capacity

HasRoom == Used < Capacity

EmplaceCheck(p) ==
    /\ pc[p] = "emplace"
    /\ producer_cv_mutex = NONE
    /\ IF HasRoom
       THEN Goto(p, "construct") /\ UNCHANGED producer_cv_mutex
       ELSE Goto(p, "full") /\ producer_cv_mutex' = p
    /\ UNCHANGED <<item, m_data, m_read_index, m_write_index, consumer_cv_mutex, stop>>

EmplaceSleep(p) ==
    /\ pc[p] = "full"
    /\ producer_cv_mutex' = NONE
    /\ Goto(p, "full_asleep")
    /\ UNCHANGED <<item, m_data, m_read_index, m_write_index, consumer_cv_mutex, stop>>

EmplaceConstruct(p) ==
    /\ pc[p] = "construct"
    /\ m_data' = [m_data EXCEPT ![m_write_index % Capacity] = item[p]]
    /\ Goto(p, "advance")
    /\ UNCHANGED <<item, m_read_index, m_write_index, producer_cv_mutex, consumer_cv_mutex, stop>>

EmplaceAdvance(p) ==
    /\ pc[p] = "advance"
    /\ m_write_index' = (m_write_index + 1) % IndexSize
    /\ Goto(p, "notify_consumer")
    /\ UNCHANGED <<item, m_data, m_read_index, producer_cv_mutex, consumer_cv_mutex, stop>>

EmplaceNotify(p) ==
    /\ pc[p] = "notify_consumer"
    /\ consumer_cv_mutex = NONE
    /\ pc' = [pc EXCEPT ![p] = "emplaced",
                        ![Consumer] = IF @ = "empty_asleep" THEN "pop" ELSE @]
    /\ UNCHANGED <<item, stop, queueVars>>

EmplaceWait(p) ==
    \/ EmplaceCheck(p)
    \/ EmplaceSleep(p)
    \/ EmplaceConstruct(p)
    \/ EmplaceAdvance(p)
    \/ EmplaceNotify(p)

-----------------------------------------------------------------------------
(***************************************************************************)
(* Pop() with PopMode::WaitWithStopToken.  A thread that is about to sleep *)
(* when the stop is requested looks at its token again.                    *)
(***************************************************************************)
PopCheck ==
    /\ pc[Consumer] = "pop"
    /\ consumer_cv_mutex = NONE
    /\ \/ stop /\ Goto(Consumer, "pop_stopped") /\ UNCHANGED consumer_cv_mutex
       \/ ~stop /\ Used # 0 /\ Goto(Consumer, "take") /\ UNCHANGED consumer_cv_mutex
       \/ ~stop /\ Used = 0 /\ Goto(Consumer, "empty") /\ consumer_cv_mutex' = Consumer
    /\ UNCHANGED <<item, m_data, m_read_index, m_write_index, producer_cv_mutex, stop>>

PopSleep ==
    /\ pc[Consumer] = "empty"
    /\ consumer_cv_mutex' = NONE
    /\ Goto(Consumer, IF stop THEN "pop" ELSE "empty_asleep")
    /\ UNCHANGED <<item, m_data, m_read_index, m_write_index, producer_cv_mutex, stop>>

PopTake ==
    /\ pc[Consumer] = "take"
    /\ item' = [item EXCEPT ![Consumer] = m_data[m_read_index % Capacity]]
    /\ Goto(Consumer, "release")
    /\ UNCHANGED <<stop, queueVars>>

PopAdvance ==
    /\ pc[Consumer] = "release"
    /\ m_read_index' = (m_read_index + 1) % IndexSize
    /\ Goto(Consumer, "notify_producer")
    /\ UNCHANGED <<item, m_data, m_write_index, producer_cv_mutex, consumer_cv_mutex, stop>>

PopNotify ==
    /\ pc[Consumer] = "notify_producer"
    /\ producer_cv_mutex = NONE
    /\ pc' = [t \in Threads |-> IF t = Consumer THEN "popped"
                                ELSE IF pc[t] = "full_asleep" THEN "emplace" ELSE pc[t]]
    /\ UNCHANGED <<item, stop, queueVars>>

PopWait ==
    \/ PopCheck
    \/ PopSleep
    \/ PopTake
    \/ PopAdvance
    \/ PopNotify
=============================================================================
