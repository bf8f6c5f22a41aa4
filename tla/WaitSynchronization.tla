------------------------- MODULE WaitSynchronization -------------------------
(***************************************************************************)
(* What waiting for synchronization objects promises, without the lists    *)
(* that implement it: a thread waits for any of several objects, at most   *)
(* until a timeout, until CancelSynchronization, or until its termination  *)
(* is requested; signalling an object releases everybody who waits for it. *)
(* KSynchronizationObject is shown to implement this module.               *)
(*                                                                         *)
(* Sources: KSynchronizationObject::Wait, KReadableEvent, KThread (OnTimer,*)
(* WaitCancel, Sleep, RequestTerminate), all under the scheduler lock.     *)
(***************************************************************************)
EXTENDS Integers, Sequences, FiniteSets

CONSTANTS
  Threads,      \* the threads that wait
  Objects,      \* the synchronization objects (events) they wait for
  MaxObjects    \* bound: how many objects one call names (64 in the code)

VARIABLES
  m_is_signaled,            \* per object
  m_state,                  \* per thread: running, or in which kind of wait
  m_objects,                \* per thread: the objects of its current wait
  m_wait_result,            \* per thread: the result of its last wait
  m_synced_index,           \* per thread: the index its last wait reported
  m_cancellable,            \* per thread
  m_wait_cancelled,         \* per thread: a cancel that found no wait to end
  m_timer,                  \* the threads with a registered timer task
  m_termination_requested   \* per thread

vars == <<m_is_signaled, m_state, m_objects, m_wait_result, m_synced_index,
          m_cancellable, m_wait_cancelled, m_timer, m_termination_requested>>

ObjectLists == UNION {[1..n -> Objects] : n \in 0..MaxObjects}
Timeouts    == {"zero", "timed", "forever"}
Results     == {"Success", "TimedOut", "Cancelled", "TerminationRequested"}

TypeOK ==
  /\ m_is_signaled \in [Objects -> BOOLEAN]
  /\ m_state \in [Threads -> {"run", "sync", "sleep", "exited"}]
  /\ m_objects \in [Threads -> ObjectLists]
  /\ m_wait_result \in [Threads -> Results]
  /\ m_synced_index \in [Threads -> (0..MaxObjects)]
  /\ m_cancellable \in [Threads -> BOOLEAN]
  /\ m_wait_cancelled \in [Threads -> BOOLEAN]
  /\ m_timer \in SUBSET Threads
  /\ m_termination_requested \in [Threads -> BOOLEAN]

\* Index 0 stands for the code's -1: no object was signalled.
Init ==
  /\ m_is_signaled = [o \in Objects |-> FALSE]
  /\ m_state = [t \in Threads |-> "run"]
  /\ m_objects = [t \in Threads |-> << >>]
  /\ m_wait_result = [t \in Threads |-> "Success"]
  /\ m_synced_index = [t \in Threads |-> 0]
  /\ m_cancellable = [t \in Threads |-> FALSE]
  /\ m_wait_cancelled = [t \in Threads |-> FALSE]
  /\ m_timer = {}
  /\ m_termination_requested = [t \in Threads |-> FALSE]

-----------------------------------------------------------------------------
WaitsFor(t, o) ==
  m_state[t] = "sync" /\ \E i \in DOMAIN m_objects[t] : m_objects[t][i] = o

\* The first position of o in a wait list that names it.
FirstIndex(objs, o) ==
  CHOOSE i \in DOMAIN objs :
    objs[i] = o /\ \A j \in DOMAIN objs : j < i => objs[j] # o

\* A call that returns without waiting.
Return(t, result, index) ==
  /\ m_wait_result' = [m_wait_result EXCEPT ![t] = result]
  /\ m_synced_index' = [m_synced_index EXCEPT ![t] = index]
  /\ UNCHANGED <<m_is_signaled, m_state, m_objects, m_cancellable, m_timer,
                 m_termination_requested>>

\* The call ends at once: termination, a signalled object, no time to wait,
\* or an earlier cancel, in this order.
WaitReturns(t, objs, timeout) ==
  LET signaled == {i \in DOMAIN objs : m_is_signaled[objs[i]]} IN
  /\ m_state[t] = "run"
  /\ \/ /\ m_termination_requested[t]
        /\ Return(t, "TerminationRequested", 0)
        /\ UNCHANGED m_wait_cancelled
     \/ /\ ~m_termination_requested[t]
        /\ \E i \in signaled : /\ \A j \in signaled : i <= j
                               /\ Return(t, "Success", i)
        /\ UNCHANGED m_wait_cancelled
     \/ /\ ~m_termination_requested[t] /\ signaled = {} /\ timeout = "zero"
        /\ Return(t, "TimedOut", 0)
        /\ UNCHANGED m_wait_cancelled
     \/ /\ ~m_termination_requested[t] /\ signaled = {} /\ timeout # "zero"
        /\ m_wait_cancelled[t]
        /\ m_wait_cancelled' = [m_wait_cancelled EXCEPT ![t] = FALSE]
        /\ Return(t, "Cancelled", 0)

\* The call blocks.
WaitBlocks(t, objs, timeout) ==
  /\ m_state[t] = "run"
  /\ ~m_termination_requested[t]
  /\ \A i \in DOMAIN objs : ~m_is_signaled[objs[i]]
  /\ timeout # "zero"
  /\ ~m_wait_cancelled[t]
  /\ m_state' = [m_state EXCEPT ![t] = "sync"]
  /\ m_objects' = [m_objects EXCEPT ![t] = objs]
  /\ m_cancellable' = [m_cancellable EXCEPT ![t] = TRUE]
  /\ m_synced_index' = [m_synced_index EXCEPT ![t] = 0]
  /\ m_timer' = IF timeout = "timed" THEN m_timer \cup {t} ELSE m_timer
  /\ UNCHANGED <<m_is_signaled, m_wait_result, m_wait_cancelled,
                 m_termination_requested>>

\* SleepThread: a wait that only the timer or a termination ends.
Sleep(t) ==
  /\ m_state[t] = "run"
  /\ ~m_termination_requested[t]
  /\ m_state' = [m_state EXCEPT ![t] = "sleep"]
  /\ m_timer' = m_timer \cup {t}
  /\ UNCHANGED <<m_is_signaled, m_objects, m_wait_result, m_synced_index,
                 m_cancellable, m_wait_cancelled, m_termination_requested>>

\* Signal an event: everybody who waits for it is released, each with the
\* position of the event in its own list.
Signal(o) ==
  LET released == {t \in Threads : ~m_is_signaled[o] /\ WaitsFor(t, o)} IN
  /\ m_is_signaled' = [m_is_signaled EXCEPT ![o] = TRUE]
  /\ m_state' = [t \in Threads |->
       IF t \in released THEN "run" ELSE m_state[t]]
  /\ m_objects' = [t \in Threads |->
       IF t \in released THEN << >> ELSE m_objects[t]]
  /\ m_wait_result' = [t \in Threads |->
       IF t \in released THEN "Success" ELSE m_wait_result[t]]
  /\ m_synced_index' = [t \in Threads |->
       IF t \in released THEN FirstIndex(m_objects[t], o) ELSE m_synced_index[t]]
  /\ m_cancellable' = [t \in Threads |-> t \notin released /\ m_cancellable[t]]
  /\ m_timer' = m_timer \ released
  /\ UNCHANGED <<m_wait_cancelled, m_termination_requested>>

\* Reset (or clear) a signalled event.
Reset(o) ==
  /\ m_is_signaled[o]
  /\ m_is_signaled' = [m_is_signaled EXCEPT ![o] = FALSE]
  /\ UNCHANGED <<m_state, m_objects, m_wait_result, m_synced_index,
                 m_cancellable, m_wait_cancelled, m_timer,
                 m_termination_requested>>

\* End the wait of t early.
Cancel(t, result) ==
  /\ m_state' = [m_state EXCEPT ![t] = "run"]
  /\ m_objects' = [m_objects EXCEPT ![t] = << >>]
  /\ m_wait_result' = [m_wait_result EXCEPT ![t] = result]
  /\ m_cancellable' = [m_cancellable EXCEPT ![t] = FALSE]
  /\ m_timer' = m_timer \ {t}
  /\ UNCHANGED <<m_is_signaled, m_synced_index>>

\* The timer of t expires.
OnTimer(t) ==
  /\ t \in m_timer
  /\ Cancel(t, "TimedOut")
  /\ UNCHANGED <<m_wait_cancelled, m_termination_requested>>

\* CancelSynchronization: end a cancellable wait, or remember the cancel.
WaitCancel(t) ==
  /\ \/ /\ m_state[t] = "sync" /\ m_cancellable[t]
        /\ m_wait_cancelled' = [m_wait_cancelled EXCEPT ![t] = FALSE]
        /\ Cancel(t, "Cancelled")
     \/ /\ ~(m_state[t] = "sync" /\ m_cancellable[t])
        /\ m_wait_cancelled' = [m_wait_cancelled EXCEPT ![t] = TRUE]
        /\ UNCHANGED <<m_is_signaled, m_state, m_objects, m_wait_result,
                       m_synced_index, m_cancellable, m_timer>>
  /\ UNCHANGED m_termination_requested

\* RequestTerminate: end any wait.
RequestTerminate(t) ==
  /\ m_state[t] # "exited" /\ ~m_termination_requested[t]
  /\ m_termination_requested' = [m_termination_requested EXCEPT ![t] = TRUE]
  /\ \/ m_state[t] \in {"sync", "sleep"} /\ Cancel(t, "TerminationRequested")
     \/ /\ m_state[t] = "run"
        /\ UNCHANGED <<m_is_signaled, m_state, m_objects, m_wait_result,
                       m_synced_index, m_cancellable, m_timer>>
  /\ UNCHANGED m_wait_cancelled

\* A running thread exits, by itself or because it was asked to terminate.
Exit(t) ==
  /\ m_state[t] = "run"
  /\ m_state' = [m_state EXCEPT ![t] = "exited"]
  /\ m_termination_requested' = [m_termination_requested EXCEPT ![t] = TRUE]
  /\ UNCHANGED <<m_is_signaled, m_objects, m_wait_result, m_synced_index,
                 m_cancellable, m_wait_cancelled, m_timer>>

Next ==
  \/ \E t \in Threads, objs \in ObjectLists, timeout \in Timeouts :
       WaitReturns(t, objs, timeout) \/ WaitBlocks(t, objs, timeout)
  \/ \E o \in Objects : Signal(o) \/ Reset(o)
  \/ \E t \in Threads : \/ Sleep(t) \/ OnTimer(t) \/ WaitCancel(t)
                        \/ RequestTerminate(t) \/ Exit(t)

Spec == Init /\ [][Next]_vars

-----------------------------------------------------------------------------
(* Properties.                                                             *)

\* Nobody waits for an object that is signalled: no signal slips between the
\* check of the objects in Wait() and the blocking.
NoMissedSignal ==
  \A t \in Threads, o \in Objects : WaitsFor(t, o) => ~m_is_signaled[o]

\* A cancel is not lost: no thread blocks in Wait() while a remembered cancel
\* of it is pending.
CancelNotLost ==
  \A t \in Threads :
    /\ m_cancellable[t] <=> m_state[t] = "sync"
    /\ m_state[t] = "sync" => ~m_wait_cancelled[t]

\* Timer tasks belong to current waits; a sleeping thread always has one.
TimerMatchesWait ==
  /\ \A t \in m_timer : m_state[t] \in {"sync", "sleep"}
  /\ \A t \in Threads : m_state[t] = "sleep" => t \in m_timer

\* No thread whose termination is requested is waiting or starts to wait.
TerminatingNeverWaits ==
  \A t \in Threads :
    m_termination_requested[t] => m_state[t] \notin {"sync", "sleep"}

=============================================================================
