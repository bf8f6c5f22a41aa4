------------------------ MODULE KSynchronizationObject ------------------------
(***************************************************************************)
(* Waiting for synchronization objects as the kernel implements it: every  *)
(* object has a singly linked list of the threads that wait for it, and    *)
(* the nodes of that list are an array on the stack of the waiting thread, *)
(* one node per object of the call.                                        *)
(*                                                                         *)
(* One call may name the same object twice, so a thread can be in a list   *)
(* twice; NotifyAvailable() walks a list that its own body takes apart and *)
(* reads cur_node->next after cur_node was unlinked.  The module is shown  *)
(* to implement WaitSynchronization, where there are no lists.             *)
(*                                                                         *)
(* Every operation runs under the scheduler lock and is one action.        *)
(***************************************************************************)
EXTENDS Integers, Sequences, FiniteSets

CONSTANTS
  Threads,      \* the threads that wait
  Objects,      \* the synchronization objects
  MaxObjects,   \* bound: how many objects one call names (64 in the code)
  NULL          \* the null pointer

\* thread_nodes[i] of the current wait of thread t.
Nodes == Threads \X (1..MaxObjects)

\* Threads are finitely many, and objects, nodes and the null pointer differ.
ASSUME SyncAssumption ==
  /\ IsFiniteSet(Threads) /\ MaxObjects \in Nat
  /\ Objects \cap Nodes = {} /\ NULL \notin Objects \cup Nodes

VARIABLES
  m_is_signaled,        \* per object
  next,                 \* per node: its next; per object: m_thread_list_head
  m_thread_list_tail,   \* per object
  thread,               \* per thread: the fields below
  fault                 \* UnlinkNode left its list, or UNREACHABLE() was met

vars == <<m_is_signaled, next, m_thread_list_tail, thread, fault>>

ObjectLists == UNION {[1..n -> Objects] : n \in 0..MaxObjects}
Timeouts    == {"zero", "timed", "forever"}

ThreadFields ==
  [m_state : {"run", "wait", "exited"},
   m_wait_queue : {"none", "sync", "sleep"},
   m_objects : ObjectLists,           \* the objects of the sync wait queue
   m_hardware_timer : BOOLEAN,        \* the wait queue has a timer
   m_task : BOOLEAN,                  \* a timer task is registered
   m_wait_result : {"Success", "TimedOut", "Cancelled", "TerminationRequested"},
   m_synced_index : 0..MaxObjects,    \* 0 for the code's -1
   m_cancellable : BOOLEAN,
   m_wait_cancelled : BOOLEAN,
   m_termination_requested : BOOLEAN]

TypeOK ==
  /\ m_is_signaled \in [Objects -> BOOLEAN]
  /\ next \in [Objects \cup Nodes -> Nodes \cup {NULL}]
  /\ m_thread_list_tail \in [Objects -> Nodes \cup {NULL}]
  /\ thread \in [Threads -> ThreadFields]
  /\ fault \in BOOLEAN

Init ==
  /\ m_is_signaled = [o \in Objects |-> FALSE]
  /\ next = [c \in Objects \cup Nodes |-> NULL]
  /\ m_thread_list_tail = [o \in Objects |-> NULL]
  /\ thread = [t \in Threads |->
       [m_state |-> "run", m_wait_queue |-> "none", m_objects |-> << >>,
        m_hardware_timer |-> FALSE, m_task |-> FALSE,
        m_wait_result |-> "Success", m_synced_index |-> 0,
        m_cancellable |-> FALSE, m_wait_cancelled |-> FALSE,
        m_termination_requested |-> FALSE]]
  /\ fault = FALSE

-----------------------------------------------------------------------------
(* The lists.  A record s holds next, tail and fault while a handler runs. *)

Lists == [next |-> next, tail |-> m_thread_list_tail, fault |-> fault]

LinkNode_AtHead(s, o, node) ==
  [s EXCEPT !.next = [s.next EXCEPT ![node] = s.next[o], ![o] = node],
            !.tail[o] = IF @ = NULL THEN node ELSE @]

\* LinkNode, after the node was cleared: at the tail of o.
LinkNode(s, o, node) ==
  [s EXCEPT !.next = [s.next EXCEPT
               ![node] = NULL,
               ![IF s.tail[o] = NULL THEN o ELSE s.tail[o]] = node],
            !.tail[o] = node]

\* Where the walk of UnlinkNode is after k steps from the head cell of o.
Walk(s, o) ==
  LET at[k \in 0..Cardinality(Nodes)] ==
        IF k = 0 THEN o
        ELSE IF at[k - 1] = NULL THEN NULL ELSE s.next[at[k - 1]]
  IN  at

UnlinkNode_KeepsTail(s, o, node) ==
  LET at    == Walk(s, o)
      steps == {k \in 1..Cardinality(Nodes) : at[k] = node}
      first == CHOOSE k \in steps : \A j \in steps : k <= j
  IN  IF steps = {} THEN [s EXCEPT !.fault = TRUE]
      ELSE [s EXCEPT !.next = [s.next EXCEPT ![at[first - 1]] = s.next[node]]]

\* UnlinkNode: search the predecessor from the head on, and skip the node. A
\* list without the node ends in a null pointer.
UnlinkNode(s, o, node) ==
  LET at    == Walk(s, o)
      steps == {k \in 1..Cardinality(Nodes) : at[k] = node}
      first == CHOOSE k \in steps : \A j \in steps : k <= j
  IN  IF steps = {} THEN [s EXCEPT !.fault = TRUE]
      ELSE [s EXCEPT
              !.next = [s.next EXCEPT ![at[first - 1]] = s.next[node]],
              !.tail[o] = IF s.tail[o] # node THEN s.tail[o]
                          ELSE IF first = 1 THEN NULL ELSE at[first - 1]]

\* Link, or unlink, the nodes of t for all objects of a call, in order.
LinkAll(s, t, objs) ==
  LET after[i \in 0..Len(objs)] ==
        IF i = 0 THEN s ELSE LinkNode(after[i - 1], objs[i], <<t, i>>)
  IN  after[Len(objs)]

UnlinkAll(s, t, objs) ==
  LET after[i \in 0..Len(objs)] ==
        IF i = 0 THEN s ELSE UnlinkNode(after[i - 1], objs[i], <<t, i>>)
  IN  after[Len(objs)]

-----------------------------------------------------------------------------
(* Wait queues.  The fields of a thread after its wait ended.              *)

EndWait(f, result, cancel_timer_task) ==
  [f EXCEPT !.m_wait_result = result,
            !.m_state = "run",
            !.m_wait_queue = "none",
            !.m_objects = << >>,
            !.m_hardware_timer = FALSE,
            !.m_task = @ /\ ~(cancel_timer_task /\ f.m_hardware_timer)]

\* The index NotifyAvailable reports: the first position of the object.
SyncIndex(objs, o) ==
  LET at == {i \in DOMAIN objs : objs[i] = o}
  IN  IF at = {} THEN 0 ELSE CHOOSE i \in at : \A j \in at : i <= j

\* KThread::NotifyAvailable and the handler of the thread's wait queue.
NotifyThread(s, t, o) ==
  LET f == s.thread[t]
      l == UnlinkAll(s.lists, t, f.m_objects)
  IN  IF f.m_state # "wait" THEN s
      ELSE IF f.m_wait_queue # "sync" THEN [s EXCEPT !.lists.fault = TRUE]
      ELSE [s EXCEPT
              !.lists = l,
              !.thread[t] =
                 [EndWait(f, "Success", TRUE) EXCEPT
                    !.m_synced_index = SyncIndex(f.m_objects, o),
                    !.m_cancellable = FALSE]]

NotifyAvailable_First(o) ==
  LET s == [cur |-> NULL, lists |-> Lists, thread |-> thread]
  IN  IF next[o] = NULL THEN s ELSE NotifyThread(s, next[o][1], o)

\* KSynchronizationObject::NotifyAvailable: the loop over the list of o.  The
\* successor of a node is read after the node's thread was notified.
NotifyAvailable(o) ==
  LET step[k \in 0..Cardinality(Nodes)] ==
        IF k = 0
        THEN [cur |-> next[o], lists |-> Lists, thread |-> thread]
        ELSE LET s == step[k - 1] IN
             IF s.cur = NULL THEN s
             ELSE LET r == NotifyThread(s, s.cur[1], o)
                  IN  [r EXCEPT !.cur = r.lists.next[s.cur]]
  IN  step[Cardinality(Nodes)]

\* CancelWait of the thread's wait queue.
CancelWait(t, result, cancel_timer_task) ==
  LET f == thread[t]
      s == IF f.m_wait_queue = "sync" THEN UnlinkAll(Lists, t, f.m_objects)
           ELSE Lists
      g == EndWait(f, result, cancel_timer_task)
  IN  [lists |-> s,
       fields |-> IF f.m_state # "wait" THEN f
                  ELSE IF f.m_wait_queue = "sync"
                       THEN [g EXCEPT !.m_cancellable = FALSE] ELSE g]

\* The lists become those of s.  The nodes of a wait that ended are gone with
\* the stack frame of Wait(), which returns once the lock is released.
SetLists(s) ==
  /\ next' = [c \in Objects \cup Nodes |->
       IF c \in Nodes /\ thread'[c[1]].m_wait_queue # "sync" THEN NULL
       ELSE s.next[c]]
  /\ m_thread_list_tail' = s.tail
  /\ fault' = s.fault

UnchangedLists == UNCHANGED <<next, m_thread_list_tail, fault>>

-----------------------------------------------------------------------------
(* Operations.                                                             *)

WaitCheck_FirstOnly(f, objs, timeout) ==
  IF f.m_termination_requested THEN "TerminationRequested"
  ELSE IF objs # << >> /\ m_is_signaled[objs[1]] THEN "Success"
  ELSE IF timeout = "zero" THEN "TimedOut"
  ELSE IF f.m_wait_cancelled THEN "Cancelled"
  ELSE "block"

\* What Wait() returns at once, or "block".
WaitCheck(f, objs, timeout) ==
  IF f.m_termination_requested THEN "TerminationRequested"
  ELSE IF \E i \in DOMAIN objs : m_is_signaled[objs[i]] THEN "Success"
  ELSE IF timeout = "zero" THEN "TimedOut"
  ELSE IF f.m_wait_cancelled THEN "Cancelled"
  ELSE "block"

\* Wait(): the early returns, which report the result to the caller.
WaitReturns(t, objs, timeout) ==
  LET f == thread[t]
      check == WaitCheck(f, objs, timeout)
      signaled == {i \in DOMAIN objs : m_is_signaled[objs[i]]}
  IN
  /\ f.m_state = "run" /\ check # "block"
  /\ thread' = [thread EXCEPT ![t] =
       [f EXCEPT !.m_wait_result = check,
                 !.m_synced_index =
                    IF check = "Success"
                    THEN CHOOSE i \in signaled : \A j \in signaled : i <= j
                    ELSE 0,
                 !.m_wait_cancelled = @ /\ check # "Cancelled"]]
  /\ UNCHANGED m_is_signaled
  /\ UnchangedLists

\* Wait(): link a node into the list of every object, and block.
WaitBlocks(t, objs, timeout) ==
  LET f == thread[t] IN
  /\ f.m_state = "run" /\ WaitCheck(f, objs, timeout) = "block"
  /\ thread' = [thread EXCEPT ![t] =
       [f EXCEPT !.m_state = "wait",
                 !.m_wait_queue = "sync",
                 !.m_objects = objs,
                 !.m_hardware_timer = timeout = "timed",
                 !.m_task = @ \/ timeout = "timed",
                 !.m_cancellable = TRUE,
                 !.m_synced_index = 0]]
  /\ SetLists(LinkAll(Lists, t, objs))
  /\ UNCHANGED m_is_signaled

Sleep(t) ==
  LET f == thread[t] IN
  /\ f.m_state = "run" /\ ~f.m_termination_requested
  /\ thread' = [thread EXCEPT ![t] =
       [f EXCEPT !.m_state = "wait", !.m_wait_queue = "sleep",
                 !.m_hardware_timer = TRUE, !.m_task = TRUE]]
  /\ UNCHANGED m_is_signaled
  /\ UnchangedLists

\* KReadableEvent::Signal.
Signal(o) ==
  LET s == NotifyAvailable(o) IN
  /\ m_is_signaled' = [m_is_signaled EXCEPT ![o] = TRUE]
  /\ IF m_is_signaled[o]
     THEN UNCHANGED thread /\ UnchangedLists
     ELSE /\ thread' = s.thread
          /\ SetLists([s.lists EXCEPT !.fault = @ \/ s.cur # NULL])

\* KReadableEvent::Reset.
Reset(o) ==
  /\ m_is_signaled[o]
  /\ m_is_signaled' = [m_is_signaled EXCEPT ![o] = FALSE]
  /\ UNCHANGED thread
  /\ UnchangedLists

\* The hardware timer removes the task and calls KThread::OnTimer.
OnTimer(t) ==
  LET c == CancelWait(t, "TimedOut", FALSE) IN
  /\ thread[t].m_task
  /\ thread' = [thread EXCEPT ![t] = [c.fields EXCEPT !.m_task = FALSE]]
  /\ SetLists(c.lists)
  /\ UNCHANGED m_is_signaled

\* KThread::WaitCancel, for CancelSynchronization.
WaitCancel(t) ==
  LET c == CancelWait(t, "Cancelled", TRUE) IN
  /\ IF thread[t].m_state = "wait" /\ thread[t].m_cancellable
     THEN /\ thread' = [thread EXCEPT ![t] =
                          [c.fields EXCEPT !.m_wait_cancelled = FALSE]]
          /\ SetLists(c.lists)
     ELSE /\ thread' = [thread EXCEPT ![t].m_wait_cancelled = TRUE]
          /\ UnchangedLists
  /\ UNCHANGED m_is_signaled

\* KThread::RequestTerminate, as far as it concerns a wait.
RequestTerminate(t) ==
  LET c == CancelWait(t, "TerminationRequested", TRUE) IN
  /\ thread[t].m_state # "exited" /\ ~thread[t].m_termination_requested
  /\ thread' = [thread EXCEPT ![t] =
                  [c.fields EXCEPT !.m_termination_requested = TRUE]]
  /\ SetLists(c.lists)
  /\ UNCHANGED m_is_signaled

\* KThread::Exit, by the thread itself or because it was asked to terminate.
Exit(t) ==
  /\ thread[t].m_state = "run"
  /\ thread' = [thread EXCEPT ![t].m_state = "exited",
                              ![t].m_termination_requested = TRUE]
  /\ UNCHANGED m_is_signaled
  /\ UnchangedLists

Next ==
  \/ \E t \in Threads, objs \in ObjectLists, timeout \in Timeouts :
       WaitReturns(t, objs, timeout) \/ WaitBlocks(t, objs, timeout)
  \/ \E o \in Objects : Signal(o) \/ Reset(o)
  \/ \E t \in Threads : \/ Sleep(t) \/ OnTimer(t) \/ WaitCancel(t)
                        \/ RequestTerminate(t) \/ Exit(t)

Spec == Init /\ [][Next]_vars

-----------------------------------------------------------------------------
(* Properties.                                                             *)

\* No walk over a list falls off its end or goes round, and the timer of a
\* sleeping thread is the only one that ends its wait: UnlinkNode() always finds
\* its node, the loop of NotifyAvailable() ends, and no handler that the code
\* marks UNREACHABLE() is called.
NoListFault == ~fault

\* The nodes a walk comes to, and the step in which it comes to one of them.
NodesOn(at)  == {at[k] : k \in 1..Cardinality(Nodes)} \ {NULL}
Place(at, n) == CHOOSE k \in 1..Cardinality(Nodes) : at[k] = n

\* The nodes of the current waits that name o: the thread and the position.
WaitingNodes(o) ==
  {n \in Nodes : /\ thread[n[1]].m_wait_queue = "sync"
                 /\ n[2] \in DOMAIN thread[n[1]].m_objects
                 /\ thread[n[1]].m_objects[n[2]] = o}

\* The lists are exactly the waits: the list of an object holds, each once, the
\* nodes of the current waits that name the object, and ends at its tail.
ListsMatchWaits ==
  \A o \in Objects :
    LET at == Walk(Lists, o) IN
    /\ NodesOn(at) = WaitingNodes(o)
    /\ \A j, k \in 1..Cardinality(Nodes) : at[j] = at[k] /\ at[j] # NULL => j = k
    /\ IF NodesOn(at) = {} THEN m_thread_list_tail[o] = NULL
       ELSE /\ m_thread_list_tail[o] \in NodesOn(at)
            /\ next[m_thread_list_tail[o]] = NULL

\* Every walk of a list stays in it, because the lists are the waits.
ListsAreSound == NoListFault /\ ListsMatchWaits

\* A step takes nodes out of the list of o or puts new ones behind all others,
\* and never reorders it.
KeepsOrder(o) ==
  LET before == Walk(Lists, o)
      after  == Walk([Lists EXCEPT !.next = next'], o)
  IN  \A m \in NodesOn(before) \cap NodesOn(after), n \in NodesOn(after) :
        (n \notin NodesOn(before) \/ Place(before, m) < Place(before, n))
          => Place(after, m) < Place(after, n)

\* Waiters are served in the order in which they blocked: the lists, which
\* NotifyAvailable() serves from the head on, are first in, first out.
FirstComeFirstServed == [][\A o \in Objects : KeepsOrder(o)]_vars

\* The abstract specification: the lists are forgotten.
Abs == INSTANCE WaitSynchronization WITH
  m_state <- [t \in Threads |->
                IF thread[t].m_state = "wait" THEN thread[t].m_wait_queue
                ELSE thread[t].m_state],
  m_objects <- [t \in Threads |-> thread[t].m_objects],
  m_wait_result <- [t \in Threads |-> thread[t].m_wait_result],
  m_synced_index <- [t \in Threads |-> thread[t].m_synced_index],
  m_cancellable <- [t \in Threads |-> thread[t].m_cancellable],
  m_wait_cancelled <- [t \in Threads |-> thread[t].m_wait_cancelled],
  m_timer <- {t \in Threads : thread[t].m_task},
  m_termination_requested <- [t \in Threads |-> thread[t].m_termination_requested]

\* The lists implement waiting without lists: a signal releases exactly the
\* threads that wait for the object, each with the first position of the object
\* in its call; no wait is released twice, late or by another object.
ImplementsWaitSynchronization == Abs!Spec

\* What Wait() checked still holds while the thread waits: none of its objects is
\* signalled, no cancel of it is pending, its termination is not requested, and
\* its timer task, if it has one, is that of this wait (a sleeper always has one).
WaitsKeepPromises ==
  /\ Abs!NoMissedSignal
  /\ Abs!CancelNotLost
  /\ Abs!TimerMatchesWait
  /\ Abs!TerminatingNeverWaits

=============================================================================
