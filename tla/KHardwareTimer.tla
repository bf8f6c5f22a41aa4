---------------------------- MODULE KHardwareTimer ----------------------------
(***************************************************************************)
(* The kernel's timer: every thread is a timer task that can be registered *)
(* for an absolute time, and one CoreTiming event stands for the hardware  *)
(* interrupt of the earliest task.                                         *)
(*                                                                         *)
(* Cancelling a task leaves the interrupt as it is, so the interrupt may   *)
(* come for nothing, and m_wakeup_time may be earlier than every task.     *)
(* CoreTiming takes the event out of its queue before it calls DoTask(),   *)
(* which then has to wait for the scheduler lock: in between, tasks are    *)
(* registered and cancelled and the event may be scheduled again.          *)
(*                                                                         *)
(* The lock m_lock makes RegisterAbsoluteTask and CancelTask one step each;*)
(* DoTask() holds it for as long as it handles tasks, one step per task.   *)
(***************************************************************************)
EXTENDS Integers, Sequences

CONSTANTS
  Tasks,      \* the timer tasks (threads)
  MaxTime,    \* the largest s64: as a wakeup time it means "disabled"
  Horizon,    \* bound: the last tick the clock of this model reaches
  NULL

ASSUME TimeAssumption == /\ MaxTime \in Nat \ {0}
                         /\ Horizon \in Nat /\ Horizon < MaxTime
                         /\ NULL \notin Tasks

VARIABLES
  now,             \* GetTick()
  m_time,          \* per task: its time, 0 while it is not registered
  m_task_tree,     \* the registered tasks in tree order
  m_next_task,     \* the task the interrupt is for
  m_wakeup_time,   \* when the interrupt comes, MaxTime while it is disabled
  event_queue,     \* CoreTiming: the times the timer's event is scheduled for
  handler,         \* "none", "called" (popped, waits for the locks), "in"
  cur_time         \* the tick DoTask() compares with

timerVars == <<now, m_time, m_task_tree, m_next_task, m_wakeup_time, event_queue,
               handler, cur_time>>

Times == 0..MaxTime

TimerTypeOK ==
  /\ now \in 0..Horizon
  /\ m_time \in [Tasks -> Times]
  /\ m_task_tree \in Seq(Tasks)
  /\ m_next_task \in Tasks \cup {NULL}
  /\ m_wakeup_time \in Times
  /\ event_queue \in SUBSET Times
  /\ handler \in {"none", "called", "in"}
  /\ cur_time \in 0..Horizon

TimerInit ==
  /\ now = 0
  /\ m_time = [t \in Tasks |-> 0]
  /\ m_task_tree = << >>
  /\ m_next_task = NULL
  /\ m_wakeup_time = MaxTime
  /\ event_queue = {}
  /\ handler = "none"
  /\ cur_time = 0

-----------------------------------------------------------------------------
(* The tree, ordered by time; a task goes behind those of the same time.   *)

\* How many registered tasks stay in front of a new one for the given time.
Before(time) ==
  CHOOSE k \in 0..Len(m_task_tree) :
    /\ \A i \in 1..Len(m_task_tree) : i <= k => m_time[m_task_tree[i]] <= time
    /\ \A i \in 1..Len(m_task_tree) : i > k => m_time[m_task_tree[i]] > time

Inserted(task, k) ==
  [i \in 1..(Len(m_task_tree) + 1) |->
     IF i <= k THEN m_task_tree[i]
     ELSE IF i = k + 1 THEN task ELSE m_task_tree[i - 1]]

Erased(p) ==
  [i \in 1..(Len(m_task_tree) - 1) |->
     IF i < p THEN m_task_tree[i] ELSE m_task_tree[i + 1]]

\* Erase a task; if it was the next task, its successor becomes the next.
RemoveTaskFromTree(task) ==
  \E p \in 1..Len(m_task_tree) :
    /\ m_task_tree[p] = task
    /\ m_task_tree' = Erased(p)
    /\ m_time' = [m_time EXCEPT ![task] = 0]
    /\ m_next_task' = IF m_next_task # task THEN m_next_task
                      ELSE IF p = Len(m_task_tree) THEN NULL
                      ELSE m_task_tree[p + 1]

\* Whether the new task, now in the tree, is the next one to handle.
IsEarlier(time) == m_next_task = NULL \/ m_time[m_next_task] > time

-----------------------------------------------------------------------------
(* The interrupt.                                                          *)

\* EnableInterrupt, which first unschedules the event (DisableInterrupt).
EnableInterrupt(wakeup_time) ==
  /\ m_wakeup_time' = wakeup_time
  /\ event_queue' = {wakeup_time}

GetInterruptEnabled == m_wakeup_time # MaxTime

-----------------------------------------------------------------------------
(* Operations.                                                             *)

Tick ==
  /\ now < Horizon
  /\ now' = now + 1
  /\ UNCHANGED <<m_time, m_task_tree, m_next_task, m_wakeup_time, event_queue,
                 handler, cur_time>>

RegisterAbsoluteTask_OnlyWhenDisabled(task, task_time) ==
  /\ handler # "in" /\ m_time[task] = 0 /\ task_time > 0
  /\ m_task_tree' = Inserted(task, Before(task_time))
  /\ m_time' = [m_time EXCEPT ![task] = task_time]
  /\ IF IsEarlier(task_time)
     THEN /\ m_next_task' = task
          /\ IF m_wakeup_time = MaxTime THEN EnableInterrupt(task_time)
             ELSE UNCHANGED <<m_wakeup_time, event_queue>>
     ELSE UNCHANGED <<m_next_task, m_wakeup_time, event_queue>>
  /\ UNCHANGED <<now, handler, cur_time>>

\* RegisterAbsoluteTask, for a task that begins a wait; its time may be past.
RegisterAbsoluteTask(task, task_time) ==
  /\ handler # "in" /\ m_time[task] = 0 /\ task_time > 0
  /\ m_task_tree' = Inserted(task, Before(task_time))
  /\ m_time' = [m_time EXCEPT ![task] = task_time]
  /\ IF IsEarlier(task_time)
     THEN /\ m_next_task' = task
          /\ IF task_time <= m_wakeup_time THEN EnableInterrupt(task_time)
             ELSE UNCHANGED <<m_wakeup_time, event_queue>>
     ELSE UNCHANGED <<m_next_task, m_wakeup_time, event_queue>>
  /\ UNCHANGED <<now, handler, cur_time>>

\* CancelTask, when the wait of the task ends before its time.
CancelTask(task) ==
  /\ handler # "in" /\ m_time[task] > 0
  /\ RemoveTaskFromTree(task)
  /\ UNCHANGED <<now, m_wakeup_time, event_queue, handler, cur_time>>

\* CoreTiming takes the due event and calls the callback.
PopEvent ==
  /\ handler = "none"
  /\ \E time \in event_queue :
       /\ time <= now
       /\ event_queue' = event_queue \ {time}
  /\ handler' = "called"
  /\ UNCHANGED <<now, m_time, m_task_tree, m_next_task, m_wakeup_time, cur_time>>

\* DoTask takes the locks: it returns at once while the interrupt is disabled.
DoTask ==
  /\ handler = "called"
  /\ IF GetInterruptEnabled
     THEN handler' = "in" /\ m_wakeup_time' = MaxTime /\ cur_time' = now
     ELSE handler' = "none" /\ UNCHANGED <<m_wakeup_time, cur_time>>
  /\ UNCHANGED <<now, m_time, m_task_tree, m_next_task, event_queue>>

\* DoInterruptTaskImpl: handle the next task if it is due (KThread::OnTimer).
DoInterruptTask ==
  /\ handler = "in"
  /\ m_next_task # NULL /\ m_time[m_next_task] <= cur_time
  /\ RemoveTaskFromTree(m_next_task)
  /\ UNCHANGED <<now, m_wakeup_time, event_queue, handler, cur_time>>

DoTaskReturns_NotEnabled ==
  /\ handler = "in"
  /\ m_next_task # NULL => m_time[m_next_task] > cur_time
  /\ handler' = "none"
  /\ UNCHANGED <<now, m_time, m_task_tree, m_next_task, m_wakeup_time, event_queue,
                 cur_time>>

\* DoTask enables the interrupt for the next task, if there is one.
DoTaskReturns ==
  LET next_time == IF m_next_task = NULL THEN 0 ELSE m_time[m_next_task] IN
  /\ handler = "in"
  /\ m_next_task # NULL => m_time[m_next_task] > cur_time
  /\ IF 0 < next_time /\ next_time <= m_wakeup_time
     THEN EnableInterrupt(next_time)
     ELSE UNCHANGED <<m_wakeup_time, event_queue>>
  /\ handler' = "none"
  /\ UNCHANGED <<now, m_time, m_task_tree, m_next_task, cur_time>>

TimerNext ==
  \/ Tick \/ PopEvent \/ DoTask \/ DoInterruptTask \/ DoTaskReturns
  \/ \E task \in Tasks : \/ CancelTask(task)
                         \/ \E time \in Times : RegisterAbsoluteTask(task, time)

\* The clock runs, CoreTiming serves due events, and DoTask gets its locks.
Fairness == /\ WF_timerVars(Tick) /\ WF_timerVars(PopEvent) /\ WF_timerVars(DoTask)
            /\ WF_timerVars(DoInterruptTask) /\ WF_timerVars(DoTaskReturns)

TimerSpec == TimerInit /\ [][TimerNext]_timerVars

FairTimerSpec == TimerSpec /\ Fairness

-----------------------------------------------------------------------------
(* Properties.                                                             *)

\* The tree holds exactly the tasks with a time, each once, in order of time,
\* and m_next_task is its first element, whatever was cancelled or handled.
TreeOrdered ==
  /\ \A i, j \in 1..Len(m_task_tree) :
       /\ m_task_tree[i] = m_task_tree[j] => i = j
       /\ i <= j => m_time[m_task_tree[i]] <= m_time[m_task_tree[j]]
  /\ \A t \in Tasks : m_time[t] > 0 <=> \E i \in 1..Len(m_task_tree) :
                                          m_task_tree[i] = t
  /\ m_next_task = IF m_task_tree = << >> THEN NULL ELSE m_task_tree[1]

\* An interrupt is always on its way for the earliest task: it comes at
\* m_wakeup_time, which is not after the task, and either CoreTiming has the event
\* or DoTask() was called and will not ignore it (a task for the largest time
\* never becomes due).
InterruptCovers ==
  m_next_task # NULL /\ handler # "in" =>
    /\ m_wakeup_time <= m_time[m_next_task]
    /\ m_wakeup_time # MaxTime =>
         m_wakeup_time \in event_queue \/ handler = "called"

\* A due task is handled or cancelled, however often tasks before it were
\* cancelled and the event was rescheduled.
DueTaskHandled ==
  \A t \in Tasks : (m_time[t] \in 1..Horizon) ~> (m_time[t] = 0)

=============================================================================
