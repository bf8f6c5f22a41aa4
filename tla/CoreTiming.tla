----------------------------- MODULE CoreTiming -----------------------------
(***************************************************************************)
(* The host timing thread: a queue of timed events whose callbacks it runs *)
(* without holding basic_lock, a clock it sleeps on, and a handshake that  *)
(* pauses it.                                                              *)
(*                                                                         *)
(* Three host threads take turns at every lock and atomic: the timing      *)
(* thread (ThreadLoop and Advance), a client that schedules, unschedules   *)
(* and destroys event types, and the system thread that pauses, resumes    *)
(* and finally shuts down.  The state is the state between two critical    *)
(* sections of basic_lock, so basic_lock itself is not a variable.         *)
(***************************************************************************)
EXTENDS Integers, Sequences, FiniteSets, Sequencing

CONSTANTS
  OneShot,       \* event types scheduled once
  Looping,       \* event types scheduled with a reschedule time
  SelfSched,     \* one-shot types whose callback schedules the type again
  Nobody,        \* no event type
  Delays,        \* how far into the future events are scheduled
  MaxEvents,     \* bound: events in the queue
  MaxPauses,     \* bound: calls of SyncPause
  Horizon        \* bound: the last tick of the clock; later events never run

Types == OneShot \cup Looping \cup SelfSched

ASSUME TimingAssumption ==
  /\ Nobody \notin Types
  /\ Looping \cap (OneShot \cup SelfSched) = {}
  /\ Delays \subseteq Nat
  /\ MaxEvents \in Nat /\ MaxPauses \in Nat /\ Horizon \in Nat

VARIABLES
  now,             \* GetGlobalTimeNs()
  event_queue,     \* events in the order of (time, fifo_order)
  alive,           \* the event types that still exist
  timer,           \* the timing thread: pc, event it runs, next_time
  advance_lock,    \* TRUE while the timing thread holds it
  event,           \* Common::Event event: is_set
  pause_event,     \* Common::Event pause_event: is_set
  paused, paused_set, wait_set, shutting_down,
  pause_end_time,
  client,          \* the client thread: pc and the type it works on
  control,         \* the system thread: pc and the argument of its call
  unscheduled,     \* the types for which UnscheduleEvent(Wait) returned, and
                   \* which were not scheduled by their owner since
  pauses,          \* how many calls of SyncPause were made
  start            \* history: "new" until the timing thread is at its first
                   \* pause, "early" if SyncPause was called before that

vars == <<now, event_queue, alive, timer, advance_lock, event, pause_event,
          paused, paused_set, wait_set, shutting_down, pause_end_time, client,
          control, unscheduled, pauses, start>>

clocks   == <<now, pauses, start>>
pausing  == <<pause_event, paused, paused_set, shutting_down, pause_end_time>>
others   == <<client, control, unscheduled>>

Ticks == 0..(Horizon + 1)

Events == [time : Ticks, type : Types, reschedule_time : Nat,
           running : BOOLEAN]   \* the looping event whose callback runs

Timers == [pc : {"outer", "inner", "unset", "advance", "loop", "callback",
                 "relock", "idle0", "idle", "sleep", "wake", "setp", "pwait",
                 "done"},
           type : Types \cup {Nobody}, next_time : Ticks, changed : BOOLEAN]

Clients == [pc : {"idle", "set", "uwait"}, type : Types \cup {Nobody}]

Controls == [pc : {"idle", "store", "setp", "set", "spin", "rstore", "rset",
                   "join", "end"},
             arg : BOOLEAN]

TypeOK ==
  /\ now \in 0..Horizon
  /\ event_queue \in Seq(Events) /\ Len(event_queue) <= MaxEvents
  /\ alive \subseteq Types /\ unscheduled \subseteq Types
  /\ timer \in Timers /\ client \in Clients /\ control \in Controls
  /\ advance_lock \in BOOLEAN /\ event \in BOOLEAN /\ wait_set \in BOOLEAN
  /\ pause_event \in BOOLEAN /\ paused \in BOOLEAN /\ paused_set \in BOOLEAN
  /\ shutting_down \in BOOLEAN
  /\ pause_end_time \in 0..Horizon
  /\ pauses \in 0..MaxPauses
  /\ start \in {"new", "early", "ready"}

\* Initialize(): Reset() has left the flags paused and both events set, and the
\* thread is created.
Init ==
  /\ now = 0
  /\ event_queue = << >>
  /\ alive = Types
  /\ timer = [pc |-> "outer", type |-> Nobody,
              next_time |-> 0, changed |-> FALSE]
  /\ advance_lock = FALSE
  /\ event = TRUE
  /\ pause_event = TRUE
  /\ paused = TRUE
  /\ paused_set = FALSE
  /\ wait_set = FALSE
  /\ shutting_down = FALSE
  /\ pause_end_time = 0
  /\ client = [pc |-> "idle", type |-> Nobody]
  /\ control = [pc |-> "idle", arg |-> FALSE]
  /\ unscheduled = {}
  /\ pauses = 0
  /\ start = "new"

-----------------------------------------------------------------------------
(* The queue.                                                              *)

\* Times past the horizon are all the same to this model.
Cap(time) == IF time > Horizon THEN Horizon + 1 ELSE time

\* Behind the events of the same time: a new event has a larger fifo_order.
Emplace(q, e) ==
  LET k == Cardinality({i \in DOMAIN q : q[i].time <= e.time})
  IN  SubSeq(q, 1, k) \o <<e>> \o SubSeq(q, k + 1, Len(q))

Without(q, type) == Keep(q, {i \in DOMAIN q : q[i].type # type})

ScheduledAt(type, time, reschedule_time) ==
  [time |-> Cap(time), type |-> type, reschedule_time |-> reschedule_time,
   running |-> FALSE]

-----------------------------------------------------------------------------
(* The timing thread: ThreadLoop.                                          *)

Tick ==
  /\ now < Horizon
  /\ now' = now + 1
  /\ UNCHANGED <<event_queue, alive, timer, advance_lock, event, wait_set,
                 pauses, start, pausing, others>>

Goto(pc) == timer' = [timer EXCEPT !.pc = pc]

\* The two loop conditions.
LoopConditions ==
  /\ \/ timer.pc = "outer" /\ Goto(IF shutting_down THEN "done" ELSE "inner")
     \/ timer.pc = "inner" /\ Goto(IF paused THEN "setp" ELSE "unset")
  /\ UNCHANGED <<event_queue, alive, advance_lock, event, wait_set,
                 clocks, pausing, others>>

\* paused_set = false before Advance(), paused_set = true after the inner loop.
StorePausedSet ==
  /\ \/ timer.pc = "unset" /\ paused_set' = FALSE /\ Goto("advance")
     \/ timer.pc = "setp" /\ paused_set' = TRUE /\ Goto("pwait")
  /\ start' = IF start = "new" /\ paused_set' THEN "ready" ELSE start
  /\ UNCHANGED <<now, event_queue, alive, advance_lock, event, wait_set, pauses,
                 pause_event, paused, shutting_down, pause_end_time, others>>

WaitForPauseEvent ==
  /\ timer.pc = "pwait" /\ pause_event
  /\ pause_event' = FALSE
  /\ Goto("outer")
  /\ UNCHANGED <<event_queue, alive, advance_lock, event, wait_set, clocks,
                 paused, paused_set, shutting_down, pause_end_time, others>>

\* An event is due, and what Advance() does with it depends on its type.
Due == event_queue # << >> /\ Head(event_queue).time <= now

\* Advance(): take a due event whose type exists; a one-shot event is popped.
Advance ==
  /\ \/ timer.pc = "advance" /\ ~advance_lock
     \/ timer.pc = "loop"
  /\ Due /\ Head(event_queue).type \in alive
  /\ LET evt == Head(event_queue) IN
     /\ timer' = [timer EXCEPT !.pc = "callback", !.type = evt.type]
     /\ event_queue' = IF evt.reschedule_time = 0 THEN Tail(event_queue)
                       ELSE [event_queue EXCEPT ![1].running = TRUE]
  /\ advance_lock' = TRUE
  /\ UNCHANGED <<alive, event, wait_set, clocks, pausing, others>>

\* Advance(): nothing is due.
AdvanceReturns ==
  /\ \/ timer.pc = "advance" /\ ~advance_lock
     \/ timer.pc = "loop"
  /\ ~Due
  /\ timer' = [timer EXCEPT
       !.pc = IF event_queue = << >> THEN "idle0" ELSE "sleep",
       !.next_time = IF event_queue = << >> THEN 0 ELSE Head(event_queue).time]
  /\ advance_lock' = FALSE
  /\ UNCHANGED <<event_queue, alive, event, wait_set, clocks, pausing, others>>

\* The callback, without basic_lock: it may schedule its own type again.
Callback ==
  /\ timer.pc = "callback"
  /\ Goto("relock")
  /\ IF timer.type \in SelfSched /\ Len(event_queue) < MaxEvents
     THEN /\ event_queue' = Emplace(event_queue,
                                    ScheduledAt(timer.type, now + 1, 0))
          /\ event' = TRUE
     ELSE UNCHANGED <<event_queue, event>>
  /\ UNCHANGED <<alive, advance_lock, wait_set, clocks, pausing, others>>

AfterCallback_NoSequenceCheck(new_time) ==
  /\ timer.pc = "relock"
  /\ timer' = [timer EXCEPT !.pc = "loop", !.type = Nobody, !.changed = FALSE]
  /\ event_queue' =
       IF timer.type \notin Looping THEN event_queue
       ELSE LET rest == Keep(event_queue,
                             {j \in DOMAIN event_queue : ~event_queue[j].running})
            IN  Emplace(rest, ScheduledAt(timer.type, now + 1, 1))
  /\ UNCHANGED <<alive, advance_lock, event, wait_set, clocks, pausing, others>>

\* After the callback of a looping event: unless the type was unscheduled in the
\* meantime, the event gets its next time, counted from the end of a pause that it
\* was scheduled into.  new_time is the callback's answer, 0 for none.
AfterCallback(new_time) ==
  /\ timer.pc = "relock"
  /\ timer' = [timer EXCEPT !.pc = "loop", !.type = Nobody, !.changed = FALSE]
  /\ event_queue' =
       IF timer.type \notin Looping \/ timer.changed THEN event_queue
       ELSE LET i    == CHOOSE j \in DOMAIN event_queue : event_queue[j].running
                evt  == event_queue[i]
                step == IF new_time = 0 THEN evt.reschedule_time ELSE new_time
                base == IF evt.time < pause_end_time THEN pause_end_time
                        ELSE evt.time
                rest == Keep(event_queue,
                             {j \in DOMAIN event_queue : ~event_queue[j].running})
            IN  Emplace(rest, ScheduledAt(timer.type, base + step, step))
  /\ UNCHANGED <<alive, advance_lock, event, wait_set, clocks, pausing, others>>

\* Nothing is scheduled: announce it, and wait for the event.
SetWaitSet ==
  /\ timer.pc = "idle0"
  /\ wait_set' = TRUE
  /\ Goto("idle")
  /\ UNCHANGED <<event_queue, alive, advance_lock, event, clocks, pausing, others>>

\* event.Wait(), or event.WaitFor() until the next event is due.
WaitForEvent ==
  /\ \/ timer.pc \in {"idle", "sleep"} /\ event /\ event' = FALSE
     \/ timer.pc = "sleep" /\ timer.next_time <= now /\ UNCHANGED event
  /\ timer' = [timer EXCEPT !.pc = "wake", !.next_time = 0]
  /\ UNCHANGED <<event_queue, alive, advance_lock, wait_set, clocks, pausing,
                 others>>

ClearWaitSet ==
  /\ timer.pc = "wake"
  /\ wait_set' = FALSE
  /\ Goto("inner")
  /\ UNCHANGED <<event_queue, alive, advance_lock, event, clocks, pausing, others>>

-----------------------------------------------------------------------------
(* The client.                                                             *)

\* ScheduleEvent and ScheduleLoopingEvent: emplace, then wake the thread.
Schedule(type, delay) ==
  /\ client.pc = "idle" /\ type \in alive /\ Len(event_queue) < MaxEvents
  /\ type \in Looping => delay > 0
  /\ event_queue' = Emplace(event_queue,
       ScheduledAt(type, now + delay, IF type \in Looping THEN delay ELSE 0))
  /\ client' = [pc |-> "set", type |-> Nobody]
  /\ unscheduled' = unscheduled \ {type}
  /\ UNCHANGED <<alive, timer, advance_lock, event, wait_set, clocks, pausing,
                 control>>

ScheduleSets_Never ==
  /\ client.pc = "set"
  /\ client' = [client EXCEPT !.pc = "idle"]
  /\ UNCHANGED <<event_queue, alive, timer, advance_lock, event, wait_set, clocks,
                 pausing, control, unscheduled>>

ScheduleSets ==
  /\ client.pc = "set"
  /\ event' = TRUE
  /\ client' = [client EXCEPT !.pc = "idle"]
  /\ UNCHANGED <<event_queue, alive, timer, advance_lock, wait_set, clocks,
                 pausing, control, unscheduled>>

\* UnscheduleEvent: erase the events and change the sequence number ...
Unschedule(type, wait) ==
  /\ client.pc = "idle" /\ type \in alive
  /\ event_queue' = Without(event_queue, type)
  /\ timer' = [timer EXCEPT !.changed = @ \/ timer.type = type]
  /\ client' = IF wait THEN [pc |-> "uwait", type |-> type] ELSE client
  /\ UNCHANGED <<alive, advance_lock, event, wait_set, clocks, pausing, control,
                 unscheduled>>

\* ... and, if asked to, let the callback in progress finish.
UnscheduleWaits ==
  /\ client.pc = "uwait" /\ ~advance_lock
  /\ client' = [pc |-> "idle", type |-> Nobody]
  /\ unscheduled' = unscheduled \cup {client.type}
  /\ UNCHANGED <<event_queue, alive, timer, advance_lock, event, wait_set, clocks,
                 pausing, control>>

\* The owner drops the event type, having unscheduled it.
Destroy(type) ==
  /\ client.pc = "idle" /\ type \in alive \cap unscheduled
  /\ alive' = alive \ {type}
  /\ UNCHANGED <<event_queue, timer, advance_lock, event, wait_set, clocks, pausing,
                 others>>

ClearPendingEvents ==
  /\ client.pc = "idle" /\ ~advance_lock
  /\ event_queue' = << >>
  /\ event' = TRUE
  /\ UNCHANGED <<alive, timer, advance_lock, wait_set, clocks, pausing, others>>

-----------------------------------------------------------------------------
(* The system thread.                                                      *)

\* SyncPause: nothing to do if the thread is known to be as wanted.
SyncPause(is_paused) ==
  /\ control.pc = "idle" /\ pauses < MaxPauses
  /\ pauses' = pauses + 1
  /\ start' = IF start = "new" THEN "early" ELSE start
  /\ control' = [pc |-> IF is_paused = paused /\ paused_set = paused
                        THEN "idle" ELSE "store", arg |-> is_paused]
  /\ UNCHANGED <<now, event_queue, alive, timer, advance_lock, event, wait_set,
                 pausing, client, unscheduled>>

\* Pause(): store the flag ...
PauseStores ==
  /\ control.pc = "store"
  /\ paused' = control.arg
  /\ control' = [control EXCEPT !.pc = "setp"]
  /\ UNCHANGED <<event_queue, alive, timer, advance_lock, event, wait_set, clocks,
                 pause_event, paused_set, shutting_down, pause_end_time, client,
                 unscheduled>>

\* ... wake a thread that waits in the pause, and note the end of a pause.
PauseSets ==
  /\ control.pc = "setp"
  /\ pause_event' = TRUE
  /\ pause_end_time' = IF control.arg THEN pause_end_time ELSE now
  /\ control' = [control EXCEPT !.pc = "set"]
  /\ UNCHANGED <<event_queue, alive, timer, advance_lock, event, wait_set, clocks,
                 paused, paused_set, shutting_down, client, unscheduled>>

\* SyncPause: wake the thread, whatever it waits for ...
SyncPauseSets ==
  /\ control.pc = "set"
  /\ pause_event' = (pause_event \/ ~control.arg)
  /\ event' = TRUE
  /\ control' = [control EXCEPT !.pc = "spin"]
  /\ UNCHANGED <<event_queue, alive, timer, advance_lock, wait_set, clocks, paused,
                 paused_set, shutting_down, pause_end_time, client, unscheduled>>

\* ... and spin until it answers.
SyncPauseSpins ==
  /\ control.pc = "spin" /\ paused_set = control.arg
  /\ pause_end_time' = IF control.arg THEN pause_end_time ELSE now
  /\ control' = [control EXCEPT !.pc = "idle"]
  /\ UNCHANGED <<event_queue, alive, timer, advance_lock, event, wait_set, clocks,
                 pause_event, paused, paused_set, shutting_down, client, unscheduled>>

\* Reset(): store both flags, wake the thread, and join it.
ResetStores ==
  /\ \/ /\ control.pc = "idle"
        /\ paused' = TRUE /\ UNCHANGED shutting_down
        /\ control' = [pc |-> "rstore", arg |-> TRUE]
     \/ /\ control.pc = "rstore"
        /\ shutting_down' = TRUE /\ UNCHANGED paused
        /\ control' = [control EXCEPT !.pc = "rset"]
  /\ UNCHANGED <<event_queue, alive, timer, advance_lock, event, wait_set, clocks,
                 pause_event, paused_set, pause_end_time, client, unscheduled>>

ResetSets_OnlyPauseEvent ==
  /\ control.pc = "rset"
  /\ pause_event' = TRUE
  /\ control' = [control EXCEPT !.pc = "join"]
  /\ UNCHANGED <<event_queue, alive, timer, advance_lock, event, wait_set, clocks,
                 paused, paused_set, shutting_down, pause_end_time, client,
                 unscheduled>>

ResetSets ==
  /\ control.pc = "rset"
  /\ pause_event' = TRUE /\ event' = TRUE
  /\ control' = [control EXCEPT !.pc = "join"]
  /\ UNCHANGED <<event_queue, alive, timer, advance_lock, wait_set, clocks, paused,
                 paused_set, shutting_down, pause_end_time, client, unscheduled>>

ResetJoins ==
  /\ control.pc = "join" /\ timer.pc = "done"
  /\ control' = [control EXCEPT !.pc = "end"]
  /\ UNCHANGED <<event_queue, alive, timer, advance_lock, event, wait_set, clocks,
                 pausing, client, unscheduled>>

-----------------------------------------------------------------------------
TimerThread ==
  \/ LoopConditions \/ StorePausedSet \/ WaitForPauseEvent \/ Advance
  \/ AdvanceReturns \/ Callback \/ \E d \in {0, 2} : AfterCallback(d)
  \/ SetWaitSet \/ WaitForEvent \/ ClearWaitSet

ClientReturns == ScheduleSets \/ UnscheduleWaits

ControlReturns == \/ PauseStores \/ PauseSets \/ SyncPauseSets \/ SyncPauseSpins
                  \/ (control.pc # "idle" /\ ResetStores) \/ ResetSets \/ ResetJoins

Next ==
  \/ Tick \/ TimerThread \/ ScheduleSets \/ UnscheduleWaits
  \/ \E type \in Types : \/ \E delay \in Delays : Schedule(type, delay)
                         \/ \E wait \in BOOLEAN : Unschedule(type, wait)
                         \/ Destroy(type)
  \/ ClearPendingEvents
  \/ \E b \in BOOLEAN : SyncPause(b)
  \/ PauseStores \/ PauseSets \/ SyncPauseSets \/ SyncPauseSpins
  \/ ResetStores \/ ResetSets \/ ResetJoins

\* Host threads run: the clock, the timing thread, and a call once it began.
Fairness == /\ WF_vars(Tick) /\ WF_vars(TimerThread)
            /\ WF_vars(ClientReturns) /\ WF_vars(ControlReturns)

Spec == Init /\ [][Next]_vars

FairSpec == Spec /\ Fairness

-----------------------------------------------------------------------------
(* Properties.                                                             *)

Advancing == timer.pc \in {"loop", "callback", "relock"}

\* Whenever the timing thread sleeps, nothing earlier is scheduled than what it
\* sleeps for, unless it is being woken: no ScheduleEvent() is overlooked.
NoLostWakeup ==
  timer.pc \in {"idle0", "idle", "sleep"} =>
    \A i \in DOMAIN event_queue :
      \/ timer.pc = "sleep" /\ timer.next_time <= event_queue[i].time
      \/ event \/ client.pc = "set"

\* HasPendingEvents() is false only when every callback has returned: a thread
\* that spins on it may rely on the effects of all callbacks.
NoPendingMeansDone ==
  wait_set /\ event_queue = << >> => ~Advancing /\ timer.pc # "advance"

\* Once UnscheduleEvent(Wait) returned, no callback of the type runs and none is
\* scheduled, until the owner schedules it again.  A callback that schedules its
\* own type is the exception: see NoExpiredEvent.
UnscheduleIsFinal ==
  \A type \in unscheduled \ SelfSched :
    /\ \A i \in DOMAIN event_queue : event_queue[i].type # type
    /\ ~(Advancing /\ timer.pc # "loop" /\ timer.type = type)

\* Advance() can take every event of the queue: it never meets an event whose
\* type does not exist any more, which it would neither run nor remove.
NoExpiredEvent ==
  \A i \in DOMAIN event_queue : event_queue[i].type \in alive

\* After SyncPause(true) returned, and until the next call, no callback runs.
PauseReturnsPaused ==
  control.pc = "idle" /\ control.arg /\ paused => ~Advancing

\* So it is if nobody called SyncPause before the thread was at its first pause.
PauseHolds == start # "early" => PauseReturnsPaused

\* What a caller may rely on once its call returned: UnscheduleEvent(Wait),
\* HasPendingEvents() and SyncPause(true) all promise that a callback is over.
AnswersHold == UnscheduleIsFinal /\ NoPendingMeansDone /\ PauseHolds

\* A due event of the queue is run, or unscheduled, or the thread is paused.
DueEventRuns ==
  \A type \in Types :
    (\E i \in DOMAIN event_queue :
        event_queue[i].type = type /\ event_queue[i].time <= now)
      ~> \/ paused \/ shutting_down
         \/ timer.type = type
         \/ \A i \in DOMAIN event_queue :
              event_queue[i].type = type => event_queue[i].time > now

\* Every call of the system thread returns: the pause handshake does not hang,
\* and the timing thread can be joined.
ControlEnds == (control.pc # "idle") ~> (control.pc \in {"idle", "end"})

\* The timing thread serves both the queue and the system thread, in whichever
\* of its waits a new event, a pause or the shutdown finds it.
TimingThreadProceeds == DueEventRuns /\ ControlEnds

=============================================================================
