--------------------------- MODULE KResourceLimit ---------------------------
(***************************************************************************)
(* A resource limit (core/hle/kernel/k_resource_limit.cpp) and the light   *)
(* condition variable its waiters sleep on (k_light_condition_variable.cpp)*)
(*                                                                         *)
(* A thread that exits gives its resource back in two steps: Exit()        *)
(* releases the hint, the worker that destroys the thread later releases   *)
(* the value.  Reserve() fails at once when not even the hints leave room; *)
(* when only the values are missing it waits, up to a deadline, for the    *)
(* second step.                                                            *)
(*                                                                         *)
(* m_lock is the light lock of module KLightLock, here the owner in its    *)
(* tag.  A request to terminate cancels the wait for it, and Lock() returns*)
(* to a thread that does not own it: from then on several threads may be   *)
(* inside the functions of the limit.  The scheduler lock is modelled      *)
(* because Wait() holds it across the unlock of m_lock and the insertion   *)
(* into the wait list, while other threads take m_lock.                    *)
(***************************************************************************)
EXTENDS Integers, FiniteSets, FiniteSetsExt

CONSTANTS
  Threads,       \* the threads that call the resource limit
  NoThread,      \* no owner
  Resources,     \* LimitableResource
  Amounts,       \* the amounts that are reserved
  Limits,        \* the limits that are set
  FirstLimit,    \* the limit every resource starts with
  WordBits,      \* the width of an s64
  Timeout,       \* DefaultTimeout, in ticks
  MaxTick,       \* bound: where the clock stops
  MaxCalls,      \* bound: calls of all threads together
  MaxLateCalls,  \* bound: the same, once a wait for m_lock is cancelled
  MaxWaiters,    \* bound: where lost updates of m_waiter_count stop
  Terminatable   \* the threads that may be asked to terminate

ASSUME ConstAssumption ==
  /\ IsFiniteSet(Threads) /\ NoThread \notin Threads
  /\ WordBits \in Nat \ {0}
  /\ Amounts \subseteq 1..(2^(WordBits - 1) - 1)
  /\ Limits \cup {FirstLimit} \subseteq 0..(2^(WordBits - 1) - 1)
  /\ Timeout \in Nat \ {0} /\ MaxTick \in Nat /\ MaxCalls \in Nat
  /\ MaxLateCalls \in Nat /\ MaxWaiters \in Nat
  /\ Terminatable \subseteq Threads

VARIABLES
  m_limit_values,    \* per resource
  m_current_values,  \* per resource: reserved and not given back
  m_current_hints,   \* per resource: what will not be given back soon
  m_peak_values,     \* per resource
  m_waiter_count,
  m_wait_list,       \* the wait list of m_cond_var
  m_lock,            \* the owner of m_lock
  scheduler_lock,    \* the thread inside Wait() that holds the scheduler lock
  tick,              \* KHardwareTimer::GetTick()
  timers,            \* the threads with a task in the hardware timer
  terminating,       \* the threads with m_termination_requested
  call,              \* per thread: the call it is in
  calls,             \* the number of calls made
  live, exiting,     \* history, per resource: objects that live, and objects
                     \* whose hint was released and whose value was not
  raised,            \* history: waiters whose limit was raised as they slept
  cancelled          \* history: a wait for m_lock has been cancelled

vars == <<m_limit_values, m_current_values, m_current_hints, m_peak_values,
          m_waiter_count, m_wait_list, m_lock, scheduler_lock, tick, timers,
          terminating, call, calls, live, exiting, raised, cancelled>>

values  == <<m_limit_values, m_current_values, m_current_hints, m_peak_values,
             live, exiting>>
waiting == <<m_waiter_count, m_wait_list, scheduler_lock, timers, raised>>
outside == <<tick, terminating, calls, cancelled>>

NoCall == [at |-> "idle"]

Init ==
  /\ m_limit_values = [r \in Resources |-> FirstLimit]
  /\ m_current_values = [r \in Resources |-> 0]
  /\ m_current_hints = m_current_values
  /\ m_peak_values = m_current_values
  /\ m_waiter_count = 0
  /\ m_wait_list = {}
  /\ m_lock = NoThread
  /\ scheduler_lock = NoThread
  /\ tick = 0
  /\ timers = {}
  /\ terminating = {}
  /\ call = [t \in Threads |-> NoCall]
  /\ calls = 0
  /\ live = m_current_values
  /\ exiting = m_current_values
  /\ raised = {}
  /\ cancelled = FALSE

(* Signed arithmetic of WordBits bits, Common::WrappingAdd *)
WrappingAdd(a, b) ==
  LET half == 2^(WordBits - 1)
  IN  ((a + b + half) % (2 * half)) - half

At(t, where) == call[t].at = where
Goto(t, where) == call' = [call EXCEPT ![t].at = where]

-----------------------------------------------------------------------------
(* The calls, and m_lock *)

Call(t, c) ==
  /\ At(t, "idle")
  /\ calls < (IF cancelled THEN MaxLateCalls ELSE MaxCalls)
  /\ calls' = calls + 1
  /\ call' = [call EXCEPT ![t] = c]
  /\ UNCHANGED <<m_limit_values, m_current_values, m_current_hints,
                 m_peak_values, waiting, m_lock, tick, terminating, cancelled>>

(* The deadline is the tick of the call plus DefaultTimeout, or plus 100 ms *)
(* in CreateThread(); no caller passes a negative one.                      *)
BeginReserve(t, r, v) ==
  /\ tick + Timeout <= MaxTick
  /\ Call(t, [at |-> "reserve", which |-> r, value |-> v,
              timeout |-> tick + Timeout])
  /\ UNCHANGED <<live, exiting>>

(* A reservation given up, or an object destroyed without an Exit(): value  *)
(* and hint together, of an object that lives.  Exit(): the hint.           *)
(* PostDestroy(), once Exit() has released it: the value.                   *)
BeginRelease(t, r, v) ==
  /\ \/ /\ live[r] >= v
        /\ \E value \in {0, v} :
             Call(t, [at |-> "release", which |-> r, value |-> value,
                      hint |-> v])
        /\ live' = [live EXCEPT ![r] = @ - v]
        /\ UNCHANGED exiting
     \/ /\ exiting[r] >= v
        /\ Call(t, [at |-> "release", which |-> r, value |-> v, hint |-> 0])
        /\ exiting' = [exiting EXCEPT ![r] = @ - v]
        /\ UNCHANGED live

BeginSetLimitValue(t, r, v) ==
  /\ Call(t, [at |-> "limit", which |-> r, value |-> v])
  /\ UNCHANGED <<live, exiting>>

(* Where a thread waits for m_lock, and where it is once Lock() returns:    *)
(* the constructor of KScopedLightLock, and the end of Wait().              *)
Entry == [reserve |-> "check", release |-> "give", limit |-> "set",
          relock |-> "woken"]

Inside(t) ==
  call[t].at \in {"check", "loop", "take", "wait", "woken", "give",
                  "broadcast", "set"}

Lock(t) ==
  /\ call[t].at \in DOMAIN Entry
  /\ m_lock = NoThread
  /\ m_lock' = t
  /\ Goto(t, Entry[call[t].at])
  /\ UNCHANGED <<values, waiting, outside>>

(* Whoever calls it, Unlock() leaves the lock to those that wait: a thread  *)
(* that does not own it takes it from its owner.                            *)
Unlock == m_lock' = NoThread

Return(t) ==
  /\ Unlock
  /\ call' = [call EXCEPT ![t] = NoCall]

(* What a word that t updates may hold afterwards: when another thread is   *)
(* about to update it too, at one of the places, one update can be lost.    *)
Updated(t, places, old, new) ==
  IF \E u \in Threads \ {t} : call[u].at \in places THEN {old, new} ELSE {new}

UpdatedValues(t, old, new) == Updated(t, {"take", "give"}, old, new)

(* m_waiter_count, which a thread that goes round the loop of Reserve()     *)
(* updates any number of times                                              *)
UpdatedCount(t, count) ==
  {n \in Updated(t, {"loop", "woken"}, m_waiter_count, count) :
     n = count \/ n \in 0..MaxWaiters}

-----------------------------------------------------------------------------
(* Reserve() *)

HintsAreFull(r) == m_current_hints[r] >= m_limit_values[r]

WouldOverflow_Never(r, v) == FALSE
WouldOverflow(r, v) ==
  WrappingAdd(m_current_values[r], v) <= m_current_values[r]

Fits(r, v) ==
  /\ ~WouldOverflow(r, v)
  /\ WrappingAdd(m_current_values[r], v) <= m_limit_values[r]

MayWait_Forever(t) ==
  LET r == call[t].which
  IN  WrappingAdd(m_current_hints[r], call[t].value) <= m_limit_values[r]

(* The values do not leave room, the hints do, and there is time left.  The *)
(* timeout < 0 of the code, a wait without a deadline, is not reached: see  *)
(* BeginReserve.                                                            *)
MayWait(t) ==
  LET r == call[t].which
  IN  /\ WrappingAdd(m_current_hints[r], call[t].value) <= m_limit_values[r]
      /\ tick < call[t].timeout

ReserveCheck(t) ==
  /\ At(t, "check")
  /\ IF HintsAreFull(call[t].which)
       THEN Return(t)
       ELSE Goto(t, "loop") /\ UNCHANGED m_lock
  /\ UNCHANGED <<values, waiting, outside>>

ReserveFits(t) ==
  /\ At(t, "loop")
  /\ Fits(call[t].which, call[t].value)
  /\ Goto(t, "take")
  /\ UNCHANGED <<values, waiting, m_lock, outside>>

ReserveTake(t) ==
  LET r == call[t].which
      v == call[t].value
      current == WrappingAdd(m_current_values[r], v)
      hints == WrappingAdd(m_current_hints[r], v)
      peak == Max({m_peak_values[r], current})
  IN  /\ At(t, "take")
      /\ m_current_values' \in
           UpdatedValues(t, m_current_values,
                         [m_current_values EXCEPT ![r] = current])
      /\ m_current_hints' \in
           UpdatedValues(t, m_current_hints,
                         [m_current_hints EXCEPT ![r] = hints])
      /\ m_peak_values' \in
           UpdatedValues(t, m_peak_values,
                         [m_peak_values EXCEPT ![r] = peak])
      /\ live' = [live EXCEPT ![r] = @ + v]
      /\ Return(t)
      /\ UNCHANGED <<m_limit_values, exiting, waiting, outside>>

ReserveFail(t) ==
  LET r == call[t].which
      v == call[t].value
  IN  /\ At(t, "loop")
      /\ \/ WouldOverflow(r, v)
         \/ ~Fits(r, v) /\ ~MayWait(t)
      /\ Return(t)
      /\ UNCHANGED <<values, waiting, outside>>

ReserveWait(t) ==
  LET r == call[t].which
      v == call[t].value
  IN  /\ At(t, "loop")
      /\ ~WouldOverflow(r, v) /\ ~Fits(r, v) /\ MayWait(t)
      /\ m_waiter_count' \in UpdatedCount(t, m_waiter_count + 1)
      /\ Goto(t, "wait")
      /\ UNCHANGED <<values, m_wait_list, m_lock, scheduler_lock, timers,
                     raised, outside>>

-----------------------------------------------------------------------------
(* KLightConditionVariable *)

(* Wait() of a thread that is terminating returns with m_lock still held:  *)
(* Reserve() goes round its loop until the deadline.                       *)
WaitRefused(t) ==
  /\ At(t, "wait")
  /\ scheduler_lock = NoThread
  /\ t \in terminating
  /\ Goto(t, "woken")
  /\ UNCHANGED <<values, waiting, m_lock, outside>>

WaitUnlock(t) ==
  /\ At(t, "wait")
  /\ scheduler_lock = NoThread
  /\ t \notin terminating
  /\ scheduler_lock' = t
  /\ Unlock
  /\ Goto(t, "unlocked")
  /\ UNCHANGED <<values, m_waiter_count, m_wait_list, timers, raised, outside>>

WaitPark(t) ==
  /\ At(t, "unlocked")
  /\ m_wait_list' = m_wait_list \cup {t}
  /\ timers' = timers \cup {t}
  /\ scheduler_lock' = NoThread
  /\ Goto(t, "parked")
  /\ UNCHANGED <<values, m_waiter_count, m_lock, raised, outside>>

(* EndWait() and CancelWait(): the threads leave the list and their timer *)
(* tasks are cancelled.                                                   *)
Wake(S, c) ==
  /\ m_wait_list' = m_wait_list \ S
  /\ timers' = timers \ S
  /\ raised' = raised \ S
  /\ call' = [t \in Threads |->
                IF t \in S THEN [c[t] EXCEPT !.at = "relock"] ELSE c[t]]

(* The end of Wait(), with m_lock taken again *)
ReserveWoken(t) ==
  /\ At(t, "woken")
  /\ m_waiter_count' \in UpdatedCount(t, m_waiter_count - 1)
  /\ Goto(t, "loop")
  /\ UNCHANGED <<values, m_wait_list, m_lock, scheduler_lock, timers, raised,
                 outside>>

TimedOut(t) ==
  /\ t \in timers
  /\ tick >= call[t].timeout
  /\ scheduler_lock = NoThread
  /\ Wake({t}, call)
  /\ UNCHANGED <<values, m_waiter_count, scheduler_lock, m_lock, outside>>

(* A thread that sleeps for m_lock, behind one inside: LockSlowPath()       *)
(* returns, and the thread goes on without owning m_lock.                   *)
CancelLockWait(t) ==
  /\ call[t].at \in DOMAIN Entry
  /\ \E u \in Threads \ {t} : Inside(u)
  /\ cancelled' = TRUE
  /\ Goto(t, Entry[call[t].at])
  /\ UNCHANGED <<m_wait_list, timers, raised>>

(* RequestTerminate(): the wait of a thread is cancelled, in the wait list  *)
(* or for m_lock.                                                           *)
Terminate(t) ==
  /\ t \in Terminatable \ terminating
  /\ scheduler_lock = NoThread
  /\ terminating' = terminating \cup {t}
  /\ \/ Wake({t} \cap m_wait_list, call) /\ UNCHANGED cancelled
     \/ CancelLockWait(t)
  /\ UNCHANGED <<values, m_waiter_count, scheduler_lock, m_lock, tick, calls>>

-----------------------------------------------------------------------------
(* Release() and SetLimitValue() *)

MustBroadcast_ManyWait == m_waiter_count > 1
MustBroadcast == m_waiter_count # 0

Release(t) ==
  LET r == call[t].which
      current == m_current_values[r] - call[t].value
      hints == m_current_hints[r] - call[t].hint
  IN  /\ At(t, "give")
      /\ m_current_values' \in
           UpdatedValues(t, m_current_values,
                         [m_current_values EXCEPT ![r] = current])
      /\ m_current_hints' \in
           UpdatedValues(t, m_current_hints,
                         [m_current_hints EXCEPT ![r] = hints])
      /\ IF MustBroadcast
           THEN Goto(t, "broadcast") /\ UNCHANGED m_lock
           ELSE Return(t)
      /\ exiting' = IF call[t].value = 0
                      THEN [exiting EXCEPT ![r] = @ + call[t].hint]
                      ELSE exiting
      /\ UNCHANGED <<m_limit_values, m_peak_values, live, waiting, outside>>

(* Broadcast(), then the end of Release(), which unlocks m_lock *)
Broadcast(t) ==
  /\ At(t, "broadcast")
  /\ scheduler_lock = NoThread
  /\ Wake(m_wait_list, [call EXCEPT ![t] = NoCall])
  /\ Unlock
  /\ UNCHANGED <<values, m_waiter_count, scheduler_lock, outside>>

MaySetLimit(r, v) == m_current_values[r] <= v

(* No waiter is told that the limit was raised. *)
SetLimitValue(t) ==
  LET r == call[t].which
      v == call[t].value
  IN  /\ At(t, "set")
      /\ IF MaySetLimit(r, v)
           THEN /\ m_limit_values' = [m_limit_values EXCEPT ![r] = v]
                /\ m_peak_values' =
                     [m_peak_values EXCEPT ![r] = m_current_values[r]]
                /\ raised' = raised \cup {u \in Threads :
                                            /\ call[u].at \in {"unlocked", "parked"}
                                            /\ call[u].which = r
                                            /\ v > m_limit_values[r]}
           ELSE UNCHANGED <<m_limit_values, m_peak_values, raised>>
      /\ Return(t)
      /\ UNCHANGED <<m_current_values, m_current_hints, live, exiting,
                     m_waiter_count, m_wait_list, scheduler_lock, timers,
                     outside>>

Tick ==
  /\ tick < MaxTick
  /\ tick' = tick + 1
  /\ UNCHANGED <<values, waiting, m_lock, call, calls, terminating, cancelled>>

-----------------------------------------------------------------------------
(* The steps a thread takes by itself once it is in a call *)
Step(t) ==
  \/ Lock(t)
  \/ ReserveCheck(t) \/ ReserveFits(t) \/ ReserveTake(t) \/ ReserveFail(t)
  \/ ReserveWait(t) \/ WaitRefused(t) \/ WaitUnlock(t) \/ WaitPark(t)
  \/ ReserveWoken(t)
  \/ Release(t) \/ Broadcast(t) \/ SetLimitValue(t)

Next ==
  \/ \E t \in Threads :
       \/ \E r \in Resources :
            \/ \E v \in Amounts : BeginReserve(t, r, v) \/ BeginRelease(t, r, v)
            \/ \E v \in Limits : BeginSetLimitValue(t, r, v)
       \/ Step(t)
       \/ TimedOut(t)
       \/ Terminate(t)
  \/ Tick

(* A thread in the kernel goes on, the timer interrupt comes, time passes. *)
Fairness ==
  /\ \A t \in Threads : WF_vars(Step(t) \/ TimedOut(t))
  /\ WF_vars(Tick)

Spec == Init /\ [][Next]_vars /\ Fairness

-----------------------------------------------------------------------------
(* What the calls of Release() that have still to give it back hold.  Exit()*)
(* takes the object out of what lives, but not out of the values.           *)
Releasing(r) ==
  {t \in Threads : call[t].at \in {"release", "give"} /\ call[t].which = r}

ReleasedHints(r) == SumFunction([t \in Releasing(r) |-> call[t].hint])
ReleasedValues(r) ==
  SumFunction([t \in Releasing(r) |-> Max({call[t].value, call[t].hint})])

(* The assertions of every function of KResourceLimit, and what they are   *)
(* for: what is counted is what the objects of the guest hold, the hints   *)
(* those of them that are not exiting, and neither ever passes the limit,  *)
(* whatever amounts are asked for, given back in two steps, and limits set.*)
BooksBalance ==
  \A r \in Resources :
    /\ 0 <= m_current_hints[r]
    /\ m_current_hints[r] <= m_current_values[r]
    /\ m_current_values[r] <= m_peak_values[r]
    /\ m_peak_values[r] <= m_limit_values[r]
    /\ m_current_hints[r] = live[r] + ReleasedHints(r)
    /\ m_current_values[r] = live[r] + exiting[r] + ReleasedValues(r)

(* No thread sleeps in Reserve() while what it asks for would fit, unless   *)
(* the Release() that made the room is about to broadcast, or the room came *)
(* from a higher limit.                                                     *)
SleepersAreTold ==
  \A t \in m_wait_list \ raised :
    Fits(call[t].which, call[t].value) =>
      \E u \in Threads : At(u, "broadcast")

(* The assertions of KResourceLimit hold and its books balance until a wait *)
(* for m_lock is cancelled: then two threads can pass the test of Reserve() *)
(* together, and updates can be lost.                                       *)
Accounted == ~cancelled => BooksBalance

(* Nobody sleeps in Wait() while there is room that no broadcast is about   *)
(* to tell of, until a wait for m_lock is cancelled: a Release() that does  *)
(* not own m_lock can fall between the test of Reserve() and the wait list. *)
NoSleepWithRoom == ~cancelled => SleepersAreTold

(* Every call returns: a thread that waits for room gets it, or its deadline*)
(* passes, also when it is terminating and holds m_lock as it goes round,   *)
(* and also when threads are inside that do not own m_lock.                 *)
LimitCallsReturn ==
  \A t \in Threads : ~At(t, "idle") ~> At(t, "idle")

=============================================================================
