-------------------------- MODULE SyncpointManager --------------------------
(***************************************************************************)
(* The host syncpoints of host1x (video_core/host1x/syncpoint_manager):    *)
(* counters that engines increment, actions that run when a counter        *)
(* reaches their value, and threads that wait for it.                      *)
(*                                                                         *)
(* fetch_add and load on a counter are outside the mutex guard, the lists  *)
(* of actions are only touched under it.  An action is run with guard held *)
(* by the thread that increments, or by the thread that registers it: with *)
(* guard held, or without if the first look at the counter suffices.  What *)
(* an action does belongs to its client; a client module extends this one, *)
(* takes a thread from BeginAction to EndAction through steps of its own,  *)
(* and adds the threads that register, wait and increment.                 *)
(***************************************************************************)
EXTENDS Naturals, Sequences, SequencesExt

CONSTANTS
    Threads,        \* host threads
    Syncpoints,     \* syncpoint ids
    MaxValue,       \* bound on the counters
    NONE            \* no thread

ASSUME SyncpointAssumption ==
    /\ NONE \notin Threads
    /\ MaxValue \in Nat

VARIABLES
    syncpoint,      \* the atomic counters syncpoints_host
    action_storage, \* per counter, the registered actions by expected value
    guard,          \* the thread that holds the mutex guard, or NONE
    call            \* per thread, where it is inside a call and its locals

spVars == <<syncpoint, action_storage, guard, call>>

(***************************************************************************)
(* A call in progress: its place, the syncpoint, the expected value (or    *)
(* the new value of an increment), the client's tag of the action, and     *)
(* where to go on once an action was run.                                  *)
(***************************************************************************)
Idle == [at |-> "idle", id |-> NONE, value |-> 0, tag |-> 0, back |-> "idle"]

At(t) == call[t].at
Goto(t, place) == call' = [call EXCEPT ![t].at = place]

(***************************************************************************)
(* RegisteredAction: a list entry.                                         *)
(***************************************************************************)
Entry(tag, value) == [tag |-> tag, expected_value |-> value]

(***************************************************************************)
(* The insertion of RegisterAction(): before the first entry whose value   *)
(* is not smaller.                                                         *)
(***************************************************************************)
Emplace(list, entry) ==
    LET later == {i \in 1..Len(list) : list[i].expected_value >= entry.expected_value}
    IN  InsertAt(list, IF later = {} THEN Len(list) + 1 ELSE Min(later), entry)

-----------------------------------------------------------------------------
(***************************************************************************)
(* RegisterAction(): the look at the counter without guard, then the       *)
(* second one and the insertion with it.                                   *)
(***************************************************************************)
BeginAction(t, back) ==
    call' = [call EXCEPT ![t].at = "action", ![t].back = back]

RegisterCheck(t) ==
    /\ At(t) = "register"
    /\ IF syncpoint[call[t].id] >= call[t].value
       THEN BeginAction(t, "registered")
       ELSE Goto(t, "register_lock")
    /\ UNCHANGED <<syncpoint, action_storage, guard>>

RegisterInsert_NoRecheck(t) ==
    /\ At(t) = "register_lock"
    /\ guard = NONE
    /\ action_storage' = [action_storage EXCEPT ![call[t].id] =
                              Emplace(@, Entry(call[t].tag, call[t].value))]
    /\ Goto(t, "registered")
    /\ UNCHANGED <<syncpoint, guard>>

RegisterInsert(t) ==
    /\ At(t) = "register_lock"
    /\ guard = NONE
    /\ IF syncpoint[call[t].id] >= call[t].value
       THEN /\ guard' = t
            /\ BeginAction(t, "register_unlock")
            /\ UNCHANGED action_storage
       ELSE /\ action_storage' = [action_storage EXCEPT ![call[t].id] =
                                      Emplace(@, Entry(call[t].tag, call[t].value))]
            /\ Goto(t, "registered")
            /\ UNCHANGED guard
    /\ UNCHANGED syncpoint

RegisterUnlock(t) ==
    /\ At(t) = "register_unlock"
    /\ guard' = NONE
    /\ Goto(t, "registered")
    /\ UNCHANGED <<syncpoint, action_storage>>

(***************************************************************************)
(* DeregisterAction(): erase the entry of the handle, if the list still    *)
(* has it.  A handle is known by what was registered; of equal entries the *)
(* one registered last comes first.                                        *)
(***************************************************************************)
Erase(list, entry) ==
    IF entry \in Range(list)
    THEN RemoveAt(list, CHOOSE i \in 1..Len(list) :
                            /\ list[i] = entry
                            /\ \A j \in 1..(i - 1) : list[j] # entry)
    ELSE list

DeregisterAction(t, id, entry) ==
    /\ guard = NONE
    /\ action_storage' = [action_storage EXCEPT ![id] = Erase(@, entry)]
    /\ UNCHANGED <<syncpoint, guard>>

(***************************************************************************)
(* Increment(): fetch_add; later, under guard, run and erase the entries   *)
(* up to the value this increment reached, and wake the waiting threads.   *)
(***************************************************************************)
IncrementHost(t, id) ==
    /\ At(t) = "idle"
    /\ syncpoint[id] < MaxValue
    /\ syncpoint' = [syncpoint EXCEPT ![id] = @ + 1]
    /\ call' = [call EXCEPT ![t] = [Idle EXCEPT !.at = "increment", !.id = id,
                                                !.value = syncpoint[id] + 1]]
    /\ UNCHANGED <<action_storage, guard>>

IncrementLock(t) ==
    /\ At(t) = "increment"
    /\ guard = NONE
    /\ guard' = t
    /\ Goto(t, "increment_loop")
    /\ UNCHANGED <<syncpoint, action_storage>>

(***************************************************************************)
(* The loop condition of Increment(): whether the first entry is run.      *)
(***************************************************************************)
FrontIsDue_Strict(t) ==
    LET list == action_storage[call[t].id]
    IN  list # <<>> /\ Head(list).expected_value < call[t].value

FrontIsDue(t) ==
    LET list == action_storage[call[t].id]
    IN  list # <<>> /\ Head(list).expected_value <= call[t].value

IncrementRun(t) ==
    /\ At(t) = "increment_loop"
    /\ FrontIsDue(t)
    /\ call' = [call EXCEPT ![t].at = "action", ![t].back = "increment_erase",
                            ![t].tag = Head(action_storage[call[t].id]).tag]
    /\ UNCHANGED <<syncpoint, action_storage, guard>>

IncrementErase(t) ==
    /\ At(t) = "increment_erase"
    /\ action_storage' = [action_storage EXCEPT ![call[t].id] = Tail(@)]
    /\ call' = [call EXCEPT ![t].at = "increment_loop", ![t].tag = 0, ![t].back = "idle"]
    /\ UNCHANGED <<syncpoint, guard>>

IncrementNotify(t) ==
    /\ At(t) = "increment_loop"
    /\ ~FrontIsDue(t)
    /\ guard' = NONE
    /\ call' = [u \in Threads |->
                    IF u = t THEN Idle
                    ELSE IF call[u].at = "waiting"
                         THEN [call[u] EXCEPT !.at = "wait_lock"]
                         ELSE call[u]]
    /\ UNCHANGED <<syncpoint, action_storage>>

(***************************************************************************)
(* Wait(): the look without guard, then the predicate under guard, before  *)
(* and after each sleep on wait_cv.                                        *)
(***************************************************************************)
WaitCheck(t) ==
    /\ At(t) = "wait"
    /\ Goto(t, IF syncpoint[call[t].id] >= call[t].value THEN "waited" ELSE "wait_lock")
    /\ UNCHANGED <<syncpoint, action_storage, guard>>

WaitSleep(t) ==
    /\ At(t) = "wait_lock"
    /\ guard = NONE
    /\ Goto(t, IF syncpoint[call[t].id] >= call[t].value THEN "waited" ELSE "waiting")
    /\ UNCHANGED <<syncpoint, action_storage, guard>>

-----------------------------------------------------------------------------
SyncpointStep(t) ==
    \/ RegisterCheck(t)
    \/ RegisterInsert(t)
    \/ RegisterUnlock(t)
    \/ IncrementLock(t)
    \/ IncrementRun(t)
    \/ IncrementErase(t)
    \/ IncrementNotify(t)
    \/ WaitCheck(t)
    \/ WaitSleep(t)

SyncpointInit ==
    /\ syncpoint = [id \in Syncpoints |-> 0]
    /\ action_storage = [id \in Syncpoints |-> <<>>]
    /\ guard = NONE
    /\ call = [t \in Threads |-> Idle]
=============================================================================
