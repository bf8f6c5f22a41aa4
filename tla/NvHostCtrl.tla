----------------------------- MODULE NvHostCtrl -----------------------------
(***************************************************************************)
(* The events of nvhost_ctrl (service/nvdrv/devices/nvhost_ctrl.cpp) over  *)
(* the host syncpoints.  A guest thread that waits for a syncpoint gets an *)
(* event slot; a host action registered for the slot signals the slot's    *)
(* kernel event when an engine has incremented the counter far enough.     *)
(* Guests cancel waits, register and free slots meanwhile.                 *)
(*                                                                         *)
(* The slots are protected by events_mutex, except for their status: the   *)
(* host action runs in another thread, without that mutex, and agrees with *)
(* the guests through atomic exchanges of the status only.  The counters   *)
(* of nvdrv/core/syncpoint_manager (counter_min, counter_max) are here     *)
(* too.  Guests are assumed to clear only slots that are registered.       *)
(***************************************************************************)
EXTENDS SyncpointManager, FiniteSets, FiniteSetsExt

CONSTANTS
    Waiters,        \* the threads that serve guests that submit and wait
    Managers,       \* the threads that serve guests that cancel and manage slots
    Engines,        \* the threads that increment syncpoints
    MaxNvEvents,    \* number of event slots
    MaxFails,       \* cancels after which a wait blocks (2 in the code)
    ClientManaged,  \* syncpoints whose maximum is not tracked
    WordSize        \* the counters are taken modulo this

ASSUME NvHostAssumption ==
    /\ Threads = Waiters \cup Managers \cup Engines
    /\ (Waiters \cup Managers) \cap Engines = {}
    /\ MaxNvEvents \in Nat \ {0}
    /\ MaxFails \in Nat
    /\ ClientManaged \subseteq Syncpoints
    /\ WordSize \in Nat /\ WordSize > 2 * MaxValue

VARIABLES
    counter_min,    \* cached value of each syncpoint
    counter_max,    \* value each syncpoint will have once all work is done
    events,         \* the slots
    signaled,       \* whether the kernel event of a slot is signalled
    events_mutex,   \* its holder, or NONE
    torn,           \* history: slots cancelled in the middle of their host action
    fault           \* slots whose kernel event was used after it was freed

nvVars == <<counter_min, counter_max, events, signaled, events_mutex, torn, fault>>
vars == <<syncpoint, action_storage, guard, call, counter_min, counter_max,
          events, signaled, events_mutex, torn, fault>>

Slots == 0..(MaxNvEvents - 1)

EventState == {"Available", "Waiting", "Cancelling", "Signalling", "Signalled", "Cancelled"}

TypeOK ==
    /\ syncpoint \in [Syncpoints -> 0..MaxValue]
    /\ guard \in Threads \cup {NONE}
    /\ counter_min \in [Syncpoints -> 0..MaxValue]
    /\ counter_max \in [Syncpoints -> 0..MaxValue]
    /\ events \in [Slots -> [status : EventState, fails : 0..(MaxFails + 1),
                             assigned_syncpt : Syncpoints \cup {NONE},
                             assigned_value : 0..MaxValue, registered : BOOLEAN]]
    /\ signaled \in [Slots -> BOOLEAN]
    /\ events_mutex \in Threads \cup {NONE}
    /\ torn \subseteq Slots
    /\ fault \subseteq Slots

(***************************************************************************)
(* InternalEvent as the constructor makes it.                              *)
(***************************************************************************)
NoEvent == [status |-> "Available", fails |-> 0, assigned_syncpt |-> NONE,
            assigned_value |-> 0, registered |-> FALSE]

Init ==
    /\ SyncpointInit
    /\ counter_min = [id \in Syncpoints |-> 0]
    /\ counter_max = [id \in Syncpoints |-> 0]
    /\ events = [s \in Slots |-> NoEvent]
    /\ signaled = [s \in Slots |-> FALSE]
    /\ events_mutex = NONE
    /\ torn = {}
    /\ fault = {}

IsBeingUsed(s) == events[s].status \in {"Waiting", "Cancelling", "Signalling"}

(***************************************************************************)
(* HasSyncpointExpired(), on u32 counters: the threshold of a syncpoint    *)
(* whose maximum is tracked is pending while it lies after the minimum and *)
(* up to the maximum, all modulo the word.                                 *)
(***************************************************************************)
HasSyncpointExpired(id, min, threshold) ==
    LET since(c) == (c + WordSize - threshold) % WordSize
    IN  IF id \in ClientManaged
        THEN since(min) < WordSize \div 2
        ELSE since(counter_max[id]) >= since(min)

Return(t) == call' = [call EXCEPT ![t] = Idle]

-----------------------------------------------------------------------------
(***************************************************************************)
(* Work is submitted (IncrementSyncpointMaxExt), and an engine increments  *)
(* the host counter for it, as often as the guest said it would.  The      *)
(* counter that the engines themselves wait for (IncrementGuest) is not    *)
(* one the guest's events look at.                                         *)
(***************************************************************************)
IncrementSyncpointMaxExt(t, id) ==
    /\ At(t) = "idle"
    /\ counter_max[id] < MaxValue
    /\ counter_max' = [counter_max EXCEPT ![id] = @ + 1]
    /\ UNCHANGED <<syncpoint, action_storage, guard, call, counter_min, events,
                   signaled, events_mutex, torn, fault>>

EngineIncrement(t, id) ==
    /\ syncpoint[id] < counter_max[id]
    /\ IncrementHost(t, id)
    /\ UNCHANGED nvVars

(***************************************************************************)
(* IocCtrlEventWait() up to the lock: the fence may have been reached, by  *)
(* the cached value or after UpdateMin().  Returning here forgets the      *)
(* failures of a slot the guest named itself.  The slot is a number, or    *)
(* MaxNvEvents when the call is to allocate one; numbers beyond the slots, *)
(* which are refused later, are not considered.                            *)
(***************************************************************************)
UnmarkFail(s) == IF s \in Slots THEN [events EXCEPT ![s].fails = 0] ELSE events

EventWait(t, s, id, value) ==
    /\ At(t) = "idle"
    /\ IF value = 0 \/ HasSyncpointExpired(id, counter_min[id], value)
       THEN /\ events' = UnmarkFail(s)
            /\ UNCHANGED call
       ELSE /\ call' = [call EXCEPT ![t] = [Idle EXCEPT !.at = "update_min", !.id = id,
                                                        !.value = value, !.tag = s]]
            /\ UNCHANGED events
    /\ UNCHANGED <<syncpoint, action_storage, guard, counter_min, counter_max,
                   signaled, events_mutex, torn, fault>>

UpdateMin(t) ==
    LET id == call[t].id
        s == call[t].tag
    IN  /\ At(t) = "update_min"
        /\ counter_min' = [counter_min EXCEPT ![id] = syncpoint[id]]
        /\ IF HasSyncpointExpired(id, syncpoint[id], call[t].value)
           THEN /\ events' = UnmarkFail(s)
                /\ Return(t)
           ELSE /\ Goto(t, "event_wait")
                /\ UNCHANGED events
        /\ UNCHANGED <<syncpoint, action_storage, guard, counter_max, signaled,
                       events_mutex, torn, fault>>

(***************************************************************************)
(* CreateNvEvent() and FreeNvEvent().  The assigned fields of a freed slot *)
(* are not read again before they are written, and are reset here.         *)
(***************************************************************************)
CreateNvEvent(evs, s) == [evs EXCEPT ![s] = [NoEvent EXCEPT !.registered = TRUE]]
FreeNvEvent(evs, s) == [evs EXCEPT ![s] = [NoEvent EXCEPT !.fails = evs[s].fails]]

(***************************************************************************)
(* FindFreeNvEvent(): a registered slot that is not in use and was last    *)
(* used for this syncpoint, else an unregistered one, which is created,    *)
(* else the last one not in use; 0 if there is none.                       *)
(***************************************************************************)
FindFreeNvEvent(id) ==
    LET unused == {s \in Slots : events[s].registered /\ ~IsBeingUsed(s)}
        same == {s \in unused : events[s].assigned_syncpt = id}
        unregistered == {s \in Slots : ~events[s].registered}
    IN  CASE same # {} -> Min(same)
          [] same = {} /\ unregistered # {} -> Min(unregistered)
          [] same = {} /\ unregistered = {} /\ unused # {} -> Max(unused)
          [] OTHER -> 0

(***************************************************************************)
(* The rest of IocCtrlEventWait(), under events_mutex: the slot is chosen, *)
(* a slot that failed too often waits for the counter itself (with the     *)
(* mutex held), and otherwise the slot waits and its host action is        *)
(* registered.  now is the call with a timeout of zero, which only looks.  *)
(***************************************************************************)
EventWaitLocked(t, now) ==
    LET id == call[t].id
        alloc == call[t].tag = MaxNvEvents
        slot == IF alloc THEN FindFreeNvEvent(id) ELSE call[t].tag
        found == IF alloc /\ ~events[slot].registered
                 THEN CreateNvEvent(events, slot) ELSE events
        usable == found[slot].registered /\ ~IsBeingUsed(slot)
        failing == found[slot].fails > MaxFails
    IN  /\ At(t) = "event_wait"
        /\ events_mutex = NONE
        /\ \/ /\ IF now THEN ~failing ELSE ~usable
              /\ events' = found
              /\ Return(t)
              /\ UNCHANGED events_mutex
           \/ /\ failing
              /\ now \/ usable
              /\ events' = found
              /\ events_mutex' = t
              /\ call' = [call EXCEPT ![t].at = "wait", ![t].tag = slot]
           \/ /\ ~now
              /\ usable
              /\ ~failing
              /\ events' = [found EXCEPT ![slot].status = "Waiting",
                                         ![slot].assigned_syncpt = id,
                                         ![slot].assigned_value = call[t].value]
              /\ events_mutex' = t
              /\ call' = [call EXCEPT ![t].at = "register", ![t].tag = slot]
        /\ UNCHANGED <<syncpoint, action_storage, guard, counter_min, counter_max,
                       signaled, torn, fault>>

EventWaitReturn(t) ==
    /\ At(t) \in {"registered", "waited"}
    /\ events' = IF At(t) = "waited" THEN [events EXCEPT ![call[t].tag].fails = 0] ELSE events
    /\ events_mutex' = NONE
    /\ Return(t)
    /\ UNCHANGED <<syncpoint, action_storage, guard, counter_min, counter_max,
                   signaled, torn, fault>>

-----------------------------------------------------------------------------
(***************************************************************************)
(* The host action of a slot: exchange the status for Signalling, signal   *)
(* the kernel event if the slot was waiting, store Signalled.              *)
(***************************************************************************)
ActionExchange(t) ==
    LET s == call[t].tag
    IN  /\ At(t) = "action"
        /\ events' = [events EXCEPT ![s].status = "Signalling"]
        /\ Goto(t, IF events[s].status = "Waiting" THEN "action_signal" ELSE "action_store")
        /\ UNCHANGED <<syncpoint, action_storage, guard, counter_min, counter_max,
                       signaled, events_mutex, torn, fault>>

ActionSignal(t) ==
    LET s == call[t].tag
    IN  /\ At(t) = "action_signal"
        /\ IF events[s].registered
           THEN signaled' = [signaled EXCEPT ![s] = TRUE] /\ UNCHANGED fault
           ELSE fault' = fault \cup {s} /\ UNCHANGED signaled
        /\ Goto(t, "action_store")
        /\ UNCHANGED <<syncpoint, action_storage, guard, counter_min, counter_max,
                       events, events_mutex, torn>>

ActionStore(t) ==
    LET s == call[t].tag
    IN  /\ At(t) = "action_store"
        /\ events' = [events EXCEPT ![s].status = "Signalled"]
        /\ Goto(t, call[t].back)
        /\ UNCHANGED <<syncpoint, action_storage, guard, counter_min, counter_max,
                       signaled, events_mutex, torn, fault>>

-----------------------------------------------------------------------------
(***************************************************************************)
(* IocCtrlClearEventWait(): exchange the status for Cancelling; a slot     *)
(* that was waiting takes its action back; then one more failure is        *)
(* counted, the status is stored and the kernel event cleared.  torn gets  *)
(* the slot if its host action is between its exchange and its store.      *)
(***************************************************************************)
ClearEventWait_KeepsAction(t, s) ==
    /\ At(t) = "idle"
    /\ events_mutex = NONE
    /\ events[s].registered
    /\ events_mutex' = t
    /\ events' = [events EXCEPT ![s].status = "Cancelling"]
    /\ call' = [call EXCEPT ![t] = [Idle EXCEPT !.at = "cancel_store", !.tag = s]]
    /\ torn' = IF events[s].status = "Signalling" THEN torn \cup {s} ELSE torn
    /\ UNCHANGED <<syncpoint, action_storage, guard, counter_min, counter_max,
                   signaled, fault>>

ClearEventWait(t, s) ==
    /\ At(t) = "idle"
    /\ events_mutex = NONE
    /\ events[s].registered
    /\ events_mutex' = t
    /\ events' = [events EXCEPT ![s].status = "Cancelling"]
    /\ call' = [call EXCEPT ![t] =
                    [Idle EXCEPT !.at = IF events[s].status = "Waiting"
                                        THEN "deregister" ELSE "cancel_store",
                                 !.tag = s]]
    /\ torn' = IF events[s].status = "Signalling" THEN torn \cup {s} ELSE torn
    /\ UNCHANGED <<syncpoint, action_storage, guard, counter_min, counter_max,
                   signaled, fault>>

ClearDeregister(t) ==
    LET s == call[t].tag
        id == events[s].assigned_syncpt
    IN  /\ At(t) = "deregister"
        /\ DeregisterAction(t, id, Entry(s, events[s].assigned_value))
        /\ counter_min' = [counter_min EXCEPT ![id] = syncpoint[id]]
        /\ Goto(t, "cancel_store")
        /\ UNCHANGED <<counter_max, events, signaled, events_mutex, torn, fault>>

ClearStore(t) ==
    LET s == call[t].tag
    IN  /\ At(t) = "cancel_store"
        /\ events' = [events EXCEPT ![s].status = "Cancelled",
                                    ![s].fails = IF @ > MaxFails THEN @ ELSE @ + 1]
        /\ Goto(t, "clear_kevent")
        /\ UNCHANGED <<syncpoint, action_storage, guard, counter_min, counter_max,
                       signaled, events_mutex, torn, fault>>

ClearKEvent(t) ==
    /\ At(t) = "clear_kevent"
    /\ signaled' = [signaled EXCEPT ![call[t].tag] = FALSE]
    /\ events_mutex' = NONE
    /\ Return(t)
    /\ UNCHANGED <<syncpoint, action_storage, guard, counter_min, counter_max,
                   events, torn, fault>>

(***************************************************************************)
(* FreeEvent() of several slots in turn, which stops at the first one in   *)
(* use: IocCtrlEventUnregister() for one, IocCtrlEventUnregisterBatch() for*)
(* a mask.  IocCtrlEventRegister() frees a registered slot first.          *)
(***************************************************************************)
Freed(slots) ==
    {s \in slots : events[s].registered /\ \A r \in slots : r <= s => ~(events[r].registered /\ IsBeingUsed(r))}

EventUnregister(t, slots) ==
    /\ At(t) = "idle"
    /\ events_mutex = NONE
    /\ events' = [s \in Slots |-> IF s \in Freed(slots) THEN FreeNvEvent(events, s)[s] ELSE events[s]]
    /\ signaled' = [s \in Slots |-> signaled[s] /\ s \notin Freed(slots)]
    /\ UNCHANGED <<syncpoint, action_storage, guard, call, counter_min, counter_max,
                   events_mutex, torn, fault>>

EventRegister(t, s) ==
    /\ At(t) = "idle"
    /\ events_mutex = NONE
    /\ ~events[s].registered \/ ~IsBeingUsed(s)
    /\ events' = CreateNvEvent(events, s)
    /\ signaled' = [signaled EXCEPT ![s] = FALSE]
    /\ UNCHANGED <<syncpoint, action_storage, guard, call, counter_min, counter_max,
                   events_mutex, torn, fault>>

(***************************************************************************)
(* The guest resets the kernel event after its wait ended.                 *)
(***************************************************************************)
ResetEvent(s) ==
    /\ signaled[s]
    /\ signaled' = [signaled EXCEPT ![s] = FALSE]
    /\ UNCHANGED <<syncpoint, action_storage, guard, call, counter_min, counter_max,
                   events, events_mutex, torn, fault>>

-----------------------------------------------------------------------------
(***************************************************************************)
(* A thread goes on with the call it is in.                                *)
(***************************************************************************)
Step(t) ==
    \/ SyncpointStep(t) /\ UNCHANGED nvVars
    \/ UpdateMin(t)
    \/ \E now \in BOOLEAN : EventWaitLocked(t, now)
    \/ EventWaitReturn(t)
    \/ ActionExchange(t)
    \/ ActionSignal(t)
    \/ ActionStore(t)
    \/ ClearDeregister(t)
    \/ ClearStore(t)
    \/ ClearKEvent(t)

WaiterCall(t) ==
    \E id \in Syncpoints :
        \/ IncrementSyncpointMaxExt(t, id)
        \/ \E s \in 0..MaxNvEvents, value \in 0..MaxValue : EventWait(t, s, id, value)

ManagerCall(t) ==
    \/ \E s \in Slots : ClearEventWait(t, s) \/ EventRegister(t, s)
    \/ \E slots \in SUBSET Slots : slots # {} /\ EventUnregister(t, slots)

Next ==
    \/ \E t \in Threads : Step(t)
    \/ \E t \in Waiters : WaiterCall(t)
    \/ \E t \in Managers : ManagerCall(t)
    \/ \E t \in Engines, id \in Syncpoints : EngineIncrement(t, id)
    \/ \E s \in Slots : ResetEvent(s)

(***************************************************************************)
(* A host thread goes on with a call it has begun; guests need not call,   *)
(* and engines need not have more work.                                    *)
(***************************************************************************)
Spec == Init /\ [][Next]_vars /\ \A t \in Threads : WF_vars(Step(t))

-----------------------------------------------------------------------------
(***************************************************************************)
(* A thread is running, or is about to run, the host action of a slot.     *)
(***************************************************************************)
Handles(t, s) ==
    /\ call[t].tag = s
    /\ At(t) \in {"register", "register_lock", "action"}

(***************************************************************************)
(* No completion is lost: if a slot waits for a value its counter has      *)
(* reached, a thread is on its way to the slot's action.  It registers it, *)
(* runs it, or has incremented the counter to at least that value and has  *)
(* yet to look at the list.                                                *)
(***************************************************************************)
NoLostCompletion ==
    \A s \in Slots :
        LET id == events[s].assigned_syncpt
            value == events[s].assigned_value
        IN  (events[s].status = "Waiting" /\ syncpoint[id] >= value) =>
            \E t \in Threads :
                \/ Handles(t, s)
                \/ /\ At(t) \in {"increment", "increment_loop", "action", "action_signal",
                                "action_store", "increment_erase"}
                   /\ call[t].id = id
                   /\ call[t].value >= value
                   /\ Entry(s, value) \in Range(action_storage[id])

(***************************************************************************)
(* The host action signals a kernel event only when its slot is registered *)
(* and in the hands of that action and its value has been reached: never   *)
(* early, never after a cancelled wait, never a freed event.  (A cancel in *)
(* the middle of the host action spoils this for the slot; see torn.)      *)
(***************************************************************************)
SignalIsDue ==
    [][\A s \in Slots \ torn :
          ((signaled'[s] /\ ~signaled[s]) \/ s \in fault' \ fault) =>
              /\ events[s].registered
              /\ events[s].status = "Signalling"
              /\ syncpoint[events[s].assigned_syncpt] >= events[s].assigned_value]_vars

(***************************************************************************)
(* The same without the exception.  It does not hold: a cancel between the *)
(* exchange and the store of the host action is answered at once, and the  *)
(* signal follows.                                                         *)
(***************************************************************************)
SignalIsAlwaysDue ==
    [][\A s \in Slots :
          (signaled'[s] /\ ~signaled[s]) => events[s].status = "Signalling"]_vars

(***************************************************************************)
(* A slot that waits for a value the counter has reached stops waiting:    *)
(* nothing that holds events_mutex or guard keeps the action from running. *)
(***************************************************************************)
CompletionArrives ==
    \A s \in Slots :
        (/\ events[s].status = "Waiting"
         /\ syncpoint[events[s].assigned_syncpt] >= events[s].assigned_value)
        ~> events[s].status # "Waiting"
=============================================================================
