-------------------------- MODULE KAddressArbiter ---------------------------
(***************************************************************************)
(* The address arbiter (kernel/k_address_arbiter): threads wait for a word *)
(* of guest memory to change and are woken by address.                     *)
(*                                                                         *)
(* The scheduler lock protects the tree of waiters, not the word: guest    *)
(* code reads and writes it while a system call holds the lock.  A call is *)
(* therefore two steps, the access to the word and the rest, with the lock *)
(* held in between; an exclusive read and write that is repeated until it  *)
(* succeeds is one access.  The word is a signed number; the weight of its *)
(* highest bit, 2^31 in the code, is a parameter.                          *)
(***************************************************************************)
EXTENDS Integers, Sequences, FiniteSets, FiniteSetsExt, Functions, Sequencing

CONSTANTS
    Threads,
    Addresses,      \* numbers, ordered as the addresses are
    Priorities,     \* numbers, the smallest is the highest priority
    Values,         \* the values a guest passes and stores
    Counts,         \* the counts a guest passes
    SignBit,        \* the weight of the highest bit of the word
    MaxCalls,       \* bound on the calls and stores of the guest
    MaxChanges,     \* bound on the changes of priority and the terminations
    NONE            \* no thread, no address

ASSUME ArbiterAssumption ==
    /\ Addresses \subseteq Nat /\ Priorities \subseteq Nat
    /\ Values \subseteq Int /\ Counts \subseteq Int
    /\ SignBit \in Nat \ {0, 1}
    /\ NONE \notin Threads \cup Addresses

VARIABLES
    word,           \* guest memory
    tree,           \* m_tree: the waiters, in order
    lock,           \* the thread that holds the scheduler lock, or NONE
    call,           \* per thread, where it is and the arguments of its call
    priority,
    terminating,    \* per thread, a termination was requested
    owes,           \* per thread, the address it stored to and must signal
    stale,          \* waiters whose word was stored to since they read it
    calls, changes

WaitTypes == {"WaitIfLessThan", "DecrementAndWaitIfLessThan", "WaitIfEqual"}

SignalTypes == {"Signal", "SignalAndIncrementIfEqual", "SignalAndModifyByWaitingCountIfEqual"}

Calls == [at : {"running", "checked", "parked", "signalling"},
          type : SignalTypes \cup {NONE}, addr : Addresses \cup {NONE},
          value : Int, count : Int, new : Int, timed : BOOLEAN]

TypeOK ==
    /\ word \in [Addresses -> Int]
    /\ tree \in Seq(Threads)
    /\ lock \in Threads \cup {NONE}
    /\ call \in [Threads -> Calls]
    /\ priority \in [Threads -> Priorities]
    /\ terminating \subseteq Threads
    /\ owes \in [Threads -> Addresses \cup {NONE}]
    /\ stale \subseteq Threads

vars == <<word, tree, lock, call, priority, terminating, owes, stale, calls, changes>>

Idle == [at |-> "running", type |-> NONE, addr |-> NONE, value |-> 0, count |-> 0,
         new |-> 0, timed |-> FALSE]

Checked(a, timed) ==
    [at |-> "checked", type |-> NONE, addr |-> a, value |-> 0, count |-> 0,
     new |-> 0, timed |-> timed]

Signalling(type, a, v, n, new) ==
    [at |-> "signalling", type |-> type, addr |-> a, value |-> v, count |-> n,
     new |-> new, timed |-> FALSE]

Init ==
    /\ word = [a \in Addresses |-> 0]
    /\ tree = <<>>
    /\ lock = NONE
    /\ call = [t \in Threads |-> Idle]
    /\ priority \in [Threads -> Priorities]
    /\ terminating = {}
    /\ owes = [t \in Threads |-> NONE]
    /\ stale = {}
    /\ calls = 0 /\ changes = 0

Running(t) == call[t].at = "running" /\ t \notin terminating
Called == calls < MaxCalls /\ calls' = calls + 1

\* the two's complement number with the bits of a sum
Wrap(n) ==
    LET m == n % (2 * SignBit) IN IF m >= SignBit THEN m - 2 * SignBit ELSE m

-----------------------------------------------------------------------------
(***************************************************************************)
(* The order of the tree: by address, then by priority; a thread goes      *)
(* behind its equals.                                                      *)
(***************************************************************************)
NotAfter(a, p, t) ==
    \/ call[t].addr < a
    \/ call[t].addr = a /\ priority[t] <= p

Insert(seq, t, a, p) ==
    LET n == Cardinality({i \in DOMAIN seq : NotAfter(a, p, seq[i])})
    IN  SubSeq(seq, 1, n) \o <<t>> \o SubSeq(seq, n + 1, Len(seq))

\* nfind_key and the walk from there
WaitersOf(a) == Keep(tree, {i \in DOMAIN tree : call[tree[i]].addr = a})

-----------------------------------------------------------------------------
(***************************************************************************)
(* WaitForAddress(): the lock is taken and the word read, and decremented  *)
(* if that is asked for.  A call that finds another value, or that the     *)
(* thread is to terminate, returns and has changed nothing.                *)
(***************************************************************************)
MustSleep(type, a, v) == IF type = "WaitIfEqual" THEN word[a] = v ELSE word[a] < v

WaitRead(t, type, a, v, timeout) ==
    /\ Running(t) /\ owes[t] = NONE /\ lock = NONE
    /\ MustSleep(type, a, v)
    /\ Called
    /\ word' = IF type = "DecrementAndWaitIfLessThan"
               THEN [word EXCEPT ![a] = Wrap(@ - 1)] ELSE word
    /\ IF timeout # "zero"
       THEN /\ lock' = t
            /\ call' = [call EXCEPT ![t] = Checked(a, timeout = "some")]
       ELSE UNCHANGED <<lock, call>>
    /\ UNCHANGED <<tree, priority, terminating, owes, stale, changes>>

(***************************************************************************)
(* WaitForAddress(), the rest: into the tree, and asleep as the lock is    *)
(* let go.                                                                 *)
(***************************************************************************)
WaitPark(t) ==
    /\ call[t].at = "checked" /\ lock = t
    /\ tree' = Insert(tree, t, call[t].addr, priority[t])
    /\ call' = [call EXCEPT ![t].at = "parked"]
    /\ lock' = NONE
    /\ UNCHANGED <<word, priority, terminating, owes, stale, calls, changes>>

\* the end of the waits of some threads, in the tree and in their calls
Leave(woken) ==
    /\ tree' = Keep(tree, {i \in DOMAIN tree : tree[i] \notin woken})
    /\ stale' = stale \ woken

(***************************************************************************)
(* CancelWait(), for a timeout.                                            *)
(***************************************************************************)
TimedOut(t) ==
    /\ lock = NONE
    /\ call[t].at = "parked" /\ call[t].timed
    /\ Leave({t})
    /\ call' = [call EXCEPT ![t] = Idle]
    /\ UNCHANGED <<word, lock, priority, terminating, owes, calls, changes>>

(***************************************************************************)
(* CancelWait(), for a termination.  A thread that is not waiting ends     *)
(* when it would next enter or leave the kernel.                           *)
(***************************************************************************)
Terminate(t) ==
    /\ lock = NONE
    /\ changes < MaxChanges /\ changes' = changes + 1
    /\ t \notin terminating /\ owes[t] = NONE
    /\ terminating' = terminating \cup {t}
    /\ IF call[t].at = "parked"
       THEN Leave({t}) /\ call' = [call EXCEPT ![t] = Idle]
       ELSE UNCHANGED <<tree, stale, call>>
    /\ UNCHANGED <<word, lock, priority, owes, calls>>

(***************************************************************************)
(* A thread gets another priority: BeforeUpdatePriority() takes a waiter   *)
(* out of its tree, and AfterUpdatePriority() puts it back.                *)
(***************************************************************************)
Relink_InPlace(t, p) == tree

Relink(t, p) ==
    IF t \in Range(tree)
    THEN Insert(Keep(tree, {i \in DOMAIN tree : tree[i] # t}), t, call[t].addr, p)
    ELSE tree

SetPriority(t, p) ==
    /\ lock = NONE
    /\ changes < MaxChanges /\ changes' = changes + 1
    /\ p # priority[t]
    /\ priority' = [priority EXCEPT ![t] = p]
    /\ tree' = Relink(t, p)
    /\ UNCHANGED <<word, lock, call, terminating, owes, stale, calls>>

-----------------------------------------------------------------------------
(***************************************************************************)
(* SignalAndModifyByWaitingCountIfEqual(): the value to write.  Beyond the *)
(* first, the waiters are counted up to one more than count.               *)
(***************************************************************************)
CountedAfterFirst(a, n) == Min({Len(WaitersOf(a)) - 1, n + 1})

FewWaiters_OffByOne(a, n) == CountedAfterFirst(a, n) <= n

FewWaiters(a, n) == CountedAfterFirst(a, n) < n

ModifiedValue(a, v, n) ==
    IF WaitersOf(a) = <<>> THEN Wrap(v + 1)
    ELSE IF n <= 0 THEN Wrap(v - 2)
    ELSE IF FewWaiters(a, n) THEN Wrap(v - 1)
    ELSE v

(***************************************************************************)
(* SignalToAddress(): the lock is taken and, for two of the types, the     *)
(* word compared with the value and replaced; a call that finds another    *)
(* value returns and has changed nothing.                                  *)
(***************************************************************************)
NewValue(type, a, v, n) ==
    CASE type = "Signal" -> word[a]
      [] type = "SignalAndIncrementIfEqual" -> Wrap(v + 1)
      [] type = "SignalAndModifyByWaitingCountIfEqual" -> ModifiedValue(a, v, n)

SignalUpdate(t, type, a, v, n) ==
    /\ Running(t) /\ lock = NONE
    /\ owes[t] # NONE => type = "Signal" /\ a = owes[t] /\ n <= 0
    /\ Called
    /\ type = "Signal" \/ word[a] = v
    /\ lock' = t
    /\ word' = [word EXCEPT ![a] = NewValue(type, a, v, n)]
    /\ call' = [call EXCEPT ![t] = Signalling(type, a, v, n, word'[a])]
    /\ UNCHANGED <<tree, priority, terminating, owes, stale, changes>>

(***************************************************************************)
(* SignalToAddress(), the rest: the first waiters of the address, up to    *)
(* count, or all of them, end their waits.                                 *)
(***************************************************************************)
Woken_NoneForAll(a, n) ==
    LET w == WaitersOf(a) IN Range(SubSeq(w, 1, Min({n, Len(w)})))

Woken(a, n) ==
    LET w == WaitersOf(a) IN Range(IF n <= 0 THEN w ELSE SubSeq(w, 1, Min({n, Len(w)})))

SignalWake(t) ==
    /\ call[t].at = "signalling" /\ lock = t
    /\ LET woken == Woken(call[t].addr, call[t].count)
       IN  /\ Leave(woken)
           /\ call' = [u \in Threads |-> IF u \in woken \cup {t} THEN Idle ELSE call[u]]
    /\ owes' = [owes EXCEPT ![t] = NONE]
    /\ lock' = NONE
    /\ UNCHANGED <<word, priority, terminating, calls, changes>>

(***************************************************************************)
(* Guest code stores to the word, to signal the address afterwards.        *)
(***************************************************************************)
Store(t, a, v) ==
    /\ Running(t) /\ owes[t] = NONE
    /\ Called
    /\ v # word[a]
    /\ word' = [word EXCEPT ![a] = v]
    /\ owes' = [owes EXCEPT ![t] = a]
    /\ stale' = stale \cup {u \in Threads :
                    call[u].at \in {"checked", "parked"} /\ call[u].addr = a}
    /\ UNCHANGED <<tree, lock, call, priority, terminating, changes>>

-----------------------------------------------------------------------------
Timeouts == {"zero", "some", "none"}

\* the rest of a call that holds the lock
Finish(t) == WaitPark(t) \/ SignalWake(t)

Next ==
    \E t \in Threads :
        \/ \E type \in WaitTypes, a \in Addresses, v \in Values, timeout \in Timeouts :
                WaitRead(t, type, a, v, timeout)
        \/ \E type \in SignalTypes, a \in Addresses, v \in Values, n \in Counts :
                SignalUpdate(t, type, a, v, n)
        \/ \E a \in Addresses, v \in Values : Store(t, a, v)
        \/ \E p \in Priorities : SetPriority(t, p)
        \/ Finish(t) \/ TimedOut(t) \/ Terminate(t)

Spec == Init /\ [][Next]_vars

-----------------------------------------------------------------------------
(***************************************************************************)
(* A thread does not sleep through the signal that follows a store: as     *)
(* long as a waiter sleeps on a word that was stored to after it had read  *)
(* it, the thread that stored has still to signal.                         *)
(***************************************************************************)
NoSleepPastSignal ==
    \A w \in stale : \E t \in Threads : owes[t] = call[w].addr

\* the waiters of the address a signal is for, and those it leaves waiting
WaitingFor(a) == {u \in Threads : call[u].at = "parked" /\ call[u].addr = a}
LeftBy(t) == {u \in WaitingFor(call[t].addr) : call'[u].at = "parked"}
WokenBy(t) == WaitingFor(call[t].addr) \ LeftBy(t)

(***************************************************************************)
(* The waiters a signal wakes are the best: none that is left waiting for  *)
(* the address has a higher priority, whatever changes of priority, new    *)
(* waits, timeouts and terminations came before.                           *)
(***************************************************************************)
WakesTheBest(t) == \A u \in LeftBy(t), w \in WokenBy(t) : priority[w] <= priority[u]

BestWaitersFirst == [][\A t \in Threads : SignalWake(t) => WakesTheBest(t)]_vars

(***************************************************************************)
(* SignalAndModifyByWaitingCountIfEqual tells the guest what it did: it    *)
(* has written one more than the value if nobody waited, the value itself  *)
(* if waiters are left, and less than the value if it has woken them all.  *)
(***************************************************************************)
TellsTheGuest(t) ==
    LET told == Wrap(call[t].new - call[t].value)
    IN  /\ told = 1 <=> WaitingFor(call[t].addr) = {}
        /\ told = 0 <=> LeftBy(t) # {}
        /\ told \in {-1, -2} <=> WaitingFor(call[t].addr) # {} /\ LeftBy(t) = {}

ModifyTellsWaiters ==
    [][\A t \in Threads :
        /\ SignalWake(t)
        /\ call[t].type = "SignalAndModifyByWaitingCountIfEqual"
        => TellsTheGuest(t)]_vars
=============================================================================
