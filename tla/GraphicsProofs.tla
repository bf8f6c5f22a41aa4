--------------------------- MODULE GraphicsProofs ---------------------------
(***************************************************************************)
(* Proofs about the GPU thread, the bounded queue of its commands and the  *)
(* fence manager behind it, for any number of pushing threads, any         *)
(* capacity of the ring, both kinds of GPU emulation and of renderer:      *)
(*                                                                         *)
(*  - commands execute in the order of their fences, each once.  A fence   *)
(*    number is the position of its command in the stream: the invariant   *)
(*    counts how many commands were written (Written) and read (Read), and *)
(*    says that the two indices are these counts modulo IndexSize and that *)
(*    the ring holds the commands in between;                              *)
(*  - a request never outlives the frame of its caller.  The caller only   *)
(*    compares a count, so the invariant says that the requests run in     *)
(*    order and are counted one behind another;                            *)
(*  - fences, committed downloads and lists of operations move together,   *)
(*    and operations run in their order, never before the host reached     *)
(*    their fence.  Fences and operations are numbered, so the invariant   *)
(*    places each queue in the numbers: the k-th fence is number           *)
(*    Released + k, and the lists of operations are consecutive stretches. *)
(*                                                                         *)
(* The last part is about a layer's buffer queue, for any number of slots, *)
(* buffers and frames and a guest that keeps to one thread and one swap    *)
(* mode: every slot is with one side, and a frame is shown with the buffer *)
(* it was queued with.  The invariant says it slot by slot (SlotOK), and   *)
(* says of the frames in the queue when the consumer may be spared their   *)
(* buffer (FramesOK).                                                      *)
(***************************************************************************)
EXTENDS GpuThread, BufferQueue, FiniteSetTheorems, SequenceTheorems, TLAPS

-----------------------------------------------------------------------------
(* Arithmetic modulo a capacity.                                           *)

\* Quotient and remainder are unique.
LEMMA ModUnique ==
    ASSUME NEW a \in Int, NEW c \in Nat \ {0}, NEW q \in Int, NEW r \in 0..(c - 1),
           a = c * q + r
    PROVE  a % c = r
OBVIOUS

LEMMA ModSplit ==
    ASSUME NEW a \in Int, NEW c \in Nat \ {0}
    PROVE  \E q \in Int : \E r \in 0..(c - 1) : a = c * q + r /\ a % c = r
<1>1. a \div c \in Int /\ a = c * (a \div c) + (a % c) /\ a % c \in 0..(c - 1)
  OBVIOUS
<1> QED BY <1>1

\* An index that is advanced: the remainder of a sum.
LEMMA ModOfSum ==
    ASSUME NEW a \in Int, NEW c \in Nat \ {0}, NEW b \in Int
    PROVE  ((a % c) + b) % c = (a + b) % c
<1>1. PICK q \in Int, r \in 0..(c - 1) : a = c * q + r /\ a % c = r
  BY ModSplit
<1>2. PICK p \in Int, s \in 0..(c - 1) : r + b = c * p + s /\ (r + b) % c = s
  BY ModSplit
<1>3. a + b = c * (q + p) + s
  BY <1>1, <1>2
<1>4. (a + b) % c = s
  <2>1. PICK t : t = q + p /\ t \in Int
    OBVIOUS
  <2>2. PICK u : u = a + b /\ u \in Int
    OBVIOUS
  <2> QED BY <1>3, <2>1, <2>2, ModUnique
<1> QED BY <1>1, <1>2, <1>4

\* A slot of the ring: IndexSize is a multiple of Capacity, so the index finds the slot.
LEMMA ModOfMod ==
    ASSUME NEW a \in Int, NEW c \in Nat \ {0}, NEW n \in Nat \ {0}, n % c = 0
    PROVE  (a % n) % c = a % c
<1>1. PICK q \in Int, r \in 0..(n - 1) : a = n * q + r /\ a % n = r
  BY ModSplit
<1>2. PICK k \in Int : n = c * k
  <2>1. n \in Int
    OBVIOUS
  <2>2. PICK k \in Int, s \in 0..(c - 1) : n = c * k + s /\ n % c = s
    BY <2>1, ModSplit
  <2> QED BY <2>2, n % c = 0
<1>3. PICK p \in Int, s \in 0..(c - 1) : r = c * p + s /\ r % c = s
  <2>1. r \in Int
    OBVIOUS
  <2> QED BY <2>1, ModSplit
<1>4. PICK t \in Int : a = c * t + s
  <2>1. a = (c * k) * q + (c * p + s)
    BY <1>1, <1>2, <1>3
  <2>2. a = c * (k * q + p) + s
    BY <2>1
  <2>3. k * q + p \in Int
    OBVIOUS
  <2> QED BY <2>2, <2>3
<1>5. a % c = s
  BY <1>4, ModUnique
<1> QED BY <1>1, <1>3, <1>5

\* What the queue computes from its two indices is the difference of the counts.
LEMMA ModOfDifference ==
    ASSUME NEW w \in Int, NEW r \in Int, NEW n \in Nat \ {0}, w - r \in 0..(n - 1)
    PROVE  ((w % n) + n - (r % n)) % n = w - r
<1>1. PICK q \in Int, x \in 0..(n - 1) : w = n * q + x /\ w % n = x
  BY ModSplit
<1>2. PICK p \in Int, y \in 0..(n - 1) : r = n * p + y /\ r % n = y
  BY ModSplit
<1>3. x + n - y = n * (p + 1 - q) + (w - r)
  BY <1>1, <1>2
<1>4. (x + n - y) % n = w - r
  <2>1. PICK t : t = p + 1 - q /\ t \in Int
    OBVIOUS
  <2>2. PICK u : u = x + n - y /\ u \in Int
    OBVIOUS
  <2>3. PICK d : d = w - r /\ d \in 0..(n - 1)
    OBVIOUS
  <2> QED BY <1>3, <2>1, <2>2, <2>3, ModUnique
<1> QED BY <1>1, <1>2, <1>4

\* Two positions less than a capacity apart have different slots.
LEMMA ModDistinct ==
    ASSUME NEW k \in Int, NEW w \in Int, NEW c \in Nat \ {0}, w - k \in 1..(c - 1)
    PROVE  k % c # w % c
<1> SUFFICES ASSUME k % c = w % c PROVE FALSE
  OBVIOUS
<1>1. PICK q \in Int, x \in 0..(c - 1) : w = c * q + x /\ w % c = x
  BY ModSplit
<1>2. PICK p \in Int, y \in 0..(c - 1) : k = c * p + y /\ k % c = y
  BY ModSplit
<1>3. w - k = c * (q - p)
  BY <1>1, <1>2
<1>4. PICK t : t = q - p /\ t \in Int
  OBVIOUS
<1>5. c * t \in 1..(c - 1)
  BY <1>3, <1>4
<1>6. CASE t <= 0
  BY <1>4, <1>5, <1>6
<1>7. CASE t >= 1
  BY <1>4, <1>5, <1>7
<1> QED BY <1>4, <1>6, <1>7

-----------------------------------------------------------------------------
(* The ring of commands.                                                   *)

\* Where a producer has its number and its command is not in the ring yet; where it holds
\* write_lock; where the GPU thread has taken a command it has not executed, and where it
\* executes one.
Before == {"emplace", "full", "full_asleep", "construct", "advance"}
Holding == Before \union {"notify_consumer", "emplaced", "block_sleep"}
Popping == {"notify_producer", "popped"}
Executing == {"work", "list_end", "tick", "request", "count", "wake", "store"}

Command == [data : {"none", "submit", "tick", "flush"}, fence : Nat, block : BOOLEAN]

\* The commands written to the ring, and those read from it, since the beginning.
Written == IF \E p \in Producers : pc[p] \in Before THEN last_fence - 1 ELSE last_fence
Read == IF pc[Consumer] \in Popping THEN Len(executed) + 1 ELSE Len(executed)

\* What the steps need of the types.
PushType ==
    /\ DOMAIN pc = Threads
    /\ item \in [Threads -> Command]
    /\ m_data \in [0..(Capacity - 1) -> Command \union {NONE}]
    /\ executed \in Seq(Nat)
    /\ last_fence \in Nat
    /\ signaled_fence \in Nat
    /\ is_async \in BOOLEAN

\* write_lock is held from the number to the end of PushCommand().
LockInv == \A p \in Producers : pc[p] \in Holding => write_lock = p

\* The producer on its way to the ring has the last number given out.
NumberInv ==
    \A p \in Producers : pc[p] \in Before => last_fence > 0 /\ item[p].fence = last_fence

\* The indices are the counts modulo IndexSize, the commands in between are in the ring
\* at the slot of their number, and a producer that was told there is room has it.
RingInv ==
    pc[Consumer] # "exited" =>
        /\ Read <= Written
        /\ Written - Read <= Capacity
        /\ m_write_index = Written % IndexSize
        /\ m_read_index = Read % IndexSize
        /\ \A k \in Read..(Written - 1) : /\ m_data[k % Capacity] \in Command
                                          /\ m_data[k % Capacity].fence = k + 1
        /\ \A p \in Producers :
              /\ pc[p] \in {"construct", "advance"} => Written - Read < Capacity
              /\ pc[p] = "advance" => m_data[Written % Capacity] = item[p]

\* The command in the hands of the GPU thread is the next one.
ConsumerInv ==
    /\ pc[Consumer] \in {"take", "release"} => Read < Written
    /\ pc[Consumer] = "release" => item[Consumer].fence = Read + 1
    /\ pc[Consumer] \in Popping => item[Consumer].fence = Read
    /\ pc[Consumer] \in Executing => item[Consumer].fence = Len(executed)

CommandInv == PushType /\ LockInv /\ NumberInv /\ RingInv /\ ConsumerInv /\ ExecutedInOrder

\* What the counts and the two invariants about the ring depend on.
LEMMA CountTypes ==
    ASSUME PushType, NumberInv
    PROVE  Written \in Nat /\ Read \in Nat
BY DEF PushType, NumberInv, Written, Read

LEMMA WrittenKept ==
    ASSUME last_fence' = last_fence,
           \A p \in Producers : pc'[p] \in Before <=> pc[p] \in Before
    PROVE  Written' = Written
BY DEF Written

LEMMA ReadKept ==
    ASSUME executed' = executed,
           pc'[Consumer] \in Popping <=> pc[Consumer] \in Popping
    PROVE  Read' = Read
BY DEF Read

LEMMA RingKept ==
    ASSUME RingInv, Written' = Written, Read' = Read,
           m_data' = m_data, m_read_index' = m_read_index, m_write_index' = m_write_index,
           pc[Consumer] = "exited" => pc'[Consumer] = "exited",
           \A p \in Producers :
              /\ pc'[p] \in {"construct", "advance"} => pc[p] \in {"construct", "advance"}
              /\ pc'[p] = "advance" => pc[p] = "advance" /\ item'[p] = item[p]
    PROVE  RingInv'
BY DEF RingInv

LEMMA ConsumerKept ==
    ASSUME ConsumerInv, Written' = Written, Read' = Read, executed' = executed,
           pc'[Consumer] = pc[Consumer], item'[Consumer] = item[Consumer]
    PROVE  ConsumerInv'
BY DEF ConsumerInv

\* All of it holds when the GPU is started.
LEMMA CommandInit == Init => CommandInv
<1> SUFFICES ASSUME Init PROVE CommandInv
  OBVIOUS
<1> USE QueueAssumption
<1>1. pc = [t \in Threads |-> IF t = Consumer THEN "top" ELSE "idle"]
  BY DEF Init
<1>2. pc[Consumer] = "top" /\ \A p \in Producers : pc[p] = "idle"
  BY <1>1 DEF Threads
<1>3. PushType
  <2>1. NoCommand \in Command
    BY DEF NoCommand, Command
  <2>2. is_async \in BOOLEAN
    BY GpuAssumption DEF Init
  <2>3. executed = <<>>
    BY DEF Init
  <2>4. item \in [Threads -> Command]
    BY <2>1 DEF Init
  <2>5. m_data \in [0..(Capacity - 1) -> Command \union {NONE}]
    BY DEF Init, QueueInit
  <2>6. DOMAIN pc = Threads
    BY <1>1
  <2> QED BY <2>2, <2>3, <2>4, <2>5, <2>6 DEF Init, PushType
<1>4. LockInv /\ NumberInv
  BY <1>2 DEF LockInv, NumberInv, Holding, Before
<1>5. Written = 0 /\ Read = 0
  <2>1. ~\E p \in Producers : pc[p] \in Before
    BY <1>2 DEF Before
  <2>2. pc[Consumer] \notin Popping
    BY <1>2 DEF Popping
  <2>3. Len(executed) = 0 /\ last_fence = 0
    BY DEF Init
  <2>4. Written = 0
    BY <2>1, <2>3 DEF Written
  <2>5. Read = 0
    BY <2>2, <2>3 DEF Read
  <2> QED BY <2>4, <2>5
<1>6. RingInv
  <2>1. 0 % IndexSize = 0
    OBVIOUS
  <2> QED BY <1>2, <1>5, <2>1 DEF Init, QueueInit, RingInv
<1>7. ConsumerInv
  BY <1>2 DEF ConsumerInv, Popping, Executing
<1>8. ExecutedInOrder
  BY DEF Init, ExecutedInOrder
<1> QED BY <1>3, <1>4, <1>6, <1>7, <1>8 DEF CommandInv

\* The places ConsumerInv speaks of.
Elsewhere == Popping \union Executing \union {"take", "release"}

\* Steps that move a thread and leave the ring, the numbers and the commands alone.
LEMMA QuietStep ==
    ASSUME CommandInv, LockInv', DOMAIN pc' = Threads, item' \in [Threads -> Command],
           UNCHANGED <<m_data, m_read_index, m_write_index, executed, last_fence,
                       signaled_fence, is_async>>,
           \A p \in Producers :
              /\ pc'[p] \in Before <=> pc[p] \in Before
              /\ pc'[p] \in {"construct", "advance"} => pc'[p] = pc[p]
              /\ pc'[p] \in Before => item'[p] = item[p],
           item'[Consumer] = item[Consumer],
           \/ pc'[Consumer] = pc[Consumer]
           \/ pc[Consumer] \in Executing /\ pc'[Consumer] \in Executing
           \/ pc[Consumer] \in Popping /\ pc'[Consumer] \in Popping
           \/ /\ pc[Consumer] \notin Popping \union {"exited"}
              /\ pc'[Consumer] \notin Elsewhere
    PROVE  CommandInv'
<1>1. PushType'
  BY DEF CommandInv, PushType
<1>2. NumberInv'
  BY DEF CommandInv, NumberInv
<1>3. Written' = Written
  BY WrittenKept
<1>4. pc'[Consumer] \in Popping <=> pc[Consumer] \in Popping
  BY DEF Popping, Executing, Elsewhere
<1>5. Read' = Read
  BY <1>4, ReadKept
<1>6. RingInv'
  <2>1. pc[Consumer] = "exited" => pc'[Consumer] = "exited"
    BY DEF Popping, Executing
  <2>2. \A p \in Producers :
           /\ pc'[p] \in {"construct", "advance"} => pc[p] \in {"construct", "advance"}
           /\ pc'[p] = "advance" => pc[p] = "advance" /\ item'[p] = item[p]
    BY DEF Before
  <2> QED BY <1>3, <1>5, <2>1, <2>2, RingKept DEF CommandInv
<1>7. ConsumerInv'
  <2>1. CASE pc'[Consumer] = pc[Consumer]
    BY <1>3, <1>5, <2>1, ConsumerKept DEF CommandInv
  <2>2. CASE pc[Consumer] \in Executing /\ pc'[Consumer] \in Executing
    BY <2>2 DEF CommandInv, ConsumerInv, Executing, Popping
  <2>3. CASE pc[Consumer] \in Popping /\ pc'[Consumer] \in Popping
    BY <1>5, <2>3 DEF CommandInv, ConsumerInv, Executing, Popping
  <2>4. CASE pc'[Consumer] \notin Elsewhere
    BY <2>4 DEF ConsumerInv, Elsewhere
  <2> QED BY <2>1, <2>2, <2>3, <2>4
<1>8. ExecutedInOrder'
  BY DEF CommandInv, ExecutedInOrder
<1> QED BY <1>1, <1>2, <1>6, <1>7, <1>8 DEF CommandInv

LEMMA CommandFrame ==
    ASSUME CommandInv,
           UNCHANGED <<pc, item, m_data, m_read_index, m_write_index, executed, last_fence,
                       signaled_fence, is_async, write_lock>>
    PROVE  CommandInv'
<1>1. LockInv'
  BY DEF CommandInv, LockInv
<1> QED BY <1>1, QuietStep DEF CommandInv, PushType, Before

\* A call only begins: it has no number yet.
LEMMA CallSteps ==
    ASSUME CommandInv, NEW p \in Producers, Call(p)
    PROVE  CommandInv'
<1> USE QueueAssumption DEF Threads
<1>1. p \in Threads /\ Consumer \in Threads /\ Consumer # p
  OBVIOUS
<1>2. PICK d \in {"submit", "flush", "tick"} : Begin(p, d)
  BY DEF Call, PushOnly, RequestSyncOperation
<1>3. pc[p] = "idle"
  BY DEF Call, PushOnly, RequestSyncOperation
<1>4. UNCHANGED <<m_data, m_read_index, m_write_index, executed, last_fence, signaled_fence,
                  is_async, write_lock>>
  BY DEF Call, PushOnly, RequestSyncOperation, queueVars, pushVars
<1>5. DOMAIN pc' = Threads /\ pc'[p] = "push" /\ \A t \in Threads \ {p} : pc'[t] = pc[t]
  BY <1>1, <1>2 DEF Begin, CommandInv, PushType
<1>6. item' \in [Threads -> Command] /\ \A t \in Threads \ {p} : item'[t] = item[t]
  <2>1. PICK c : c = [data |-> d, fence |-> 0, block |-> ~is_async]
    OBVIOUS
  <2>2. c \in Command
    BY <2>1 DEF CommandInv, PushType, Command
  <2>3. item' = [item EXCEPT ![p] = c]
    BY <1>2, <2>1 DEF Begin
  <2> QED BY <2>2, <2>3 DEF CommandInv, PushType
<1>7. LockInv'
  BY <1>1, <1>4, <1>5 DEF CommandInv, LockInv, Holding, Before
<1>8. \A q \in Producers :
         /\ pc'[q] \in Before <=> pc[q] \in Before
         /\ pc'[q] \in {"construct", "advance"} => pc'[q] = pc[q]
         /\ pc'[q] \in Before => item'[q] = item[q]
  BY <1>3, <1>5, <1>6 DEF Before
<1> QED BY <1>1, <1>4, <1>5, <1>6, <1>7, <1>8, QuietStep

\* A number is given out under write_lock: no other producer is on its way to the ring.
LEMMA PushLockStep ==
    ASSUME CommandInv, NEW p \in Producers, PushLock(p)
    PROVE  CommandInv'
<1> USE QueueAssumption DEF Threads
<1>1. p \in Threads /\ Consumer \in Threads /\ Consumer # p /\ NONE # p
  OBVIOUS
<1>2. DOMAIN pc' = Threads /\ pc'[p] = "emplace" /\ \A t \in Threads \ {p} : pc'[t] = pc[t]
  BY <1>1 DEF PushLock, Goto, CommandInv, PushType
<1>3. last_fence' = last_fence + 1 /\ last_fence \in Nat
  BY DEF PushLock, CommandInv, PushType
<1>4. /\ item' \in [Threads -> Command]
      /\ item'[p].fence = last_fence'
      /\ \A t \in Threads \ {p} : item'[t] = item[t]
  <2>1. PICK c : c = [item[p] EXCEPT !.fence = last_fence']
    OBVIOUS
  <2>2. item[p] \in Command
    BY <1>1 DEF CommandInv, PushType
  <2>3. c \in Command /\ c.fence = last_fence'
    BY <1>3, <2>1, <2>2 DEF Command
  <2>4. item' = [item EXCEPT ![p] = c]
    BY <2>1 DEF PushLock
  <2> QED BY <1>1, <2>3, <2>4 DEF CommandInv, PushType
<1>5. UNCHANGED <<m_data, m_read_index, m_write_index, executed, signaled_fence, is_async>>
  BY DEF PushLock, queueVars
<1>6. \A q \in Producers : pc[q] \notin Holding
  BY DEF PushLock, CommandInv, LockInv
<1>7. Written' = Written
  <2>1. ~\E q \in Producers : pc[q] \in Before
    BY <1>6 DEF Holding
  <2>2. \E q \in Producers : pc'[q] \in Before
    BY <1>2 DEF Before
  <2>3. Written = last_fence
    BY <2>1 DEF Written
  <2>4. Written' = last_fence' - 1
    BY <2>2 DEF Written
  <2> QED BY <1>3, <2>3, <2>4
<1>8. Read' = Read
  BY <1>1, <1>2, <1>5, ReadKept
<1>9. PushType'
  BY <1>2, <1>3, <1>4, <1>5 DEF CommandInv, PushType
<1>10. LockInv'
  BY <1>2, <1>6 DEF LockInv, PushLock, Holding, Before
<1>11. NumberInv'
  BY <1>2, <1>3, <1>4, <1>6 DEF NumberInv, Holding
<1>12. RingInv'
  <2>1. pc'[Consumer] = pc[Consumer]
    BY <1>1, <1>2
  <2>2. \A q \in Producers : pc'[q] \notin {"construct", "advance"}
    BY <1>2, <1>6 DEF Holding, Before
  <2> QED BY <1>5, <1>7, <1>8, <2>1, <2>2, RingKept DEF CommandInv
<1>13. ConsumerInv'
  BY <1>1, <1>2, <1>4, <1>5, <1>7, <1>8, ConsumerKept DEF CommandInv
<1>14. ExecutedInOrder'
  BY <1>5 DEF CommandInv, ExecutedInOrder
<1> QED BY <1>9, <1>10, <1>11, <1>12, <1>13, <1>14 DEF CommandInv

\* The number of used slots that the code computes with wrapping indices is the number
\* of commands in the ring.
LEMMA UsedIsTheDifference ==
    ASSUME CommandInv, pc[Consumer] # "exited"
    PROVE  Used = Written - Read
<1>1. Written \in Nat /\ Read \in Nat
  BY CountTypes DEF CommandInv
<1>2. Written - Read \in 0..(IndexSize - 1) /\ IndexSize \in Nat \ {0}
  BY <1>1, QueueAssumption DEF CommandInv, RingInv
<1>3. m_write_index = Written % IndexSize /\ m_read_index = Read % IndexSize
  BY DEF CommandInv, RingInv
<1>4. ((Written % IndexSize) + IndexSize - (Read % IndexSize)) % IndexSize = Written - Read
  <2>1. Written \in Int /\ Read \in Int
    BY <1>1
  <2> QED BY <1>2, <2>1, ModOfDifference
<1> QED BY <1>3, <1>4 DEF Used

\* A producer that finds room keeps it until it has written: only it writes.
LEMMA EmplaceCheckStep ==
    ASSUME CommandInv, NEW p \in Producers, EmplaceCheck(p),
           UNCHANGED <<executed, last_fence, signaled_fence, is_async, write_lock>>
    PROVE  CommandInv'
<1> USE QueueAssumption DEF Threads
<1>1. p \in Threads /\ Consumer \in Threads /\ Consumer # p
  OBVIOUS
<1>2. /\ DOMAIN pc' = Threads /\ pc'[p] \in {"construct", "full"}
      /\ \A t \in Threads \ {p} : pc'[t] = pc[t]
  BY <1>1 DEF EmplaceCheck, Goto, CommandInv, PushType
<1>3. pc[p] = "emplace" /\ (pc'[p] = "construct" => Used < Capacity)
  BY <1>1 DEF EmplaceCheck, Goto, CommandInv, PushType, HasRoom
<1>4. UNCHANGED <<item, m_data, m_read_index, m_write_index>>
  BY DEF EmplaceCheck
<1>5. write_lock = p
  BY <1>3 DEF CommandInv, LockInv, Holding, Before
<1>6. PushType' /\ LockInv' /\ NumberInv'
  <2>1. PushType'
    BY <1>2, <1>4 DEF CommandInv, PushType
  <2>2. LockInv'
    BY <1>2, <1>5 DEF CommandInv, LockInv
  <2>3. NumberInv'
    BY <1>2, <1>3, <1>4 DEF CommandInv, NumberInv, Before
  <2> QED BY <2>1, <2>2, <2>3
<1>7. Written' = Written
  BY <1>2, <1>3, WrittenKept DEF Before
<1>8. Read' = Read
  BY <1>1, <1>2, ReadKept
<1>9. RingInv'
  <2>1. pc'[Consumer] = pc[Consumer]
    BY <1>1, <1>2
  <2>2. CASE pc[Consumer] = "exited"
    BY <2>1, <2>2 DEF RingInv
  <2>3. CASE pc[Consumer] # "exited"
    <3>1. \A q \in Producers : pc'[q] \in {"construct", "advance"} => Written - Read < Capacity
      <4>1. \A q \in Producers \ {p} : pc'[q] = pc[q]
        BY <1>2
      <4>2. Used = Written - Read
        BY <2>3, UsedIsTheDifference
      <4> QED BY <1>2, <1>3, <2>3, <4>1, <4>2 DEF CommandInv, RingInv
    <3>2. \A q \in Producers : pc'[q] = "advance" => m_data[Written % Capacity] = item[q]
      BY <1>2, <2>3 DEF CommandInv, RingInv
    <3> QED BY <1>4, <1>7, <1>8, <2>1, <2>3, <3>1, <3>2 DEF CommandInv, RingInv
  <2> QED BY <2>2, <2>3
<1>10. ConsumerInv'
  BY <1>1, <1>2, <1>4, <1>7, <1>8, ConsumerKept DEF CommandInv
<1>11. ExecutedInOrder'
  BY DEF CommandInv, ExecutedInOrder
<1> QED BY <1>6, <1>9, <1>10, <1>11 DEF CommandInv

\* The slot that is written is none of those the consumer has still to read.
LEMMA EmplaceConstructStep ==
    ASSUME CommandInv, NEW p \in Producers, EmplaceConstruct(p),
           UNCHANGED <<executed, last_fence, signaled_fence, is_async, write_lock>>
    PROVE  CommandInv'
<1> USE QueueAssumption DEF Threads
<1>1. p \in Threads /\ Consumer \in Threads /\ Consumer # p
  OBVIOUS
<1>2. /\ DOMAIN pc' = Threads /\ pc'[p] = "advance" /\ pc[p] = "construct"
      /\ \A t \in Threads \ {p} : pc'[t] = pc[t]
  BY <1>1 DEF EmplaceConstruct, Goto, CommandInv, PushType
<1>3. UNCHANGED <<item, m_read_index, m_write_index>>
  BY DEF EmplaceConstruct
<1>4. item[p] \in Command
  BY <1>1 DEF CommandInv, PushType
<1>5. write_lock = p
  BY <1>2 DEF CommandInv, LockInv, Holding, Before
<1>6. PushType' /\ LockInv' /\ NumberInv'
  <2>1. m_data' \in [0..(Capacity - 1) -> Command \union {NONE}]
    BY <1>4 DEF EmplaceConstruct, CommandInv, PushType
  <2>2. PushType'
    BY <1>2, <1>3, <2>1 DEF CommandInv, PushType
  <2>3. LockInv'
    BY <1>2, <1>5 DEF CommandInv, LockInv
  <2>4. NumberInv'
    BY <1>2, <1>3 DEF CommandInv, NumberInv, Before
  <2> QED BY <2>2, <2>3, <2>4
<1>7. Written' = Written
  BY <1>2, WrittenKept DEF Before
<1>8. Read' = Read
  BY <1>1, <1>2, ReadKept
<1>9. RingInv'
  <2>1. pc'[Consumer] = pc[Consumer]
    BY <1>1, <1>2
  <2>2. CASE pc[Consumer] = "exited"
    BY <2>1, <2>2 DEF RingInv
  <2>3. CASE pc[Consumer] # "exited"
    <3> USE <2>3
    <3>1. Written \in Nat /\ Read \in Nat /\ Read <= Written
      BY CountTypes DEF CommandInv, RingInv
    <3>2. Written - Read < Capacity
      BY <1>2 DEF CommandInv, RingInv
    <3>3. m_write_index % Capacity = Written % Capacity
      <4>1. IndexSize \in Nat \ {0} /\ Capacity \in Nat \ {0} /\ IndexSize % Capacity = 0
        OBVIOUS
      <4>2. Written \in Int
        BY <3>1
      <4> HIDE QueueAssumption
      <4>3. (Written % IndexSize) % Capacity = Written % Capacity
        BY <4>1, <4>2, ModOfMod
      <4>4. m_write_index = Written % IndexSize
        BY DEF CommandInv, RingInv
      <4> QED BY <4>3, <4>4
    <3>4. Written % Capacity \in 0..(Capacity - 1)
      BY <3>1
    <3>5. m_data'[Written % Capacity] = item[p]
      BY <3>3, <3>4 DEF EmplaceConstruct, CommandInv, PushType
    <3>6. \A k \in Read..(Written - 1) : m_data'[k % Capacity] = m_data[k % Capacity]
      <4> SUFFICES ASSUME NEW k \in Read..(Written - 1)
                   PROVE  m_data'[k % Capacity] = m_data[k % Capacity]
        OBVIOUS
      <4>1. k \in Int /\ Written - k \in 1..(Capacity - 1)
        BY <3>1, <3>2
      <4>2. k % Capacity # Written % Capacity
        <5>1. Written \in Int /\ Capacity \in Nat \ {0}
          BY <3>1
        <5> HIDE QueueAssumption
        <5> QED BY <4>1, <5>1, ModDistinct
      <4>3. k % Capacity \in 0..(Capacity - 1)
        BY <4>1
      <4> QED BY <3>3, <4>2, <4>3 DEF EmplaceConstruct, CommandInv, PushType
    <3>7. \A q \in Producers : pc'[q] = "advance" => q = p
      BY <1>2, <1>5 DEF CommandInv, LockInv, Holding, Before
    <3>8. \A q \in Producers : pc'[q] = "advance" => m_data'[Written % Capacity] = item[q]
      BY <3>5, <3>7
    <3>9. /\ m_write_index = Written % IndexSize /\ m_read_index = Read % IndexSize
          /\ \A k \in Read..(Written - 1) : /\ m_data[k % Capacity] \in Command
                                            /\ m_data[k % Capacity].fence = k + 1
      BY DEF CommandInv, RingInv
    <3>10. \A k \in Read..(Written - 1) : /\ m_data'[k % Capacity] \in Command
                                          /\ m_data'[k % Capacity].fence = k + 1
      BY <3>6, <3>9
    <3>11. Capacity \in Nat
      OBVIOUS
    <3> HIDE QueueAssumption
    <3> QED BY <1>3, <1>7, <1>8, <3>1, <3>2, <3>8, <3>9, <3>10, <3>11 DEF RingInv
  <2> QED BY <2>2, <2>3
<1>10. ConsumerInv'
  BY <1>1, <1>2, <1>3, <1>7, <1>8, ConsumerKept DEF CommandInv
<1>11. ExecutedInOrder'
  BY DEF CommandInv, ExecutedInOrder
<1> QED BY <1>6, <1>9, <1>10, <1>11 DEF CommandInv

\* With the index advanced the command is in the ring, at the slot of its number.
LEMMA EmplaceAdvanceStep ==
    ASSUME CommandInv, NEW p \in Producers, EmplaceAdvance(p),
           UNCHANGED <<executed, last_fence, signaled_fence, is_async, write_lock>>
    PROVE  CommandInv'
<1>1. p \in Threads /\ Consumer \in Threads /\ Consumer # p
  BY QueueAssumption DEF Threads
<1>2. /\ DOMAIN pc' = Threads /\ pc'[p] = "notify_consumer" /\ pc[p] = "advance"
      /\ \A t \in Threads \ {p} : pc'[t] = pc[t]
  BY <1>1 DEF EmplaceAdvance, Goto, CommandInv, PushType
<1>3. UNCHANGED <<item, m_data, m_read_index>>
  BY DEF EmplaceAdvance
<1>4. \A q \in Producers : pc[q] \in Holding => q = p
  BY <1>2 DEF CommandInv, LockInv, Holding, Before
<1>5. \A q \in Producers : pc'[q] \notin Before
  BY <1>2, <1>4 DEF Holding, Before, Threads
<1>6. PushType' /\ LockInv' /\ NumberInv'
  <2>1. PushType'
    BY <1>2, <1>3 DEF CommandInv, PushType
  <2>2. LockInv'
    <3>1. write_lock = p
      BY <1>2 DEF CommandInv, LockInv, Holding, Before
    <3> QED BY <1>2, <3>1 DEF CommandInv, LockInv, Threads
  <2>3. NumberInv'
    BY <1>5 DEF NumberInv
  <2> QED BY <2>1, <2>2, <2>3
<1>7. Written \in Nat /\ Read \in Nat
  BY CountTypes DEF CommandInv
<1>8. Written' = Written + 1 /\ item[p].fence = Written + 1
  <2>1. \E q \in Producers : pc[q] \in Before
    BY <1>2 DEF Before
  <2>2. Written = last_fence - 1
    BY <2>1 DEF Written
  <2>3. ~\E q \in Producers : pc'[q] \in Before
    BY <1>5
  <2>4. Written' = last_fence
    BY <2>3 DEF Written
  <2>5. item[p].fence = last_fence
    BY <1>2 DEF CommandInv, NumberInv, Before
  <2> QED BY <1>7, <2>2, <2>4, <2>5 DEF CommandInv, PushType
<1>9. Read' = Read
  BY <1>1, <1>2, ReadKept
<1>10. RingInv'
  <2>1. pc'[Consumer] = pc[Consumer]
    BY <1>1, <1>2
  <2>2. CASE pc[Consumer] = "exited"
    BY <2>1, <2>2 DEF RingInv
  <2>3. CASE pc[Consumer] # "exited"
    <3> USE <2>3
    <3>1. Read <= Written /\ Written - Read < Capacity
      BY <1>2 DEF CommandInv, RingInv
    <3>2. m_write_index' = (Written + 1) % IndexSize
      <4>1. IndexSize \in Nat \ {0}
        BY QueueAssumption
      <4>2. m_write_index' = ((Written % IndexSize) + 1) % IndexSize
        BY DEF EmplaceAdvance, CommandInv, RingInv
      <4> QED BY <1>7, <4>1, <4>2, ModOfSum
    <3>3. m_data[Written % Capacity] = item[p] /\ item[p] \in Command
      BY <1>1, <1>2 DEF CommandInv, RingInv, PushType
    <3>4. \A k \in Read..Written : /\ m_data[k % Capacity] \in Command
                                   /\ m_data[k % Capacity].fence = k + 1
      <4> SUFFICES ASSUME NEW k \in Read..Written
                   PROVE  m_data[k % Capacity] \in Command /\ m_data[k % Capacity].fence = k + 1
        OBVIOUS
      <4>1. CASE k = Written
        BY <1>8, <3>3, <4>1
      <4>2. CASE k # Written
        <5>1. k \in Read..(Written - 1)
          BY <1>7, <4>2
        <5> QED BY <5>1 DEF CommandInv, RingInv
      <4> QED BY <4>1, <4>2
    <3>5. \A q \in Producers : pc'[q] \notin {"construct", "advance"}
      BY <1>5 DEF Before
    <3>6. Read..(Written' - 1) = Read..Written
      BY <1>7, <1>8
    <3>7. m_read_index = Read % IndexSize
      BY DEF CommandInv, RingInv
    <3>8. Read <= Written' /\ Written' - Read <= Capacity
      BY <1>7, <1>8, <3>1, QueueAssumption
    <3>9. m_write_index' = Written' % IndexSize
      BY <1>8, <3>2
    <3> QED BY <1>3, <1>9, <3>4, <3>5, <3>6, <3>7, <3>8, <3>9 DEF RingInv
  <2> QED BY <2>2, <2>3
<1>11. ConsumerInv'
  <2>1. pc'[Consumer] = pc[Consumer] /\ item'[Consumer] = item[Consumer]
    BY <1>1, <1>2, <1>3
  <2> QED BY <1>7, <1>8, <1>9, <2>1 DEF CommandInv, ConsumerInv
<1>12. ExecutedInOrder'
  BY DEF CommandInv, ExecutedInOrder
<1> QED BY <1>6, <1>10, <1>11, <1>12 DEF CommandInv

\* The steps of PushCommand() and WaitForSyncOperation().
LEMMA PushSteps ==
    ASSUME CommandInv, NEW p \in Producers, Push(p)
    PROVE  CommandInv'
<1> USE QueueAssumption DEF Threads
<1>1. p \in Threads /\ Consumer \in Threads /\ Consumer # p /\ p # NONE
  OBVIOUS
<1>2. CASE PushLock(p)
  BY <1>2, PushLockStep
<1>3. CASE PushEmplace(p)
  <2>1. UNCHANGED <<executed, last_fence, signaled_fence, is_async, write_lock>>
    BY <1>3 DEF PushEmplace, pushVars
  <2>2. CASE EmplaceCheck(p)
    BY <2>1, <2>2, EmplaceCheckStep
  <2>3. CASE EmplaceConstruct(p)
    BY <2>1, <2>3, EmplaceConstructStep
  <2>4. CASE EmplaceAdvance(p)
    BY <2>1, <2>4, EmplaceAdvanceStep
  <2>5. CASE EmplaceSleep(p)
    <3>1. UNCHANGED <<item, m_data, m_read_index, m_write_index>> /\ item' \in [Threads -> Command]
      BY <2>5 DEF EmplaceSleep, CommandInv, PushType
    <3>2. /\ DOMAIN pc' = Threads /\ pc[p] = "full" /\ pc'[p] = "full_asleep"
          /\ \A t \in Threads \ {p} : pc'[t] = pc[t]
      BY <1>1, <2>5 DEF EmplaceSleep, Goto, CommandInv, PushType
    <3>3. LockInv'
      BY <2>1, <3>2 DEF CommandInv, LockInv, Holding, Before
    <3>4. \A q \in Producers :
             /\ pc'[q] \in Before <=> pc[q] \in Before
             /\ pc'[q] \in {"construct", "advance"} => pc'[q] = pc[q]
      BY <3>2 DEF Before
    <3> QED BY <1>1, <2>1, <3>1, <3>2, <3>3, <3>4, QuietStep
  <2>6. CASE EmplaceNotify(p)
    <3>1. UNCHANGED <<item, m_data, m_read_index, m_write_index>> /\ item' \in [Threads -> Command]
      BY <2>6 DEF EmplaceNotify, CommandInv, PushType, queueVars
    <3>2. /\ DOMAIN pc' = Threads /\ pc[p] = "notify_consumer" /\ pc'[p] = "emplaced"
          /\ pc'[Consumer] = IF pc[Consumer] = "empty_asleep" THEN "pop" ELSE pc[Consumer]
          /\ \A t \in Producers \ {p} : pc'[t] = pc[t]
      BY <1>1, <2>6 DEF EmplaceNotify, CommandInv, PushType
    <3>3. LockInv'
      BY <2>1, <3>2 DEF CommandInv, LockInv, Holding, Before
    <3>4. \A q \in Producers :
             /\ pc'[q] \in Before <=> pc[q] \in Before
             /\ pc'[q] \in {"construct", "advance"} => pc'[q] = pc[q]
      BY <3>2 DEF Before
    <3>5. \/ pc'[Consumer] = pc[Consumer]
          \/ pc[Consumer] \notin Popping \union {"exited"} /\ pc'[Consumer] \notin Elsewhere
      BY <3>2 DEF Popping, Executing, Elsewhere
    <3> QED BY <1>1, <2>1, <3>1, <3>2, <3>3, <3>4, <3>5, QuietStep
  <2> QED BY <1>3, <2>2, <2>3, <2>4, <2>5, <2>6 DEF PushEmplace, EmplaceWait
<1>4. CASE PushReturn(p) \/ PushSleep(p) \/ WaitForSyncOperation(p)
  <2>1. UNCHANGED <<item, m_data, m_read_index, m_write_index, executed, last_fence,
                    signaled_fence, is_async>> /\ item' \in [Threads -> Command]
    BY <1>4 DEF PushReturn, PushSleep, WaitForSyncOperation, CommandInv, PushType, queueVars,
                pushVars
  <2>2. /\ DOMAIN pc' = Threads
        /\ pc[p] \in {"emplaced", "block", "block_sleep", "sync"}
        /\ pc'[p] \in {"idle", "sync", "block_sleep", "block", "block_asleep", "sync_asleep"}
        /\ \A t \in Threads \ {p} : pc'[t] = pc[t]
    <3>1. CASE PushReturn(p)
      BY <1>1, <3>1 DEF PushReturn, AfterPush, Goto, CommandInv, PushType
    <3>2. CASE PushSleep(p)
      BY <1>1, <3>2 DEF PushSleep, Goto, CommandInv, PushType
    <3>3. CASE WaitForSyncOperation(p)
      BY <1>1, <3>3 DEF WaitForSyncOperation, Goto, CommandInv, PushType
    <3> QED BY <1>4, <3>1, <3>2, <3>3
  <2>3. LockInv'
    <3>1. pc'[p] \in Holding => write_lock' = p
      <4>1. CASE PushReturn(p)
        BY <1>1, <4>1 DEF PushReturn, AfterPush, Goto, CommandInv, PushType, Holding, Before
      <4>2. CASE PushSleep(p)
        BY <1>1, <4>2 DEF PushSleep, Goto, CommandInv, PushType, Holding, Before
      <4>3. CASE WaitForSyncOperation(p)
        BY <1>1, <4>3 DEF WaitForSyncOperation, Goto, CommandInv, PushType, Holding, Before
      <4> QED BY <1>4, <4>1, <4>2, <4>3
    <3>2. \/ write_lock' = write_lock
          \/ write_lock \in {p, NONE}
      <4>1. pc[p] \in {"emplaced", "block_sleep"} => write_lock = p
        BY DEF CommandInv, LockInv, Holding
      <4> QED BY <1>4, <4>1 DEF PushReturn, PushSleep, WaitForSyncOperation, pushVars
    <3>3. \A q \in Producers \ {p} : pc'[q] \in Holding => write_lock = q
      BY <2>2 DEF CommandInv, LockInv
    <3>4. \A q \in Producers : q # NONE
      OBVIOUS
    <3> QED BY <3>1, <3>2, <3>3, <3>4 DEF LockInv
  <2>4. \A q \in Producers :
           /\ pc'[q] \in Before <=> pc[q] \in Before
           /\ pc'[q] \in {"construct", "advance"} => pc'[q] = pc[q]
    BY <2>2 DEF Before
  <2> QED BY <1>1, <2>1, <2>2, <2>3, <2>4, QuietStep
<1> QED BY <1>2, <1>3, <1>4 DEF Push

\* Steps of the GPU thread alone.
LEMMA OnlyConsumerMoves ==
    ASSUME CommandInv, NEW to, Goto(Consumer, to), write_lock' = write_lock
    PROVE  /\ DOMAIN pc' = Threads /\ pc'[Consumer] = to
           /\ \A p \in Producers : pc'[p] = pc[p]
           /\ LockInv'
<1>1. Consumer \in Threads /\ \A p \in Producers : p \in Threads /\ p # Consumer
  BY QueueAssumption DEF Threads
<1>2. /\ DOMAIN pc' = Threads /\ pc'[Consumer] = to
      /\ \A p \in Producers : pc'[p] = pc[p]
  BY <1>1 DEF Goto, CommandInv, PushType
<1>3. LockInv'
  BY <1>2 DEF CommandInv, LockInv
<1> QED BY <1>2, <1>3

LEMMA QuietRun ==
    ASSUME CommandInv, NEW to, Goto(Consumer, to),
           UNCHANGED <<item, m_data, m_read_index, m_write_index, executed, last_fence,
                       signaled_fence, is_async, write_lock>>,
           \/ pc[Consumer] \in Executing /\ to \in Executing
           \/ pc[Consumer] \notin Popping \union {"exited"} /\ to \notin Elsewhere
    PROVE  CommandInv'
<1>1. /\ DOMAIN pc' = Threads /\ pc'[Consumer] = to
      /\ \A p \in Producers : pc'[p] = pc[p]
      /\ LockInv'
  BY OnlyConsumerMoves
<1>2. item' \in [Threads -> Command]
  BY DEF CommandInv, PushType
<1> QED BY <1>1, <1>2, QuietStep

\* The GPU thread finds a command only if there is one.
LEMMA PopCheckStep ==
    ASSUME CommandInv, PopCheck,
           UNCHANGED <<executed, last_fence, signaled_fence, is_async, write_lock>>
    PROVE  CommandInv'
<1>1. UNCHANGED <<item, m_data, m_read_index, m_write_index>> /\ pc[Consumer] = "pop"
  BY DEF PopCheck
<1>2. CASE Goto(Consumer, "pop_stopped") \/ Goto(Consumer, "empty")
  <2>1. pc[Consumer] \notin Popping \union {"exited"}
    BY <1>1 DEF Popping
  <2>2. "pop_stopped" \notin Elsewhere /\ "empty" \notin Elsewhere
    BY DEF Elsewhere, Popping, Executing
  <2> QED BY <1>1, <1>2, <2>1, <2>2, QuietRun
<1>3. CASE Used # 0 /\ Goto(Consumer, "take")
  <2>1. /\ DOMAIN pc' = Threads /\ pc'[Consumer] = "take"
        /\ \A p \in Producers : pc'[p] = pc[p]
        /\ LockInv'
    BY <1>3, OnlyConsumerMoves
  <2>2. PushType' /\ NumberInv' /\ ExecutedInOrder'
    BY <1>1, <2>1 DEF CommandInv, PushType, NumberInv, ExecutedInOrder
  <2>3. Written' = Written
    BY <2>1, WrittenKept
  <2>4. Read' = Read
    BY <1>1, <2>1, ReadKept DEF Popping
  <2>5. RingInv'
    BY <1>1, <2>1, <2>3, <2>4, RingKept DEF CommandInv
  <2>6. ConsumerInv'
    <3>1. Used = Written - Read
      BY <1>1, UsedIsTheDifference
    <3>2. Written \in Nat /\ Read \in Nat /\ Read <= Written
      BY <1>1, CountTypes DEF CommandInv, RingInv
    <3>3. Read < Written
      BY <1>3, <3>1, <3>2
    <3> QED BY <2>1, <2>3, <2>4, <3>3 DEF ConsumerInv, Popping, Executing
  <2> QED BY <2>1, <2>2, <2>5, <2>6 DEF CommandInv
<1> QED BY <1>2, <1>3 DEF PopCheck

\* The command it takes is the oldest in the ring.
LEMMA PopTakeStep ==
    ASSUME CommandInv, PopTake,
           UNCHANGED <<executed, last_fence, signaled_fence, is_async, write_lock>>
    PROVE  CommandInv'
<1>1. UNCHANGED <<m_data, m_read_index, m_write_index>> /\ pc[Consumer] = "take"
  BY DEF PopTake, queueVars
<1>2. /\ DOMAIN pc' = Threads /\ pc'[Consumer] = "release"
      /\ \A p \in Producers : pc'[p] = pc[p]
      /\ LockInv'
  BY OnlyConsumerMoves DEF PopTake
<1>3. Written' = Written
  BY <1>2, WrittenKept
<1>4. Read' = Read
  BY <1>1, <1>2, ReadKept DEF Popping
<1>5. Written \in Nat /\ Read \in Nat /\ Read < Written
  BY <1>1, CountTypes DEF CommandInv, ConsumerInv
<1>6. m_read_index % Capacity = Read % Capacity
  <2>1. IndexSize \in Nat \ {0} /\ Capacity \in Nat \ {0} /\ IndexSize % Capacity = 0
    BY QueueAssumption
  <2>2. Read \in Int
    BY <1>5
  <2>3. (Read % IndexSize) % Capacity = Read % Capacity
    BY <2>1, <2>2, ModOfMod
  <2> QED BY <1>1, <2>3 DEF CommandInv, RingInv
<1>7. PICK c : c = m_data[m_read_index % Capacity]
  OBVIOUS
<1>8. c \in Command /\ c.fence = Read + 1
  <2>1. Read \in Read..(Written - 1)
    BY <1>5
  <2>2. m_data[Read % Capacity] \in Command /\ m_data[Read % Capacity].fence = Read + 1
    BY <1>1, <2>1 DEF CommandInv, RingInv
  <2> QED BY <1>6, <1>7, <2>2
<1>9. /\ item' \in [Threads -> Command] /\ item'[Consumer] = c
      /\ \A p \in Producers : item'[p] = item[p]
  <2>1. item' = [item EXCEPT ![Consumer] = c]
    BY <1>7 DEF PopTake
  <2> QED BY <1>8, <2>1, QueueAssumption DEF CommandInv, PushType, Threads
<1>10. PushType' /\ NumberInv' /\ ExecutedInOrder'
  BY <1>1, <1>2, <1>9 DEF CommandInv, PushType, NumberInv, ExecutedInOrder
<1>11. RingInv'
  BY <1>1, <1>2, <1>3, <1>4, <1>9, RingKept DEF CommandInv
<1>12. ConsumerInv'
  BY <1>2, <1>3, <1>4, <1>5, <1>8, <1>9 DEF ConsumerInv, Popping, Executing
<1> QED BY <1>2, <1>10, <1>11, <1>12 DEF CommandInv

\* With the index advanced the command is in the hands of the GPU thread.
LEMMA PopAdvanceStep ==
    ASSUME CommandInv, PopAdvance,
           UNCHANGED <<executed, last_fence, signaled_fence, is_async, write_lock>>
    PROVE  CommandInv'
<1>1. UNCHANGED <<item, m_data, m_write_index>> /\ pc[Consumer] = "release"
  BY DEF PopAdvance
<1>2. /\ DOMAIN pc' = Threads /\ pc'[Consumer] = "notify_producer"
      /\ \A p \in Producers : pc'[p] = pc[p]
      /\ LockInv'
  BY OnlyConsumerMoves DEF PopAdvance
<1>3. Written' = Written
  BY <1>2, WrittenKept
<1>4. Written \in Nat /\ Read \in Nat /\ Read < Written
  BY <1>1, CountTypes DEF CommandInv, ConsumerInv
<1>5. Read' = Read + 1
  <2>1. pc[Consumer] \notin Popping /\ pc'[Consumer] \in Popping
    BY <1>1, <1>2 DEF Popping
  <2> QED BY <2>1 DEF Read
<1>6. PushType' /\ NumberInv' /\ ExecutedInOrder'
  BY <1>1, <1>2 DEF CommandInv, PushType, NumberInv, ExecutedInOrder
<1>7. RingInv'
  <2>1. m_read_index' = Read' % IndexSize
    <3>1. IndexSize \in Nat \ {0}
      BY QueueAssumption
    <3>2. m_read_index' = ((Read % IndexSize) + 1) % IndexSize
      BY <1>1 DEF PopAdvance, CommandInv, RingInv
    <3>3. ((Read % IndexSize) + 1) % IndexSize = (Read + 1) % IndexSize
      BY <1>4, <3>1, ModOfSum
    <3> QED BY <1>5, <3>2, <3>3
  <2>2. Read' <= Written /\ Written - Read' < Capacity
    BY <1>1, <1>4, <1>5, QueueAssumption DEF CommandInv, RingInv
  <2>3. Capacity \in Nat
    BY QueueAssumption
  <2>4. \A k \in Read'..(Written - 1) : /\ m_data[k % Capacity] \in Command
                                        /\ m_data[k % Capacity].fence = k + 1
    <3>1. \A k \in Read'..(Written - 1) : k \in Read..(Written - 1)
      BY <1>4, <1>5
    <3> QED BY <1>1, <3>1 DEF CommandInv, RingInv
  <2>5. \A p \in Producers : pc[p] = "advance" => m_data[Written % Capacity] = item[p]
    BY <1>1 DEF CommandInv, RingInv
  <2>6. m_write_index = Written % IndexSize
    BY <1>1 DEF CommandInv, RingInv
  <2>7. Written - Read' <= Capacity
    BY <1>4, <1>5, <2>2, <2>3
  <2> QED BY <1>1, <1>2, <1>3, <2>1, <2>2, <2>4, <2>5, <2>6, <2>7 DEF RingInv
<1>8. ConsumerInv'
  <2>1. item[Consumer].fence = Read + 1
    BY <1>1 DEF CommandInv, ConsumerInv
  <2> QED BY <1>1, <1>2, <1>5, <2>1 DEF ConsumerInv, Popping, Executing
<1> QED BY <1>2, <1>6, <1>7, <1>8 DEF CommandInv

\* Steps that also wake sleeping producers.
LEMMA WakingStep ==
    ASSUME CommandInv, NEW from, NEW to, NEW at,
           pc' = [t \in Threads |-> IF t = Consumer THEN at
                                    ELSE IF pc[t] = from THEN to ELSE pc[t]],
           UNCHANGED <<item, m_data, m_read_index, m_write_index, executed, last_fence,
                       signaled_fence, is_async, write_lock>>,
           \/ from = "full_asleep" /\ to = "emplace"
           \/ from = "block_asleep" /\ to = "block"
           \/ from = "sync_asleep" /\ to = "sync",
           \/ pc[Consumer] \in Executing /\ at \in Executing
           \/ pc[Consumer] \in Popping /\ at \in Popping
           \/ pc[Consumer] \notin Popping \union {"exited"} /\ at \notin Elsewhere
    PROVE  CommandInv'
<1>1. Consumer \in Threads /\ \A p \in Producers : p \in Threads /\ p # Consumer
  BY QueueAssumption DEF Threads
<1>2. /\ DOMAIN pc' = Threads /\ pc'[Consumer] = at
      /\ \A p \in Producers : pc'[p] = IF pc[p] = from THEN to ELSE pc[p]
  BY <1>1
<1>3. LockInv'
  BY <1>2 DEF CommandInv, LockInv, Holding, Before
<1>4. \A p \in Producers :
         /\ pc'[p] \in Before <=> pc[p] \in Before
         /\ pc'[p] \in {"construct", "advance"} => pc'[p] = pc[p]
  BY <1>2 DEF Before
<1>5. item' \in [Threads -> Command]
  BY DEF CommandInv, PushType
<1> QED BY <1>2, <1>3, <1>4, <1>5, QuietStep

\* PopWait() as a whole.
LEMMA RunPopSteps ==
    ASSUME CommandInv, RunPop
    PROVE  CommandInv'
<1>1. UNCHANGED <<executed, last_fence, signaled_fence, is_async, write_lock>>
  BY DEF RunPop, pushVars
<1>2. CASE PopCheck
  BY <1>1, <1>2, PopCheckStep
<1>3. CASE PopSleep
  <2>1. PICK to \in {"pop", "empty_asleep"} : Goto(Consumer, to)
    BY <1>3 DEF PopSleep
  <2>2. UNCHANGED <<item, m_data, m_read_index, m_write_index>> /\ pc[Consumer] = "empty"
    BY <1>3 DEF PopSleep
  <2>3. pc[Consumer] \notin Popping \union {"exited"} /\ to \notin Elsewhere
    BY <2>2 DEF Elsewhere, Popping, Executing
  <2> QED BY <1>1, <2>1, <2>2, <2>3, QuietRun
<1>4. CASE PopTake
  BY <1>1, <1>4, PopTakeStep
<1>5. CASE PopAdvance
  BY <1>1, <1>5, PopAdvanceStep
<1>6. CASE PopNotify
  <2>1. UNCHANGED <<item, m_data, m_read_index, m_write_index>>
    BY <1>6 DEF PopNotify, queueVars
  <2>2. pc[Consumer] \in Popping /\ "popped" \in Popping
    BY <1>6 DEF PopNotify, Popping
  <2>3. pc' = [t \in Threads |-> IF t = Consumer THEN "popped"
                                 ELSE IF pc[t] = "full_asleep" THEN "emplace" ELSE pc[t]]
    BY <1>6 DEF PopNotify
  <2> QED BY <1>1, <2>1, <2>2, <2>3, WakingStep
<1> QED BY <1>2, <1>3, <1>4, <1>5, <1>6 DEF RunPop, PopWait

\* The command is executed: it is the one behind the last one executed.
LEMMA RunCommandStep ==
    ASSUME CommandInv, RunCommand
    PROVE  CommandInv'
<1>1. /\ UNCHANGED <<item, m_data, m_read_index, m_write_index, last_fence, signaled_fence,
                     is_async, write_lock>>
      /\ pc[Consumer] \in {"pop_stopped", "popped"}
  BY DEF RunCommand, queueVars, pushVars
<1>2. CASE Goto(Consumer, "exited") /\ executed' = executed
  <2>1. /\ DOMAIN pc' = Threads /\ pc'[Consumer] = "exited"
        /\ \A p \in Producers : pc'[p] = pc[p]
        /\ LockInv'
    BY <1>1, <1>2, OnlyConsumerMoves
  <2>2. PushType' /\ NumberInv' /\ ExecutedInOrder'
    BY <1>1, <1>2, <2>1 DEF CommandInv, PushType, NumberInv, ExecutedInOrder
  <2>3. RingInv' /\ ConsumerInv'
    BY <2>1 DEF RingInv, ConsumerInv, Popping, Executing
  <2> QED BY <2>1, <2>2, <2>3 DEF CommandInv
<1>3. CASE /\ pc[Consumer] = "popped"
           /\ executed' = Append(executed, item[Consumer].fence)
           /\ Goto(Consumer, CASE item[Consumer].data = "submit" -> "work"
                               [] item[Consumer].data = "tick" -> "tick"
                               [] OTHER -> "store")
  <2>1. PICK to \in {"work", "tick", "store"} : Goto(Consumer, to)
    BY <1>3
  <2>2. /\ DOMAIN pc' = Threads /\ pc'[Consumer] = to
        /\ \A p \in Producers : pc'[p] = pc[p]
        /\ LockInv'
    BY <1>1, <2>1, OnlyConsumerMoves
  <2>3. Written' = Written
    BY <1>1, <2>2, WrittenKept
  <2>4. pc[Consumer] \in Popping /\ pc'[Consumer] \notin Popping
    BY <1>3, <2>2 DEF Popping
  <2>5. executed \in Seq(Nat)
    BY DEF CommandInv, PushType
  <2>6. Read = Len(executed) + 1 /\ item[Consumer].fence = Read
    BY <2>4 DEF CommandInv, ConsumerInv, Read
  <2>7. executed' = Append(executed, Len(executed) + 1)
    BY <1>3, <2>6
  <2>8. /\ executed' \in Seq(Nat) /\ Len(executed') = Len(executed) + 1
        /\ \A i \in 1..Len(executed) : executed'[i] = executed[i]
        /\ executed'[Len(executed) + 1] = Len(executed) + 1
    BY <2>5, <2>7
  <2>9. Read' = Read
    BY <2>4, <2>6, <2>8 DEF Read
  <2>10. PushType' /\ NumberInv'
    BY <1>1, <2>2, <2>8 DEF CommandInv, PushType, NumberInv
  <2>11. ExecutedInOrder'
    <3>1. \A i \in 1..Len(executed) : executed[i] = i
      BY DEF CommandInv, ExecutedInOrder
    <3>2. \A i \in 1..Len(executed') : executed'[i] = i
      BY <2>5, <2>8, <3>1
    <3>3. executed' = [i \in 1..Len(executed') |-> i]
      BY <2>8, <3>2
    <3>4. signaled_fence <= Len(executed) /\ Len(executed) \in Nat
      BY <2>5 DEF CommandInv, ExecutedInOrder
    <3>5. signaled_fence \in Nat
      BY DEF CommandInv, PushType
    <3> QED BY <1>1, <2>8, <3>3, <3>4, <3>5 DEF ExecutedInOrder
  <2>12. RingInv'
    BY <1>1, <1>3, <2>2, <2>3, <2>9, RingKept DEF CommandInv
  <2>13. ConsumerInv'
    BY <1>1, <2>2, <2>6, <2>8 DEF ConsumerInv, Popping, Executing
  <2> QED BY <2>2, <2>10, <2>11, <2>12, <2>13 DEF CommandInv
<1> QED BY <1>2, <1>3 DEF RunCommand

\* signaled_fence is the number of the command just executed.
LEMMA RunStoreStep ==
    ASSUME CommandInv, RunStore
    PROVE  CommandInv'
<1>1. /\ UNCHANGED <<item, m_data, m_read_index, m_write_index, executed, last_fence,
                     is_async, write_lock>>
      /\ pc[Consumer] = "store"
  BY DEF RunStore, queueVars
<1>2. PICK to \in {"notify", "top"} : Goto(Consumer, to)
  BY DEF RunStore
<1>3. /\ DOMAIN pc' = Threads /\ pc'[Consumer] = to
      /\ \A p \in Producers : pc'[p] = pc[p]
      /\ LockInv'
  BY <1>1, <1>2, OnlyConsumerMoves
<1>4. signaled_fence' = Len(executed)
  BY <1>1 DEF RunStore, CommandInv, ConsumerInv, Executing
<1>5. PushType' /\ NumberInv' /\ ExecutedInOrder'
  BY <1>1, <1>3, <1>4 DEF CommandInv, PushType, NumberInv, ExecutedInOrder
<1>6. Written' = Written
  BY <1>1, <1>3, WrittenKept
<1>7. Read' = Read
  BY <1>1, <1>3, ReadKept DEF Popping
<1>8. RingInv'
  BY <1>1, <1>3, <1>6, <1>7, RingKept DEF CommandInv
<1>9. ConsumerInv'
  BY <1>3 DEF ConsumerInv, Popping, Executing
<1> QED BY <1>3, <1>5, <1>8, <1>9 DEF CommandInv

\* The steps of RunThread().
LEMMA RunSteps ==
    ASSUME CommandInv, RunThread
    PROVE  CommandInv'
<1> DEFINE Same == UNCHANGED <<item, m_data, m_read_index, m_write_index, executed, last_fence,
                               signaled_fence, is_async, write_lock>>
<1>1. CASE RunTop
  <2>1. PICK to \in {"exited", "pop"} : Goto(Consumer, to)
    BY <1>1 DEF RunTop
  <2>2. Same /\ pc[Consumer] = "top"
    BY <1>1 DEF RunTop, queueVars, pushVars
  <2>3. pc[Consumer] \notin Popping \union {"exited"} /\ to \notin Elsewhere
    BY <2>2 DEF Elsewhere, Popping, Executing
  <2> QED BY <2>1, <2>2, <2>3, QuietRun
<1>2. CASE RunPop
  BY <1>2, RunPopSteps
<1>3. CASE RunCommand
  BY <1>3, RunCommandStep
<1>4. CASE RunStore
  BY <1>4, RunStoreStep
<1>5. CASE RunNotify
  <2>1. pc' = [t \in Threads |-> IF t = Consumer THEN "top"
                                 ELSE IF pc[t] = "block_asleep" THEN "block" ELSE pc[t]]
    BY <1>5 DEF RunNotify, WakeBlocked
  <2>2. Same /\ pc[Consumer] = "notify"
    BY <1>5 DEF RunNotify, queueVars, pushVars
  <2>3. pc[Consumer] \notin Popping \union {"exited"} /\ "top" \notin Elsewhere
    BY <2>2 DEF Elsewhere, Popping, Executing
  <2> QED BY <2>1, <2>2, <2>3, WakingStep
<1>6. CASE SubmitWork
  BY <1>6, CommandFrame DEF SubmitWork, queueVars, pushVars
<1>7. CASE SubmitTick \/ SubmitEnd
  <2>1. PICK to \in {"tick", "list_end"} : Goto(Consumer, to)
    BY <1>7 DEF SubmitTick, SubmitEnd
  <2>2. Same /\ pc[Consumer] = "work"
    BY <1>7 DEF SubmitTick, SubmitEnd, queueVars, pushVars
  <2>3. pc[Consumer] \in Executing /\ to \in Executing
    BY <2>2 DEF Executing
  <2> QED BY <2>1, <2>2, <2>3, QuietRun
<1>8. CASE SubmitDrain
  <2>1. Same /\ pc[Consumer] = "list_end"
    BY <1>8 DEF SubmitDrain, queueVars, pushVars
  <2>2. CASE UNCHANGED pc
    BY <2>1, <2>2, CommandFrame
  <2>3. CASE Goto(Consumer, "store")
    <3>1. pc[Consumer] \in Executing /\ "store" \in Executing
      BY <2>1 DEF Executing
    <3> QED BY <2>1, <2>3, <3>1, QuietRun
  <2> QED BY <1>8, <2>2, <2>3 DEF SubmitDrain
<1>9. CASE TickBegin
  <2>1. PICK to \in {"request", "work", "store"} : Goto(Consumer, to)
    BY <1>9 DEF TickBegin, AfterTake
  <2>2. Same /\ pc[Consumer] = "tick"
    BY <1>9 DEF TickBegin, queueVars, pushVars
  <2>3. pc[Consumer] \in Executing /\ to \in Executing
    BY <2>2 DEF Executing
  <2> QED BY <2>1, <2>2, <2>3, QuietRun
<1>10. CASE TickRun
  <2>1. PICK to \in {"count", "wake"} : Goto(Consumer, to)
    BY <1>10 DEF TickRun
  <2>2. Same /\ pc[Consumer] \in {"request", "count"}
    BY <1>10 DEF TickRun, queueVars, pushVars
  <2>3. pc[Consumer] \in Executing /\ to \in Executing
    BY <2>2 DEF Executing
  <2> QED BY <2>1, <2>2, <2>3, QuietRun
<1>11. CASE TickWake
  <2>1. PICK at \in {"request", "work", "store"} :
           pc' = [t \in Threads |-> IF t = Consumer THEN at
                                    ELSE IF pc[t] = "sync_asleep" THEN "sync" ELSE pc[t]]
    BY <1>11 DEF TickWake, AfterTake
  <2>2. Same /\ pc[Consumer] = "wake"
    BY <1>11 DEF TickWake, queueVars, pushVars
  <2>3. pc[Consumer] \in Executing /\ at \in Executing
    BY <2>2 DEF Executing
  <2> QED BY <2>1, <2>2, <2>3, WakingStep
<1> QED BY <1>1, <1>2, <1>3, <1>4, <1>5, <1>6, <1>7, <1>8, <1>9, <1>10, <1>11 DEF RunThread

\* Every step keeps the invariant of the ring.
LEMMA CommandNext == CommandInv /\ [Next]_vars => CommandInv'
<1> SUFFICES ASSUME CommandInv, [Next]_vars
             PROVE  CommandInv'
  OBVIOUS
<1>1. ASSUME NEW p \in Producers, Call(p) \/ Push(p)
      PROVE  CommandInv'
  BY <1>1, CallSteps, PushSteps
<1>2. CASE RunThread
  BY <1>2, RunSteps
<1>3. CASE FencingThread \/ HostGpu \/ Destroy
  BY <1>3, CommandFrame DEF FencingThread, HostGpu, Destroy, queueVars, pushVars
<1>4. CASE RequestStop
  <2>1. Consumer \in Threads /\ \A p \in Producers : p \in Threads /\ p # Consumer
    BY QueueAssumption DEF Threads
  <2>2. UNCHANGED <<item, m_data, m_read_index, m_write_index, executed, last_fence,
                    signaled_fence, is_async, write_lock>>
    BY <1>4 DEF RequestStop, queueVars, pushVars
  <2>3. DOMAIN pc' = Threads /\ \A t \in Threads : \/ pc'[t] = pc[t]
                                                   \/ pc[t] = "empty_asleep" /\ pc'[t] = "pop"
                                                   \/ pc[t] = "block_asleep" /\ pc'[t] = "block"
    BY <1>4 DEF RequestStop
  <2>4. LockInv'
    BY <2>1, <2>2, <2>3 DEF CommandInv, LockInv, Holding, Before
  <2>5. \A p \in Producers :
           /\ pc'[p] \in Before <=> pc[p] \in Before
           /\ pc'[p] \in {"construct", "advance"} => pc'[p] = pc[p]
    BY <2>1, <2>3 DEF Before
  <2>6. \/ pc'[Consumer] = pc[Consumer]
        \/ pc[Consumer] \notin Popping \union {"exited"} /\ pc'[Consumer] \notin Elsewhere
    BY <2>1, <2>3 DEF Popping, Executing, Elsewhere
  <2>7. item' \in [Threads -> Command]
    BY <2>2 DEF CommandInv, PushType
  <2> QED BY <2>2, <2>3, <2>4, <2>5, <2>6, <2>7, QuietStep
<1>5. CASE UNCHANGED vars
  BY <1>5, CommandFrame DEF vars, queueVars, pushVars
<1> QED BY <1>1, <1>2, <1>3, <1>4, <1>5 DEF Next

(***************************************************************************)
(* Commands execute in the order of their fences, each exactly once, and   *)
(* signaled_fence is never ahead of them: PushCommand() and RunThread()    *)
(* over MPSCQueue's ring, for any capacity and any number of producers.    *)
(***************************************************************************)
THEOREM CommandsExecuteInOrder == Spec => []ExecutedInOrder
<1>1. Init => CommandInv
  BY CommandInit
<1>2. CommandInv /\ [Next]_vars => CommandInv'
  BY CommandNext
<1>3. CommandInv => ExecutedInOrder
  BY DEF CommandInv
<1> QED BY <1>1, <1>2, <1>3, PTL DEF Spec

-----------------------------------------------------------------------------
(* The requests run at a tick.                                             *)

\* The requests that were taken out of sync_requests.
Taken == last_sync_fence - Len(sync_requests)

\* Where a request is taken and not counted.
Counting == {"request", "count"}

\* Requests are taken in their order, one at a time, and counted after they ran; a request
\* that is not counted has its caller in the wait.
RequestInv ==
    /\ sync_requests \in Seq(Nat)
    /\ last_sync_fence \in Nat
    /\ current_sync_fence \in Nat
    /\ sync_fence \in [Producers -> Nat]
    /\ Taken \in Nat
    /\ \A i \in 1..Len(sync_requests) : sync_requests[i] = Taken + i
    /\ pc[Consumer] \in Counting => Taken = current_sync_fence + 1 /\ running = Taken
    /\ pc[Consumer] \notin Counting => Taken = current_sync_fence
    /\ pc[Consumer] = "count" => running \in done
    /\ \A r \in 1..current_sync_fence : r \in done
    /\ \A r \in (current_sync_fence + 1)..last_sync_fence :
          \E p \in Producers : sync_fence[p] = r
    /\ \A p \in Producers : pc[p] = "idle" => sync_fence[p] = 0

\* Steps that leave the requests alone and let no waiter go.
LEMMA RequestFrame ==
    ASSUME RequestInv, UNCHANGED syncVars,
           \/ pc'[Consumer] = pc[Consumer]
           \/ pc[Consumer] \notin Counting /\ pc'[Consumer] \notin Counting,
           \A p \in Producers : pc'[p] = "idle" => pc[p] = "idle" \/ sync_fence[p] = 0
    PROVE  RequestInv'
BY DEF RequestInv, Taken, Counting, syncVars

LEMMA RequestInit == Init => RequestInv
<1> SUFFICES ASSUME Init PROVE RequestInv
  OBVIOUS
<1>1. pc[Consumer] = "top"
  BY DEF Init, Threads
<1>2. Len(sync_requests) = 0 /\ sync_requests \in Seq(Nat)
  BY DEF Init
<1>3. /\ last_sync_fence = 0 /\ current_sync_fence = 0
      /\ sync_fence = [p \in Producers |-> 0]
  BY DEF Init
<1>4. Taken = 0
  BY <1>2, <1>3 DEF Taken
<1> QED BY <1>1, <1>2, <1>3, <1>4 DEF RequestInv, Counting

\* A request gets the next number, and its caller waits for that number.
LEMMA RequestIsQueued ==
    ASSUME CommandInv, RequestInv, NEW p \in Producers, RequestSyncOperation(p)
    PROVE  RequestInv'
<1>1. Consumer \in Threads /\ p \in Threads /\ Consumer # p
  BY QueueAssumption DEF Threads
<1>2. /\ pc'[p] = "push" /\ pc[p] = "idle"
      /\ \A t \in Threads \ {p} : pc'[t] = pc[t]
  BY <1>1 DEF RequestSyncOperation, Begin, CommandInv, PushType
<1>3. PICK r : r = last_sync_fence + 1
  OBVIOUS
<1>4. /\ r \in Nat /\ last_sync_fence' = r
      /\ sync_requests' = Append(sync_requests, r)
      /\ sync_fence' = [sync_fence EXCEPT ![p] = r]
      /\ UNCHANGED <<current_sync_fence, running, done>>
  BY <1>3 DEF RequestSyncOperation, RequestInv
<1>5. /\ sync_requests' \in Seq(Nat) /\ Len(sync_requests') = Len(sync_requests) + 1
      /\ \A i \in 1..Len(sync_requests) : sync_requests'[i] = sync_requests[i]
      /\ sync_requests'[Len(sync_requests) + 1] = r
  BY <1>4 DEF RequestInv
<1>6. Taken' = Taken
  BY <1>3, <1>4, <1>5 DEF RequestInv, Taken
<1>7. \A i \in 1..Len(sync_requests') : sync_requests'[i] = Taken' + i
  <2> SUFFICES ASSUME NEW i \in 1..Len(sync_requests')
               PROVE  sync_requests'[i] = Taken' + i
    OBVIOUS
  <2>1. Len(sync_requests) \in Nat
    BY DEF RequestInv
  <2>2. CASE i = Len(sync_requests) + 1
    BY <1>3, <1>5, <1>6, <2>1, <2>2 DEF RequestInv, Taken
  <2>3. CASE i # Len(sync_requests) + 1
    <3>1. i \in 1..Len(sync_requests)
      BY <1>5, <2>1, <2>3
    <3> QED BY <1>5, <1>6, <3>1 DEF RequestInv
  <2> QED BY <2>2, <2>3
<1>8. sync_fence' \in [Producers -> Nat] /\ sync_fence'[p] = r
      /\ \A q \in Producers \ {p} : sync_fence'[q] = sync_fence[q]
  BY <1>4 DEF RequestInv
<1>9. \A k \in (current_sync_fence + 1)..r : \E q \in Producers : sync_fence'[q] = k
  <2> SUFFICES ASSUME NEW k \in (current_sync_fence + 1)..r
               PROVE  \E q \in Producers : sync_fence'[q] = k
    OBVIOUS
  <2>1. CASE k = r
    BY <1>8, <2>1
  <2>2. CASE k # r
    <3>1. k \in (current_sync_fence + 1)..last_sync_fence
      BY <1>3, <2>2 DEF RequestInv
    <3>2. PICK q \in Producers : sync_fence[q] = k
      BY <3>1 DEF RequestInv
    <3>3. sync_fence[p] = 0 /\ k # 0
      BY <1>2, <3>1 DEF RequestInv
    <3>4. q # p
      BY <3>2, <3>3
    <3> QED BY <1>8, <3>2, <3>4
  <2> QED BY <2>1, <2>2
<1>10. pc'[Consumer] = pc[Consumer]
  BY <1>1, <1>2
<1>11. \A q \in Producers : pc'[q] = "idle" => sync_fence'[q] = 0
  BY <1>2, <1>8 DEF RequestInv, Threads
<1> QED BY <1>4, <1>5, <1>6, <1>7, <1>8, <1>9, <1>10, <1>11 DEF RequestInv

\* A caller returns when the count has reached its number: then its request ran.
LEMMA RequestIsAnswered ==
    ASSUME CommandInv, RequestInv, NEW p \in Producers, WaitForSyncOperation(p)
    PROVE  RequestInv'
<1>1. Consumer \in Threads /\ p \in Threads /\ Consumer # p
  BY QueueAssumption DEF Threads
<1>2. /\ pc[p] = "sync" /\ pc'[p] \in {"idle", "sync_asleep"}
      /\ \A t \in Threads \ {p} : pc'[t] = pc[t]
  BY <1>1 DEF WaitForSyncOperation, Goto, CommandInv, PushType
<1>3. UNCHANGED <<sync_requests, last_sync_fence, current_sync_fence, running, done>>
  BY DEF WaitForSyncOperation
<1>4. pc'[Consumer] = pc[Consumer]
  BY <1>1, <1>2
<1>5. CASE pc'[p] = "idle"
  <2>1. current_sync_fence >= sync_fence[p] /\ sync_fence' = [sync_fence EXCEPT ![p] = 0]
    BY <1>1, <1>5 DEF WaitForSyncOperation, Goto, CommandInv, PushType
  <2>2. sync_fence' \in [Producers -> Nat] /\ sync_fence'[p] = 0
        /\ \A q \in Producers \ {p} : sync_fence'[q] = sync_fence[q]
    BY <2>1 DEF RequestInv
  <2>3. \A k \in (current_sync_fence + 1)..last_sync_fence :
           \E q \in Producers : sync_fence'[q] = k
    <3> SUFFICES ASSUME NEW k \in (current_sync_fence + 1)..last_sync_fence
                 PROVE  \E q \in Producers : sync_fence'[q] = k
      OBVIOUS
    <3>1. PICK q \in Producers : sync_fence[q] = k
      BY DEF RequestInv
    <3>2. q # p
      BY <2>1, <3>1 DEF RequestInv
    <3> QED BY <2>2, <3>1, <3>2
  <2>4. \A q \in Producers : pc'[q] = "idle" => sync_fence'[q] = 0
    BY <1>2, <2>2 DEF RequestInv, Threads
  <2>5. Taken' = Taken
    BY <1>3 DEF Taken
  <2> QED BY <1>3, <1>4, <2>2, <2>3, <2>4, <2>5 DEF RequestInv
<1>6. CASE pc'[p] # "idle"
  <2>1. UNCHANGED syncVars
    BY <1>1, <1>3, <1>6 DEF WaitForSyncOperation, Goto, CommandInv, PushType, syncVars
  <2>2. \A q \in Producers : pc'[q] = "idle" => pc[q] = "idle" \/ sync_fence[q] = 0
    BY <1>2, <1>6 DEF Threads
  <2> QED BY <1>4, <2>1, <2>2, RequestFrame
<1> QED BY <1>5, <1>6

\* A tick takes the oldest request.
LEMMA RequestIsTaken ==
    ASSUME CommandInv, RequestInv, TickBegin \/ TickWake
    PROVE  RequestInv'
<1>1. Consumer \in Threads /\ \A p \in Producers : p \in Threads /\ p # Consumer
  BY QueueAssumption DEF Threads
<1>2. pc[Consumer] \in {"tick", "wake"} /\ pc'[Consumer] = AfterTake
  BY <1>1 DEF TickBegin, TickWake, Goto, CommandInv, PushType
<1>3. \A p \in Producers : pc'[p] = "idle" => pc[p] = "idle"
  BY <1>1 DEF TickBegin, TickWake, Goto, CommandInv, PushType
<1>4. TakeRequest /\ UNCHANGED <<last_sync_fence, current_sync_fence, sync_fence, done>>
  BY DEF TickBegin, TickWake
<1>5. Taken = current_sync_fence
  BY <1>2 DEF RequestInv, Counting
<1>6. CASE sync_requests = <<>>
  <2>1. UNCHANGED syncVars
    BY <1>4, <1>6 DEF TakeRequest, syncVars
  <2>2. pc'[Consumer] \notin Counting /\ pc[Consumer] \notin Counting
    BY <1>2, <1>6 DEF AfterTake, Counting
  <2> QED BY <1>3, <2>1, <2>2, RequestFrame
<1>7. CASE sync_requests # <<>>
  <2>1. running' = Head(sync_requests) /\ sync_requests' = Tail(sync_requests)
    BY <1>4, <1>7 DEF TakeRequest
  <2>2. sync_requests \in Seq(Nat)
    BY DEF RequestInv
  <2>3. /\ running' = sync_requests[1] /\ 1 \in 1..Len(sync_requests)
        /\ sync_requests' \in Seq(Nat) /\ Len(sync_requests') = Len(sync_requests) - 1
        /\ \A i \in 1..Len(sync_requests') :
              /\ i + 1 \in 1..Len(sync_requests)
              /\ sync_requests'[i] = sync_requests[i + 1]
    BY <1>7, <2>1, <2>2
  <2>4. Taken' = Taken + 1 /\ Taken' \in Nat
    BY <1>4, <2>2, <2>3 DEF RequestInv, Taken
  <2>5. running' = Taken'
    BY <2>3, <2>4 DEF RequestInv
  <2>6. \A i \in 1..Len(sync_requests') : sync_requests'[i] = Taken' + i
    <3> SUFFICES ASSUME NEW i \in 1..Len(sync_requests')
                 PROVE  sync_requests'[i] = Taken' + i
      OBVIOUS
    <3>1. sync_requests'[i] = Taken + (i + 1)
      BY <2>3 DEF RequestInv
    <3> QED BY <2>4, <3>1 DEF RequestInv
  <2>7. pc'[Consumer] = "request"
    BY <1>2, <1>7 DEF AfterTake
  <2>8. pc'[Consumer] \in Counting
    BY <2>7 DEF Counting
  <2> QED BY <1>3, <1>4, <1>5, <2>3, <2>4, <2>5, <2>6, <2>7, <2>8 DEF RequestInv
<1> QED BY <1>6, <1>7

\* A request runs, then it is counted.
LEMMA RequestIsCounted ==
    ASSUME CommandInv, RequestInv, TickRun
    PROVE  RequestInv'
<1>1. Consumer \in Threads /\ \A p \in Producers : p \in Threads /\ p # Consumer
  BY QueueAssumption DEF Threads
<1>2. \A p \in Producers : pc'[p] = pc[p]
  BY <1>1 DEF TickRun, Goto, CommandInv, PushType
<1>3. UNCHANGED <<sync_requests, last_sync_fence, sync_fence, running>> /\ Taken' = Taken
  BY DEF TickRun, Taken
<1>4. Taken = current_sync_fence + 1 /\ running = Taken
  BY DEF TickRun, RequestInv, Counting
<1>5. CASE pc[Consumer] = "request"
  <2>1. /\ pc'[Consumer] = "count" /\ done' = done \union {running}
        /\ current_sync_fence' = current_sync_fence
    BY <1>1, <1>5 DEF TickRun, Goto, CommandInv, PushType
  <2> QED BY <1>2, <1>3, <1>4, <2>1 DEF RequestInv, Counting
<1>6. CASE pc[Consumer] = "count"
  <2>1. /\ pc'[Consumer] = "wake" /\ done' = done
        /\ current_sync_fence' = current_sync_fence + 1
    BY <1>1, <1>6 DEF TickRun, Goto, CommandInv, PushType
  <2>2. running \in done
    BY <1>6 DEF RequestInv
  <2>3. \A r \in 1..current_sync_fence' : r \in done
    BY <1>4, <2>1, <2>2 DEF RequestInv
  <2>4. \A r \in (current_sync_fence' + 1)..last_sync_fence :
           r \in (current_sync_fence + 1)..last_sync_fence
    BY <2>1 DEF RequestInv
  <2>5. current_sync_fence' \in Nat /\ Taken = current_sync_fence'
    BY <1>4, <2>1 DEF RequestInv
  <2>6. \A r \in (current_sync_fence' + 1)..last_sync_fence :
           \E p \in Producers : sync_fence[p] = r
    BY <2>4 DEF RequestInv
  <2>7. pc'[Consumer] \notin Counting
    BY <2>1 DEF Counting
  <2> QED BY <1>2, <1>3, <2>1, <2>3, <2>5, <2>6, <2>7 DEF RequestInv
<1> QED BY <1>5, <1>6 DEF TickRun

\* Every step keeps the invariant of the requests.
LEMMA RequestNext == CommandInv /\ RequestInv /\ [Next]_vars => RequestInv'
<1> SUFFICES ASSUME CommandInv, RequestInv, [Next]_vars
             PROVE  RequestInv'
  OBVIOUS
<1>1. Consumer \in Threads /\ \A p \in Producers : p \in Threads /\ p # Consumer
  BY QueueAssumption DEF Threads
<1>2. DOMAIN pc = Threads
  BY DEF CommandInv, PushType
<1> DEFINE Still == /\ UNCHANGED syncVars
                    /\ \/ pc'[Consumer] = pc[Consumer]
                       \/ pc[Consumer] \notin Counting /\ pc'[Consumer] \notin Counting
                    /\ \A p \in Producers : pc'[p] = "idle" => pc[p] = "idle" \/ sync_fence[p] = 0
<1>3. Still => RequestInv'
  BY RequestFrame
<1>4. ASSUME NEW p \in Producers, Call(p) \/ Push(p)
      PROVE  RequestInv'
  <2>1. CASE RequestSyncOperation(p)
    BY <2>1, RequestIsQueued
  <2>2. CASE WaitForSyncOperation(p)
    BY <2>2, RequestIsAnswered
  <2>3. CASE PushOnly(p)
    <3>1. Still
      BY <1>1, <1>2, <2>3 DEF PushOnly, Begin
    <3> QED BY <1>3, <3>1
  <2>4. CASE PushLock(p)
    <3>1. Still
      BY <1>1, <1>2, <2>4 DEF PushLock, Goto
    <3> QED BY <1>3, <3>1
  <2>5. CASE PushEmplace(p)
    <3>1. UNCHANGED syncVars
      BY <2>5 DEF PushEmplace
    <3>2. CASE EmplaceNotify(p)
      <4>1. Still
        BY <1>1, <1>2, <3>1, <3>2 DEF EmplaceNotify, Counting
      <4> QED BY <1>3, <4>1
    <3>3. CASE EmplaceCheck(p) \/ EmplaceSleep(p) \/ EmplaceConstruct(p) \/ EmplaceAdvance(p)
      <4>1. PICK to \in {"construct", "full", "full_asleep", "advance", "notify_consumer"} :
               Goto(p, to)
        BY <3>3 DEF EmplaceCheck, EmplaceSleep, EmplaceConstruct, EmplaceAdvance
      <4>2. Still
        BY <1>1, <1>2, <3>1, <4>1 DEF Goto
      <4> QED BY <1>3, <4>2
    <3> QED BY <2>5, <3>2, <3>3 DEF PushEmplace, EmplaceWait
  <2>6. CASE PushReturn(p)
    <3>1. Still
      BY <1>1, <1>2, <2>6 DEF PushReturn, AfterPush, Goto
    <3> QED BY <1>3, <3>1
  <2>7. CASE PushSleep(p)
    <3>1. Still
      BY <1>1, <1>2, <2>7 DEF PushSleep, Goto
    <3> QED BY <1>3, <3>1
  <2> QED BY <1>4, <2>1, <2>2, <2>3, <2>4, <2>5, <2>6, <2>7 DEF Call, Push
<1>5. CASE RunThread
  <2>1. ASSUME NEW to, Goto(Consumer, to), UNCHANGED syncVars,
               pc[Consumer] \notin Counting, to \notin Counting
        PROVE  RequestInv'
    <3>1. Still
      BY <1>1, <1>2, <2>1 DEF Goto
    <3> QED BY <1>3, <3>1
  <2>2. CASE RunTop
    BY <2>1, <2>2 DEF RunTop, Counting
  <2>3. CASE RunPop
    <3>1. UNCHANGED syncVars
      BY <2>3 DEF RunPop
    <3>2. CASE PopNotify
      <4>1. Still
        BY <1>1, <1>2, <3>1, <3>2 DEF PopNotify, Counting
      <4> QED BY <1>3, <4>1
    <3>3. CASE PopCheck \/ PopSleep \/ PopTake \/ PopAdvance
      <4>1. PICK to \in {"pop_stopped", "take", "empty", "pop", "empty_asleep", "release",
                         "notify_producer"} : Goto(Consumer, to)
        BY <3>3 DEF PopCheck, PopSleep, PopTake, PopAdvance
      <4>2. pc[Consumer] \notin Counting /\ to \notin Counting
        BY <3>3 DEF PopCheck, PopSleep, PopTake, PopAdvance, Counting
      <4> QED BY <2>1, <3>1, <4>1, <4>2
    <3> QED BY <2>3, <3>2, <3>3 DEF RunPop, PopWait
  <2>4. CASE RunCommand
    <3>1. PICK to \in {"exited", "work", "tick", "store"} : Goto(Consumer, to)
      BY <2>4 DEF RunCommand
    <3>2. UNCHANGED syncVars /\ pc[Consumer] \notin Counting /\ to \notin Counting
      BY <2>4 DEF RunCommand, Counting
    <3> QED BY <2>1, <3>1, <3>2
  <2>5. CASE RunStore
    <3>1. PICK to \in {"notify", "top"} : Goto(Consumer, to)
      BY <2>5 DEF RunStore
    <3>2. UNCHANGED syncVars /\ pc[Consumer] \notin Counting /\ to \notin Counting
      BY <2>5 DEF RunStore, Counting
    <3> QED BY <2>1, <3>1, <3>2
  <2>6. CASE RunNotify
    <3>1. Still
      BY <1>1, <1>2, <2>6 DEF RunNotify, WakeBlocked, Counting
    <3> QED BY <1>3, <3>1
  <2>7. CASE SubmitWork
    BY <1>3, <2>7 DEF SubmitWork
  <2>8. CASE SubmitTick \/ SubmitEnd
    <3>1. PICK to \in {"tick", "list_end"} : Goto(Consumer, to)
      BY <2>8 DEF SubmitTick, SubmitEnd
    <3>2. UNCHANGED syncVars /\ pc[Consumer] \notin Counting /\ to \notin Counting
      BY <2>8 DEF SubmitTick, SubmitEnd, Counting
    <3> QED BY <2>1, <3>1, <3>2
  <2>9. CASE SubmitDrain
    <3>1. UNCHANGED syncVars /\ pc[Consumer] \notin Counting /\ "store" \notin Counting
      BY <2>9 DEF SubmitDrain, Counting
    <3>2. CASE UNCHANGED pc
      BY <1>3, <3>1, <3>2
    <3>3. CASE Goto(Consumer, "store")
      BY <2>1, <3>1, <3>3
    <3> QED BY <2>9, <3>2, <3>3 DEF SubmitDrain
  <2>10. CASE TickBegin \/ TickWake
    BY <2>10, RequestIsTaken
  <2>11. CASE TickRun
    BY <2>11, RequestIsCounted
  <2> QED BY <1>5, <2>2, <2>3, <2>4, <2>5, <2>6, <2>7, <2>8, <2>9, <2>10, <2>11 DEF RunThread
<1>6. CASE FencingThread \/ HostGpu \/ Destroy
  BY <1>3, <1>6 DEF FencingThread, HostGpu, Destroy
<1>7. CASE RequestStop
  <2>1. Still
    BY <1>1, <1>2, <1>7 DEF RequestStop, Counting
  <2> QED BY <1>3, <2>1
<1>8. CASE UNCHANGED vars
  BY <1>3, <1>8 DEF vars
<1> QED BY <1>4, <1>5, <1>6, <1>7, <1>8 DEF Next

(***************************************************************************)
(* No request is left to run, or to be run, once its caller has returned   *)
(* from WaitForSyncOperation(): what it captured by reference is alive.    *)
(***************************************************************************)
THEOREM RequestsDoNotDangle == Spec => []NoDanglingRequest
<1>1. Init => CommandInv /\ RequestInv
  BY CommandInit, RequestInit
<1>2. CommandInv /\ RequestInv /\ [Next]_vars => (CommandInv /\ RequestInv)'
  BY CommandNext, RequestNext
<1>3. RequestInv => NoDanglingRequest
  <2> SUFFICES ASSUME RequestInv, NEW r \in 1..last_sync_fence, r \notin done
               PROVE  \E p \in Producers : sync_fence[p] = r
    BY DEF NoDanglingRequest
  <2>1. r \in (current_sync_fence + 1)..last_sync_fence
    BY DEF RequestInv
  <2> QED BY <2>1 DEF RequestInv
<1> QED BY <1>1, <1>2, <1>3, PTL DEF Spec

-----------------------------------------------------------------------------
(* Stretches of numbers.                                                   *)

\* The numbers behind a up to b.
Count(a, b) == [i \in 1..(b - a) |-> a + i]

\* What such a stretch is, and how stretches are put together.
LEMMA CountSeq ==
    ASSUME NEW a \in Nat, NEW b \in Nat, a <= b
    PROVE  /\ Count(a, b) \in Seq(Nat)
           /\ Len(Count(a, b)) = b - a
           /\ \A i \in 1..(b - a) : Count(a, b)[i] = a + i
<1>1. b - a \in Nat /\ \A i \in 1..(b - a) : a + i \in Nat
  OBVIOUS
<1> QED BY <1>1 DEF Count

LEMMA CountEmpty ==
    ASSUME NEW a \in Nat
    PROVE  Count(a, a) = <<>>
<1>1. Count(a, a) \in Seq(Nat) /\ Len(Count(a, a)) = 0
  BY CountSeq
<1> QED BY <1>1

LEMMA CountAppend ==
    ASSUME NEW a \in Nat, NEW b \in Nat, a <= b
    PROVE  Append(Count(a, b), b + 1) = Count(a, b + 1)
<1>1. /\ Count(a, b) \in Seq(Nat) /\ Len(Count(a, b)) = b - a
      /\ \A i \in 1..(b - a) : Count(a, b)[i] = a + i
  BY CountSeq
<1>2. /\ Count(a, b + 1) \in Seq(Nat) /\ Len(Count(a, b + 1)) = b + 1 - a
      /\ \A i \in 1..(b + 1 - a) : Count(a, b + 1)[i] = a + i
  <2>1. b + 1 \in Nat /\ a <= b + 1
    OBVIOUS
  <2> QED BY <2>1, CountSeq
<1>3. PICK s : s = Append(Count(a, b), b + 1)
  OBVIOUS
<1>4. /\ s \in Seq(Nat) /\ Len(s) = b - a + 1
      /\ \A i \in 1..(b - a) : s[i] = a + i
      /\ s[b - a + 1] = b + 1
  BY <1>1, <1>3
<1>5. \A i \in 1..Len(s) : s[i] = Count(a, b + 1)[i]
  BY <1>2, <1>4
<1>6. Len(s) = Len(Count(a, b + 1))
  BY <1>2, <1>4
<1>7. s = Count(a, b + 1)
  BY <1>2, <1>4, <1>5, <1>6, SeqEqual
<1> QED BY <1>3, <1>7

LEMMA CountConcat ==
    ASSUME NEW a \in Nat, NEW b \in Nat, NEW c \in Nat, a <= b, b <= c
    PROVE  Count(a, b) \o Count(b, c) = Count(a, c)
<1>1. /\ Count(a, b) \in Seq(Nat) /\ Len(Count(a, b)) = b - a
      /\ \A i \in 1..(b - a) : Count(a, b)[i] = a + i
  BY CountSeq
<1>2. /\ Count(b, c) \in Seq(Nat) /\ Len(Count(b, c)) = c - b
      /\ \A i \in 1..(c - b) : Count(b, c)[i] = b + i
  BY CountSeq
<1>3. /\ Count(a, c) \in Seq(Nat) /\ Len(Count(a, c)) = c - a
      /\ \A i \in 1..(c - a) : Count(a, c)[i] = a + i
  BY CountSeq
<1>4. PICK s : s = Count(a, b) \o Count(b, c)
  OBVIOUS
<1>5. /\ s \in Seq(Nat) /\ Len(s) = c - a
      /\ \A i \in 1..(b - a) : s[i] = a + i
      /\ \A i \in (b - a + 1)..(c - a) : s[i] = Count(b, c)[i - (b - a)]
  <2>1. PICK u : u = Count(a, b)
    OBVIOUS
  <2>2. PICK v : v = Count(b, c)
    OBVIOUS
  <2>3. u \in Seq(Nat) /\ v \in Seq(Nat) /\ Len(u) = b - a /\ Len(v) = c - b /\ s = u \o v
    BY <1>1, <1>2, <1>4, <2>1, <2>2
  <2>4. /\ s \in Seq(Nat) /\ Len(s) = Len(u) + Len(v)
        /\ \A i \in 1..(Len(u) + Len(v)) : s[i] = IF i <= Len(u) THEN u[i] ELSE v[i - Len(u)]
    BY <2>3, ConcatProperties
  <2>5. Len(u) = b - a /\ Len(v) = c - b
    BY <2>3
  <2>6. \A i \in 1..(b - a) : s[i] = u[i]
    BY <2>4, <2>5
  <2>7. \A i \in (b - a + 1)..(c - a) : s[i] = v[i - (b - a)]
    BY <2>4, <2>5
  <2> QED BY <1>1, <2>1, <2>2, <2>4, <2>5, <2>6, <2>7
<1>6. \A i \in 1..Len(s) : s[i] = Count(a, c)[i]
  <2> SUFFICES ASSUME NEW i \in 1..Len(s)
               PROVE  s[i] = Count(a, c)[i]
    OBVIOUS
  <2>1. CASE i <= b - a
    BY <1>3, <1>5, <2>1
  <2>2. CASE i > b - a
    <3>1. i \in (b - a + 1)..(c - a) /\ i - (b - a) \in 1..(c - b)
      BY <1>5, <2>2
    <3>2. s[i] = b + (i - (b - a))
      BY <1>2, <1>5, <3>1
    <3> QED BY <1>3, <1>5, <3>2
  <2> QED BY <2>1, <2>2
<1> QED BY <1>3, <1>4, <1>5, <1>6, SeqEqual

\* A sequence of stretches, one behind another.
Consecutive(lists, from, to) ==
    \E b \in [0..Len(lists) -> Nat] :
        /\ b[0] = from
        /\ b[Len(lists)] = to
        /\ \A i \in 1..Len(lists) : b[i - 1] <= b[i] /\ lists[i] = Count(b[i - 1], b[i])

\* How such a sequence begins, grows at its end and is taken from at its front.
LEMMA ConsecutiveEmpty ==
    ASSUME NEW a \in Nat
    PROVE  Consecutive(<<>>, a, a)
<1>1. Len(<<>>) = 0
  OBVIOUS
<1>2. PICK b \in [0..0 -> Nat] : b[0] = a
  <2>1. [i \in 0..0 |-> a] \in [0..0 -> Nat] /\ [i \in 0..0 |-> a][0] = a
    OBVIOUS
  <2> QED BY <2>1
<1>3. \A i \in 1..0 : b[i - 1] <= b[i] /\ <<>>[i] = Count(b[i - 1], b[i])
  OBVIOUS
<1> QED BY <1>1, <1>2, <1>3 DEF Consecutive

LEMMA ConsecutiveAppend ==
    ASSUME NEW lists \in Seq(Seq(Nat)), NEW from \in Nat, NEW mid \in Nat, NEW to \in Nat,
           mid <= to, Consecutive(lists, from, mid)
    PROVE  Consecutive(Append(lists, Count(mid, to)), from, to)
<1>1. PICK n \in Nat : n = Len(lists)
  OBVIOUS
<1>2. PICK b \in [0..n -> Nat] :
         /\ b[0] = from
         /\ b[n] = mid
         /\ \A i \in 1..n : b[i - 1] <= b[i] /\ lists[i] = Count(b[i - 1], b[i])
  BY <1>1 DEF Consecutive
<1>3. PICK c : c = [i \in 0..(n + 1) |-> IF i = n + 1 THEN to ELSE b[i]]
  OBVIOUS
<1>4. c \in [0..(n + 1) -> Nat] /\ c[n + 1] = to /\ \A i \in 0..n : c[i] = b[i]
  BY <1>3
<1>5. PICK m : m = Append(lists, Count(mid, to))
  OBVIOUS
<1>6. Len(m) = n + 1 /\ m[n + 1] = Count(mid, to) /\ \A i \in 1..n : m[i] = lists[i]
  BY <1>1, <1>5, CountSeq
<1>7. \A i \in 1..(n + 1) : c[i - 1] <= c[i] /\ m[i] = Count(c[i - 1], c[i])
  <2> SUFFICES ASSUME NEW i \in 1..(n + 1)
               PROVE  c[i - 1] <= c[i] /\ m[i] = Count(c[i - 1], c[i])
    OBVIOUS
  <2>1. CASE i = n + 1
    <3>1. c[i - 1] = mid /\ c[i] = to
      BY <1>2, <1>4, <2>1
    <3> QED BY <1>6, <2>1, <3>1
  <2>2. CASE i # n + 1
    <3>1. i \in 1..n /\ i \in 0..n /\ i - 1 \in 0..n
      BY <2>2
    <3>2. c[i - 1] = b[i - 1] /\ c[i] = b[i] /\ m[i] = lists[i]
      BY <1>4, <1>6, <3>1
    <3> QED BY <1>2, <3>1, <3>2
  <2> QED BY <2>1, <2>2
<1>8. c[0] = from /\ c \in [0..Len(m) -> Nat] /\ c[Len(m)] = to
  BY <1>2, <1>4, <1>6
<1>9. Consecutive(m, from, to)
  BY <1>6, <1>7, <1>8 DEF Consecutive
<1> QED BY <1>5, <1>9

LEMMA ConsecutiveTail ==
    ASSUME NEW lists \in Seq(Seq(Nat)), NEW from \in Nat, NEW to \in Nat,
           lists # <<>>, Consecutive(lists, from, to)
    PROVE  \E mid \in Nat : /\ from <= mid /\ Head(lists) = Count(from, mid)
                            /\ Consecutive(Tail(lists), mid, to)
<1>1. PICK n \in Nat : n = Len(lists) /\ n > 0
  OBVIOUS
<1>2. PICK b \in [0..n -> Nat] :
         /\ b[0] = from
         /\ b[n] = to
         /\ \A i \in 1..n : b[i - 1] <= b[i] /\ lists[i] = Count(b[i - 1], b[i])
  BY <1>1 DEF Consecutive
<1>3. PICK m : m = Tail(lists)
  OBVIOUS
<1>4. Len(m) = n - 1 /\ (\A i \in 1..(n - 1) : m[i] = lists[i + 1]) /\ Head(lists) = lists[1]
  BY <1>1, <1>3
<1>5. PICK c : c = [i \in 0..(n - 1) |-> b[i + 1]]
  OBVIOUS
<1>6. c \in [0..(n - 1) -> Nat] /\ \A i \in 0..(n - 1) : c[i] = b[i + 1]
  BY <1>1, <1>5
<1>7. \A i \in 1..(n - 1) : c[i - 1] <= c[i] /\ m[i] = Count(c[i - 1], c[i])
  <2> SUFFICES ASSUME NEW i \in 1..(n - 1)
               PROVE  c[i - 1] <= c[i] /\ m[i] = Count(c[i - 1], c[i])
    OBVIOUS
  <2>1. /\ i - 1 \in 0..(n - 1) /\ i \in 0..(n - 1) /\ i + 1 \in 1..n
        /\ (i - 1) + 1 = i /\ (i + 1) - 1 = i
    BY <1>1
  <2>2. c[i - 1] = b[i] /\ c[i] = b[i + 1]
    BY <1>6, <2>1
  <2>3. b[i] <= b[i + 1] /\ lists[i + 1] = Count(b[i], b[i + 1])
    BY <1>2, <2>1
  <2> QED BY <1>4, <2>2, <2>3
<1>8. b[1] \in Nat /\ c[0] = b[1] /\ c[n - 1] = to /\ from <= b[1] /\ lists[1] = Count(from, b[1])
  <2>1. 1 \in 1..n /\ 0 \in 0..(n - 1) /\ n - 1 \in 0..(n - 1) /\ (n - 1) + 1 = n /\ 1 - 1 = 0
    BY <1>1
  <2> QED BY <1>2, <1>6, <2>1
<1>9. Consecutive(m, b[1], to)
  BY <1>4, <1>6, <1>7, <1>8 DEF Consecutive
<1> QED BY <1>3, <1>4, <1>8, <1>9

-----------------------------------------------------------------------------
(* The fence manager.                                                      *)

\* The types of what the fence manager keeps.
Fence == [id : Nat, is_stubbed : BOOLEAN]
Download == [id : Nat, dirty : BOOLEAN]
ReleaserAt == {"none", "wait", "exited", "checked", "asleep", "host", "pop", "run"}
Carrying == {"host", "pop", "run"}
SignallerAt == {"idle", "commit", "try_release", "queue", "notify", "finished", "drain", "order",
                "joining"}
Turning == {"try_release", "drain", "order"}
Releaser == [at : ReleaserAt, fence : Fence, operations : Seq(Nat)]
Signaller == [at : SignallerAt, fence : Fence, force : BOOLEAN, owed : Nat]

FenceType ==
    /\ can_async_check \in BOOLEAN
    /\ dirty \in BOOLEAN
    /\ committed \in Seq(Download)
    /\ fences \in Seq(Fence)
    /\ uncommitted_operations \in Seq(Nat)
    /\ pending_operations \in Seq(Seq(Nat))
    /\ host \in Seq(Nat)
    /\ made \in Nat
    /\ issued \in Nat
    /\ ran \in Seq(Nat)
    /\ releaser \in Releaser
    /\ signaller \in Signaller

\* A fence that is made and not queued, one that is taken out and not popped, and the
\* number of fences that were taken out of the queue.
Making == IF signaller.at = "queue" THEN 1 ELSE 0
Releasing == IF releaser.at \in {"host", "pop"} THEN 1 ELSE 0
Released == made - Making - Len(fences)

\* There is a fencing thread or the GPU thread releases fences, not both.
PlaceInv ==
    /\ releaser.at = "none" <=> ~can_async_check
    /\ signaller.at \in Turning => ~can_async_check

\* Where every fence is: released, with the releasing thread, queued, or being made; the
\* committed downloads are of the last fences, one each.
PositionInv ==
    /\ Released \in Nat
    /\ Len(committed) = Len(fences) + Making + Releasing
    /\ Len(pending_operations) = Len(fences)
    /\ \A i \in 1..Len(fences) : fences[i].id = Released + i
    /\ \A i \in 1..Len(committed) : committed[i].id = made - Len(committed) + i
    /\ signaller.at = "queue" => signaller.fence.id = made
    /\ releaser.at \in Carrying => releaser.fence.id = Released

\* The operations that ran or are about to, and those that have a fence.
FirstPending == Len(ran) + Len(releaser.operations)
LastPending == issued - Len(uncommitted_operations)

\* Operations are numbered in the order they were issued: those that ran, those in the
\* hands of the releasing thread, those with a fence, and those without one yet.
OperationInv ==
    /\ releaser.at \notin Carrying => releaser.operations = <<>>
    /\ LastPending \in Nat
    /\ ran = Count(0, Len(ran))
    /\ releaser.operations = Count(Len(ran), FirstPending)
    /\ Consecutive(pending_operations, FirstPending, LastPending)
    /\ uncommitted_operations = Count(LastPending, issued)

\* The host has still to reach only fences that are queued, or the one that the fencing
\* thread waits for, and none of them is a stub.
HostInv ==
    \A i \in 1..Len(host) :
        /\ host[i] \in Released..(Released + Len(fences))
        /\ host[i] = Released => releaser.at = "host" /\ ~releaser.fence.is_stubbed
        /\ \A j \in 1..Len(fences) : host[i] = fences[j].id => ~fences[j].is_stubbed

\* Where the GPU thread releases fences, it waits for a fence exactly if it is no stub.
DirtyInv ==
    /\ ~can_async_check =>
          \A j \in 1..Len(fences) : committed[j].dirty = ~fences[j].is_stubbed
    /\ signaller.at = "queue" => committed[Len(committed)].dirty = ~signaller.fence.is_stubbed

FenceInv == FenceType /\ PlaceInv /\ PositionInv /\ OperationInv /\ HostInv /\ DirtyInv

\* All of it holds when the renderer is made.
LEMMA FenceInitially == Init => FenceInv
<1> SUFFICES ASSUME Init PROVE FenceInv
  OBVIOUS
<1>1. can_async_check \in BOOLEAN
  BY GpuAssumption DEF Init, FenceInit
<1>2. NoFence \in Fence
  BY DEF NoFence, Fence
<1>3. releaser \in Releaser /\ releaser.at \in {"wait", "none"} /\ releaser.operations = <<>>
      /\ (releaser.at = "none" <=> ~can_async_check)
  <2>1. PICK at \in {"wait", "none"} : at = IF can_async_check THEN "wait" ELSE "none"
    OBVIOUS
  <2>2. releaser = [at |-> at, fence |-> NoFence, operations |-> <<>>]
    BY <2>1 DEF Init, FenceInit
  <2>3. at \in ReleaserAt
    BY DEF ReleaserAt
  <2> QED BY <1>1, <1>2, <2>1, <2>2, <2>3 DEF Releaser
<1>4. signaller \in Signaller /\ signaller.at = "idle"
  <2>1. "idle" \in SignallerAt
    BY DEF SignallerAt
  <2> QED BY <1>2, <2>1 DEF Init, FenceInit, Signaller
<1>5. /\ dirty = FALSE /\ committed = <<>> /\ fences = <<>> /\ uncommitted_operations = <<>>
      /\ pending_operations = <<>> /\ host = <<>> /\ made = 0 /\ issued = 0 /\ ran = <<>>
  BY DEF Init, FenceInit
<1>6. FenceType
  <2>1. /\ committed \in Seq(Download) /\ fences \in Seq(Fence) /\ host \in Seq(Nat)
        /\ uncommitted_operations \in Seq(Nat) /\ ran \in Seq(Nat)
        /\ pending_operations \in Seq(Seq(Nat))
    BY <1>5
  <2>2. made \in Nat /\ issued \in Nat /\ dirty \in BOOLEAN
    BY <1>5
  <2> QED BY <1>1, <1>3, <1>4, <2>1, <2>2 DEF FenceType
<1>7. PlaceInv
  BY <1>3, <1>4 DEF PlaceInv, Turning
<1>8. /\ Len(fences) = 0 /\ Len(committed) = 0 /\ Len(host) = 0 /\ Len(ran) = 0
      /\ Len(pending_operations) = 0 /\ Len(uncommitted_operations) = 0
      /\ Len(releaser.operations) = 0
  BY <1>3, <1>5
<1>9. Making = 0 /\ Releasing = 0 /\ Released = 0
  <2>1. made = 0
    BY <1>5
  <2> QED BY <1>3, <1>4, <1>8, <2>1 DEF Making, Releasing, Released
<1>10. PositionInv
  BY <1>3, <1>4, <1>8, <1>9 DEF PositionInv, Carrying
<1>11. FirstPending = 0 /\ LastPending = 0
  <2>1. issued = 0
    BY <1>5
  <2> QED BY <1>8, <2>1 DEF FirstPending, LastPending
<1>12. OperationInv
  <2>1. Count(0, 0) = <<>> /\ Consecutive(<<>>, 0, 0)
    BY CountEmpty, ConsecutiveEmpty
  <2> QED BY <1>3, <1>5, <1>8, <1>11, <2>1 DEF OperationInv
<1>13. HostInv /\ DirtyInv
  BY <1>4, <1>8 DEF HostInv, DirtyInv
<1> QED BY <1>6, <1>7, <1>10, <1>12, <1>13 DEF FenceInv

\* Steps that leave the queues and the numbers alone.
LEMMA FenceFrame ==
    ASSUME FenceInv,
           UNCHANGED <<can_async_check, committed, fences, uncommitted_operations,
                       pending_operations, host, made, issued, ran>>,
           dirty' \in BOOLEAN, releaser' \in Releaser, signaller' \in Signaller,
           \/ signaller' = signaller
           \/ signaller.at # "queue" /\ signaller'.at # "queue",
           signaller'.at \in Turning => ~can_async_check,
           \/ releaser' = releaser
           \/ /\ releaser.at \notin Carrying \union {"none"}
              /\ releaser'.at \notin Carrying \union {"none"}
              /\ releaser'.operations = releaser.operations
    PROVE  FenceInv'
<1>1. FenceType'
  BY DEF FenceInv, FenceType
<1>2. PlaceInv'
  BY DEF FenceInv, PlaceInv
<1>3. /\ Making' = Making /\ Releasing' = Releasing /\ Released' = Released
      /\ FirstPending' = FirstPending /\ LastPending' = LastPending
  BY DEF Making, Releasing, Released, FirstPending, LastPending, Carrying
<1>4. PositionInv'
  BY <1>3 DEF FenceInv, PositionInv, Carrying
<1>5. OperationInv'
  BY <1>3 DEF FenceInv, OperationInv
<1>6. HostInv'
  BY <1>3 DEF FenceInv, HostInv, Carrying
<1>7. DirtyInv'
  BY DEF FenceInv, DirtyInv
<1> QED BY <1>1, <1>2, <1>4, <1>5, <1>6, <1>7 DEF FenceInv

LEMMA SignallerGoes ==
    ASSUME NEW s \in Signaller, NEW to \in SignallerAt
    PROVE  /\ [s EXCEPT !.at = to] \in Signaller
           /\ [s EXCEPT !.at = to].at = to
           /\ [s EXCEPT !.at = to].fence = s.fence
BY DEF Signaller

LEMMA ReleaserGoes ==
    ASSUME NEW r \in Releaser, NEW to \in ReleaserAt
    PROVE  /\ [r EXCEPT !.at = to] \in Releaser
           /\ [r EXCEPT !.at = to].at = to
           /\ [r EXCEPT !.at = to].fence = r.fence
           /\ [r EXCEPT !.at = to].operations = r.operations
BY DEF Releaser

\* The host reaches a fence.
LEMMA HostReachStep ==
    ASSUME FenceInv, HostReach
    PROVE  FenceInv'
<1>1. /\ host # <<>> /\ host' = Tail(host)
      /\ UNCHANGED <<can_async_check, dirty, committed, fences, uncommitted_operations,
                     pending_operations, made, issued, ran, releaser, signaller>>
  BY DEF HostReach
<1>2. host \in Seq(Nat)
  BY DEF FenceInv, FenceType
<1>3. /\ host' \in Seq(Nat) /\ Len(host') = Len(host) - 1
      /\ \A i \in 1..Len(host') : i + 1 \in 1..Len(host) /\ host'[i] = host[i + 1]
  BY <1>1, <1>2
<1>4. /\ Making' = Making /\ Releasing' = Releasing /\ Released' = Released
      /\ FirstPending' = FirstPending /\ LastPending' = LastPending
  BY <1>1 DEF Making, Releasing, Released, FirstPending, LastPending
<1>5. FenceType'
  BY <1>1, <1>3 DEF FenceInv, FenceType
<1>6. PlaceInv' /\ PositionInv' /\ DirtyInv'
  BY <1>1, <1>4 DEF FenceInv, PlaceInv, PositionInv, DirtyInv
<1>7. OperationInv'
  BY <1>1, <1>4 DEF FenceInv, OperationInv
<1>8. HostInv'
  BY <1>1, <1>3, <1>4 DEF FenceInv, HostInv
<1> QED BY <1>5, <1>6, <1>7, <1>8 DEF FenceInv

\* An operation is issued: it gets the next number.
LEMMA SyncOperationStep ==
    ASSUME FenceInv, SyncOperation
    PROVE  FenceInv'
<1>1. /\ issued' = issued + 1
      /\ uncommitted_operations' = Append(uncommitted_operations, issued + 1)
      /\ UNCHANGED <<can_async_check, dirty, committed, fences, pending_operations, host, made,
                     ran, releaser, signaller>>
  BY DEF SyncOperation
<1>2. issued \in Nat /\ uncommitted_operations \in Seq(Nat) /\ LastPending \in Nat
  BY DEF FenceInv, FenceType, OperationInv
<1>3. uncommitted_operations' \in Seq(Nat)
      /\ Len(uncommitted_operations') = Len(uncommitted_operations) + 1
  BY <1>1, <1>2
<1>4. LastPending' = LastPending /\ LastPending <= issued
  BY <1>1, <1>2, <1>3 DEF LastPending
<1>5. /\ Making' = Making /\ Releasing' = Releasing /\ Released' = Released
      /\ FirstPending' = FirstPending
  BY <1>1 DEF Making, Releasing, Released, FirstPending
<1>6. FenceType'
  BY <1>1, <1>2, <1>3 DEF FenceInv, FenceType
<1>7. PlaceInv' /\ PositionInv' /\ DirtyInv' /\ HostInv'
  BY <1>1, <1>5 DEF FenceInv, PlaceInv, PositionInv, DirtyInv, HostInv
<1>8. uncommitted_operations' = Count(LastPending, issued')
  <2>1. uncommitted_operations = Count(LastPending, issued)
    BY DEF FenceInv, OperationInv
  <2>2. Append(Count(LastPending, issued), issued + 1) = Count(LastPending, issued + 1)
    BY <1>2, <1>4, CountAppend
  <2>3. uncommitted_operations' = Append(Count(LastPending, issued), issued + 1)
    BY <1>1, <2>1
  <2> QED BY <1>1, <2>2, <2>3
<1>9. OperationInv'
  BY <1>1, <1>2, <1>4, <1>5, <1>8 DEF FenceInv, OperationInv
<1> QED BY <1>6, <1>7, <1>9 DEF FenceInv

\* A queue without its front.
LEMMA TailFacts ==
    ASSUME NEW S, NEW s \in Seq(S), s # <<>>
    PROVE  /\ Len(s) \in Nat /\ Len(s) >= 1 /\ Head(s) = s[1] /\ s[1] \in S
           /\ Tail(s) \in Seq(S) /\ Len(Tail(s)) = Len(s) - 1
           /\ \A i \in 1..(Len(s) - 1) : i + 1 \in 1..Len(s) /\ Tail(s)[i] = s[i + 1]
OBVIOUS

\* The GPU thread releases the oldest fence: the host has reached it, or it is a stub.
LEMMA ReleaseFrontStep ==
    ASSUME FenceInv, NEW next \in Turning, signaller.at \in Turning, ReleaseFront(next)
    PROVE  FenceInv'
<1>1. /\ fences # <<>>
      /\ ShouldWait => IsFenceSignaled(Head(fences))
      /\ committed' = Tail(committed)
      /\ ran' = ran \o Head(pending_operations)
      /\ pending_operations' = Tail(pending_operations)
      /\ fences' = Tail(fences)
      /\ signaller' = [signaller EXCEPT !.at = next]
      /\ UNCHANGED <<can_async_check, dirty, uncommitted_operations, host, made, issued, releaser>>
  BY DEF ReleaseFront
<1>2. FenceType
  BY DEF FenceInv
<1>3. ~can_async_check /\ releaser.at = "none"
  BY DEF FenceInv, PlaceInv
<1>4. /\ next \in SignallerAt /\ next # "queue" /\ signaller.at # "queue"
      /\ releaser.at \notin Carrying
  BY <1>3 DEF Turning, SignallerAt, Carrying
<1>5. signaller' \in Signaller /\ signaller'.at = next
  BY <1>1, <1>2, <1>4, SignallerGoes DEF FenceType
<1>6. Making = 0 /\ Making' = 0 /\ Releasing = 0 /\ Releasing' = 0
  BY <1>1, <1>3, <1>4, <1>5 DEF Making, Releasing
<1>7. Len(committed) = Len(fences) /\ Len(pending_operations) = Len(fences) /\ Len(fences) \in Nat
  BY <1>2, <1>6 DEF FenceInv, PositionInv, FenceType
<1>8. /\ Len(fences) >= 1 /\ Head(fences) = fences[1] /\ fences[1] \in Fence
      /\ fences' \in Seq(Fence) /\ Len(fences') = Len(fences) - 1
      /\ \A i \in 1..(Len(fences) - 1) : i + 1 \in 1..Len(fences) /\ fences'[i] = fences[i + 1]
  BY <1>1, <1>2, TailFacts DEF FenceType
<1>9. committed # <<>> /\ pending_operations # <<>>
  BY <1>7, <1>8
<1>10. /\ Head(committed) = committed[1]
       /\ committed' \in Seq(Download) /\ Len(committed') = Len(committed) - 1
       /\ \A i \in 1..(Len(committed) - 1) : /\ i + 1 \in 1..Len(committed)
                                             /\ committed'[i] = committed[i + 1]
  BY <1>1, <1>2, <1>9, TailFacts DEF FenceType
<1>11. /\ Head(pending_operations) \in Seq(Nat)
       /\ pending_operations' \in Seq(Seq(Nat))
       /\ Len(pending_operations') = Len(pending_operations) - 1
  BY <1>1, <1>2, <1>9, TailFacts DEF FenceType
<1>12. FenceType'
  <2>1. ran' \in Seq(Nat)
    BY <1>1, <1>2, <1>11 DEF FenceType
  <2> QED BY <1>1, <1>2, <1>5, <1>8, <1>10, <1>11, <2>1 DEF FenceType
<1>13. PlaceInv'
  BY <1>1, <1>3 DEF PlaceInv
<1>14. Released \in Nat /\ Released' = Released + 1
  BY <1>1, <1>2, <1>6, <1>7, <1>8 DEF FenceInv, PositionInv, Released, FenceType
<1>15. PositionInv'
  <2>1. \A i \in 1..Len(fences') : fences'[i].id = Released' + i
    <3> SUFFICES ASSUME NEW i \in 1..Len(fences')
                 PROVE  fences'[i].id = Released' + i
      OBVIOUS
    <3>1. fences'[i].id = Released + (i + 1)
      BY <1>8 DEF FenceInv, PositionInv
    <3> QED BY <1>14, <3>1
  <2>2. \A i \in 1..Len(committed') : committed'[i].id = made - Len(committed') + i
    <3> SUFFICES ASSUME NEW i \in 1..Len(committed')
                 PROVE  committed'[i].id = made - Len(committed') + i
      OBVIOUS
    <3>1. committed'[i].id = made - Len(committed) + (i + 1)
      BY <1>10 DEF FenceInv, PositionInv
    <3> QED BY <1>2, <1>7, <1>10, <3>1 DEF FenceType
  <2>3. Len(committed') = Len(fences') + Making' + Releasing'
        /\ Len(pending_operations') = Len(fences')
    BY <1>6, <1>7, <1>8, <1>10, <1>11
  <2> QED BY <1>1, <1>4, <1>5, <1>14, <2>1, <2>2, <2>3 DEF PositionInv
<1>16. OperationInv'
  <2>1. /\ releaser.operations = <<>> /\ LastPending \in Nat /\ ran = Count(0, Len(ran))
        /\ Consecutive(pending_operations, FirstPending, LastPending)
        /\ uncommitted_operations = Count(LastPending, issued)
    BY <1>4 DEF FenceInv, OperationInv
  <2>2. Len(ran) \in Nat
    BY <1>2 DEF FenceType
  <2>3. FirstPending = Len(ran)
    <3>1. Len(releaser.operations) = 0
      BY <2>1
    <3> QED BY <2>2, <3>1 DEF FirstPending
  <2>4. PICK mid \in Nat : /\ Len(ran) <= mid /\ Head(pending_operations) = Count(Len(ran), mid)
                           /\ Consecutive(Tail(pending_operations), mid, LastPending)
    <3>1. Consecutive(pending_operations, Len(ran), LastPending)
      BY <2>1, <2>3
    <3>2. pending_operations \in Seq(Seq(Nat)) /\ LastPending \in Nat
      BY <1>2, <2>1 DEF FenceType
    <3> QED BY <1>9, <2>2, <3>1, <3>2, ConsecutiveTail
  <2>5. ran' = Count(0, mid)
    <3>1. Count(0, Len(ran)) \o Count(Len(ran), mid) = Count(0, mid)
      <4>1. 0 \in Nat /\ 0 <= Len(ran)
        BY <2>2
      <4> QED BY <2>2, <2>4, <4>1, CountConcat
    <3> QED BY <1>1, <2>1, <2>4, <3>1
  <2>6. Len(ran') = mid
    <3>1. Len(Count(0, mid)) = mid
      BY CountSeq
    <3> QED BY <2>5, <3>1
  <2>7. FirstPending' = mid /\ LastPending' = LastPending
    <3>1. Len(releaser'.operations) = 0
      BY <1>1, <2>1
    <3>2. LastPending' = LastPending
      BY <1>1 DEF LastPending
    <3> QED BY <2>6, <3>1, <3>2 DEF FirstPending
  <2>8. releaser'.operations = Count(mid, mid)
    BY <1>1, <2>1, CountEmpty
  <2> QED BY <1>1, <2>1, <2>4, <2>5, <2>6, <2>7, <2>8 DEF OperationInv
<1>17. HostInv'
  <2> SUFFICES ASSUME NEW i \in 1..Len(host)
               PROVE  /\ host[i] \in Released'..(Released' + Len(fences'))
                      /\ host[i] # Released'
                      /\ \A j \in 1..Len(fences') : host[i] = fences'[j].id => ~fences'[j].is_stubbed
    BY <1>1 DEF HostInv
  <2>1. host[i] \in Released..(Released + Len(fences)) /\ host[i] # Released
    BY <1>3 DEF FenceInv, HostInv
  <2>2. host[i] # Released + 1
    <3> SUFFICES ASSUME host[i] = Released + 1 PROVE FALSE
      OBVIOUS
    <3>1. 1 \in 1..Len(fences)
      BY <1>7, <1>8
    <3>2. fences[1].id = Released + 1
      BY <3>1 DEF FenceInv, PositionInv
    <3>3. ~fences[1].is_stubbed
      BY <3>1, <3>2 DEF FenceInv, HostInv
    <3>4. committed[1].dirty
      BY <1>3, <3>1, <3>3 DEF FenceInv, DirtyInv
    <3>5. ShouldWait
      BY <1>9, <1>10, <3>4 DEF ShouldWait
    <3>6. ~Contains(host, fences[1].id)
      BY <1>1, <1>8, <3>5 DEF IsFenceSignaled
    <3> QED BY <3>2, <3>6 DEF Contains
  <2>3. \A j \in 1..Len(fences') : host[i] = fences'[j].id => ~fences'[j].is_stubbed
    BY <1>8 DEF FenceInv, HostInv
  <2>4. host[i] \in Released'..(Released' + Len(fences')) /\ host[i] # Released'
    BY <1>7, <1>8, <1>14, <2>1, <2>2
  <2> QED BY <2>3, <2>4
<1>18. DirtyInv'
  <2>1. \A j \in 1..Len(fences') : committed'[j].dirty = ~fences'[j].is_stubbed
    <3> SUFFICES ASSUME NEW j \in 1..Len(fences')
                 PROVE  committed'[j].dirty = ~fences'[j].is_stubbed
      OBVIOUS
    <3>1. committed'[j] = committed[j + 1] /\ fences'[j] = fences[j + 1] /\ j + 1 \in 1..Len(fences)
      BY <1>7, <1>8, <1>10
    <3> QED BY <1>3, <3>1 DEF FenceInv, DirtyInv
  <2> QED BY <1>4, <1>5, <2>1 DEF DirtyInv
<1> QED BY <1>12, <1>13, <1>15, <1>16, <1>17, <1>18 DEF FenceInv

\* A fence is made for the downloads committed with it.
LEMMA SignalCommitStep ==
    ASSUME FenceInv, SignalCommit
    PROVE  FenceInv'
<1>1. /\ signaller.at = "commit"
      /\ made' = made + 1
      /\ signaller' = [signaller EXCEPT !.at = "queue",
                                        !.fence = [id |-> made + 1, is_stubbed |-> ~dirty]]
      /\ committed' = Append(committed, [id |-> made + 1, dirty |-> dirty])
      /\ dirty' = FALSE
      /\ UNCHANGED <<can_async_check, fences, uncommitted_operations, pending_operations, host,
                     issued, ran, releaser>>
  BY DEF SignalCommit
<1>2. FenceType
  BY DEF FenceInv
<1>3. PICK f \in Fence : f = [id |-> made + 1, is_stubbed |-> ~dirty]
  <2>1. made + 1 \in Nat /\ (~dirty) \in BOOLEAN
    BY <1>2 DEF FenceType
  <2>2. [id |-> made + 1, is_stubbed |-> ~dirty] \in Fence
    BY <2>1 DEF Fence
  <2> QED BY <2>2
<1>4. PICK d \in Download : d = [id |-> made + 1, dirty |-> dirty]
  <2>1. made + 1 \in Nat /\ dirty \in BOOLEAN
    BY <1>2 DEF FenceType
  <2>2. [id |-> made + 1, dirty |-> dirty] \in Download
    BY <2>1 DEF Download
  <2> QED BY <2>2
<1>5. f.id = made + 1 /\ d.id = made + 1 /\ d.dirty = ~f.is_stubbed
  BY <1>2, <1>3, <1>4 DEF FenceType
<1>6. signaller' \in Signaller /\ signaller'.at = "queue" /\ signaller'.fence = f
  <2>1. "queue" \in SignallerAt
    BY DEF SignallerAt
  <2>2. signaller' = [signaller EXCEPT !.at = "queue", !.fence = f]
    BY <1>1, <1>3
  <2> QED BY <1>2, <2>1, <2>2 DEF FenceType, Signaller
<1>7. /\ committed' \in Seq(Download) /\ Len(committed') = Len(committed) + 1
      /\ committed'[Len(committed) + 1] = d
      /\ \A i \in 1..Len(committed) : committed'[i] = committed[i]
  <2>1. committed' = Append(committed, d)
    BY <1>1, <1>4
  <2> QED BY <1>2, <2>1 DEF FenceType
<1>8. /\ Making = 0 /\ Making' = 1 /\ Releasing' = Releasing
      /\ FirstPending' = FirstPending /\ LastPending' = LastPending
  BY <1>1, <1>6 DEF Making, Releasing, FirstPending, LastPending
<1>9. /\ Released \in Nat /\ Released' = Released
      /\ Len(committed) \in Nat /\ Len(fences) \in Nat /\ made \in Nat
      /\ Len(committed) = Len(fences) + Making + Releasing
  BY <1>1, <1>2, <1>8 DEF FenceInv, PositionInv, Released, FenceType
<1>10. FenceType'
  <2>1. made' \in Nat /\ dirty' \in BOOLEAN
    <3>1. made' = made + 1 /\ dirty' = FALSE
      BY <1>1
    <3>2. made' \in Nat
      BY <1>9, <3>1
    <3> QED BY <3>1, <3>2
  <2>2. /\ can_async_check' \in BOOLEAN /\ fences' \in Seq(Fence) /\ host' \in Seq(Nat)
        /\ uncommitted_operations' \in Seq(Nat) /\ pending_operations' \in Seq(Seq(Nat))
        /\ issued' \in Nat /\ ran' \in Seq(Nat) /\ releaser' \in Releaser
    BY <1>1, <1>2 DEF FenceType
  <2> QED BY <1>6, <1>7, <2>1, <2>2 DEF FenceType
<1>11. PlaceInv'
  BY <1>1, <1>6 DEF FenceInv, PlaceInv, Turning
<1>12. PositionInv'
  <2>1. \A i \in 1..Len(committed') : committed'[i].id = made' - Len(committed') + i
    <3> SUFFICES ASSUME NEW i \in 1..Len(committed')
                 PROVE  committed'[i].id = made' - Len(committed') + i
      OBVIOUS
    <3>1. CASE i = Len(committed) + 1
      BY <1>1, <1>5, <1>7, <1>9, <3>1
    <3>2. CASE i # Len(committed) + 1
      <4>1. i \in 1..Len(committed)
        BY <1>7, <1>9, <3>2
      <4>2. committed'[i].id = made - Len(committed) + i
        BY <1>7, <4>1 DEF FenceInv, PositionInv
      <4> QED BY <1>1, <1>7, <1>9, <4>2
    <3> QED BY <3>1, <3>2
  <2>2. Releasing \in Nat
    BY DEF Releasing
  <2>3. Len(committed') = Len(fences') + Making' + Releasing'
    BY <1>1, <1>7, <1>8, <1>9, <2>2
  <2>4. signaller'.fence.id = made'
    BY <1>1, <1>5, <1>6
  <2> QED BY <1>1, <1>9, <2>1, <2>3, <2>4 DEF FenceInv, PositionInv
<1>13. OperationInv'
  BY <1>1, <1>8 DEF FenceInv, OperationInv
<1>14. HostInv'
  BY <1>1, <1>9 DEF FenceInv, HostInv
<1>15. DirtyInv'
  <2>1. \A j \in 1..Len(fences) : j \in 1..Len(committed)
    <3>1. Making \in Nat /\ Releasing \in Nat
      BY DEF Making, Releasing
    <3> QED BY <1>9, <3>1
  <2>2. ~can_async_check =>
           \A j \in 1..Len(fences) : committed'[j].dirty = ~fences[j].is_stubbed
    BY <1>7, <2>1 DEF FenceInv, DirtyInv
  <2>3. committed'[Len(committed')].dirty = ~signaller'.fence.is_stubbed
    BY <1>5, <1>6, <1>7
  <2> QED BY <1>1, <2>2, <2>3 DEF DirtyInv
<1> QED BY <1>10, <1>11, <1>12, <1>13, <1>14, <1>15 DEF FenceInv

\* The fence and its operations are queued under guard.
LEMMA SignalQueueStep ==
    ASSUME FenceInv, NEW delay_fence \in BOOLEAN, SignalQueue(delay_fence)
    PROVE  FenceInv'
<1>1. PICK n : n = IF delay_fence THEN issued + 1 ELSE issued
  OBVIOUS
<1>2. PICK last : last = IF delay_fence THEN Append(uncommitted_operations, n)
                                        ELSE uncommitted_operations
  OBVIOUS
<1>3. PICK f : f = signaller.fence
  OBVIOUS
<1>4. /\ signaller.at = "queue"
      /\ issued' = n
      /\ pending_operations' = Append(pending_operations, last)
      /\ uncommitted_operations' = <<>>
      /\ host' = IF f.is_stubbed THEN host ELSE Append(host, f.id)
      /\ fences' = Append(fences, f)
      /\ signaller' = [signaller EXCEPT !.at = IF can_async_check THEN "notify" ELSE "idle",
                                        !.owed = IF delay_fence THEN issued' ELSE 0]
      /\ UNCHANGED <<can_async_check, dirty, committed, made, ran, releaser>>
  BY <1>1, <1>2, <1>3 DEF SignalQueue
<1>5. FenceType
  BY DEF FenceInv
<1>6. f \in Fence /\ f.id = made /\ made \in Nat
  BY <1>3, <1>4, <1>5 DEF FenceInv, PositionInv, FenceType, Signaller
<1>7. n \in Nat /\ issued \in Nat /\ issued <= n
  BY <1>1, <1>5 DEF FenceType
<1>8. signaller' \in Signaller /\ signaller'.at \in {"notify", "idle"}
  <2>1. PICK to \in {"notify", "idle"} : to = IF can_async_check THEN "notify" ELSE "idle"
    OBVIOUS
  <2>2. PICK owed \in Nat : owed = IF delay_fence THEN issued' ELSE 0
    BY <1>4, <1>7
  <2>3. signaller' = [signaller EXCEPT !.at = to, !.owed = owed]
    BY <1>4, <2>1, <2>2
  <2>4. to \in SignallerAt
    BY DEF SignallerAt
  <2> QED BY <1>5, <2>3, <2>4 DEF FenceType, Signaller
<1>9. /\ fences' \in Seq(Fence) /\ Len(fences') = Len(fences) + 1
      /\ fences'[Len(fences) + 1] = f
      /\ \A i \in 1..Len(fences) : fences'[i] = fences[i]
  BY <1>4, <1>5, <1>6 DEF FenceType
<1>10. /\ Making = 1 /\ Making' = 0 /\ Releasing' = Releasing /\ Releasing \in Nat
  BY <1>4, <1>8 DEF Making, Releasing
<1>11. /\ Released \in Nat /\ Released' = Released /\ Len(fences) \in Nat
       /\ made = Released + Len(fences) + 1
  <2>1. Len(fences) \in Nat /\ made' = made
    BY <1>4, <1>5 DEF FenceType
  <2>2. Released \in Nat
    BY DEF FenceInv, PositionInv
  <2>3. Released = made - 1 - Len(fences) /\ Released' = made - 0 - (Len(fences) + 1)
    BY <1>9, <1>10, <2>1 DEF Released
  <2> QED BY <1>6, <2>1, <2>2, <2>3
<1>12. /\ LastPending \in Nat /\ LastPending <= issued
       /\ uncommitted_operations = Count(LastPending, issued)
  <2>1. Len(uncommitted_operations) \in Nat
    BY <1>5 DEF FenceType
  <2> QED BY <1>7, <2>1 DEF FenceInv, OperationInv, LastPending
<1>13. last = Count(LastPending, n)
  <2>1. CASE delay_fence
    <3>1. Append(Count(LastPending, issued), issued + 1) = Count(LastPending, issued + 1)
      BY <1>7, <1>12, CountAppend
    <3> QED BY <1>1, <1>2, <1>12, <2>1, <3>1
  <2>2. CASE ~delay_fence
    BY <1>1, <1>2, <1>12, <2>2
  <2> QED BY <2>1, <2>2
<1>14. last \in Seq(Nat) /\ LastPending <= n
  <2>1. LastPending <= n
    BY <1>7, <1>12
  <2> QED BY <1>7, <1>12, <1>13, <2>1, CountSeq
<1>15. /\ pending_operations' \in Seq(Seq(Nat))
       /\ Len(pending_operations') = Len(pending_operations) + 1
  BY <1>4, <1>5, <1>14 DEF FenceType
<1>16. /\ host' \in Seq(Nat)
       /\ \A i \in 1..Len(host') : \/ i \in 1..Len(host) /\ host'[i] = host[i]
                                   \/ host'[i] = made /\ ~f.is_stubbed
  <2>1. CASE f.is_stubbed
    BY <1>4, <1>5, <2>1 DEF FenceType
  <2>2. CASE ~f.is_stubbed
    <3>1. host' = Append(host, made) /\ host \in Seq(Nat)
      BY <1>4, <1>5, <1>6, <2>2 DEF FenceType
    <3>2. /\ host' \in Seq(Nat) /\ Len(host') = Len(host) + 1 /\ host'[Len(host) + 1] = made
          /\ \A i \in 1..Len(host) : host'[i] = host[i]
      BY <1>6, <3>1
    <3> QED BY <2>2, <3>1, <3>2
  <2> QED BY <2>1, <2>2
<1>17. FenceType'
  <2>1. uncommitted_operations' \in Seq(Nat)
    BY <1>4
  <2>2. /\ can_async_check' \in BOOLEAN /\ dirty' \in BOOLEAN /\ committed' \in Seq(Download)
        /\ made' \in Nat /\ ran' \in Seq(Nat) /\ releaser' \in Releaser
    BY <1>4, <1>5 DEF FenceType
  <2>3. issued' \in Nat
    BY <1>4, <1>7
  <2> QED BY <1>8, <1>9, <1>15, <1>16, <2>1, <2>2, <2>3 DEF FenceType
<1>18. PlaceInv'
  BY <1>4, <1>8 DEF FenceInv, PlaceInv, Turning
<1>19. PositionInv'
  <2>1. \A i \in 1..Len(fences') : fences'[i].id = Released' + i
    <3> SUFFICES ASSUME NEW i \in 1..Len(fences')
                 PROVE  fences'[i].id = Released' + i
      OBVIOUS
    <3>1. CASE i = Len(fences) + 1
      BY <1>6, <1>9, <1>11, <3>1
    <3>2. CASE i # Len(fences) + 1
      <4>1. i \in 1..Len(fences)
        BY <1>9, <1>11, <3>2
      <4> QED BY <1>9, <1>11, <4>1 DEF FenceInv, PositionInv
    <3> QED BY <3>1, <3>2
  <2>2. /\ Len(committed) = Len(fences) + Making + Releasing
        /\ Len(pending_operations) = Len(fences)
        /\ \A i \in 1..Len(committed) : committed[i].id = made - Len(committed) + i
        /\ releaser.at \in Carrying => releaser.fence.id = Released
    BY DEF FenceInv, PositionInv
  <2>3. Len(committed) = Len(fences') + Making' + Releasing'
        /\ Len(pending_operations') = Len(fences')
    BY <1>9, <1>10, <1>11, <1>15, <2>2
  <2>4. signaller'.at # "queue"
    BY <1>8
  <2>5. UNCHANGED <<committed, made, releaser>>
    BY <1>4
  <2>6. Released' \in Nat /\ (releaser'.at \in Carrying => releaser'.fence.id = Released')
    <3>1. releaser.at \in Carrying => releaser.fence.id = Released
      BY <2>2
    <3>2. releaser' = releaser
      BY <2>5
    <3>3. Released' = Released /\ Released \in Nat
      BY <1>11
    <3> QED BY <3>1, <3>2, <3>3
  <2>7. \A i \in 1..Len(committed') : committed'[i].id = made' - Len(committed') + i
    BY <2>2, <2>5
  <2>8. Len(committed') = Len(fences') + Making' + Releasing'
    BY <2>3, <2>5
  <2> QED BY <2>1, <2>3, <2>4, <2>6, <2>7, <2>8 DEF PositionInv
<1>20. OperationInv'
  <2>1. Len(uncommitted_operations') = 0
    BY <1>4
  <2>2. FirstPending' = FirstPending /\ LastPending' = n
    BY <1>4, <1>7, <2>1 DEF FirstPending, LastPending
  <2>3. Consecutive(pending_operations', FirstPending, n)
    <3>1. Consecutive(pending_operations, FirstPending, LastPending)
      BY DEF FenceInv, OperationInv
    <3>2. FirstPending \in Nat /\ pending_operations \in Seq(Seq(Nat))
      BY <1>5 DEF FirstPending, FenceType, Releaser
    <3>3. Consecutive(Append(pending_operations, Count(LastPending, n)), FirstPending, n)
      BY <1>7, <1>12, <1>14, <3>1, <3>2, ConsecutiveAppend
    <3> QED BY <1>4, <1>13, <3>3
  <2>4. uncommitted_operations' = Count(n, n)
    BY <1>4, <1>7, CountEmpty
  <2> QED BY <1>4, <1>7, <2>2, <2>3, <2>4 DEF FenceInv, OperationInv
<1>21. HostInv'
  <2> SUFFICES ASSUME NEW i \in 1..Len(host')
               PROVE  /\ host'[i] \in Released..(Released + Len(fences'))
                      /\ host'[i] = Released => releaser.at = "host" /\ ~releaser.fence.is_stubbed
                      /\ \A j \in 1..Len(fences') : host'[i] = fences'[j].id => ~fences'[j].is_stubbed
    BY <1>4, <1>11 DEF HostInv
  <2>1. CASE i \in 1..Len(host) /\ host'[i] = host[i]
    <3>1. /\ host[i] \in Released..(Released + Len(fences))
          /\ host[i] = Released => releaser.at = "host" /\ ~releaser.fence.is_stubbed
          /\ \A j \in 1..Len(fences) : host[i] = fences[j].id => ~fences[j].is_stubbed
      BY <2>1 DEF FenceInv, HostInv
    <3>2. host[i] # f.id
      BY <1>6, <1>11, <3>1
    <3>3. \A j \in 1..Len(fences') : host[i] = fences'[j].id => ~fences'[j].is_stubbed
      <4> SUFFICES ASSUME NEW j \in 1..Len(fences'), host[i] = fences'[j].id
                   PROVE  ~fences'[j].is_stubbed
        OBVIOUS
      <4>1. j \in 1..Len(fences)
        BY <1>9, <1>11, <3>2
      <4> QED BY <1>9, <3>1, <4>1
    <3>4. host[i] \in Released..(Released + Len(fences'))
      BY <1>9, <1>11, <3>1
    <3> QED BY <2>1, <3>1, <3>3, <3>4
  <2>2. CASE host'[i] = made /\ ~f.is_stubbed
    <3>1. host'[i] \in Released..(Released + Len(fences')) /\ host'[i] # Released
      BY <1>9, <1>11, <2>2
    <3>2. \A j \in 1..Len(fences') : host'[i] = fences'[j].id => ~fences'[j].is_stubbed
      <4> SUFFICES ASSUME NEW j \in 1..Len(fences'), host'[i] = fences'[j].id
                   PROVE  ~fences'[j].is_stubbed
        OBVIOUS
      <4>1. CASE j \in 1..Len(fences)
        <5>1. fences'[j].id = Released + j
          BY <1>9, <4>1 DEF FenceInv, PositionInv
        <5>2. host'[i] = made
          BY <2>2
        <5> QED BY <1>11, <4>1, <5>1, <5>2
      <4>2. CASE j = Len(fences) + 1
        BY <1>9, <2>2, <4>2
      <4> QED BY <1>9, <1>11, <4>1, <4>2
    <3> QED BY <3>1, <3>2
  <2> QED BY <1>16, <2>1, <2>2
<1>22. DirtyInv'
  <2>1. signaller'.at # "queue"
    BY <1>8
  <2>2. ASSUME ~can_async_check
        PROVE  \A j \in 1..Len(fences') : committed[j].dirty = ~fences'[j].is_stubbed
    <3>1. Len(committed) = Len(fences) + 1
      BY <1>10, <1>11, <2>2 DEF FenceInv, PositionInv, PlaceInv, Releasing
    <3>2. committed[Len(fences) + 1].dirty = ~f.is_stubbed
      BY <1>3, <1>4, <3>1 DEF FenceInv, DirtyInv
    <3> SUFFICES ASSUME NEW j \in 1..Len(fences')
                 PROVE  committed[j].dirty = ~fences'[j].is_stubbed
      OBVIOUS
    <3>3. CASE j = Len(fences) + 1
      BY <1>9, <3>2, <3>3
    <3>4. CASE j # Len(fences) + 1
      <4>1. j \in 1..Len(fences)
        BY <1>9, <1>11, <3>4
      <4> QED BY <1>9, <2>2, <4>1 DEF FenceInv, DirtyInv
    <3> QED BY <3>3, <3>4
  <2> QED BY <1>4, <2>1, <2>2 DEF DirtyInv
<1> QED BY <1>17, <1>18, <1>19, <1>20, <1>21, <1>22 DEF FenceInv

\* The fencing thread takes the oldest fence and its operations.
LEMMA ReleaseTakes ==
    ASSUME FenceInv, releaser.at = "wait", fences # <<>>,
           releaser' = [at |-> "host", fence |-> Head(fences),
                        operations |-> Head(pending_operations)],
           fences' = Tail(fences), pending_operations' = Tail(pending_operations),
           UNCHANGED <<can_async_check, dirty, committed, uncommitted_operations, host, made,
                       issued, ran, signaller>>
    PROVE  FenceInv'
<1>1. FenceType
  BY DEF FenceInv
<1>2. /\ Len(fences) \in Nat /\ Len(fences) >= 1 /\ Head(fences) = fences[1] /\ fences[1] \in Fence
      /\ fences' \in Seq(Fence) /\ Len(fences') = Len(fences) - 1
      /\ \A i \in 1..(Len(fences) - 1) : i + 1 \in 1..Len(fences) /\ fences'[i] = fences[i + 1]
  BY <1>1, TailFacts DEF FenceType
<1>3. Len(pending_operations) = Len(fences)
  BY DEF FenceInv, PositionInv
<1>4. pending_operations # <<>>
  BY <1>2, <1>3
<1>5. /\ Head(pending_operations) \in Seq(Nat)
      /\ pending_operations' \in Seq(Seq(Nat))
      /\ Len(pending_operations') = Len(pending_operations) - 1
  BY <1>1, <1>4, TailFacts DEF FenceType
<1>6. /\ releaser' \in Releaser /\ releaser'.at = "host" /\ releaser'.fence = fences[1]
      /\ releaser'.operations = Head(pending_operations)
  <2>1. "host" \in ReleaserAt
    BY DEF ReleaserAt
  <2> QED BY <1>2, <1>5, <2>1 DEF Releaser
<1>7. Making' = Making /\ Making \in Nat /\ Releasing = 0 /\ Releasing' = 1
  BY <1>6 DEF Making, Releasing
<1>8. Released \in Nat /\ Released' = Released + 1 /\ LastPending' = LastPending
  <2>1. Released \in Nat /\ made \in Nat
    BY <1>1 DEF FenceInv, PositionInv, FenceType
  <2>2. Released = made - Making - Len(fences) /\ Released' = made - Making - (Len(fences) - 1)
    BY <1>2, <1>7 DEF Released
  <2>3. LastPending' = LastPending
    BY DEF LastPending
  <2> QED BY <1>2, <1>7, <2>1, <2>2, <2>3
<1>9. FenceType'
  BY <1>1, <1>2, <1>5, <1>6 DEF FenceType
<1>10. PlaceInv'
  BY <1>6 DEF FenceInv, PlaceInv
<1>11. 1 \in 1..Len(fences) /\ fences[1].id = Released + 1
  BY <1>2 DEF FenceInv, PositionInv
<1>12. PositionInv'
  <2>1. \A i \in 1..Len(fences') : fences'[i].id = Released' + i
    <3> SUFFICES ASSUME NEW i \in 1..Len(fences')
                 PROVE  fences'[i].id = Released' + i
      OBVIOUS
    <3>1. fences'[i].id = Released + (i + 1)
      BY <1>2 DEF FenceInv, PositionInv
    <3> QED BY <1>8, <3>1
  <2>2. /\ Len(committed) = Len(fences) + Making + Releasing
        /\ \A i \in 1..Len(committed) : committed[i].id = made - Len(committed) + i
        /\ signaller.at = "queue" => signaller.fence.id = made
    BY DEF FenceInv, PositionInv
  <2>3. Len(committed') = Len(fences') + Making' + Releasing'
        /\ Len(pending_operations') = Len(fences')
    BY <1>2, <1>3, <1>5, <1>7, <2>2
  <2>4. Released' \in Nat /\ releaser'.fence.id = Released'
    BY <1>6, <1>8, <1>11
  <2>5. /\ \A i \in 1..Len(committed') : committed'[i].id = made' - Len(committed') + i
        /\ signaller'.at = "queue" => signaller'.fence.id = made'
    BY <2>2
  <2> QED BY <2>1, <2>3, <2>4, <2>5 DEF PositionInv
<1>13. OperationInv'
  <2>1. /\ releaser.operations = <<>> /\ LastPending \in Nat /\ ran = Count(0, Len(ran))
        /\ Consecutive(pending_operations, FirstPending, LastPending)
        /\ uncommitted_operations = Count(LastPending, issued)
    BY DEF FenceInv, OperationInv, Carrying
  <2>2. Len(ran) \in Nat
    BY <1>1 DEF FenceType
  <2>3. FirstPending = Len(ran)
    <3>1. Len(releaser.operations) = 0
      BY <2>1
    <3> QED BY <2>2, <3>1 DEF FirstPending
  <2>4. PICK mid \in Nat : /\ Len(ran) <= mid /\ Head(pending_operations) = Count(Len(ran), mid)
                           /\ Consecutive(Tail(pending_operations), mid, LastPending)
    <3>1. Consecutive(pending_operations, Len(ran), LastPending)
      BY <2>1, <2>3
    <3>2. pending_operations \in Seq(Seq(Nat)) /\ LastPending \in Nat
      BY <1>1, <2>1 DEF FenceType
    <3> QED BY <1>4, <2>2, <3>1, <3>2, ConsecutiveTail
  <2>5. releaser'.operations = Count(Len(ran), mid)
    BY <1>6, <2>4
  <2>6. FirstPending' = mid
    <3>1. Len(Count(Len(ran), mid)) = mid - Len(ran)
      BY <2>2, <2>4, CountSeq
    <3>2. Len(releaser'.operations) = mid - Len(ran)
      BY <2>5, <3>1
    <3> QED BY <2>2, <3>2 DEF FirstPending
  <2>7. releaser'.at \in Carrying
    BY <1>6 DEF Carrying
  <2> QED BY <1>8, <2>1, <2>4, <2>5, <2>6, <2>7 DEF OperationInv
<1>14. HostInv'
  <2> SUFFICES ASSUME NEW i \in 1..Len(host)
               PROVE  /\ host[i] \in Released'..(Released' + Len(fences'))
                      /\ host[i] = Released' => ~releaser'.fence.is_stubbed
                      /\ \A j \in 1..Len(fences') : host[i] = fences'[j].id => ~fences'[j].is_stubbed
    BY <1>6 DEF HostInv
  <2>1. /\ host[i] \in Released..(Released + Len(fences)) /\ host[i] # Released
        /\ \A j \in 1..Len(fences) : host[i] = fences[j].id => ~fences[j].is_stubbed
    BY DEF FenceInv, HostInv
  <2>2. host[i] \in Released'..(Released' + Len(fences'))
    BY <1>2, <1>8, <2>1
  <2>3. host[i] = Released' => ~releaser'.fence.is_stubbed
    BY <1>6, <1>8, <1>11, <2>1
  <2>4. \A j \in 1..Len(fences') : host[i] = fences'[j].id => ~fences'[j].is_stubbed
    BY <1>2, <2>1
  <2> QED BY <2>2, <2>3, <2>4
<1>15. DirtyInv'
  BY DEF FenceInv, DirtyInv, PlaceInv
<1> QED BY <1>9, <1>10, <1>12, <1>13, <1>14, <1>15 DEF FenceInv

\* It goes on when the host has reached the fence.
LEMMA WaitFenceStep ==
    ASSUME FenceInv, WaitFence
    PROVE  FenceInv'
<1>1. /\ releaser.at = "host"
      /\ ~releaser.fence.is_stubbed => ~Contains(host, releaser.fence.id)
      /\ releaser' = [releaser EXCEPT !.at = "pop"]
      /\ UNCHANGED <<can_async_check, dirty, committed, fences, uncommitted_operations,
                     pending_operations, host, made, issued, ran, signaller>>
  BY DEF WaitFence, IsFenceSignaled
<1>2. FenceType
  BY DEF FenceInv
<1>3. /\ releaser' \in Releaser /\ releaser'.at = "pop" /\ releaser'.fence = releaser.fence
      /\ releaser'.operations = releaser.operations
  <2>1. "pop" \in ReleaserAt
    BY DEF ReleaserAt
  <2> QED BY <1>1, <1>2, <2>1, ReleaserGoes DEF FenceType
<1>4. /\ Making' = Making /\ Releasing' = Releasing /\ Released' = Released
      /\ FirstPending' = FirstPending /\ LastPending' = LastPending
  BY <1>1, <1>3 DEF Making, Releasing, Released, FirstPending, LastPending
<1>5. FenceType'
  BY <1>1, <1>2, <1>3 DEF FenceType
<1>6. PlaceInv' /\ DirtyInv'
  BY <1>1, <1>3 DEF FenceInv, PlaceInv, DirtyInv
<1>7. releaser.at \in Carrying /\ releaser'.at \in Carrying
  BY <1>1, <1>3 DEF Carrying
<1>8. PositionInv'
  BY <1>1, <1>3, <1>4, <1>7 DEF FenceInv, PositionInv
<1>9. OperationInv'
  BY <1>1, <1>3, <1>4, <1>7 DEF FenceInv, OperationInv
<1>10. HostInv'
  <2>1. \A i \in 1..Len(host) : host[i] # Released
    <3> SUFFICES ASSUME NEW i \in 1..Len(host), host[i] = Released PROVE FALSE
      OBVIOUS
    <3>1. ~releaser.fence.is_stubbed
      BY DEF FenceInv, HostInv
    <3>2. releaser.fence.id = Released
      BY <1>7 DEF FenceInv, PositionInv
    <3> QED BY <1>1, <3>1, <3>2 DEF Contains
  <2> QED BY <1>1, <1>4, <2>1 DEF FenceInv, HostInv
<1> QED BY <1>5, <1>6, <1>8, <1>9, <1>10 DEF FenceInv

\* It writes back the downloads of that fence: they are the oldest.
LEMMA PopAsyncFlushesStep ==
    ASSUME FenceInv, PopAsyncFlushes
    PROVE  FenceInv'
<1>1. /\ releaser.at = "pop"
      /\ committed' = Tail(committed)
      /\ releaser' = [releaser EXCEPT !.at = "run"]
      /\ UNCHANGED <<can_async_check, dirty, fences, uncommitted_operations, pending_operations,
                     host, made, issued, ran, signaller>>
  BY DEF PopAsyncFlushes
<1>2. FenceType
  BY DEF FenceInv
<1>3. /\ releaser' \in Releaser /\ releaser'.at = "run" /\ releaser'.fence = releaser.fence
      /\ releaser'.operations = releaser.operations
  <2>1. "run" \in ReleaserAt
    BY DEF ReleaserAt
  <2> QED BY <1>1, <1>2, <2>1, ReleaserGoes DEF FenceType
<1>4. /\ Making' = Making /\ Making \in Nat /\ Releasing = 1 /\ Releasing' = 0
      /\ Released' = Released /\ FirstPending' = FirstPending /\ LastPending' = LastPending
  BY <1>1, <1>3 DEF Making, Releasing, Released, FirstPending, LastPending
<1>5. Len(fences) \in Nat /\ made \in Nat /\ Len(committed) = Len(fences) + Making + 1
  BY <1>2, <1>4 DEF FenceType, FenceInv, PositionInv
<1>6. committed # <<>>
  BY <1>4, <1>5
<1>7. /\ Len(committed) \in Nat
      /\ committed' \in Seq(Download) /\ Len(committed') = Len(committed) - 1
      /\ \A i \in 1..(Len(committed) - 1) : /\ i + 1 \in 1..Len(committed)
                                            /\ committed'[i] = committed[i + 1]
  BY <1>1, <1>2, <1>6, TailFacts DEF FenceType
<1>8. FenceType'
  BY <1>1, <1>2, <1>3, <1>7 DEF FenceType
<1>9. PlaceInv'
  BY <1>1, <1>3 DEF FenceInv, PlaceInv
<1>10. releaser.at \in Carrying /\ releaser'.at \in Carrying
  BY <1>1, <1>3 DEF Carrying
<1>11. PositionInv'
  <2>1. \A i \in 1..Len(committed') : committed'[i].id = made - Len(committed') + i
    <3> SUFFICES ASSUME NEW i \in 1..Len(committed')
                 PROVE  committed'[i].id = made - Len(committed') + i
      OBVIOUS
    <3>1. committed'[i].id = made - Len(committed) + (i + 1)
      BY <1>7 DEF FenceInv, PositionInv
    <3> QED BY <1>5, <1>7, <3>1
  <2>2. Len(committed') = Len(fences') + Making' + Releasing'
    BY <1>1, <1>4, <1>5, <1>7
  <2> QED BY <1>1, <1>3, <1>4, <1>10, <2>1, <2>2 DEF FenceInv, PositionInv
<1>12. OperationInv'
  BY <1>1, <1>3, <1>4, <1>10 DEF FenceInv, OperationInv
<1>13. HostInv'
  BY <1>1, <1>4 DEF FenceInv, HostInv
<1>14. DirtyInv'
  <2>1. can_async_check
    BY <1>1, <1>2 DEF FenceInv, PlaceInv, FenceType
  <2>2. ASSUME signaller.at = "queue"
        PROVE  committed'[Len(committed')].dirty = ~signaller.fence.is_stubbed
    <3>1. Making = 1
      BY <2>2 DEF Making
    <3>2. committed'[Len(committed')] = committed[Len(committed)]
      <4>1. Len(committed') \in 1..(Len(committed) - 1) /\ Len(committed') + 1 = Len(committed)
        BY <1>5, <1>7, <3>1
      <4> QED BY <1>7, <4>1
    <3> QED BY <2>2, <3>2 DEF FenceInv, DirtyInv
  <2> QED BY <1>1, <2>1, <2>2 DEF DirtyInv
<1> QED BY <1>8, <1>9, <1>11, <1>12, <1>13, <1>14 DEF FenceInv

\* It runs the operations of that fence: they are the next ones.
LEMMA RunOperationsStep ==
    ASSUME FenceInv, RunOperations
    PROVE  FenceInv'
<1>1. /\ releaser.at = "run"
      /\ ran' = ran \o releaser.operations
      /\ releaser' = [at |-> "wait", fence |-> NoFence, operations |-> <<>>]
      /\ UNCHANGED <<can_async_check, dirty, committed, fences, uncommitted_operations,
                     pending_operations, host, made, issued, signaller>>
  BY DEF RunOperations
<1>2. FenceType
  BY DEF FenceInv
<1>3. releaser' \in Releaser /\ releaser'.at = "wait" /\ releaser'.operations = <<>>
  <2>1. "wait" \in ReleaserAt /\ NoFence \in Fence
    BY DEF ReleaserAt, NoFence, Fence
  <2> QED BY <1>1, <2>1 DEF Releaser
<1>4. /\ Making' = Making /\ Releasing' = Releasing /\ Released' = Released
      /\ LastPending' = LastPending
  BY <1>1, <1>3 DEF Making, Releasing, Released, LastPending
<1>5. Len(ran) \in Nat /\ releaser.operations \in Seq(Nat) /\ FirstPending \in Nat
      /\ Len(ran) <= FirstPending
  BY <1>2 DEF FenceType, Releaser, FirstPending
<1>6. ran' = Count(0, FirstPending) /\ Len(ran') = FirstPending /\ ran' \in Seq(Nat)
  <2>1. ran = Count(0, Len(ran)) /\ releaser.operations = Count(Len(ran), FirstPending)
    BY DEF FenceInv, OperationInv
  <2>2. 0 \in Nat /\ 0 <= Len(ran) /\ 0 <= FirstPending
    BY <1>5
  <2>3. Count(0, Len(ran)) \o Count(Len(ran), FirstPending) = Count(0, FirstPending)
    BY <1>5, <2>2, CountConcat
  <2>4. ran' = Count(0, FirstPending)
    BY <1>1, <2>1, <2>3
  <2>5. Count(0, FirstPending) \in Seq(Nat) /\ Len(Count(0, FirstPending)) = FirstPending - 0
    BY <1>5, <2>2, CountSeq
  <2> QED BY <1>5, <2>4, <2>5
<1>7. FirstPending' = FirstPending
  <2>1. Len(releaser'.operations) = 0
    BY <1>3
  <2>2. FirstPending' = Len(ran') + Len(releaser'.operations)
    BY DEF FirstPending
  <2> QED BY <1>5, <1>6, <2>1, <2>2
<1>8. FenceType'
  BY <1>1, <1>2, <1>3, <1>6 DEF FenceType
<1>9. PlaceInv' /\ DirtyInv'
  BY <1>1, <1>3 DEF FenceInv, PlaceInv, DirtyInv
<1>10. releaser'.at \notin Carrying
  BY <1>3 DEF Carrying
<1>11. PositionInv'
  BY <1>1, <1>4, <1>10 DEF FenceInv, PositionInv
<1>12. OperationInv'
  <2>1. releaser'.operations = Count(FirstPending, FirstPending)
    BY <1>3, <1>5, CountEmpty
  <2>2. /\ LastPending \in Nat /\ Consecutive(pending_operations, FirstPending, LastPending)
        /\ uncommitted_operations = Count(LastPending, issued)
    BY DEF FenceInv, OperationInv
  <2>3. UNCHANGED <<pending_operations, uncommitted_operations, issued>>
    BY <1>1
  <2> QED BY <1>3, <1>4, <1>6, <1>7, <2>1, <2>2, <2>3 DEF OperationInv
<1>13. HostInv'
  BY <1>1, <1>4 DEF FenceInv, HostInv
<1> QED BY <1>8, <1>9, <1>11, <1>12, <1>13 DEF FenceInv

\* The steps that only move one of the two threads, or both at a notification.
LEMMA SignallerMoves ==
    ASSUME FenceInv, NEW to \in SignallerAt \ {"queue"}, signaller.at # "queue",
           signaller' = [signaller EXCEPT !.at = to],
           to \in Turning => ~can_async_check,
           UNCHANGED <<can_async_check, dirty, committed, fences, uncommitted_operations,
                       pending_operations, host, made, issued, ran, releaser>>
    PROVE  FenceInv'
<1>1. /\ dirty' = dirty /\ releaser' = releaser
      /\ UNCHANGED <<can_async_check, committed, fences, uncommitted_operations,
                     pending_operations, host, made, issued, ran>>
  OBVIOUS
<1>2. dirty' \in BOOLEAN /\ releaser' \in Releaser /\ signaller \in Signaller
  BY <1>1 DEF FenceInv, FenceType
<1>3. signaller' \in Signaller /\ signaller'.at = to
  BY <1>2, SignallerGoes
<1> QED BY <1>1, <1>2, <1>3, FenceFrame

LEMMA ReleaserMoves ==
    ASSUME FenceInv, NEW to \in {"wait", "exited", "checked", "asleep"},
           releaser.at \notin Carrying \union {"none"},
           releaser' = [releaser EXCEPT !.at = to],
           UNCHANGED <<can_async_check, dirty, committed, fences, uncommitted_operations,
                       pending_operations, host, made, issued, ran, signaller>>
    PROVE  FenceInv'
<1>1. /\ dirty' = dirty /\ signaller' = signaller /\ can_async_check' = can_async_check
      /\ UNCHANGED <<can_async_check, committed, fences, uncommitted_operations,
                     pending_operations, host, made, issued, ran>>
  OBVIOUS
<1>2. /\ dirty' \in BOOLEAN /\ signaller' \in Signaller /\ releaser \in Releaser
      /\ signaller'.at \in Turning => ~can_async_check
  BY <1>1 DEF FenceInv, FenceType, PlaceInv
<1>3. to \in ReleaserAt /\ to \notin Carrying \union {"none"}
  BY DEF ReleaserAt, Carrying
<1>4. releaser' \in Releaser /\ releaser'.at = to /\ releaser'.operations = releaser.operations
  BY <1>2, <1>3, ReleaserGoes
<1> QED BY <1>1, <1>2, <1>3, <1>4, FenceFrame

LEMMA NotifyStep ==
    ASSUME FenceInv, NEW to \in {"finished", "idle", "joining"}, signaller.at # "queue",
           signaller' = [signaller EXCEPT !.at = to],
           releaser' = [releaser EXCEPT !.at = IF @ = "asleep" THEN "wait" ELSE @],
           UNCHANGED <<can_async_check, dirty, committed, fences, uncommitted_operations,
                       pending_operations, host, made, issued, ran>>
    PROVE  FenceInv'
<1>1. /\ dirty' = dirty
      /\ UNCHANGED <<can_async_check, committed, fences, uncommitted_operations,
                     pending_operations, host, made, issued, ran>>
  OBVIOUS
<1>2. dirty' \in BOOLEAN /\ signaller \in Signaller /\ releaser \in Releaser
  BY <1>1 DEF FenceInv, FenceType
<1>3. to \in SignallerAt /\ to \notin Turning /\ to # "queue"
  BY DEF SignallerAt, Turning
<1>4. signaller' \in Signaller /\ signaller'.at = to
  BY <1>2, <1>3, SignallerGoes
<1>5. CASE releaser.at = "asleep"
  <2>1. releaser' = [releaser EXCEPT !.at = "wait"]
    BY <1>5
  <2>2. "wait" \in ReleaserAt /\ "wait" \notin Carrying \union {"none"}
        /\ "asleep" \notin Carrying \union {"none"}
    BY DEF ReleaserAt, Carrying
  <2>3. PICK awake : awake = [releaser EXCEPT !.at = "wait"]
    OBVIOUS
  <2>4. awake \in Releaser /\ awake.at = "wait" /\ awake.operations = releaser.operations
    BY <1>2, <2>2, <2>3, ReleaserGoes
  <2>5. /\ releaser' \in Releaser /\ releaser'.at = "wait"
        /\ releaser'.operations = releaser.operations
    BY <2>1, <2>3, <2>4
  <2> QED BY <1>1, <1>2, <1>3, <1>4, <1>5, <2>2, <2>5, FenceFrame
<1>6. CASE releaser.at # "asleep"
  <2>1. releaser' = [releaser EXCEPT !.at = releaser.at]
    BY <1>6
  <2>2. releaser' = releaser
    BY <1>2, <2>1 DEF Releaser
  <2> QED BY <1>1, <1>2, <1>3, <1>4, <2>2, FenceFrame
<1> QED BY <1>5, <1>6

LEMMA FenceStill ==
    ASSUME FenceInv, UNCHANGED fenceVars
    PROVE  FenceInv'
<1>1. /\ dirty' = dirty /\ signaller' = signaller /\ releaser' = releaser
      /\ UNCHANGED <<can_async_check, committed, fences, uncommitted_operations,
                     pending_operations, host, made, issued, ran>>
  BY DEF fenceVars
<1>2. /\ dirty' \in BOOLEAN /\ signaller' \in Signaller /\ releaser' \in Releaser
      /\ signaller'.at \in Turning => ~can_async_check
  BY <1>1 DEF FenceInv, FenceType, PlaceInv
<1> QED BY <1>1, <1>2, FenceFrame

\* The steps of a submitted list.
LEMMA SubmitSteps ==
    ASSUME FenceInv,
           \/ signaller.at = "idle" /\ \/ Draw
                                       \/ SyncOperation
                                       \/ SignalFence(FALSE)
                                       \/ WaitPendingFences(TRUE)
                                       \/ SignalOrdering
           \/ SignalRelease
           \/ SignalCommit
           \/ \E delay_fence \in BOOLEAN : SignalQueue(delay_fence)
           \/ SignalNotify
           \/ WaitFinished
           \/ ReleaseAll
    PROVE  FenceInv'
<1>1. CASE Draw
  <2>1. /\ dirty' \in BOOLEAN /\ signaller' = signaller /\ releaser' = releaser
        /\ UNCHANGED <<can_async_check, committed, fences, uncommitted_operations,
                       pending_operations, host, made, issued, ran>>
    BY <1>1 DEF Draw
  <2>2. /\ signaller' \in Signaller /\ releaser' \in Releaser
        /\ signaller'.at \in Turning => ~can_async_check
    BY <2>1 DEF FenceInv, FenceType, PlaceInv
  <2> QED BY <2>1, <2>2, FenceFrame
<1>2. CASE SyncOperation
  BY <1>2, SyncOperationStep
<1>3. ASSUME NEW force \in BOOLEAN, SignalFence(force)
      PROVE  FenceInv'
  <2>1. PICK to \in {"commit", "try_release"} :
           to = IF can_async_check THEN "commit" ELSE "try_release"
    OBVIOUS
  <2>2. /\ signaller.at = "idle"
        /\ signaller' = [at |-> to, fence |-> NoFence, force |-> force, owed |-> 0]
    BY <1>3, <2>1 DEF SignalFence
  <2>3. /\ dirty' = dirty /\ releaser' = releaser
        /\ UNCHANGED <<can_async_check, committed, fences, uncommitted_operations,
                       pending_operations, host, made, issued, ran>>
    BY <1>3 DEF SignalFence
  <2>4. dirty' \in BOOLEAN /\ releaser' \in Releaser
    BY <2>3 DEF FenceInv, FenceType
  <2>5. to \in SignallerAt /\ to # "queue" /\ NoFence \in Fence
    BY DEF SignallerAt, NoFence, Fence
  <2>6. signaller' \in Signaller /\ signaller'.at = to
    BY <2>2, <2>5 DEF Signaller
  <2>7. to \in Turning => ~can_async_check
    BY <2>1 DEF Turning
  <2> QED BY <2>2, <2>3, <2>4, <2>5, <2>6, <2>7, FenceFrame
<1>4. ASSUME NEW place \in {"drain", "order"}, StartReleasing(place)
      PROVE  FenceInv'
  <2>1. /\ signaller.at = "idle" /\ ~can_async_check
        /\ signaller' = [signaller EXCEPT !.at = place]
        /\ UNCHANGED <<can_async_check, dirty, committed, fences, uncommitted_operations,
                       pending_operations, host, made, issued, ran, releaser>>
    BY <1>4 DEF StartReleasing
  <2>2. place \in SignallerAt \ {"queue"}
    BY DEF SignallerAt
  <2> QED BY <2>1, <2>2, SignallerMoves
<1>5. ASSUME NEW force \in BOOLEAN, NEW next \in {"commit", "idle"}, StopReleasing(force, next),
             signaller.at \in Turning
      PROVE  FenceInv'
  <2>1. /\ signaller' = [signaller EXCEPT !.at = next]
        /\ UNCHANGED <<can_async_check, dirty, committed, fences, uncommitted_operations,
                       pending_operations, host, made, issued, ran, releaser>>
    BY <1>5 DEF StopReleasing
  <2>2. next \in SignallerAt \ {"queue"} /\ next \notin Turning /\ signaller.at # "queue"
    BY <1>5 DEF SignallerAt, Turning
  <2> QED BY <2>1, <2>2, SignallerMoves
<1>6. CASE SignalRelease
  <2>1. "try_release" \in Turning /\ signaller.at \in Turning
    BY <1>6 DEF SignalRelease, Turning
  <2>2. CASE ReleaseFront("try_release")
    BY <2>1, <2>2, ReleaseFrontStep
  <2>3. CASE StopReleasing(FALSE, "commit")
    BY <1>5, <2>1, <2>3
  <2> QED BY <1>6, <2>2, <2>3 DEF SignalRelease
<1>7. CASE SignalCommit
  BY <1>7, SignalCommitStep
<1>8. CASE \E delay_fence \in BOOLEAN : SignalQueue(delay_fence)
  BY <1>8, SignalQueueStep
<1>9. CASE SignalNotify
  <2>1. PICK to \in {"finished", "idle", "joining"} :
           to = IF signaller.force THEN "finished" ELSE "idle"
    OBVIOUS
  <2>2. /\ signaller.at # "queue"
        /\ signaller' = [signaller EXCEPT !.at = to]
        /\ releaser' = [releaser EXCEPT !.at = IF @ = "asleep" THEN "wait" ELSE @]
        /\ UNCHANGED <<can_async_check, dirty, committed, fences, uncommitted_operations,
                       pending_operations, host, made, issued, ran>>
    BY <1>9, <2>1 DEF SignalNotify
  <2> QED BY <2>2, NotifyStep
<1>10. CASE WaitFinished
  <2>1. /\ signaller.at = "finished"
        /\ signaller' = [signaller EXCEPT !.at = "idle"]
        /\ UNCHANGED <<can_async_check, dirty, committed, fences, uncommitted_operations,
                       pending_operations, host, made, issued, ran, releaser>>
    BY <1>10 DEF WaitFinished
  <2>2. "idle" \in SignallerAt \ {"queue"} /\ "idle" \notin Turning /\ signaller.at # "queue"
    BY <2>1 DEF SignallerAt, Turning
  <2> QED BY <2>1, <2>2, SignallerMoves
<1>11. CASE ReleaseAll
  <2>1. PICK place \in {"drain", "order"} :
           /\ signaller.at = place
           /\ \/ ReleaseFront(place)
              \/ \E force \in BOOLEAN : StopReleasing(force, "idle")
    BY <1>11 DEF ReleaseAll
  <2>2. place \in Turning
    BY DEF Turning
  <2>3. CASE ReleaseFront(place)
    BY <2>1, <2>2, <2>3, ReleaseFrontStep
  <2>4. CASE \E force \in BOOLEAN : StopReleasing(force, "idle")
    BY <1>5, <2>1, <2>2, <2>4
  <2> QED BY <2>1, <2>3, <2>4
<1>12. CASE WaitPendingFences(TRUE)
  BY <1>3, <1>4, <1>12 DEF WaitPendingFences
<1>13. CASE SignalFence(FALSE)
  BY <1>3, <1>13
<1>14. CASE SignalOrdering
  BY <1>4, <1>14 DEF SignalOrdering
<1> QED BY <1>1, <1>2, <1>6, <1>7, <1>8, <1>9, <1>10, <1>11, <1>12, <1>13, <1>14

\* The steps of ReleaseThreadFunc().
LEMMA FencingSteps ==
    ASSUME FenceInv, ReleaseThreadFunc
    PROVE  FenceInv'
<1>1. CASE ReleaseCheck
  <2>1. /\ releaser.at = "wait"
        /\ UNCHANGED <<can_async_check, dirty, committed, uncommitted_operations, host, made,
                       issued, ran, signaller>>
    BY <1>1 DEF ReleaseCheck
  <2>2. ASSUME NEW to \in {"exited", "checked"}, releaser' = [releaser EXCEPT !.at = to],
               UNCHANGED <<fences, pending_operations>>
        PROVE  FenceInv'
    <3>1. releaser.at \notin Carrying \union {"none"}
      BY <2>1 DEF Carrying
    <3>2. UNCHANGED <<can_async_check, dirty, committed, fences, uncommitted_operations,
                      pending_operations, host, made, issued, ran, signaller>>
      BY <2>1, <2>2
    <3> QED BY <2>2, <3>1, <3>2, ReleaserMoves
  <2>3. CASE /\ fences # <<>>
             /\ releaser' = [at |-> "host", fence |-> Head(fences),
                             operations |-> Head(pending_operations)]
             /\ fences' = Tail(fences)
             /\ pending_operations' = Tail(pending_operations)
    BY <2>1, <2>3, ReleaseTakes
  <2> QED BY <1>1, <2>2, <2>3 DEF ReleaseCheck
<1>2. CASE ReleaseSleep
  <2>1. /\ releaser.at = "checked"
        /\ releaser' = [releaser EXCEPT !.at = "asleep"]
        /\ UNCHANGED <<can_async_check, dirty, committed, fences, uncommitted_operations,
                       pending_operations, host, made, issued, ran, signaller>>
    BY <1>2 DEF ReleaseSleep
  <2>2. releaser.at \notin Carrying \union {"none"}
    BY <2>1 DEF Carrying
  <2> QED BY <2>1, <2>2, ReleaserMoves
<1> QED BY <1>1, <1>2, WaitFenceStep, PopAsyncFlushesStep, RunOperationsStep DEF ReleaseThreadFunc

\* Every step keeps the invariant of the fence manager.
LEMMA FenceNext == FenceInv /\ [Next]_vars => FenceInv'
<1> SUFFICES ASSUME FenceInv, [Next]_vars
             PROVE  FenceInv'
  OBVIOUS
<1>1. ASSUME NEW p \in Producers, Call(p) \/ Push(p)
      PROVE  FenceInv'
  <2>1. UNCHANGED fenceVars
    BY <1>1 DEF Call, Push, PushOnly, RequestSyncOperation, PushLock, PushEmplace, PushReturn,
                PushSleep, WaitForSyncOperation
  <2> QED BY <2>1, FenceStill
<1>2. CASE RunThread
  <2>1. CASE UNCHANGED fenceVars
    BY <2>1, FenceStill
  <2>2. CASE SubmitWork
    BY <2>2, SubmitSteps DEF SubmitWork
  <2>3. CASE SubmitEnd
    <3>1. CASE WaitPendingFences(FALSE)
      <4>1. signaller.at = "idle"
        BY <2>3 DEF SubmitEnd
      <4>2. StartReleasing("drain")
        BY <3>1 DEF WaitPendingFences
      <4>3. WaitPendingFences(TRUE)
        BY <4>2 DEF WaitPendingFences
      <4> QED BY <4>1, <4>3, SubmitSteps
    <3> QED BY <2>1, <2>3, <3>1 DEF SubmitEnd
  <2>4. CASE SubmitDrain
    BY <2>1, <2>4, SubmitSteps DEF SubmitDrain
  <2>5. CASE RunTop \/ RunPop \/ RunCommand \/ RunStore \/ RunNotify \/ SubmitTick
    <3>1. UNCHANGED fenceVars
      BY <2>5 DEF RunTop, RunPop, RunCommand, RunStore, RunNotify, SubmitTick
    <3> QED BY <2>1, <3>1
  <2>6. CASE TickBegin \/ TickRun \/ TickWake
    <3>1. UNCHANGED fenceVars
      BY <2>6 DEF TickBegin, TickRun, TickWake
    <3> QED BY <2>1, <3>1
  <2> QED BY <1>2, <2>2, <2>3, <2>4, <2>5, <2>6 DEF RunThread
<1>3. CASE FencingThread
  BY <1>3, FencingSteps DEF FencingThread
<1>4. CASE HostGpu
  BY <1>4, HostReachStep DEF HostGpu
<1>5. CASE RequestStop
  BY <1>5, FenceStill DEF RequestStop
<1>6. CASE Destroy
  <2>1. CASE DestroyRequest
    <3>1. /\ dirty' = dirty /\ signaller' = signaller /\ releaser' = releaser
          /\ UNCHANGED <<can_async_check, committed, fences, uncommitted_operations,
                         pending_operations, host, made, issued, ran>>
      BY <2>1 DEF DestroyRequest
    <3>2. /\ dirty' \in BOOLEAN /\ signaller' \in Signaller /\ releaser' \in Releaser
          /\ signaller'.at \in Turning => ~can_async_check
      BY <3>1 DEF FenceInv, FenceType, PlaceInv
    <3> QED BY <3>1, <3>2, FenceFrame
  <2>2. CASE DestroyNotify
    <3>1. /\ signaller.at # "queue"
          /\ signaller' = [signaller EXCEPT !.at = "joining"]
          /\ releaser' = [releaser EXCEPT !.at = IF @ = "asleep" THEN "wait" ELSE @]
          /\ UNCHANGED <<can_async_check, dirty, committed, fences, uncommitted_operations,
                         pending_operations, host, made, issued, ran>>
      BY <2>2 DEF DestroyNotify
    <3> QED BY <3>1, NotifyStep
  <2> QED BY <1>6, <2>1, <2>2 DEF Destroy
<1>7. CASE UNCHANGED vars
  BY <1>7, FenceStill DEF vars
<1> QED BY <1>1, <1>2, <1>3, <1>4, <1>5, <1>6, <1>7 DEF Next

\* The positions put together: the three queues are of the same fences.
LEMMA FencesKeepStep ==
    ASSUME FenceInv
    PROVE  QueuesInStep
<1>1. FenceType /\ PositionInv
  BY DEF FenceInv
<1>2. /\ committed \in Seq(Download) /\ Len(committed) \in Nat
      /\ fences \in Seq(Fence) /\ Len(fences) \in Nat /\ made \in Nat
  BY <1>1 DEF FenceType
<1>3. Making \in {0, 1} /\ Releasing \in {0, 1}
  BY DEF Making, Releasing
<1>4. /\ Released = made - Making - Len(fences) /\ Released \in Nat
      /\ Len(committed) = Len(fences) + Making + Releasing
  BY <1>1 DEF PositionInv, Released
<1>5. PICK ids : ids = [i \in 1..Len(fences) |-> fences[i].id]
  OBVIOUS
<1>6. ids \in Seq(Nat) /\ Len(ids) = Len(fences) /\ \A i \in 1..Len(fences) : ids[i] = Released + i
  <2>1. \A i \in 1..Len(fences) : fences[i].id = Released + i /\ Released + i \in Nat
    BY <1>1, <1>2, <1>4 DEF PositionInv
  <2>2. \A i \in 1..Len(fences) : ids[i] = Released + i /\ ids[i] \in Nat
    BY <1>5, <2>1
  <2>3. ids \in [1..Len(fences) -> Nat]
    BY <1>5, <2>1
  <2> QED BY <1>2, <2>2, <2>3
<1>7. /\ BeingReleased \in Seq(Nat) /\ Len(BeingReleased) = Releasing
      /\ Releasing = 1 => BeingReleased[1] = Released
  <2>1. CASE releaser.at \in {"host", "pop"}
    <3>1. releaser.fence.id = Released
      BY <1>1, <2>1 DEF PositionInv, Carrying
    <3>2. BeingReleased = <<Released>> /\ Releasing = 1
      BY <2>1, <3>1 DEF BeingReleased, Releasing
    <3> QED BY <1>4, <3>2
  <2>2. CASE releaser.at \notin {"host", "pop"}
    <3>1. BeingReleased = <<>> /\ Releasing = 0
      BY <2>2 DEF BeingReleased, Releasing
    <3> QED BY <3>1
  <2> QED BY <2>1, <2>2
<1>8. /\ BeingMade \in Seq(Nat) /\ Len(BeingMade) = Making
      /\ Making = 1 => BeingMade[1] = made
  <2>1. CASE signaller.at = "queue"
    <3>1. signaller.fence.id = made
      BY <1>1, <2>1 DEF PositionInv
    <3>2. BeingMade = <<made>> /\ Making = 1
      BY <2>1, <3>1 DEF BeingMade, Making
    <3> QED BY <1>2, <3>2
  <2>2. CASE signaller.at # "queue"
    <3>1. BeingMade = <<>> /\ Making = 0
      BY <2>2 DEF BeingMade, Making
    <3> QED BY <3>1
  <2> QED BY <2>1, <2>2
<1>9. PICK left : left = BeingReleased \o ids
  OBVIOUS
<1>10. /\ left \in Seq(Nat) /\ Len(left) = Releasing + Len(fences)
       /\ \A i \in 1..Len(left) : left[i] = IF i <= Len(BeingReleased) THEN BeingReleased[i]
                                            ELSE ids[i - Len(BeingReleased)]
  BY <1>6, <1>7, <1>9
<1>11. \A i \in 1..Len(left) : left[i] = Released - Releasing + i
  <2> SUFFICES ASSUME NEW i \in 1..Len(left)
               PROVE  left[i] = Released - Releasing + i
    OBVIOUS
  <2>1. CASE i <= Releasing
    <3>1. i = 1 /\ Releasing = 1
      BY <1>3, <1>10, <2>1
    <3> QED BY <1>4, <1>7, <1>10, <3>1
  <2>2. CASE ~(i <= Releasing)
    <3>1. i - Releasing \in 1..Len(fences)
      BY <1>2, <1>3, <1>10, <2>2
    <3>2. left[i] = ids[i - Releasing]
      BY <1>7, <1>10, <2>2
    <3>3. left[i] = Released + (i - Releasing)
      BY <1>6, <3>1, <3>2
    <3> QED BY <1>3, <1>4, <1>10, <3>3
  <2> QED BY <2>1, <2>2
<1>12. PICK right : right = left \o BeingMade
  OBVIOUS
<1>13. /\ right \in Seq(Nat) /\ Len(right) = Len(committed)
       /\ \A i \in 1..Len(right) : right[i] = IF i <= Len(left) THEN left[i]
                                              ELSE BeingMade[i - Len(left)]
  <2>1. /\ right \in Seq(Nat) /\ Len(right) = Len(left) + Len(BeingMade)
        /\ \A i \in 1..Len(right) : right[i] = IF i <= Len(left) THEN left[i]
                                               ELSE BeingMade[i - Len(left)]
    <3>1. left \in Seq(Nat) /\ BeingMade \in Seq(Nat)
      BY <1>8, <1>10
    <3> QED BY <1>12, <3>1
  <2>2. Len(right) = Len(committed)
    BY <1>2, <1>3, <1>4, <1>8, <1>10, <2>1
  <2> QED BY <2>1, <2>2
<1>14. \A i \in 1..Len(committed) : right[i] = committed[i].id
  <2> SUFFICES ASSUME NEW i \in 1..Len(committed)
               PROVE  right[i] = committed[i].id
    OBVIOUS
  <2>1. /\ committed[i].id = made - Len(committed) + i
        /\ made - Len(committed) = Released - Releasing
    <3>1. committed[i].id = made - Len(committed) + i
      BY <1>1 DEF PositionInv
    <3>2. made - Len(committed) = Released - Releasing
      BY <1>2, <1>3, <1>4
    <3> QED BY <3>1, <3>2
  <2>2. CASE i <= Len(left)
    <3>1. i \in 1..Len(left) /\ right[i] = left[i]
      BY <1>2, <1>10, <1>13, <2>2
    <3> QED BY <1>11, <2>1, <3>1
  <2>3. CASE ~(i <= Len(left))
    <3>1. i = Len(left) + 1 /\ Making = 1 /\ i = Len(committed)
      BY <1>2, <1>3, <1>4, <1>10, <2>3
    <3>2. right[i] = BeingMade[1]
      <4>1. right[i] = BeingMade[i - Len(left)]
        BY <1>13, <2>3
      <4>2. i - Len(left) = 1
        BY <1>2, <1>3, <1>10, <3>1
      <4> QED BY <4>1, <4>2
    <3>3. committed[i].id = made
      BY <1>2, <2>1, <3>1
    <3> QED BY <1>8, <3>1, <3>2, <3>3
  <2> QED BY <2>2, <2>3
<1>15. right = [i \in 1..Len(committed) |-> committed[i].id]
  <2>1. right = [i \in 1..Len(right) |-> right[i]]
    BY <1>13
  <2> QED BY <1>13, <1>14, <2>1
<1>16. [i \in 1..Len(committed) |-> committed[i].id]
         = BeingReleased \o [i \in 1..Len(fences) |-> fences[i].id] \o BeingMade
  BY <1>5, <1>9, <1>12, <1>15
<1>17. Len(pending_operations) = Len(fences)
  BY <1>1 DEF PositionInv
<1> QED BY <1>16, <1>17 DEF QueuesInStep

\* The numbers of the operations, and of what the host has still to reach.
LEMMA OperationsKeepOrder ==
    ASSUME FenceInv
    PROVE  OperationsInOrder
<1>1. FenceType /\ PlaceInv /\ PositionInv /\ OperationInv /\ HostInv
  BY DEF FenceInv
<1>2. Len(fences) \in Nat /\ Released \in Nat /\ host \in Seq(Nat)
  BY <1>1 DEF FenceType, PositionInv
<1>3. ran = [i \in 1..Len(ran) |-> i]
  <2>1. Len(ran) \in Nat /\ ran = Count(0, Len(ran))
    BY <1>1 DEF FenceType, OperationInv
  <2>2. Count(0, Len(ran)) = [i \in 1..Len(ran) |-> i]
    BY <2>1 DEF Count
  <2> QED BY <2>1, <2>2
<1>4. ASSUME releaser.at \in {"pop", "run"}, NEW i \in 1..Len(host)
      PROVE  host[i] > releaser.fence.id
  <2>1. releaser.fence.id = Released /\ releaser.at # "host"
    BY <1>1, <1>4 DEF PositionInv, Carrying
  <2>2. host[i] \in Released..(Released + Len(fences)) /\ host[i] # Released
    BY <1>1, <2>1 DEF HostInv
  <2> QED BY <1>2, <2>1, <2>2
<1>5. ASSUME ~can_async_check, NEW i \in 1..Len(host)
      PROVE  \E j \in 1..Len(fences) : fences[j].id = host[i]
  <2>1. releaser.at # "host"
    BY <1>1, <1>5 DEF PlaceInv
  <2>2. host[i] \in Released..(Released + Len(fences)) /\ host[i] # Released
    BY <1>1, <2>1 DEF HostInv
  <2>3. host[i] - Released \in 1..Len(fences)
    BY <1>2, <2>2
  <2>4. fences[host[i] - Released].id = Released + (host[i] - Released)
    BY <1>1, <2>3 DEF PositionInv
  <2>5. fences[host[i] - Released].id = host[i]
    BY <1>2, <2>2, <2>4
  <2> QED BY <2>3, <2>5
<1> QED BY <1>3, <1>4, <1>5 DEF OperationsInOrder

(***************************************************************************)
(* The committed downloads, the fences and the lists of operations are     *)
(* always of the same fences in the same order, operations run in the      *)
(* order they were issued, each once, and never before the host has        *)
(* reached their fence, with a fencing thread and without one              *)
(* (SignalFence(), ReleaseThreadFunc(), TryReleasePendingFences()).        *)
(***************************************************************************)
THEOREM FencesStayInOrder == Spec => []FencesReleaseInOrder
<1>1. Init => FenceInv
  BY FenceInitially
<1>2. FenceInv /\ [Next]_vars => FenceInv'
  BY FenceNext
<1>3. FenceInv => FencesReleaseInOrder
  BY FencesKeepStep, OperationsKeepOrder DEF FencesReleaseInOrder
<1> QED BY <1>1, <1>2, <1>3, PTL DEF Spec

-----------------------------------------------------------------------------
(***************************************************************************)
(* The guest of a window: one thread runs its transactions, and it keeps   *)
(* one swap mode.  Of another guest OneOwner is not true.                  *)
(***************************************************************************)
OrderlyGuest ==
    /\ \A p, q \in BinderThreads : p = q
    /\ \A modes \in AsyncModes : \E async \in BOOLEAN : modes = {async}

SlotTypes ==
    [buffer_state: {"Free", "Dequeued", "Queued", "Acquired"},
     graphic_buffer: Buffers \cup {NULL}, frame_number: 0..NoFrameNumber,
     request_buffer_called: BOOLEAN, acquire_called: BOOLEAN,
     needs_cleanup_on_release: BOOLEAN, is_preallocated: BOOLEAN]

CallTypes ==
    [at: {"idle", "dequeue", "asleep", "allocate", "ticket", "released"},
     slot: Slots, shape: Shapes \cup {NULL}, ticket: Nat]

LayerTypes ==
    /\ slots \in [Slots -> SlotTypes]
    /\ queue \in Seq(Frames)
    /\ base \in [Slots -> [graphic_buffer: Buffers \cup {NULL}, frame_number: 0..MaxFrames]]
    /\ framebuffer \in Frames \cup {NULL}
    /\ override_max_buffer_count \in Nat
    /\ is_abandoned \in BOOLEAN
    /\ frame_counter \in 0..MaxFrames
    /\ asyncs \in AsyncModes
    /\ call \in [BinderThreads -> CallTypes]
    /\ next_callback_ticket \in Nat

\* The frame f of slot s was drawn into the buffer that slot x has.
Shows(f, s, x) == f.slot = s /\ f.graphic_buffer = x.graphic_buffer

(***************************************************************************)
(* Slot s, whose fields are x, the frames in q, the buffers b that         *)
(* ConsumerBase remembers and the frame f of the composer.                 *)
(***************************************************************************)
SlotOK(s, x, q, b, f) ==
    /\ x.buffer_state = "Queued" => \E i \in DOMAIN q : Shows(q[i], s, x)
    /\ \A i \in DOMAIN q : Shows(q[i], s, x) =>
            /\ x.buffer_state = "Queued" /\ x.frame_number = q[i].frame_number
            /\ \A j \in DOMAIN q : q[j].slot = s => j <= i
    /\ x.buffer_state = "Acquired" =>
            /\ x.acquire_called /\ f # NULL /\ f.slot = s
            /\ b[s] = [graphic_buffer |-> f.graphic_buffer, frame_number |-> x.frame_number]
    /\ f # NULL /\ f.slot = s /\ (x.acquire_called \/ f.graphic_buffer = x.graphic_buffer)
            => x.buffer_state = "Acquired"
    /\ x.acquire_called =>
            /\ x.graphic_buffer # NULL /\ b[s].graphic_buffer = x.graphic_buffer
            /\ \A i \in DOMAIN q : q[i].slot = s => Shows(q[i], s, x)

(***************************************************************************)
(* A frame without its buffer (acquire_called) is the first of its slot in *)
(* the queue, and ConsumerBase remembers the buffer; each buffer is in the *)
(* queue once.                                                             *)
(***************************************************************************)
FramesOK(q, b, f) ==
    /\ \A i, j \in DOMAIN q :
            q[i].slot = q[j].slot /\ q[i].graphic_buffer = q[j].graphic_buffer => i = j
    /\ \A i \in DOMAIN q :
            /\ q[i].queued = q[i].graphic_buffer
            /\ q[i].acquire_called =>
                 /\ b[q[i].slot].graphic_buffer = q[i].graphic_buffer
                 /\ \A j \in DOMAIN q : q[j].slot = q[i].slot => i <= j
                 /\ f # NULL => f.slot # q[i].slot
    /\ f # NULL => f.queued = f.graphic_buffer

ModeOK(q, modes) ==
    /\ \A i \in DOMAIN q : q[i].is_droppable \in modes
    /\ TRUE \in modes => Len(q) <= 1

(***************************************************************************)
(* A slot is with the producer without a buffer only while its thread      *)
(* allocates one.                                                          *)
(***************************************************************************)
AllocationOK ==
    /\ \A p \in BinderThreads : call[p].at = "allocate" /\ ~is_abandoned =>
            /\ slots[call[p].slot].buffer_state = "Dequeued"
            /\ slots[call[p].slot].graphic_buffer = NULL
            /\ ~slots[call[p].slot].acquire_called
    /\ \A s \in Slots :
            slots[s].buffer_state = "Dequeued" /\ slots[s].graphic_buffer = NULL /\ ~is_abandoned
                => \E p \in BinderThreads : call[p].at = "allocate" /\ call[p].slot = s

LayerInv ==
    /\ LayerTypes
    /\ \A s \in Slots : SlotOK(s, slots[s], queue, base, framebuffer)
    /\ FramesOK(queue, base, framebuffer)
    /\ ModeOK(queue, asyncs)
    /\ AllocationOK

-----------------------------------------------------------------------------
(* Numbers.                                                                *)

LEMMA SmallestNumber ==
  ASSUME NEW S, S \subseteq Nat, S # {}
  PROVE  \E x \in S : \A y \in S : x <= y
<1>1. PICK x \in S : \A y \in S : <<y, x>> \notin OpToRel(<, Nat)
  BY WFMin, NatLessThanWellFounded
<1>2. \A y \in S : ~(y < x)
  BY <1>1 DEF OpToRel
<1> QED BY <1>2

LEMMA LargestNumber ==
  ASSUME NEW n \in Nat, NEW S, S \subseteq 0..n, S # {}
  PROVE  \E x \in S : \A y \in S : x >= y
<1> DEFINE B == {m \in Nat : \A y \in S : y <= m}
<1>1. B \subseteq Nat /\ n \in B
  OBVIOUS
<1>2. PICK m \in B : \A k \in B : m <= k
  BY <1>1, SmallestNumber
<1>3. m \in S
  <2> SUFFICES ASSUME m \notin S PROVE FALSE
    OBVIOUS
  <2>1. PICK y \in S : TRUE
    OBVIOUS
  <2>2. \A z \in S : z \in Nat /\ z <= m /\ z # m
    BY <1>2
  <2>3. m - 1 \in Nat /\ m \in Nat
    BY <1>2, <2>1, <2>2
  <2>4. m - 1 \in B
    BY <2>2, <2>3
  <2> QED BY <1>2, <2>3, <2>4
<1> QED BY <1>2, <1>3

LEMMA SlotNumbers ==
  /\ NumSlots \in Nat \ {0} /\ 0 \in Slots /\ Slots \subseteq Nat
  /\ MaxFrames \in Nat /\ NoFrameNumber \in Nat
BY BufferQueueAssumption DEF Slots, NoFrameNumber

LEMMA FrameNumbers == 0 \in 0..NoFrameNumber /\ NoFrameNumber \in 0..NoFrameNumber
BY SlotNumbers

\* GetMaxBufferCountLocked() returns a number.
LEMMA CountIsNumber ==
  ASSUME LayerTypes
  PROVE  MaxBufferCount \in Nat
<1> DEFINE S == {DefaultMaxBufferCount}
                  \cup {s + 1 : s \in SlotsIn("Queued") \cup SlotsIn("Dequeued")}
<1>1. CASE override_max_buffer_count # 0
  BY <1>1 DEF MaxBufferCount, LayerTypes
<1>2. CASE override_max_buffer_count = 0
  <2>1. S \subseteq 0..NumSlots /\ S # {}
    BY BufferQueueAssumption DEF SlotsIn, Slots
  <2>2. MaxBufferCount = Max(S)
    BY <1>2 DEF MaxBufferCount
  <2> HIDE DEF S
  <2>3. \E x \in S : \A y \in S : x >= y
    BY <2>1, BufferQueueAssumption, LargestNumber
  <2>4. Max(S) \in S
    BY <2>3 DEF Max
  <2>5. Max(S) \in 0..NumSlots
    BY <2>1, <2>4
  <2> QED BY <2>2, <2>5
<1> QED BY <1>1, <1>2

\* The slot DequeueBuffer() takes is free, and not one of those it has trimmed.
LEMMA OldestIsFree ==
  ASSUME LayerTypes, InCount("Free") # {}
  PROVE  /\ OldestFree \in Slots /\ slots[OldestFree].buffer_state = "Free"
         /\ Trimmed[OldestFree] = slots[OldestFree]
<1> DEFINE F == InCount("Free")
<1>1. F \subseteq Slots /\ \A s \in F : slots[s].buffer_state = "Free" /\ s < MaxBufferCount
  BY DEF InCount, SlotsIn
<1>2. \A s \in F : s \in Nat /\ slots[s].frame_number \in Nat
  <2>1. \A x \in SlotTypes : x.frame_number \in Nat
    BY SlotNumbers DEF SlotTypes
  <2>2. \A s \in Slots : slots[s] \in SlotTypes
    BY DEF LayerTypes
  <2> HIDE DEF F
  <2> QED BY <1>1, <2>1, <2>2, SlotNumbers
<1> HIDE DEF F
<1> DEFINE N == {slots[s].frame_number : s \in F}
<1>3. PICK n \in N : \A m \in N : n <= m
  <2>1. N \subseteq Nat /\ N # {}
    BY <1>2 DEF F
  <2> QED BY <2>1, SmallestNumber
<1> DEFINE M == {s \in F : slots[s].frame_number = n}
<1>4. PICK s \in M : \A r \in M : s <= r
  <2>1. M \subseteq Nat /\ M # {}
    BY <1>2, <1>3
  <2> QED BY <2>1, SmallestNumber
<1>5. \A r \in F : \/ slots[s].frame_number < slots[r].frame_number
                   \/ slots[s].frame_number = slots[r].frame_number /\ s <= r
  <2> TAKE r \in F
  <2>1. slots[r].frame_number \in Nat /\ n <= slots[r].frame_number /\ n \in Nat
    BY <1>2, <1>3
  <2>2. slots[s].frame_number = n
    BY <1>4
  <2>3. CASE slots[r].frame_number = n
    BY <2>2, <2>3, <1>4
  <2>4. CASE slots[r].frame_number # n
    BY <2>1, <2>2, <2>4
  <2> QED BY <2>3, <2>4
<1>6. OldestFree \in F
  BY <1>4, <1>5 DEF OldestFree, F
<1>7. ~(OldestFree >= MaxBufferCount)
  BY <1>1, <1>2, <1>6, CountIsNumber
<1> QED BY <1>1, <1>6, <1>7 DEF Trimmed

\* A new graphic buffer is none of those something of its slot refers to.
LEMMA FreshIsNew ==
  ASSUME NEW s, NEW id \in FreshIds(s)
  PROVE  /\ id \in 1..MaxBuffers
         /\ \A b \in LiveBuffers(s) : b # NULL => b.id # id
<1> DEFINE free == (1..MaxBuffers) \ {b.id : b \in LiveBuffers(s) \ {NULL}}
<1>1. free # {} /\ id = Min(free)
  BY DEF FreshIds
<1>2. free \subseteq Nat
  OBVIOUS
<1>3. \E x \in free : \A y \in free : x <= y
  <2> HIDE DEF free
  <2> QED BY <1>1, <1>2, SmallestNumber
<1>4. Min(free) \in free
  <2> HIDE DEF free
  <2> QED BY <1>3 DEF Min
<1> QED BY <1>1, <1>4

-----------------------------------------------------------------------------
(* A slot by itself.                                                       *)

\* No frame shows the buffer of the slot.
Unshown(s, y, q, f) ==
    /\ \A i \in DOMAIN q : ~Shows(q[i], s, y)
    /\ f # NULL => ~Shows(f, s, y)

\* A slot with a buffer that was never queued.
LEMMA UnshownIsOK ==
  ASSUME NEW s, NEW y, NEW q, NEW b, NEW f, Unshown(s, y, q, f),
         y.buffer_state \in {"Free", "Dequeued"}, ~y.acquire_called
  PROVE  SlotOK(s, y, q, b, f)
BY DEF SlotOK, Unshown, Shows

LEMMA FrameFields ==
  ASSUME NEW g \in Frames
  PROVE  g.slot \in Slots /\ g.graphic_buffer \in Buffers /\ g.graphic_buffer # NULL
BY ProducerAssumption DEF Frames

LEMMA EmptyIsUnshown ==
  ASSUME NEW s, NEW y, NEW q \in Seq(Frames), NEW f \in Frames \cup {NULL},
         y.graphic_buffer = NULL
  PROVE  Unshown(s, y, q, f)
<1>1. \A g \in Frames : g.graphic_buffer # NULL
  BY ProducerAssumption DEF Frames
<1>2. \A i \in DOMAIN q : q[i] \in Frames
  OBVIOUS
<1> QED BY <1>1, <1>2 DEF Unshown, Shows

\* The fields the others go by are unchanged.
LEMMA SameIsOK ==
  ASSUME NEW s, NEW x, NEW y, NEW q, NEW b, NEW f, SlotOK(s, x, q, b, f),
         y.buffer_state = x.buffer_state, y.graphic_buffer = x.graphic_buffer,
         y.frame_number = x.frame_number, y.acquire_called = x.acquire_called
  PROVE  SlotOK(s, y, q, b, f)
BY DEF SlotOK, Shows

\* Nobody looks at the frame number of a slot the consumer does not have.
LEMMA IdleIsOK ==
  ASSUME NEW s, NEW x, NEW y, NEW q, NEW b, NEW f, SlotOK(s, x, q, b, f),
         x.buffer_state \in {"Free", "Dequeued"}, y.buffer_state \in {"Free", "Dequeued"},
         y.graphic_buffer = x.graphic_buffer, y.acquire_called = x.acquire_called
  PROVE  SlotOK(s, y, q, b, f)
BY DEF SlotOK, Shows

LEMMA FreedFields ==
  ASSUME NEW x \in SlotTypes
  PROVE  /\ FreeBuffer(x) \in SlotTypes
         /\ FreeBuffer(x).graphic_buffer = NULL /\ FreeBuffer(x).buffer_state = "Free"
         /\ FreeBuffer(x).acquire_called = FALSE
<1>1. NoFrameNumber \in 0..NoFrameNumber
  BY SlotNumbers
<1>2. FreeBuffer(x) = [x EXCEPT
        !.graphic_buffer = NULL,
        !.needs_cleanup_on_release = x.needs_cleanup_on_release \/ x.buffer_state = "Acquired",
        !.buffer_state = "Free", !.frame_number = NoFrameNumber, !.acquire_called = FALSE]
  BY DEF FreeBuffer
<1> HIDE DEF FreeBuffer
<1> QED BY <1>1, <1>2 DEF SlotTypes

LEMMA FreedIsOK ==
  ASSUME NEW s, NEW x \in SlotTypes, NEW q \in Seq(Frames), NEW b, NEW f \in Frames \cup {NULL}
  PROVE  SlotOK(s, FreeBuffer(x), q, b, f)
<1>1. Unshown(s, FreeBuffer(x), q, f)
  BY FreedFields, EmptyIsUnshown
<1> QED BY <1>1, FreedFields, UnshownIsOK

-----------------------------------------------------------------------------
(* Steps that change slots and leave the frames alone.                     *)

LEMMA SlotStep ==
  ASSUME LayerInv,
         slots' \in [Slots -> SlotTypes], call' \in [BinderThreads -> CallTypes],
         override_max_buffer_count' \in Nat,
         UNCHANGED <<queue, base, framebuffer, is_abandoned, frame_counter, asyncs,
                     next_callback_ticket>>,
         \A s \in Slots : SlotOK(s, slots'[s], queue, base, framebuffer),
         AllocationOK'
  PROVE  LayerInv'
<1>1. LayerTypes'
  BY DEF LayerInv, LayerTypes
<1>2. \A s \in Slots : SlotOK(s, slots'[s], queue', base', framebuffer')
  OBVIOUS
<1>3. FramesOK(queue', base', framebuffer') /\ ModeOK(queue', asyncs')
  BY DEF LayerInv
<1> QED BY <1>1, <1>2, <1>3 DEF LayerInv

\* With one thread, nobody allocates while it does something else.
LEMMA NobodyAllocates ==
  ASSUME OrderlyGuest, LayerInv, NEW p \in BinderThreads, call[p].at # "allocate"
  PROVE  /\ \A q \in BinderThreads : call[q].at # "allocate"
         /\ \A s \in Slots : is_abandoned \/ ~(slots[s].buffer_state = "Dequeued" /\ slots[s].graphic_buffer = NULL)
<1>1. \A q \in BinderThreads : q = p
  BY DEF OrderlyGuest
<1> QED BY <1>1 DEF LayerInv, AllocationOK

LEMMA StillNobodyAllocates ==
  ASSUME \A q \in BinderThreads : call'[q].at # "allocate",
         \A s \in Slots : is_abandoned' \/ ~(slots'[s].buffer_state = "Dequeued" /\ slots'[s].graphic_buffer = NULL)
  PROVE  AllocationOK'
BY DEF AllocationOK

\* The thread does something else next, and the others have nothing to do.
LEMMA CallMoves ==
  ASSUME OrderlyGuest, LayerInv, NEW p \in BinderThreads, NEW c \in CallTypes,
         call' = [call EXCEPT ![p] = c]
  PROVE  /\ call' \in [BinderThreads -> CallTypes] /\ call'[p] = c
         /\ c.at # "allocate" => \A q \in BinderThreads : call'[q].at # "allocate"
<1>1. call \in [BinderThreads -> CallTypes]
  BY DEF LayerInv, LayerTypes
<1>2. \A q \in BinderThreads : q = p
  BY DEF OrderlyGuest
<1> QED BY <1>1, <1>2

LEMMA IdleIsACall == Idle \in CallTypes /\ Idle.at = "idle"
BY SlotNumbers DEF Idle, CallTypes

\* What the trimming of the slots beyond the count leaves.
LEMMA TrimmedSlots ==
  ASSUME LayerInv
  PROVE  /\ Trimmed \in [Slots -> SlotTypes]
         /\ \A s \in Slots : SlotOK(s, Trimmed[s], queue, base, framebuffer)
         /\ \A s \in Slots : Trimmed[s].buffer_state = "Dequeued" => Trimmed[s] = slots[s]
<1>1. \A s \in Slots : \/ Trimmed[s] = slots[s]
                       \/ Trimmed[s] = FreeBuffer(slots[s])
  BY DEF Trimmed
<1>2. \A s \in Slots : slots[s] \in SlotTypes
  BY DEF LayerInv, LayerTypes
<1>3. \A s \in Slots : Trimmed[s] \in SlotTypes
  BY <1>1, <1>2, FreedFields
<1>4. Trimmed \in [Slots -> SlotTypes]
  <2>1. Trimmed = [s \in Slots |-> Trimmed[s]]
    BY DEF Trimmed
  <2> QED BY <1>3, <2>1
<1>5. queue \in Seq(Frames) /\ framebuffer \in Frames \cup {NULL}
  BY DEF LayerInv, LayerTypes
<1>6. \A s \in Slots : SlotOK(s, Trimmed[s], queue, base, framebuffer)
  <2> TAKE s \in Slots
  <2>1. SlotOK(s, slots[s], queue, base, framebuffer)
    BY DEF LayerInv
  <2>2. SlotOK(s, FreeBuffer(slots[s]), queue, base, framebuffer)
    BY <1>2, <1>5, FreedIsOK
  <2> QED BY <1>1, <2>1, <2>2
<1>7. \A s \in Slots : Trimmed[s].buffer_state = "Dequeued" => Trimmed[s] = slots[s]
  BY <1>1, <1>2, FreedFields
<1> QED BY <1>4, <1>6, <1>7

LEMMA BeginDequeueKeeps ==
  ASSUME OrderlyGuest, LayerInv, NEW p \in BinderThreads, NEW shape \in Shapes,
         BeginDequeue(p, shape), UNCHANGED <<base, framebuffer>>
  PROVE  LayerInv'
<1> DEFINE c == [call[p] EXCEPT !.at = "dequeue", !.shape = shape]
<1>1. call[p] \in CallTypes /\ call \in [BinderThreads -> CallTypes]
  BY DEF LayerInv, LayerTypes
<1>2. c \in CallTypes /\ c.at = "dequeue"
  BY <1>1 DEF CallTypes
<1>3. call' = [call EXCEPT ![p] = c] /\ call[p].at = "idle" /\ slots' = slots
  BY DEF BeginDequeue, Ready, coreVars
<1> HIDE DEF c
<1>4. call' \in [BinderThreads -> CallTypes] /\ \A q \in BinderThreads : call'[q].at # "allocate"
  BY <1>2, <1>3, CallMoves
<1>5. AllocationOK'
  BY <1>3, <1>4, NobodyAllocates, StillNobodyAllocates DEF BeginDequeue, coreVars
<1>6. slots \in [Slots -> SlotTypes] /\ override_max_buffer_count \in Nat
      /\ \A s \in Slots : SlotOK(s, slots[s], queue, base, framebuffer)
  BY DEF LayerInv, LayerTypes
<1>7. UNCHANGED <<queue, is_abandoned, frame_counter, asyncs, next_callback_ticket,
                  override_max_buffer_count>>
  BY DEF BeginDequeue, coreVars, UnchangedTickets
<1> QED BY <1>3, <1>4, <1>5, <1>6, <1>7, SlotStep

\* The slots are as the trimming leaves them, and the thread does not allocate.
LEMMA TrimKeeps ==
  ASSUME OrderlyGuest, LayerInv, NEW p \in BinderThreads, call[p].at # "allocate",
         NEW c \in CallTypes, c.at # "allocate", call' = [call EXCEPT ![p] = c],
         slots' \in {slots, Trimmed},
         UnchangedButSlots, UNCHANGED <<base, framebuffer>>
  PROVE  LayerInv'
<1>1. call' \in [BinderThreads -> CallTypes] /\ \A q \in BinderThreads : call'[q].at # "allocate"
  BY CallMoves
<1>2. slots \in [Slots -> SlotTypes] /\ override_max_buffer_count \in Nat
      /\ \A s \in Slots : SlotOK(s, slots[s], queue, base, framebuffer)
  BY DEF LayerInv, LayerTypes
<1>3. /\ slots' \in [Slots -> SlotTypes]
      /\ \A s \in Slots : SlotOK(s, slots'[s], queue, base, framebuffer)
      /\ \A s \in Slots : slots'[s].buffer_state = "Dequeued" => slots'[s] = slots[s]
  BY <1>2, TrimmedSlots
<1>4. AllocationOK'
  BY <1>1, <1>3, NobodyAllocates, StillNobodyAllocates DEF UnchangedButSlots
<1> QED BY <1>1, <1>2, <1>3, <1>4, SlotStep DEF UnchangedButSlots

LEMMA DequeueFailsKeeps ==
  ASSUME OrderlyGuest, LayerInv, NEW p \in BinderThreads,
         DequeueFails(p), UNCHANGED <<base, framebuffer>>
  PROVE  LayerInv'
<1>1. call[p].at # "allocate" /\ slots' \in {slots, Trimmed} /\ UnchangedButSlots
  BY DEF DequeueFails, MayLook
<1>2. call' = [call EXCEPT ![p] = Idle]
  BY DEF DequeueFails, Return
<1> QED BY <1>1, <1>2, IdleIsACall, TrimKeeps

LEMMA DequeueWaitsKeeps ==
  ASSUME OrderlyGuest, LayerInv, NEW p \in BinderThreads,
         DequeueWaits(p), UNCHANGED <<base, framebuffer>>
  PROVE  LayerInv'
<1>1. call[p].at # "allocate" /\ slots' \in {slots, Trimmed} /\ UnchangedButSlots
  BY DEF DequeueWaits, MayLook
<1> DEFINE c == [call[p] EXCEPT !.at = "asleep"]
<1>2. call' = [call EXCEPT ![p] = c]
  BY DEF DequeueWaits
<1>3. c \in CallTypes /\ c.at = "asleep"
  BY DEF LayerInv, LayerTypes, CallTypes
<1> HIDE DEF c
<1> QED BY <1>1, <1>2, <1>3, TrimKeeps

\* The slot that is found goes to the producer, without a buffer if it does not fit.
LEMMA DequeueFindsKeeps ==
  ASSUME OrderlyGuest, LayerInv, NEW p \in BinderThreads,
         DequeueFinds(p), UNCHANGED <<base, framebuffer>>
  PROVE  LayerInv'
<1> DEFINE found == OldestFree
           x == slots[found]
           fits == Fits(x.graphic_buffer, call[p].shape)
           y == [x EXCEPT !.buffer_state = "Dequeued",
                          !.graphic_buffer = IF fits THEN @ ELSE NULL,
                          !.acquire_called = fits /\ @,
                          !.request_buffer_called = fits /\ @]
           c == IF fits THEN Idle ELSE [call[p] EXCEPT !.at = "allocate", !.slot = found]
<1>1. /\ LayerTypes /\ queue \in Seq(Frames) /\ framebuffer \in Frames \cup {NULL}
      /\ slots \in [Slots -> SlotTypes] /\ call \in [BinderThreads -> CallTypes]
      /\ override_max_buffer_count \in Nat
      /\ \A s \in Slots : SlotOK(s, slots[s], queue, base, framebuffer)
  BY DEF LayerInv, LayerTypes
<1>2. found \in Slots /\ x.buffer_state = "Free" /\ Trimmed[found] = x
  BY <1>1, OldestIsFree DEF DequeueFinds, MustWait
<1>3. slots' = [Trimmed EXCEPT ![found] = y] /\ call' = [call EXCEPT ![p] = c]
  <2>1. slots' = [Trimmed EXCEPT
                ![found].buffer_state = "Dequeued",
                ![found].graphic_buffer = IF fits THEN @ ELSE NULL,
                ![found].acquire_called = fits /\ @,
                ![found].request_buffer_called = fits /\ @]
    BY DEF DequeueFinds
  <2>2. Trimmed \in [Slots -> SlotTypes]
    BY TrimmedSlots
  <2>3. call' = [call EXCEPT ![p] = c]
    BY DEF DequeueFinds
  <2> HIDE DEF found, fits
  <2> QED BY <1>2, <2>1, <2>2, <2>3
<1>4. /\ y \in SlotTypes /\ y.buffer_state = "Dequeued"
      /\ fits => y.graphic_buffer = x.graphic_buffer /\ y.acquire_called = x.acquire_called
      /\ ~fits => y.graphic_buffer = NULL /\ ~y.acquire_called
  <2>1. x \in SlotTypes /\ fits \in BOOLEAN
    BY <1>1, <1>2 DEF Fits
  <2> HIDE DEF x, fits
  <2> QED BY <2>1 DEF SlotTypes
<1>5. fits => x.graphic_buffer # NULL
  BY DEF Fits
<1>6. c \in CallTypes /\ IF fits THEN c.at = "idle" ELSE c.at = "allocate" /\ c.slot = found
  <2>1. call[p] \in CallTypes
    BY <1>1
  <2> HIDE DEF found, fits
  <2> QED BY <1>2, <2>1, IdleIsACall DEF CallTypes
<1> HIDE DEF found, x, y, c, fits
<1>7. SlotOK(found, y, queue, base, framebuffer)
  <2>1. CASE fits
    <3>1. SlotOK(found, x, queue, base, framebuffer)
      BY <1>1, <1>2 DEF x
    <3> QED BY <1>2, <1>4, <2>1, <3>1, IdleIsOK
  <2>2. CASE ~fits
    <3>1. Unshown(found, y, queue, framebuffer)
      BY <1>1, <1>4, <2>2, EmptyIsUnshown
    <3> QED BY <1>4, <2>2, <3>1, UnshownIsOK
  <2> QED BY <2>1, <2>2
<1>8. /\ slots' \in [Slots -> SlotTypes] /\ slots'[found] = y
      /\ \A s \in Slots \ {found} : slots'[s] = Trimmed[s]
  BY <1>2, <1>3, <1>4, TrimmedSlots
<1>9. \A s \in Slots : SlotOK(s, slots'[s], queue, base, framebuffer)
  BY <1>7, <1>8, TrimmedSlots
<1>10. /\ call' \in [BinderThreads -> CallTypes] /\ call'[p] = c
       /\ c.at # "allocate" => \A q \in BinderThreads : call'[q].at # "allocate"
  BY <1>3, <1>6, CallMoves
<1>11. call[p].at # "allocate" /\ UnchangedButSlots
  BY DEF DequeueFinds, MayLook
<1>12. \A s \in Slots \ {found} :
          is_abandoned' \/ ~(slots'[s].buffer_state = "Dequeued" /\ slots'[s].graphic_buffer = NULL)
  BY <1>8, <1>11, NobodyAllocates, TrimmedSlots DEF UnchangedButSlots
<1>13. AllocationOK'
  <2>1. CASE fits
    <3>1. ~(y.buffer_state = "Dequeued" /\ y.graphic_buffer = NULL)
      BY <1>4, <1>5, <2>1
    <3> QED BY <1>6, <1>8, <1>10, <1>12, <2>1, <3>1, StillNobodyAllocates
  <2>2. CASE ~fits
    <3>1. \A q \in BinderThreads : call'[q] = c
      BY <1>10 DEF OrderlyGuest
    <3> QED BY <1>4, <1>6, <1>8, <1>12, <2>2, <3>1 DEF AllocationOK
  <2> QED BY <2>1, <2>2
<1> QED BY <1>1, <1>8, <1>9, <1>10, <1>11, <1>13, SlotStep DEF UnchangedButSlots

\* One slot changes, nobody allocates afterwards.
LEMMA OneSlotKeeps ==
  ASSUME LayerInv, NEW s \in Slots, NEW y \in SlotTypes, slots' = [slots EXCEPT ![s] = y],
         SlotOK(s, y, queue, base, framebuffer),
         ~(y.buffer_state = "Dequeued" /\ y.graphic_buffer = NULL),
         \A r \in Slots \ {s} :
            is_abandoned \/ ~(slots[r].buffer_state = "Dequeued" /\ slots[r].graphic_buffer = NULL),
         call' \in [BinderThreads -> CallTypes], \A q \in BinderThreads : call'[q].at # "allocate",
         override_max_buffer_count' \in Nat,
         UNCHANGED <<queue, base, framebuffer, is_abandoned, frame_counter, asyncs,
                     next_callback_ticket>>
  PROVE  LayerInv'
<1>1. /\ slots \in [Slots -> SlotTypes]
      /\ \A r \in Slots : SlotOK(r, slots[r], queue, base, framebuffer)
  BY DEF LayerInv, LayerTypes
<1>2. /\ slots' \in [Slots -> SlotTypes] /\ slots'[s] = y
      /\ \A r \in Slots \ {s} : slots'[r] = slots[r]
  BY <1>1
<1>3. \A r \in Slots : SlotOK(r, slots'[r], queue, base, framebuffer)
  BY <1>1, <1>2
<1>4. AllocationOK'
  BY <1>2, StillNobodyAllocates
<1> QED BY <1>2, <1>3, <1>4, SlotStep

\* A new buffer in a slot: no frame shows it.
LEMMA NewIsUnshown ==
  ASSUME LayerInv, NEW s \in Slots, NEW y, NEW id \in FreshIds(s), NEW h, NEW shape,
         y.graphic_buffer = NewBuffer(id, h, shape)
  PROVE  Unshown(s, y, queue, framebuffer)
<1>1. queue \in Seq(Frames) /\ framebuffer \in Frames \cup {NULL}
  BY DEF LayerInv, LayerTypes
<1>2. \A f \in Frames : f.graphic_buffer # NULL
  BY ProducerAssumption DEF Frames
<1>3. y.graphic_buffer.id = id
  BY DEF NewBuffer
<1>4. \A b \in LiveBuffers(s) : b # NULL => b # y.graphic_buffer
  BY <1>3, FreshIsNew
<1>5. ASSUME NEW i \in DOMAIN queue, queue[i].slot = s PROVE queue[i].graphic_buffer # y.graphic_buffer
  <2>1. queue[i] \in Frames
    BY <1>1
  <2>2. queue[i].graphic_buffer \in LiveBuffers(s)
    BY <1>5 DEF LiveBuffers
  <2> QED BY <1>2, <1>4, <2>1, <2>2
<1>6. ASSUME framebuffer # NULL, framebuffer.slot = s PROVE framebuffer.graphic_buffer # y.graphic_buffer
  <2>1. framebuffer \in Frames
    BY <1>1, <1>6
  <2>2. framebuffer.graphic_buffer \in LiveBuffers(s)
    BY <1>6 DEF LiveBuffers
  <2> QED BY <1>2, <1>4, <2>1, <2>2
<1> QED BY <1>5, <1>6 DEF Unshown, Shows

LEMMA DequeueAllocatesKeeps ==
  ASSUME OrderlyGuest, LayerInv, NEW p \in BinderThreads, NEW id \in FreshIds(call[p].slot),
         DequeueAllocates(p, id), UNCHANGED <<base, framebuffer>>
  PROVE  LayerInv'
<1> DEFINE s == call[p].slot
           x == slots[s]
           y == [x EXCEPT !.frame_number = NoFrameNumber,
                          !.graphic_buffer = NewBuffer(id, 0, call[p].shape)]
<1>1. /\ slots \in [Slots -> SlotTypes] /\ call \in [BinderThreads -> CallTypes]
      /\ override_max_buffer_count \in Nat
      /\ \A r \in Slots : SlotOK(r, slots[r], queue, base, framebuffer)
  BY DEF LayerInv, LayerTypes
<1>2. call[p] \in CallTypes /\ s \in Slots /\ call[p].shape \in Shapes \cup {NULL}
  BY <1>1 DEF CallTypes
<1>3. call' = [call EXCEPT ![p] = Idle] /\ UnchangedButSlots /\ call[p].at = "allocate"
  BY DEF DequeueAllocates, Return
<1>4. call' \in [BinderThreads -> CallTypes] /\ \A q \in BinderThreads : call'[q].at # "allocate"
  BY <1>3, CallMoves, IdleIsACall
<1>5. \A r \in Slots \ {s} : is_abandoned \/ ~(slots[r].buffer_state = "Dequeued" /\ slots[r].graphic_buffer = NULL)
  <2>1. \A q \in BinderThreads : q = p
    BY DEF OrderlyGuest
  <2> QED BY <2>1 DEF LayerInv, AllocationOK
<1>6. CASE is_abandoned
  <2>1. slots' = slots
    BY <1>6 DEF DequeueAllocates
  <2>2. AllocationOK'
    BY <1>3, <1>4, <1>6 DEF AllocationOK, UnchangedButSlots
  <2> QED BY <1>1, <1>3, <1>4, <2>1, <2>2, SlotStep DEF UnchangedButSlots
<1>7. CASE ~is_abandoned
  <2>1. x.buffer_state = "Dequeued" /\ ~x.acquire_called /\ x \in SlotTypes
    BY <1>1, <1>2, <1>3, <1>7 DEF LayerInv, AllocationOK
  <2>2. NewBuffer(id, 0, call[p].shape) \in Buffers
    BY <1>2, FreshIsNew DEF NewBuffer, Buffers
  <2>3. slots' = [slots EXCEPT ![s] = y]
    BY <1>1, <1>2, <1>7 DEF DequeueAllocates
  <2>4. /\ y \in SlotTypes /\ y.buffer_state = "Dequeued" /\ ~y.acquire_called
        /\ y.graphic_buffer = NewBuffer(id, 0, call[p].shape)
    <3> HIDE DEF x
    <3> QED BY <2>1, <2>2, FrameNumbers DEF SlotTypes
  <2>5. Unshown(s, y, queue, framebuffer)
    <3> HIDE DEF y
    <3> QED BY <1>2, <2>4, NewIsUnshown
  <2>6. y.graphic_buffer # NULL
    BY <2>2, <2>4, ProducerAssumption
  <2> HIDE DEF y, x, s
  <2>7. SlotOK(s, y, queue, base, framebuffer)
    BY <2>4, <2>5, UnshownIsOK
  <2> QED BY <1>1, <1>2, <1>3, <1>4, <1>5, <2>3, <2>4, <2>6, <2>7, OneSlotKeeps DEF UnchangedButSlots
<1> QED BY <1>6, <1>7

LEMMA RequestBufferKeeps ==
  ASSUME OrderlyGuest, LayerInv, NEW p \in BinderThreads, NEW s \in Slots,
         RequestBuffer(p, s), UNCHANGED <<base, framebuffer>>
  PROVE  LayerInv'
<1> DEFINE x == slots[s]
           y == [x EXCEPT !.request_buffer_called = TRUE]
<1>1. /\ slots \in [Slots -> SlotTypes] /\ call \in [BinderThreads -> CallTypes] /\ x \in SlotTypes
      /\ override_max_buffer_count \in Nat /\ SlotOK(s, x, queue, base, framebuffer)
  BY DEF LayerInv, LayerTypes
<1>2. call' = call /\ UnchangedButSlots /\ call[p].at # "allocate" /\ slots' = [slots EXCEPT ![s] = y]
  BY DEF RequestBuffer, Ready
<1>3. /\ y \in SlotTypes /\ y.buffer_state = x.buffer_state /\ y.graphic_buffer = x.graphic_buffer
      /\ y.frame_number = x.frame_number /\ y.acquire_called = x.acquire_called
  <2> HIDE DEF x
  <2> QED BY <1>1 DEF SlotTypes
<1>4. ~(x.buffer_state = "Dequeued" /\ x.graphic_buffer = NULL)
  BY <1>2, NobodyAllocates DEF RequestBuffer, OwnedByProducer
<1>5. SlotOK(s, y, queue, base, framebuffer)
  <2> HIDE DEF x, y
  <2> QED BY <1>1, <1>3, SameIsOK
<1> HIDE DEF x, y
<1> QED BY <1>1, <1>2, <1>3, <1>4, <1>5, NobodyAllocates, OneSlotKeeps DEF UnchangedButSlots

LEMMA DetachBufferKeeps ==
  ASSUME OrderlyGuest, LayerInv, NEW p \in BinderThreads, NEW s \in Slots,
         DetachBuffer(p, s), UNCHANGED <<base, framebuffer>>
  PROVE  LayerInv'
<1> DEFINE y == FreeBuffer(slots[s])
<1>1. /\ slots[s] \in SlotTypes /\ call \in [BinderThreads -> CallTypes]
      /\ override_max_buffer_count \in Nat /\ queue \in Seq(Frames)
      /\ framebuffer \in Frames \cup {NULL}
  BY DEF LayerInv, LayerTypes
<1>2. call' = call /\ UnchangedButSlots /\ call[p].at # "allocate" /\ slots' = [slots EXCEPT ![s] = y]
  BY DEF DetachBuffer, Ready
<1>3. y \in SlotTypes /\ y.buffer_state = "Free" /\ SlotOK(s, y, queue, base, framebuffer)
  BY <1>1, FreedFields, FreedIsOK
<1> HIDE DEF y
<1> QED BY <1>1, <1>2, <1>3, NobodyAllocates, OneSlotKeeps DEF UnchangedButSlots

LEMMA CancelBufferKeeps ==
  ASSUME OrderlyGuest, LayerInv, NEW p \in BinderThreads, NEW s \in Slots,
         CancelBuffer(p, s), UNCHANGED <<base, framebuffer>>
  PROVE  LayerInv'
<1> DEFINE x == slots[s]
           y == [x EXCEPT !.buffer_state = "Free", !.frame_number = 0]
<1>1. /\ slots \in [Slots -> SlotTypes] /\ call \in [BinderThreads -> CallTypes] /\ x \in SlotTypes
      /\ override_max_buffer_count \in Nat /\ SlotOK(s, x, queue, base, framebuffer)
  BY DEF LayerInv, LayerTypes
<1>2. /\ call' = call /\ UnchangedButSlots /\ call[p].at # "allocate"
      /\ slots' = [slots EXCEPT ![s] = y] /\ x.buffer_state = "Dequeued"
  BY <1>1 DEF CancelBuffer, Ready, OwnedByProducer
<1>3. /\ y \in SlotTypes /\ y.buffer_state = "Free" /\ y.graphic_buffer = x.graphic_buffer
      /\ y.acquire_called = x.acquire_called
  <2> HIDE DEF x
  <2> QED BY <1>1, FrameNumbers DEF SlotTypes
<1>4. SlotOK(s, y, queue, base, framebuffer)
  <2> HIDE DEF x, y
  <2> QED BY <1>1, <1>2, <1>3, IdleIsOK
<1> HIDE DEF x, y
<1> QED BY <1>1, <1>2, <1>3, <1>4, NobodyAllocates, OneSlotKeeps DEF UnchangedButSlots

LEMMA SetPreallocatedBufferKeeps ==
  ASSUME OrderlyGuest, LayerInv, NEW p \in BinderThreads, NEW s \in Slots,
         NEW buffer \in PreallocatedBuffers(s),
         SetPreallocatedBuffer(p, s, buffer), UNCHANGED <<base, framebuffer>>
  PROVE  LayerInv'
<1> DEFINE y == [EmptySlot EXCEPT !.graphic_buffer = buffer, !.is_preallocated = buffer.shape # NULL]
           new == [slots EXCEPT ![s] = y]
<1>1. /\ slots \in [Slots -> SlotTypes] /\ call \in [BinderThreads -> CallTypes]
      /\ override_max_buffer_count \in Nat
  BY DEF LayerInv, LayerTypes
<1>2. PICK id \in FreshIds(s), h \in Handles \cup {0}, shape \in Shapes \cup {NULL} :
         buffer = NewBuffer(id, h, shape)
  BY DEF PreallocatedBuffers
<1>3. buffer \in Buffers /\ buffer # NULL
  <2>1. buffer \in Buffers
    BY <1>2, FreshIsNew DEF NewBuffer, Buffers
  <2> QED BY <2>1, ProducerAssumption
<1>4. /\ y \in SlotTypes /\ y.buffer_state = "Free" /\ ~y.acquire_called
      /\ y.graphic_buffer = buffer
  BY <1>3, FrameNumbers DEF EmptySlot, SlotTypes
<1>5. /\ call' = call /\ call[p].at # "allocate" /\ slots' = [slots EXCEPT ![s] = y]
      /\ override_max_buffer_count' \in {override_max_buffer_count, PreallocatedCount(new)}
      /\ UNCHANGED <<queue, is_abandoned, frame_counter, asyncs, next_callback_ticket>>
  BY DEF SetPreallocatedBuffer, Ready, UnchangedTickets
<1>6. PreallocatedCount(new) \in Nat
  <2>1. IsFiniteSet(Slots)
    BY SlotNumbers, FS_Interval DEF Slots
  <2>2. IsFiniteSet({r \in Slots : new[r].is_preallocated})
    BY <2>1, FS_Subset
  <2> QED BY <2>2, FS_CardinalityType DEF PreallocatedCount
<1> HIDE DEF y, new
<1>7. Unshown(s, y, queue, framebuffer)
  BY <1>2, <1>4, NewIsUnshown
<1>8. SlotOK(s, y, queue, base, framebuffer)
  BY <1>4, <1>7, UnshownIsOK
<1> QED BY <1>1, <1>4, <1>5, <1>6, <1>8, NobodyAllocates, OneSlotKeeps

\* The slots are all freed, or none changes.
LEMMA AllFreed ==
  ASSUME LayerInv, FreeAllBuffers
  PROVE  /\ slots' \in [Slots -> SlotTypes]
         /\ \A s \in Slots : /\ slots'[s].buffer_state = "Free" /\ slots'[s].graphic_buffer = NULL
                             /\ ~slots'[s].acquire_called
<1>1. slots \in [Slots -> SlotTypes] /\ slots' = [s \in Slots |-> FreeBuffer(slots[s])]
  BY DEF LayerInv, LayerTypes, FreeAllBuffers
<1> QED BY <1>1, FreedFields

LEMMA SetBufferCountKeeps ==
  ASSUME OrderlyGuest, LayerInv, NEW p \in BinderThreads, NEW count \in 0..NumSlots,
         SetBufferCount(p, count), UNCHANGED <<base, framebuffer>>
  PROVE  LayerInv'
<1> DEFINE c == [call[p] EXCEPT !.at = IF count # 0 THEN "released" ELSE "idle"]
<1>1. /\ slots \in [Slots -> SlotTypes] /\ call \in [BinderThreads -> CallTypes]
      /\ queue \in Seq(Frames) /\ framebuffer \in Frames \cup {NULL}
      /\ \A r \in Slots : SlotOK(r, slots[r], queue, base, framebuffer)
  BY DEF LayerInv, LayerTypes
<1>2. c \in CallTypes /\ c.at # "allocate"
  <2>1. call[p] \in CallTypes
    BY <1>1
  <2> QED BY <2>1 DEF CallTypes
<1>3. /\ call' = [call EXCEPT ![p] = c] /\ call[p].at # "allocate"
      /\ override_max_buffer_count' = count
      /\ UNCHANGED <<queue, is_abandoned, frame_counter, asyncs, next_callback_ticket>>
      /\ FreeAllBuffers \/ slots' = slots
  BY DEF SetBufferCount, Ready, UnchangedTickets
<1> HIDE DEF c
<1>4. call' \in [BinderThreads -> CallTypes] /\ \A q \in BinderThreads : call'[q].at # "allocate"
  BY <1>2, <1>3, CallMoves
<1>5. override_max_buffer_count' \in Nat
  BY <1>3, SlotNumbers
<1>6. CASE slots' = slots
  <2>1. AllocationOK'
    BY <1>3, <1>4, <1>6, NobodyAllocates, StillNobodyAllocates
  <2> QED BY <1>1, <1>3, <1>4, <1>5, <1>6, <2>1, SlotStep
<1>7. CASE FreeAllBuffers
  <2>1. AllocationOK'
    BY <1>4, <1>7, AllFreed, StillNobodyAllocates
  <2>2. \A s \in Slots : SlotOK(s, slots'[s], queue, base, framebuffer)
    <3> TAKE s \in Slots
    <3>1. Unshown(s, slots'[s], queue, framebuffer)
      BY <1>1, <1>7, AllFreed, EmptyIsUnshown
    <3> QED BY <1>7, <3>1, AllFreed, UnshownIsOK
  <2> QED BY <1>3, <1>4, <1>5, <1>7, <2>1, <2>2, AllFreed, SlotStep
<1> QED BY <1>3, <1>6, <1>7

LEMMA ConnectKeeps ==
  ASSUME LayerInv, NEW p \in BinderThreads, NEW known \in BOOLEAN,
         Connect(p, known), UNCHANGED <<base, framebuffer>>
  PROVE  LayerInv'
<1>1. UNCHANGED <<slots, queue, base, framebuffer, override_max_buffer_count, is_abandoned,
                  frame_counter, asyncs, call, next_callback_ticket>>
  BY DEF Connect, UnchangedTickets
<1> QED BY <1>1 DEF LayerInv, LayerTypes, AllocationOK

LEMMA FrameCallbackKeeps ==
  ASSUME OrderlyGuest, LayerInv, NEW p \in BinderThreads,
         FrameCallback(p), UNCHANGED <<base, framebuffer>>
  PROVE  LayerInv'
<1>1. /\ call' = [call EXCEPT ![p] = Idle] /\ call[p].at # "allocate"
      /\ UNCHANGED <<slots, queue, override_max_buffer_count, is_abandoned, frame_counter,
                     asyncs, next_callback_ticket>>
  BY DEF FrameCallback, Return, coreVars
<1>2. call' \in [BinderThreads -> CallTypes] /\ \A q \in BinderThreads : call'[q].at # "allocate"
  BY <1>1, CallMoves, IdleIsACall
<1>3. AllocationOK'
  BY <1>1, <1>2, NobodyAllocates, StillNobodyAllocates
<1>4. /\ slots \in [Slots -> SlotTypes] /\ override_max_buffer_count \in Nat
      /\ \A r \in Slots : SlotOK(r, slots[r], queue, base, framebuffer)
  BY DEF LayerInv, LayerTypes
<1> QED BY <1>1, <1>2, <1>3, <1>4, SlotStep

-----------------------------------------------------------------------------
(* Steps that change the frames.                                           *)

LEMMA FrameStep ==
  ASSUME LayerTypes', \A s \in Slots : SlotOK(s, slots'[s], queue', base', framebuffer'),
         FramesOK(queue', base', framebuffer'), ModeOK(queue', asyncs'), AllocationOK'
  PROVE  LayerInv'
BY DEF LayerInv

\* All slots are freed and the queue is emptied.
LEMMA EmptiedKeeps ==
  ASSUME LayerInv, FreeAllBuffers, queue' = << >>, UNCHANGED <<framebuffer, asyncs>>,
         LayerTypes', AllocationOK'
  PROVE  LayerInv'
<1>1. \A s \in Slots : SlotOK(s, slots'[s], queue', base', framebuffer')
  <2> TAKE s \in Slots
  <2>1. queue' \in Seq(Frames) /\ framebuffer' \in Frames \cup {NULL}
    BY DEF LayerTypes
  <2>2. Unshown(s, slots'[s], queue', framebuffer')
    BY <2>1, AllFreed, EmptyIsUnshown
  <2> QED BY <2>2, AllFreed, UnshownIsOK
<1>2. DOMAIN queue' = {} /\ Len(queue') = 0
  OBVIOUS
<1>3. FramesOK(queue', base', framebuffer') /\ ModeOK(queue', asyncs')
  BY <1>2 DEF LayerInv, FramesOK, ModeOK
<1> QED BY <1>1, <1>3, FrameStep

LEMMA DisconnectKeeps ==
  ASSUME OrderlyGuest, LayerInv, NEW p \in BinderThreads,
         Disconnect(p), UNCHANGED <<base, framebuffer>>
  PROVE  LayerInv'
<1> DEFINE c == [call[p] EXCEPT !.at = "released"]
<1>1. c \in CallTypes /\ c.at # "allocate"
  <2>1. call[p] \in CallTypes
    BY DEF LayerInv, LayerTypes
  <2> QED BY <2>1 DEF CallTypes
<1>2. /\ call' = [call EXCEPT ![p] = c] /\ FreeAllBuffers /\ queue' = << >>
      /\ UNCHANGED <<override_max_buffer_count, is_abandoned, frame_counter, asyncs,
                     next_callback_ticket>>
  BY DEF Disconnect, UnchangedTickets
<1> HIDE DEF c
<1>3. call' \in [BinderThreads -> CallTypes] /\ \A q \in BinderThreads : call'[q].at # "allocate"
  BY <1>1, <1>2, CallMoves
<1>4. AllocationOK'
  BY <1>2, <1>3, AllFreed, StillNobodyAllocates
<1>5. LayerTypes'
  BY <1>2, <1>3, AllFreed DEF LayerInv, LayerTypes
<1> QED BY <1>2, <1>4, <1>5, EmptiedKeeps

LEMMA AbandonKeeps ==
  ASSUME LayerInv, Abandon
  PROVE  LayerInv'
<1>1. /\ FreeAllBuffers /\ queue' = << >> /\ is_abandoned' = TRUE
      /\ base' = [s \in Slots |-> NoBase]
      /\ UNCHANGED <<override_max_buffer_count, frame_counter, framebuffer, call, asyncs,
                     next_callback_ticket>>
  BY DEF Abandon, producerVars
<1>2. AllocationOK'
  BY <1>1 DEF AllocationOK
<1>3. NoBase \in [graphic_buffer: Buffers \cup {NULL}, frame_number: 0..MaxFrames]
  BY SlotNumbers DEF NoBase
<1>4. LayerTypes'
  BY <1>1, <1>3, AllFreed DEF LayerInv, LayerTypes
<1> QED BY <1>1, <1>2, <1>4, EmptiedKeeps

LEMMA OnBuffersReleasedKeeps ==
  ASSUME OrderlyGuest, LayerInv, NEW p \in BinderThreads, OnBuffersReleased(p)
  PROVE  LayerInv'
<1>1. /\ call' = [call EXCEPT ![p] = Idle] /\ call[p].at # "allocate"
      /\ UNCHANGED <<slots, queue, override_max_buffer_count, is_abandoned, frame_counter,
                     framebuffer, asyncs, next_callback_ticket>>
  BY DEF OnBuffersReleased, Return, coreVars, UnchangedTickets
<1>2. \/ base' = base
      \/ base' = [s \in Slots |-> IF s \in ReleasedBuffers THEN NoBase ELSE base[s]]
  BY DEF OnBuffersReleased
<1>3. call' \in [BinderThreads -> CallTypes] /\ \A q \in BinderThreads : call'[q].at # "allocate"
  BY <1>1, CallMoves, IdleIsACall
<1>4. AllocationOK'
  BY <1>1, <1>3, NobodyAllocates, StillNobodyAllocates
<1>5. NoBase \in [graphic_buffer: Buffers \cup {NULL}, frame_number: 0..MaxFrames]
  BY SlotNumbers DEF NoBase
<1>6. LayerTypes'
  BY <1>1, <1>2, <1>3, <1>5 DEF LayerInv, LayerTypes
<1>7. \A s \in Slots : slots[s].acquire_called => base'[s] = base[s]
  BY <1>2 DEF ReleasedBuffers
<1>8. \A s \in Slots : SlotOK(s, slots'[s], queue', base', framebuffer')
  <2> TAKE s \in Slots
  <2>1. SlotOK(s, slots[s], queue, base, framebuffer)
    BY DEF LayerInv
  <2> QED BY <1>1, <1>7, <2>1 DEF SlotOK
<1>9. \A i \in DOMAIN queue : queue[i].acquire_called => base'[queue[i].slot] = base[queue[i].slot]
  <2> TAKE i \in DOMAIN queue
  <2>1. queue[i] \in Frames
    BY DEF LayerInv, LayerTypes
  <2>2. queue[i].slot \in Slots
    BY <2>1, FrameFields
  <2> QED BY <1>2, <2>2 DEF ReleasedBuffers
<1>10. FramesOK(queue', base', framebuffer') /\ ModeOK(queue', asyncs')
  BY <1>1, <1>9 DEF LayerInv, FramesOK, ModeOK
<1> QED BY <1>4, <1>6, <1>8, <1>10, FrameStep

-----------------------------------------------------------------------------
(* The composer.                                                           *)

LEMMA AcquireBufferKeeps ==
  ASSUME LayerInv, AcquireBuffer
  PROVE  LayerInv'
<1> DEFINE h == Head(queue)
           s == h.slot
           x == slots[s]
           y == [x EXCEPT !.acquire_called = TRUE, !.needs_cleanup_on_release = FALSE,
                          !.buffer_state = "Acquired"]
           b == [base EXCEPT ![s] = [graphic_buffer |-> h.graphic_buffer,
                                     frame_number |-> h.frame_number]]
           q == Tail(queue)
<1>1. /\ slots \in [Slots -> SlotTypes] /\ queue \in Seq(Frames)
      /\ base \in [Slots -> [graphic_buffer: Buffers \cup {NULL}, frame_number: 0..MaxFrames]]
      /\ \A r \in Slots : SlotOK(r, slots[r], queue, base, framebuffer)
      /\ FramesOK(queue, base, framebuffer) /\ ModeOK(queue, asyncs)
  BY DEF LayerInv, LayerTypes
<1>2. /\ queue # << >> /\ framebuffer = NULL
      /\ \A r \in Slots : slots[r].buffer_state # "Acquired"
  BY DEF AcquireBuffer, MayAcquire, SlotsIn
<1>3. /\ h = queue[1] /\ h \in Frames /\ 1 \in DOMAIN queue
      /\ q \in Seq(Frames) /\ \A i \in DOMAIN q : i + 1 \in DOMAIN queue /\ q[i] = queue[i + 1]
      /\ \A i \in DOMAIN queue : i # 1 => i - 1 \in DOMAIN q /\ q[i - 1] = queue[i]
      /\ DOMAIN queue \subseteq Nat \ {0} /\ DOMAIN q \subseteq Nat \ {0}
      /\ Len(q) <= Len(queue) /\ Len(q) \in Nat /\ Len(queue) \in Nat
  BY <1>1, <1>2
<1>4. s \in Slots /\ h.graphic_buffer \in Buffers /\ h.frame_number \in 0..MaxFrames
      /\ h.queued = h.graphic_buffer /\ h.graphic_buffer # NULL
  <2>1. s \in Slots /\ h.graphic_buffer \in Buffers /\ h.frame_number \in 0..MaxFrames
    BY <1>3, SlotNumbers DEF Frames
  <2> QED BY <1>1, <1>3, <2>1, ProducerAssumption DEF FramesOK
<1>5. KnownBuffer(h) = h.graphic_buffer
  BY <1>1, <1>3 DEF KnownBuffer, FramesOK
<1>6. StillTracking(h) <=> Shows(h, s, x)
  BY <1>4 DEF StillTracking, Shows
<1>7. /\ slots' = IF Shows(h, s, x) THEN [slots EXCEPT ![s] = y] ELSE slots
      /\ base' = b /\ framebuffer' = h /\ queue' = q
  <2>1. slots' = IF StillTracking(h)
                 THEN [slots EXCEPT ![s].acquire_called = TRUE,
                                    ![s].needs_cleanup_on_release = FALSE,
                                    ![s].buffer_state = "Acquired"]
                 ELSE slots
    BY DEF AcquireBuffer
  <2>2. base' = b /\ queue' = q
    BY <1>5 DEF AcquireBuffer
  <2>3. framebuffer' = [h EXCEPT !.graphic_buffer = h.graphic_buffer]
    BY <1>5 DEF AcquireBuffer
  <2>4. framebuffer' = h
    BY <1>3, <2>3 DEF Frames
  <2>5. slots' = IF Shows(h, s, x) THEN [slots EXCEPT ![s] = y] ELSE slots
    BY <1>1, <1>4, <1>6, <2>1
  <2> QED BY <2>2, <2>4, <2>5
<1>8. /\ y \in SlotTypes /\ y.acquire_called /\ y.buffer_state = "Acquired"
      /\ y.graphic_buffer = x.graphic_buffer /\ y.frame_number = x.frame_number
  <2>1. x \in SlotTypes
    BY <1>1, <1>4
  <2> HIDE DEF x
  <2> QED BY <2>1 DEF SlotTypes
<1>9. /\ b \in [Slots -> [graphic_buffer: Buffers \cup {NULL}, frame_number: 0..MaxFrames]]
      /\ b[s] = [graphic_buffer |-> h.graphic_buffer, frame_number |-> h.frame_number]
      /\ \A r \in Slots \ {s} : b[r] = base[r]
  BY <1>1, <1>4
<1>10. SlotOK(s, x, queue, base, NULL)
  BY <1>1, <1>2, <1>4
<1>11. h # NULL
  BY <1>3, ProducerAssumption
<1>12. /\ UNCHANGED <<override_max_buffer_count, is_abandoned, frame_counter, call, asyncs,
                      next_callback_ticket>>
  BY DEF AcquireBuffer, UnchangedOnAcquire, producerVars
<1> HIDE DEF y, b, q, h, s, x
<1>13. /\ slots' \in [Slots -> SlotTypes]
       /\ slots'[s] = IF Shows(h, s, x) THEN y ELSE x
       /\ \A r \in Slots \ {s} : slots'[r] = slots[r]
  BY <1>1, <1>4, <1>7, <1>8 DEF x
<1>14. SlotOK(s, slots'[s], q, b, h)
  <2>1. CASE Shows(h, s, x)
    <3>1. x.frame_number = h.frame_number /\ \A j \in DOMAIN queue : queue[j].slot = s => j <= 1
      BY <1>3, <1>10, <2>1 DEF SlotOK
    <3>2. \A i \in DOMAIN q : q[i].slot # s
      BY <1>3, <3>1
    <3>3. y.graphic_buffer = h.graphic_buffer
      BY <1>8, <2>1 DEF Shows
    <3>4. SlotOK(s, y, q, b, h)
      <4>1. b[s] = [graphic_buffer |-> h.graphic_buffer, frame_number |-> y.frame_number]
        BY <1>8, <1>9, <3>1
      <4>2. h.slot = s
        BY DEF s
      <4> QED BY <1>4, <1>8, <1>11, <3>2, <3>3, <4>1, <4>2 DEF SlotOK, Shows
    <3> QED BY <1>13, <2>1, <3>4
  <2>2. CASE ~Shows(h, s, x)
    <3>1. h.slot = s /\ x.graphic_buffer # h.graphic_buffer
      BY <2>2 DEF Shows, s
    <3>2. ~x.acquire_called
      BY <1>3, <1>10, <2>2, <3>1 DEF SlotOK
    <3>3. x.buffer_state # "Acquired"
      BY <1>2, <1>4 DEF x
    <3>4. x.buffer_state = "Queued" => \E i \in DOMAIN q : Shows(q[i], s, x)
      <4> SUFFICES ASSUME x.buffer_state = "Queued" PROVE \E i \in DOMAIN q : Shows(q[i], s, x)
        OBVIOUS
      <4>1. PICK i \in DOMAIN queue : Shows(queue[i], s, x)
        BY <1>10 DEF SlotOK
      <4>2. i # 1
        BY <1>3, <2>2, <4>1
      <4> QED BY <1>3, <4>1, <4>2
    <3>5. ASSUME NEW i \in DOMAIN q, Shows(q[i], s, x)
          PROVE  /\ x.buffer_state = "Queued" /\ x.frame_number = q[i].frame_number
                 /\ \A j \in DOMAIN q : q[j].slot = s => j <= i
      <4>1. i + 1 \in DOMAIN queue /\ Shows(queue[i + 1], s, x)
        BY <1>3, <3>5
      <4>2. /\ x.buffer_state = "Queued" /\ x.frame_number = queue[i + 1].frame_number
            /\ \A j \in DOMAIN queue : queue[j].slot = s => j <= i + 1
        BY <1>10, <4>1 DEF SlotOK
      <4> QED BY <1>3, <4>2
    <3>6. SlotOK(s, x, q, b, h)
      BY <3>1, <3>2, <3>3, <3>4, <3>5 DEF SlotOK
    <3> QED BY <1>13, <2>2, <3>6
  <2> QED BY <2>1, <2>2
<1>15. ASSUME NEW r \in Slots \ {s} PROVE SlotOK(r, slots'[r], q, b, h)
  <2> DEFINE z == slots[r]
  <2>1. SlotOK(r, z, queue, base, NULL) /\ z.buffer_state # "Acquired"
    BY <1>1, <1>2
  <2> HIDE DEF z
  <2>2. h.slot # r /\ queue[1].slot # r
    BY <1>3 DEF s
  <2>3. z.buffer_state = "Queued" => \E i \in DOMAIN q : Shows(q[i], r, z)
    <3> SUFFICES ASSUME z.buffer_state = "Queued" PROVE \E i \in DOMAIN q : Shows(q[i], r, z)
      OBVIOUS
    <3>1. PICK i \in DOMAIN queue : Shows(queue[i], r, z)
      BY <2>1 DEF SlotOK
    <3>2. i # 1
      BY <2>2, <3>1 DEF Shows
    <3> QED BY <1>3, <3>1, <3>2
  <2>4. ASSUME NEW i \in DOMAIN q, Shows(q[i], r, z)
        PROVE  /\ z.buffer_state = "Queued" /\ z.frame_number = q[i].frame_number
               /\ \A j \in DOMAIN q : q[j].slot = r => j <= i
    <3>1. i + 1 \in DOMAIN queue /\ Shows(queue[i + 1], r, z)
      BY <1>3, <2>4
    <3>2. /\ z.buffer_state = "Queued" /\ z.frame_number = queue[i + 1].frame_number
          /\ \A j \in DOMAIN queue : queue[j].slot = r => j <= i + 1
      BY <2>1, <3>1 DEF SlotOK
    <3> QED BY <1>3, <3>2
  <2>5. z.acquire_called => /\ z.graphic_buffer # NULL /\ b[r].graphic_buffer = z.graphic_buffer
                            /\ \A i \in DOMAIN q : q[i].slot = r => Shows(q[i], r, z)
    BY <1>3, <1>9, <2>1 DEF SlotOK
  <2>6. SlotOK(r, z, q, b, h)
    BY <2>1, <2>2, <2>3, <2>4, <2>5 DEF SlotOK
  <2> QED BY <1>13, <2>6 DEF z
<1>16. FramesOK(q, b, h)
  <2>1. \A i, j \in DOMAIN q :
            q[i].slot = q[j].slot /\ q[i].graphic_buffer = q[j].graphic_buffer => i = j
    <3> TAKE i, j \in DOMAIN q
    <3>1. queue[i + 1].slot = queue[j + 1].slot
             /\ queue[i + 1].graphic_buffer = queue[j + 1].graphic_buffer => i + 1 = j + 1
      BY <1>1, <1>3 DEF FramesOK
    <3> QED BY <1>3, <3>1
  <2>2. ASSUME NEW i \in DOMAIN q
        PROVE  /\ q[i].queued = q[i].graphic_buffer
               /\ q[i].acquire_called =>
                     /\ b[q[i].slot].graphic_buffer = q[i].graphic_buffer
                     /\ \A j \in DOMAIN q : q[j].slot = q[i].slot => i <= j
                     /\ h # NULL => h.slot # q[i].slot
    <3>1. i + 1 \in DOMAIN queue /\ q[i] = queue[i + 1] /\ i \in Nat \ {0}
      BY <1>3
    <3>2. /\ q[i].queued = q[i].graphic_buffer
          /\ q[i].acquire_called =>
                /\ base[q[i].slot].graphic_buffer = q[i].graphic_buffer
                /\ \A j \in DOMAIN queue : queue[j].slot = q[i].slot => i + 1 <= j
      BY <1>1, <3>1 DEF FramesOK
    <3>3. ASSUME q[i].acquire_called
          PROVE  /\ b[q[i].slot].graphic_buffer = q[i].graphic_buffer
                 /\ \A j \in DOMAIN q : q[j].slot = q[i].slot => i <= j
                 /\ h.slot # q[i].slot
      <4>1. h.slot # q[i].slot
        BY <1>3, <3>1, <3>2, <3>3
      <4>2. q[i].slot \in Slots
        <5>1. q[i] \in Frames
          BY <1>3
        <5> QED BY <5>1, FrameFields
      <4>3. b[q[i].slot] = base[q[i].slot]
        BY <1>9, <4>1, <4>2 DEF s
      <4>4. \A j \in DOMAIN q : q[j].slot = q[i].slot => i <= j
        <5> TAKE j \in DOMAIN q
        <5>1. q[j].slot = q[i].slot => i + 1 <= j + 1
          BY <1>3, <3>2, <3>3
        <5>2. j \in Nat
          BY <1>3
        <5> QED BY <3>1, <5>1, <5>2
      <4> QED BY <3>2, <3>3, <4>1, <4>3, <4>4
    <3> QED BY <3>2, <3>3
  <2> QED BY <1>4, <2>1, <2>2 DEF FramesOK
<1>17. ModeOK(q, asyncs)
  <2>1. TRUE \in asyncs => Len(q) <= 1
    BY <1>1, <1>3 DEF ModeOK
  <2>2. \A i \in DOMAIN q : q[i].is_droppable \in asyncs
    BY <1>1, <1>3 DEF ModeOK
  <2> QED BY <2>1, <2>2 DEF ModeOK
<1>18. AllocationOK'
  <2>1. \A r \in Slots : \/ slots'[r] = slots[r]
                         \/ /\ slots[r].graphic_buffer # NULL /\ slots'[r].graphic_buffer # NULL
                            /\ slots'[r].buffer_state # "Dequeued"
    BY <1>4, <1>8, <1>13 DEF Shows, x
  <2>2. \A p \in BinderThreads : call[p].slot \in Slots
    BY DEF LayerInv, LayerTypes, CallTypes
  <2> QED BY <1>12, <2>1, <2>2 DEF LayerInv, AllocationOK
<1>19. LayerTypes'
  BY <1>3, <1>7, <1>9, <1>12, <1>13 DEF LayerInv, LayerTypes
<1> QED BY <1>7, <1>12, <1>14, <1>15, <1>16, <1>17, <1>18, <1>19, FrameStep

\* The slot goes back to the producer, or the frame was of another time and the
\* table forgets it: no frame in the queue relies on what it forgets.
LEMMA ReleaseBufferKeeps ==
  ASSUME LayerInv, ReleaseBuffer
  PROVE  LayerInv'
<1> DEFINE f == framebuffer
           s == f.slot
           x == slots[s]
           asks == BaseStillTracking(s, f.graphic_buffer)
           stale == asks /\ StaleFrame(s)
           settles == asks /\ ~StaleFrame(s) /\ ~IsQueued(s)
           acquired == settles /\ x.buffer_state = "Acquired"
           cleans == settles /\ ~acquired /\ x.needs_cleanup_on_release
           y == [x EXCEPT !.buffer_state = IF acquired THEN "Free" ELSE @,
                          !.needs_cleanup_on_release = @ /\ ~cleans]
<1>1. /\ slots \in [Slots -> SlotTypes] /\ queue \in Seq(Frames)
      /\ base \in [Slots -> [graphic_buffer: Buffers \cup {NULL}, frame_number: 0..MaxFrames]]
      /\ \A r \in Slots : SlotOK(r, slots[r], queue, base, f)
      /\ FramesOK(queue, base, f) /\ ModeOK(queue, asyncs)
  BY DEF LayerInv, LayerTypes
<1>2. f # NULL /\ f \in Frames
  BY DEF ReleaseBuffer, MayRelease, LayerInv, LayerTypes
<1>3. s \in Slots /\ f.graphic_buffer # NULL
  BY <1>2, FrameFields
<1>4. SlotOK(s, x, queue, base, f)
  BY <1>1, <1>3
<1>5. /\ slots' = [slots EXCEPT ![s] = y] /\ framebuffer' = NULL
      /\ base' = base \/ ((stale \/ cleans) /\ base' = [base EXCEPT ![s] = NoBase])
      /\ UNCHANGED <<queue, override_max_buffer_count, is_abandoned, frame_counter, call, asyncs,
                     next_callback_ticket>>
  <2>1. slots' = [slots EXCEPT ![s].buffer_state = IF acquired THEN "Free" ELSE @,
                               ![s].needs_cleanup_on_release = @ /\ ~cleans]
    BY DEF ReleaseBuffer
  <2>2. Forget(s, stale \/ cleans)
    BY DEF ReleaseBuffer
  <2>3. framebuffer' = NULL /\ UNCHANGED queue /\ UnchangedOnAcquire
    BY DEF ReleaseBuffer
  <2> HIDE DEF acquired, cleans, stale
  <2> QED BY <1>1, <1>3, <2>1, <2>2, <2>3 DEF Forget, UnchangedOnAcquire, producerVars
<1>6. x \in SlotTypes
  BY <1>1, <1>3
<1>7. x.buffer_state = "Acquired" => acquired /\ ~stale /\ ~cleans
  <2> SUFFICES ASSUME x.buffer_state = "Acquired" PROVE acquired /\ ~stale
    OBVIOUS
  <2>1. /\ x.acquire_called
        /\ base[s] = [graphic_buffer |-> f.graphic_buffer, frame_number |-> x.frame_number]
    BY <1>4 DEF SlotOK
  <2>2. asks /\ ~StaleFrame(s)
    BY <1>3, <2>1 DEF BaseStillTracking, StaleFrame
  <2>3. ~IsQueued(s)
    BY <1>4, <2>1 DEF SlotOK, IsQueued
  <2> QED BY <2>2, <2>3
<1>8. acquired => x.buffer_state = "Acquired"
  OBVIOUS
<1> HIDE DEF acquired, stale, cleans, asks, settles
<1>9. /\ y \in SlotTypes /\ y.graphic_buffer = x.graphic_buffer
      /\ y.frame_number = x.frame_number /\ y.acquire_called = x.acquire_called
      /\ y.buffer_state = IF acquired THEN "Free" ELSE x.buffer_state
  <2> HIDE DEF x
  <2>1. y \in SlotTypes
    <3>1. (x.needs_cleanup_on_release /\ ~cleans) \in BOOLEAN
      OBVIOUS
    <3>2. (IF acquired THEN "Free" ELSE x.buffer_state) \in {"Free", "Dequeued", "Queued", "Acquired"}
      BY <1>6 DEF SlotTypes
    <3> QED BY <1>6, <3>1, <3>2 DEF SlotTypes
  <2> QED BY <1>6, <2>1 DEF SlotTypes
<1> HIDE DEF y
<1>10. /\ slots' \in [Slots -> SlotTypes] /\ slots'[s] = y
       /\ \A r \in Slots \ {s} : slots'[r] = slots[r]
  BY <1>1, <1>3, <1>5, <1>9
<1>11. /\ base' \in [Slots -> [graphic_buffer: Buffers \cup {NULL}, frame_number: 0..MaxFrames]]
       /\ \A r \in Slots \ {s} : base'[r] = base[r]
       /\ x.buffer_state = "Acquired" => base' = base
  <2>1. NoBase \in [graphic_buffer: Buffers \cup {NULL}, frame_number: 0..MaxFrames]
    BY SlotNumbers DEF NoBase
  <2> HIDE DEF x
  <2> QED BY <1>1, <1>3, <1>5, <1>7, <2>1
<1> HIDE DEF x, s, f
<1>12. y.buffer_state # "Acquired" /\ (y.acquire_called => x.buffer_state = "Acquired")
  <2>1. x.acquire_called => x.buffer_state = "Acquired"
    BY <1>2, <1>4 DEF SlotOK, s
  <2> QED BY <1>7, <1>9, <2>1
<1>13. SlotOK(s, y, queue, base', NULL)
  <2>1. CASE x.buffer_state = "Acquired"
    <3>1. base' = base /\ y.buffer_state = "Free"
      BY <1>7, <1>9, <1>11, <2>1
    <3>2. \A i \in DOMAIN queue : ~Shows(queue[i], s, x)
      BY <1>4, <2>1 DEF SlotOK
    <3> QED BY <1>4, <1>9, <3>1, <3>2 DEF SlotOK, Shows
  <2>2. CASE x.buffer_state # "Acquired"
    <3>1. y.buffer_state = x.buffer_state /\ ~y.acquire_called
      BY <1>8, <1>9, <1>12, <2>2
    <3> QED BY <1>4, <1>9, <2>2, <3>1 DEF SlotOK, Shows
  <2> QED BY <2>1, <2>2
<1>14. ASSUME NEW r \in Slots \ {s} PROVE SlotOK(r, slots[r], queue, base', NULL)
  <2> DEFINE z == slots[r]
  <2>1. SlotOK(r, z, queue, base, f) /\ base'[r] = base[r]
    BY <1>1, <1>11
  <2> HIDE DEF z
  <2>2. z.buffer_state # "Acquired"
    BY <2>1 DEF SlotOK, s
  <2>3. SlotOK(r, z, queue, base', NULL)
    BY <2>1, <2>2 DEF SlotOK
  <2> QED BY <2>3 DEF z
<1>15. \A r \in Slots : SlotOK(r, slots'[r], queue', base', framebuffer')
  BY <1>5, <1>10, <1>13, <1>14
<1>16. FramesOK(queue, base', NULL)
  <2>1. ASSUME NEW i \in DOMAIN queue, queue[i].acquire_called
        PROVE  base'[queue[i].slot] = base[queue[i].slot]
    <3>1. queue[i].slot # s
      BY <1>1, <1>2, <2>1 DEF FramesOK, s
    <3>2. queue[i] \in Frames
      BY <1>1
    <3> QED BY <1>11, <3>1, <3>2, FrameFields
  <2> QED BY <1>1, <2>1 DEF FramesOK
<1>17. AllocationOK'
  <2>1. \A r \in Slots :
          /\ slots'[r].graphic_buffer = slots[r].graphic_buffer
          /\ slots'[r].acquire_called = slots[r].acquire_called
          /\ slots'[r].buffer_state = "Dequeued" <=> slots[r].buffer_state = "Dequeued"
    BY <1>8, <1>9, <1>10 DEF x
  <2>2. \A p \in BinderThreads : call[p].slot \in Slots
    BY DEF LayerInv, LayerTypes, CallTypes
  <2> QED BY <1>5, <2>1, <2>2 DEF LayerInv, AllocationOK
<1>18. LayerTypes'
  BY <1>5, <1>10, <1>11 DEF LayerInv, LayerTypes
<1> QED BY <1>1, <1>5, <1>15, <1>16, <1>17, <1>18, FrameStep

-----------------------------------------------------------------------------
(* QueueBuffer().                                                          *)

\* The window's mode decides whether frames line up or replace one another.
LEMMA QueueOfOneMode ==
  ASSUME OrderlyGuest, LayerInv, NEW async \in asyncs, NEW g,
         NEW q, q = IF queue # << >> /\ Head(queue).is_droppable
                    THEN <<g>> \o Tail(queue) ELSE Append(queue, g)
  PROVE  \/ /\ q = Append(queue, g) /\ ~(queue # << >> /\ Head(queue).is_droppable)
            /\ TRUE \in asyncs => queue = << >>
         \/ /\ q = <<g>> /\ queue # << >> /\ Len(queue) = 1 /\ Head(queue).is_droppable
<1>1. PICK mode \in BOOLEAN : asyncs = {mode}
  BY DEF OrderlyGuest, LayerInv, LayerTypes
<1>2. queue \in Seq(Frames) /\ ModeOK(queue, asyncs)
  BY DEF LayerInv, LayerTypes
<1>3. queue # << >> => 1 \in DOMAIN queue /\ Head(queue) = queue[1] /\ Len(queue) \in Nat \ {0}
  BY <1>2
<1>4. CASE queue # << >> /\ Head(queue).is_droppable
  <2>1. TRUE \in asyncs
    BY <1>1, <1>2, <1>3, <1>4 DEF ModeOK
  <2>2. Len(queue) = 1
    BY <1>2, <1>3, <1>4, <2>1 DEF ModeOK
  <2>3. Tail(queue) \in Seq(Frames) /\ Len(Tail(queue)) = 0
    BY <1>2, <1>4, <2>2
  <2>4. Tail(queue) = << >>
    BY <2>3, EmptySeq
  <2>5. <<g>> \o << >> = <<g>>
    <3>1. <<g>> \in Seq({g})
      OBVIOUS
    <3> QED BY <3>1, ConcatEmptySeq
  <2> QED BY <1>4, <2>2, <2>4, <2>5
<1>5. CASE ~(queue # << >> /\ Head(queue).is_droppable)
  <2>1. TRUE \in asyncs => queue = << >>
    BY <1>1, <1>2, <1>3, <1>5 DEF ModeOK
  <2> QED BY <1>5, <2>1
<1> QED BY <1>4, <1>5

LEMMA QueueBufferKeeps ==
  ASSUME OrderlyGuest, LayerInv, NEW p \in BinderThreads, NEW s \in Slots, NEW async \in asyncs,
         QueueBuffer(p, s, async), UNCHANGED <<base, framebuffer>>
  PROVE  LayerInv'
<1> DEFINE x == slots[s]
           y == [x EXCEPT !.buffer_state = "Queued", !.frame_number = frame_counter + 1]
           g == Frame(s, async)
           h == Head(queue)
           drops == queue # << >> /\ h.is_droppable /\ StillTracking(h)
           c == [call[p] EXCEPT !.at = "ticket", !.ticket = next_callback_ticket]
           f == framebuffer
           b == base
<1>1. /\ slots \in [Slots -> SlotTypes] /\ queue \in Seq(Frames) /\ asyncs \in SUBSET BOOLEAN
      /\ \A r \in Slots : SlotOK(r, slots[r], queue, b, f)
      /\ FramesOK(queue, b, f) /\ ModeOK(queue, asyncs)
      /\ frame_counter \in 0..MaxFrames /\ next_callback_ticket \in Nat
  BY ProducerAssumption DEF LayerInv, LayerTypes
<1>2. /\ call[p].at # "allocate" /\ ~is_abandoned /\ x.buffer_state = "Dequeued"
      /\ frame_counter < MaxFrames
  BY DEF QueueBuffer, Ready, OwnedByProducer
<1>3. x \in SlotTypes /\ x.graphic_buffer # NULL
  BY <1>1, <1>2, NobodyAllocates
<1>4. frame_counter + 1 \in 1..MaxFrames /\ frame_counter + 1 \in 0..NoFrameNumber
  BY <1>1, <1>2, SlotNumbers DEF NoFrameNumber
<1>5. /\ g \in Frames /\ g.slot = s /\ g.graphic_buffer = x.graphic_buffer
      /\ g.frame_number = frame_counter + 1 /\ g.acquire_called = x.acquire_called
      /\ g.is_droppable = async /\ g.queued = x.graphic_buffer
  <2>1. x.graphic_buffer \in Buffers /\ x.acquire_called \in BOOLEAN /\ async \in BOOLEAN
    BY <1>1, <1>3 DEF SlotTypes
  <2>2. g = [slot |-> s, graphic_buffer |-> x.graphic_buffer, frame_number |-> frame_counter + 1,
             acquire_called |-> x.acquire_called, is_droppable |-> async,
             queued |-> x.graphic_buffer]
    BY DEF Frame
  <2> HIDE DEF x, g
  <2> QED BY <1>4, <2>1, <2>2 DEF Frames
<1>6. /\ y \in SlotTypes /\ y.buffer_state = "Queued" /\ y.frame_number = frame_counter + 1
      /\ y.graphic_buffer = x.graphic_buffer /\ y.acquire_called = x.acquire_called
  <2> HIDE DEF x
  <2> QED BY <1>3, <1>4 DEF SlotTypes
<1>7. /\ slots' = IF drops THEN [[slots EXCEPT ![s] = y] EXCEPT ![h.slot].buffer_state = "Free",
                                                                ![h.slot].frame_number = 0]
                  ELSE [slots EXCEPT ![s] = y]
      /\ queue' = IF queue # << >> /\ h.is_droppable THEN <<g>> \o Tail(queue) ELSE Append(queue, g)
      /\ frame_counter' = frame_counter + 1
      /\ call' = [call EXCEPT ![p] = c]
      /\ next_callback_ticket' = next_callback_ticket + 1
      /\ UNCHANGED <<override_max_buffer_count, is_abandoned, asyncs>>
  <2>1. [slots EXCEPT ![s].buffer_state = "Queued", ![s].frame_number = frame_counter + 1]
          = [slots EXCEPT ![s] = y]
    BY <1>1
  <2> HIDE DEF y
  <2> QED BY <2>1 DEF QueueBuffer
<1>8. c \in CallTypes /\ c.at # "allocate"
  <2>1. call[p] \in CallTypes
    BY DEF LayerInv, LayerTypes
  <2> QED BY <1>1, <2>1 DEF CallTypes
<1>9. SlotOK(s, x, queue, b, f)
  BY <1>1
<1>10. queue # << >> => /\ 1 \in DOMAIN queue /\ h = queue[1] /\ h \in Frames /\ h.slot \in Slots
                        /\ StillTracking(h) <=> Shows(h, h.slot, slots[h.slot])
  <2> SUFFICES ASSUME queue # << >>
               PROVE  /\ 1 \in DOMAIN queue /\ h = queue[1] /\ h \in Frames /\ h.slot \in Slots
                      /\ StillTracking(h) <=> Shows(h, h.slot, slots[h.slot])
    OBVIOUS
  <2>1. 1 \in DOMAIN queue /\ h = queue[1] /\ h \in Frames
    BY <1>1
  <2> HIDE DEF h
  <2> QED BY <2>1, FrameFields DEF StillTracking, Shows
<1> HIDE DEF y, g, c, x, b, f, h
<1>11. call' \in [BinderThreads -> CallTypes] /\ \A q \in BinderThreads : call'[q].at # "allocate"
  BY <1>7, <1>8, CallMoves
<1>12. drops => /\ h.slot \in Slots \ {s} /\ slots[h.slot].buffer_state = "Queued"
                /\ Shows(h, h.slot, slots[h.slot])
  BY <1>1, <1>2, <1>10 DEF SlotOK, x
<1> DEFINE w == [slots[h.slot] EXCEPT !.buffer_state = "Free", !.frame_number = 0]
<1>13. drops => /\ w \in SlotTypes /\ w.buffer_state = "Free"
                /\ w.graphic_buffer = slots[h.slot].graphic_buffer
                /\ w.acquire_called = slots[h.slot].acquire_called
  <2> SUFFICES ASSUME drops
               PROVE  /\ w \in SlotTypes /\ w.buffer_state = "Free"
                      /\ w.graphic_buffer = slots[h.slot].graphic_buffer
                      /\ w.acquire_called = slots[h.slot].acquire_called
    OBVIOUS
  <2>1. slots[h.slot] \in SlotTypes
    BY <1>1, <1>12
  <2> QED BY <2>1, FrameNumbers DEF SlotTypes
<1>14. /\ slots' \in [Slots -> SlotTypes] /\ slots'[s] = y
       /\ drops => slots'[h.slot] = w
       /\ \A r \in Slots \ {s} : slots'[r] = slots[r] \/ (drops /\ r = h.slot)
  <2>1. CASE ~drops
    BY <1>1, <1>6, <1>7, <2>1
  <2>2. CASE drops
    <3>1. slots' = [[slots EXCEPT ![s] = y] EXCEPT ![h.slot] = w]
      <4>1. [slots EXCEPT ![s] = y] \in [Slots -> SlotTypes]
        BY <1>1, <1>6
      <4>2. [slots EXCEPT ![s] = y][h.slot] = slots[h.slot]
        BY <1>1, <1>12, <2>2
      <4> HIDE DEF drops
      <4> QED BY <1>7, <1>12, <2>2, <4>1, <4>2
    <3> HIDE DEF w, drops
    <3> QED BY <1>1, <1>6, <1>12, <1>13, <2>2, <3>1
  <2> QED BY <2>1, <2>2
<1>15. AllocationOK'
  <2>1. \A r \in Slots : ~(slots'[r].buffer_state = "Dequeued" /\ slots'[r].graphic_buffer = NULL)
    <3> HIDE DEF w, drops
    <3> QED BY <1>2, <1>6, <1>13, <1>14, NobodyAllocates
  <2> QED BY <1>11, <2>1, StillNobodyAllocates
<1>16. queue' \in Seq(Frames)
  <2>1. Tail(queue) \in Seq(Frames) \/ queue = << >>
    BY <1>1
  <2> QED BY <1>1, <1>5, <1>7, <2>1
<1>17. LayerTypes'
  BY <1>1, <1>4, <1>7, <1>11, <1>14, <1>16 DEF LayerInv, LayerTypes
<1> HIDE DEF w, drops
\* what is known of the slot that was with the producer
<1>18. /\ \A i \in DOMAIN queue : ~Shows(queue[i], s, x)
       /\ f # NULL /\ f.slot = s => ~x.acquire_called /\ f.graphic_buffer # x.graphic_buffer
       /\ x.acquire_called => /\ b[s].graphic_buffer = x.graphic_buffer
                              /\ \A i \in DOMAIN queue : queue[i].slot # s
  BY <1>2, <1>9 DEF SlotOK
<1>19. CASE queue' = Append(queue, g) /\ ~drops /\ (TRUE \in asyncs => queue = << >>)
  <2> DEFINE n == Len(queue) + 1
             q == Append(queue, g)
  <2>1. /\ n \in Nat \ {0} /\ q \in Seq(Frames) /\ DOMAIN q = 1..n /\ q[n] = g
        /\ DOMAIN queue = 1..(n - 1) /\ \A i \in DOMAIN queue : i \in DOMAIN q /\ q[i] = queue[i] /\ i < n
        /\ \A i \in DOMAIN q : i = n \/ i \in DOMAIN queue
        /\ \A i \in DOMAIN q : i <= n /\ i \in Nat
    BY <1>1, <1>5
  <2> HIDE DEF n, q
  <2>2. SlotOK(s, y, q, b, f)
    <3>1. Shows(g, s, y)
      BY <1>5, <1>6 DEF Shows
    <3>2. \A i \in DOMAIN q : Shows(q[i], s, y) => i = n
      BY <1>6, <1>18, <2>1 DEF Shows
    <3>3. x.acquire_called => \A i \in DOMAIN q : q[i].slot = s => Shows(q[i], s, y)
      BY <1>18, <2>1, <3>1
    <3>4. n \in DOMAIN q
      BY <2>1
    <3> QED BY <1>3, <1>5, <1>6, <1>18, <2>1, <3>1, <3>2, <3>3, <3>4 DEF SlotOK
  <2>3. ASSUME NEW r \in Slots \ {s} PROVE SlotOK(r, slots'[r], q, b, f)
    <3> DEFINE z == slots[r]
    <3>1. SlotOK(r, z, queue, b, f) /\ slots'[r] = z
      BY <1>1, <1>14, <1>19
    <3> HIDE DEF z
    <3>2. \A i \in DOMAIN q : q[i].slot = r => i \in DOMAIN queue /\ q[i] = queue[i]
      BY <1>5, <2>1
    <3>3. SlotOK(r, z, q, b, f)
      <4>1. z.buffer_state = "Queued" => \E i \in DOMAIN q : Shows(q[i], r, z)
        BY <2>1, <3>1 DEF SlotOK
      <4>2. \A i \in DOMAIN q : Shows(q[i], r, z) =>
              /\ z.buffer_state = "Queued" /\ z.frame_number = q[i].frame_number
              /\ \A j \in DOMAIN q : q[j].slot = r => j <= i
        BY <3>1, <3>2 DEF SlotOK, Shows
      <4>3. z.acquire_called => \A i \in DOMAIN q : q[i].slot = r => Shows(q[i], r, z)
        BY <3>1, <3>2 DEF SlotOK
      <4> QED BY <3>1, <4>1, <4>2, <4>3 DEF SlotOK
    <3> QED BY <3>1, <3>3
  <2>4. FramesOK(q, b, f)
    <3>1. \A i \in DOMAIN queue : ~(queue[i].slot = s /\ queue[i].graphic_buffer = x.graphic_buffer)
      BY <1>18 DEF Shows
    <3>2. \A i, j \in DOMAIN q :
            q[i].slot = q[j].slot /\ q[i].graphic_buffer = q[j].graphic_buffer => i = j
      BY <1>1, <1>5, <2>1, <3>1 DEF FramesOK
    <3>3. ASSUME NEW i \in DOMAIN q
          PROVE  /\ q[i].queued = q[i].graphic_buffer
                 /\ q[i].acquire_called =>
                       /\ b[q[i].slot].graphic_buffer = q[i].graphic_buffer
                       /\ \A j \in DOMAIN q : q[j].slot = q[i].slot => i <= j
                       /\ f # NULL => f.slot # q[i].slot
      <4>1. CASE i = n
        BY <1>5, <1>18, <2>1, <4>1
      <4>2. CASE i \in DOMAIN queue
        BY <1>1, <2>1, <4>2 DEF FramesOK
      <4> QED BY <2>1, <4>1, <4>2
    <3> QED BY <1>1, <3>2, <3>3 DEF FramesOK
  <2>5. ModeOK(q, asyncs)
    <3>1. \A i \in DOMAIN q : q[i].is_droppable \in asyncs
      BY <1>1, <1>5, <2>1 DEF ModeOK
    <3>2. TRUE \in asyncs => Len(q) <= 1
      BY <1>19 DEF q
    <3> QED BY <3>1, <3>2 DEF ModeOK
  <2>6. \A r \in Slots : SlotOK(r, slots'[r], q, b, f)
    BY <1>14, <2>2, <2>3
  <2> QED BY <1>7, <1>15, <1>17, <1>19, <2>4, <2>5, <2>6, FrameStep DEF q, b, f
<1>20. CASE /\ queue' = <<g>> /\ queue # << >> /\ Len(queue) = 1 /\ h.is_droppable
  <2> DEFINE q == <<g>>
  <2>1. /\ DOMAIN q = {1} /\ q[1] = g /\ Len(q) = 1
        /\ DOMAIN queue = {1} /\ queue[1] = h
    BY <1>1, <1>10, <1>20
  <2> HIDE DEF q
  <2>2. SlotOK(s, y, q, b, f)
    <3>1. Shows(g, s, y)
      BY <1>5, <1>6 DEF Shows
    <3> QED BY <1>3, <1>5, <1>6, <1>18, <2>1, <3>1 DEF SlotOK
  <2>3. ASSUME NEW r \in Slots \ {s} PROVE SlotOK(r, slots'[r], q, b, f)
    <3> DEFINE z == slots[r]
    <3>1. SlotOK(r, z, queue, b, f)
      BY <1>1
    <3>2. \A i \in DOMAIN q : q[i].slot # r
      BY <1>5, <2>1
    <3>3. CASE drops /\ r = h.slot
      <4>1. slots'[r] = w /\ z.buffer_state = "Queued"
        BY <1>12, <1>14, <3>3
      <4>2. /\ w.buffer_state = "Free" /\ w.graphic_buffer = z.graphic_buffer
            /\ w.acquire_called = z.acquire_called
        BY <1>13, <3>3
      <4> HIDE DEF z
      <4>3. SlotOK(r, w, q, b, f)
        BY <3>1, <3>2, <4>1, <4>2 DEF SlotOK, Shows
      <4> QED BY <4>1, <4>3
    <3>4. CASE ~(drops /\ r = h.slot)
      <4>1. slots'[r] = z
        BY <1>14, <3>4
      <4>2. ~Shows(h, r, z)
        BY <1>10, <1>20, <3>4 DEF Shows, drops
      <4> HIDE DEF z
      <4>3. z.buffer_state # "Queued"
        BY <2>1, <3>1, <4>2 DEF SlotOK
      <4>4. SlotOK(r, z, q, b, f)
        BY <3>1, <3>2, <4>3 DEF SlotOK, Shows
      <4> QED BY <4>1, <4>4
    <3> QED BY <3>3, <3>4
  <2>4. FramesOK(q, b, f)
    BY <1>1, <1>5, <1>18, <2>1 DEF FramesOK
  <2>5. ModeOK(q, asyncs)
    BY <1>5, <2>1 DEF ModeOK
  <2>6. \A r \in Slots : SlotOK(r, slots'[r], q, b, f)
    BY <1>14, <2>2, <2>3
  <2> QED BY <1>7, <1>15, <1>17, <1>20, <2>4, <2>5, <2>6, FrameStep DEF q, b, f
<1>21. \/ /\ queue' = Append(queue, g) /\ ~(queue # << >> /\ h.is_droppable)
          /\ TRUE \in asyncs => queue = << >>
       \/ /\ queue' = <<g>> /\ queue # << >> /\ Len(queue) = 1 /\ h.is_droppable
  BY <1>7, QueueOfOneMode DEF h
<1> QED BY <1>19, <1>20, <1>21 DEF drops

-----------------------------------------------------------------------------
(* The theorems.                                                           *)

LEMMA LayerInitHolds == LayerInit => LayerInv
<1> SUFFICES ASSUME LayerInit PROVE LayerInv
  OBVIOUS
<1> USE DEF LayerInit, CoreInit, ProducerInit
<1>1. EmptySlot \in SlotTypes /\ EmptySlot.buffer_state = "Free" /\ EmptySlot.graphic_buffer = NULL
      /\ ~EmptySlot.acquire_called
  BY FrameNumbers DEF EmptySlot, SlotTypes
<1>2. NoBase \in [graphic_buffer: Buffers \cup {NULL}, frame_number: 0..MaxFrames]
  BY SlotNumbers DEF NoBase
<1>3. LayerTypes
  <2>1. slots \in [Slots -> SlotTypes] /\ call \in [BinderThreads -> CallTypes]
    BY <1>1, IdleIsACall
  <2>2. base \in [Slots -> [graphic_buffer: Buffers \cup {NULL}, frame_number: 0..MaxFrames]]
    BY <1>2
  <2>3. queue \in Seq(Frames) /\ frame_counter \in 0..MaxFrames
    BY SlotNumbers
  <2> QED BY <2>1, <2>2, <2>3 DEF LayerTypes
<1>4. \A s \in Slots : SlotOK(s, slots[s], queue, base, framebuffer)
  <2> TAKE s \in Slots
  <2>1. slots[s] = EmptySlot /\ queue \in Seq(Frames) /\ framebuffer \in Frames \cup {NULL}
    BY <1>3 DEF LayerTypes
  <2>2. Unshown(s, EmptySlot, queue, framebuffer)
    BY <1>1, <2>1, EmptyIsUnshown
  <2> QED BY <1>1, <2>1, <2>2, UnshownIsOK
<1>5. FramesOK(queue, base, framebuffer) /\ ModeOK(queue, asyncs)
  BY DEF FramesOK, ModeOK
<1>6. AllocationOK
  BY <1>1, IdleIsACall DEF AllocationOK
<1> QED BY <1>3, <1>4, <1>5, <1>6 DEF LayerInv

LEMMA LayerStep == OrderlyGuest /\ LayerInv /\ [LayerNext]_layerVars => LayerInv'
<1> SUFFICES ASSUME OrderlyGuest, LayerInv, [LayerNext]_layerVars PROVE LayerInv'
  OBVIOUS
<1>1. CASE UNCHANGED layerVars
  BY <1>1 DEF layerVars, coreVars, producerVars, LayerInv, LayerTypes, AllocationOK
<1>2. CASE AcquireBuffer
  BY <1>2, AcquireBufferKeeps
<1>3. CASE ReleaseBuffer
  BY <1>3, ReleaseBufferKeeps
<1>4. CASE Abandon
  BY <1>4, AbandonKeeps
<1>5. ASSUME NEW p \in BinderThreads, Transact(p) PROVE LayerInv'
  <2> USE <1>5
  <2>1. UNCHANGED <<base, framebuffer>>
    BY DEF Transact
  <2>2. CASE \E shape \in Shapes : BeginDequeue(p, shape)
    BY <2>1, <2>2, BeginDequeueKeeps
  <2>3. CASE \E s \in Slots : RequestBuffer(p, s)
    BY <2>1, <2>3, RequestBufferKeeps
  <2>4. CASE \E s \in Slots : DetachBuffer(p, s)
    BY <2>1, <2>4, DetachBufferKeeps
  <2>5. CASE \E s \in Slots : CancelBuffer(p, s)
    BY <2>1, <2>5, CancelBufferKeeps
  <2>6. CASE \E s \in Slots : \E async \in asyncs : QueueBuffer(p, s, async)
    BY <2>1, <2>6, QueueBufferKeeps
  <2>7. CASE \E s \in Slots : \E buffer \in PreallocatedBuffers(s) : SetPreallocatedBuffer(p, s, buffer)
    BY <2>1, <2>7, SetPreallocatedBufferKeeps
  <2>8. CASE \E count \in 0..NumSlots : SetBufferCount(p, count)
    BY <2>1, <2>8, SetBufferCountKeeps
  <2>9. CASE \E known \in BOOLEAN : Connect(p, known)
    BY <2>1, <2>9, ConnectKeeps
  <2>10. CASE Disconnect(p)
    BY <2>1, <2>10, DisconnectKeeps
  <2> QED BY <2>2, <2>3, <2>4, <2>5, <2>6, <2>7, <2>8, <2>9, <2>10 DEF Transact
<1>6. ASSUME NEW p \in BinderThreads, Continue(p) PROVE LayerInv'
  <2>1. CASE DequeueFails(p) /\ UNCHANGED <<base, framebuffer>>
    BY <2>1, DequeueFailsKeeps
  <2>2. CASE DequeueWaits(p) /\ UNCHANGED <<base, framebuffer>>
    BY <2>2, DequeueWaitsKeeps
  <2>3. CASE DequeueFinds(p) /\ UNCHANGED <<base, framebuffer>>
    BY <2>3, DequeueFindsKeeps
  <2>4. CASE \E id \in FreshIds(call[p].slot) :
               DequeueAllocates(p, id) /\ UNCHANGED <<base, framebuffer>>
    BY <2>4, DequeueAllocatesKeeps
  <2>5. CASE FrameCallback(p) /\ UNCHANGED <<base, framebuffer>>
    BY <2>5, FrameCallbackKeeps
  <2>6. CASE OnBuffersReleased(p)
    BY <2>6, OnBuffersReleasedKeeps
  <2> QED BY <1>6, <2>1, <2>2, <2>3, <2>4, <2>5, <2>6 DEF Continue
<1> QED BY <1>1, <1>2, <1>3, <1>4, <1>5, <1>6 DEF LayerNext

LEMMA LayerInvImplies == LayerInv => OneOwner /\ FrameIsTheOneQueued
<1> SUFFICES ASSUME LayerInv PROVE OneOwner /\ FrameIsTheOneQueued
  OBVIOUS
<1>1. /\ queue \in Seq(Frames) /\ framebuffer \in Frames \cup {NULL}
      /\ \A s \in Slots : SlotOK(s, slots[s], queue, base, framebuffer)
      /\ FramesOK(queue, base, framebuffer)
  BY DEF LayerInv, LayerTypes
<1>2. ASSUME NEW g \in Frames
      PROVE  g.slot \in Slots /\ (StillTracking(g) <=> Shows(g, g.slot, slots[g.slot]))
  BY FrameFields DEF StillTracking, Shows
<1>3. \A i \in DOMAIN queue : queue[i] \in Frames
  BY <1>1
<1>4. ASSUME NEW s \in SlotsIn("Queued")
      PROVE  Cardinality({i \in Tracked : queue[i].slot = s}) = 1
  <2>1. s \in Slots /\ slots[s].buffer_state = "Queued"
    BY DEF SlotsIn
  <2>2. PICK i \in DOMAIN queue : Shows(queue[i], s, slots[s])
    BY <1>1, <2>1 DEF SlotOK
  <2>3. \A j \in DOMAIN queue : Shows(queue[j], s, slots[s]) => j = i
    BY <1>1, <2>2 DEF FramesOK, Shows
  <2>4. {j \in Tracked : queue[j].slot = s} = {i}
    <3>1. \A j \in DOMAIN queue : queue[j].slot = s =>
            (StillTracking(queue[j]) <=> Shows(queue[j], s, slots[s]))
      BY <1>2, <1>3
    <3>2. queue[i].slot = s
      BY <2>2 DEF Shows
    <3> QED BY <2>2, <2>3, <3>1, <3>2 DEF Tracked
  <2> QED BY <2>4, FS_Singleton
<1>5. ASSUME NEW i \in Tracked
      PROVE  /\ slots[queue[i].slot].buffer_state = "Queued"
             /\ slots[queue[i].slot].frame_number = queue[i].frame_number
  <2>1. i \in DOMAIN queue /\ queue[i].slot \in Slots
        /\ Shows(queue[i], queue[i].slot, slots[queue[i].slot])
    BY <1>2, <1>3 DEF Tracked
  <2> QED BY <1>1, <2>1 DEF SlotOK
<1>6. ASSUME NEW s \in SlotsIn("Acquired") PROVE framebuffer # NULL /\ framebuffer.slot = s
  BY <1>1 DEF SlotOK, SlotsIn
<1>7. framebuffer # NULL /\ StillTracking(framebuffer)
         => slots[framebuffer.slot].buffer_state = "Acquired"
  <2> SUFFICES ASSUME framebuffer # NULL, StillTracking(framebuffer)
               PROVE  slots[framebuffer.slot].buffer_state = "Acquired"
    OBVIOUS
  <2>1. framebuffer \in Frames
    BY <1>1
  <2>2. framebuffer.slot \in Slots
        /\ framebuffer.graphic_buffer = slots[framebuffer.slot].graphic_buffer
    BY <1>2, <2>1 DEF Shows
  <2> QED BY <1>1, <2>2 DEF SlotOK
<1>8. OneOwner
  BY <1>4, <1>5, <1>6, <1>7 DEF OneOwner
<1>9. FrameIsTheOneQueued
  BY <1>1 DEF FrameIsTheOneQueued, FramesOK
<1> QED BY <1>8, <1>9

\* Every slot is with one side (OneOwner), for any number of slots, buffers, frames
\* and transactions: whatever DequeueBuffer(), SetPreallocatedBuffer(),
\* SetBufferCount(), Disconnect() and the composer do in between, a queued slot is in
\* the queue once, an acquired one is the composer's, and no slot is lost.
THEOREM SlotsHaveOneOwner ==
  ASSUME OrderlyGuest
  PROVE  LayerSpec => []OneOwner
<1>1. LayerInv => OneOwner
  BY LayerInvImplies
<1>2. LayerInv /\ [LayerNext]_layerVars => LayerInv'
  BY LayerStep
<1> QED BY <1>1, <1>2, LayerInitHolds, PTL DEF LayerSpec

\* The composer shows each frame with the buffer it was queued with
\* (FrameIsTheOneQueued), although QueueBuffer() leaves the buffer out of a frame
\* the consumer has acquired before and ConsumerBase takes it from its own table.
THEOREM FramesAreShownAsQueued ==
  ASSUME OrderlyGuest
  PROVE  LayerSpec => []FrameIsTheOneQueued
<1>1. LayerInv => FrameIsTheOneQueued
  BY LayerInvImplies
<1>2. LayerInv /\ [LayerNext]_layerVars => LayerInv'
  BY LayerStep
<1> QED BY <1>1, <1>2, LayerInitHolds, PTL DEF LayerSpec
=============================================================================
