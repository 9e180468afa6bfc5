------------------------------ MODULE LcsQueue ------------------------------
(***************************************************************************)
(* The queue between two layers of the stack (lcs/lcs_queue.c): a circular *)
(* array of Capacity entries. A producer forms an entry in place at the    *)
(* tail (QueueTail), then commits it (QueueWrite); a consumer reads the    *)
(* head in place (QueuePeek), then releases it (QueueDropHead).            *)
(*                                                                         *)
(* The pointers head and tail of struct Queue always equal data plus       *)
(* entrySize times headIndex or tailIndex; the model keeps the indices.    *)
(***************************************************************************)
EXTENDS Naturals, Sequences

CONSTANTS
    Capacity,   \* queueCapacity, the number of entries allocated
    Entry       \* the values an entry can hold

ASSUME CapacityAssumption == Capacity \in Nat \ {0}

VARIABLES
    slot,          \* data: the entry in each place of the array
    headIndex,     \* place of the oldest entry
    tailIndex,     \* place where the next entry is formed
    queueEntries   \* number of committed entries

queueVars == <<slot, headIndex, tailIndex, queueEntries>>

Place == 0 .. Capacity - 1

-----------------------------------------------------------------------------

QueueFull == queueEntries >= Capacity

QueueEmpty == queueEntries = 0

\* QueueTail hands out a place to form an entry in, or NULL.
TailAvailable == queueEntries < Capacity

\* The index after i, wrapped at the end of the array.
Advance(i) == IF i + 1 = Capacity THEN 0 ELSE i + 1

\* Memory returned by the allocator holds anything.
QueueInit ==
    /\ slot \in [Place -> Entry]
    /\ headIndex = 0
    /\ tailIndex = 0
    /\ queueEntries = 0

\* Faulty variant: the entry is formed at the head.
FormEntryAtHead(e) ==
    /\ TailAvailable
    /\ slot' = [slot EXCEPT ![headIndex] = e]
    /\ UNCHANGED <<headIndex, tailIndex, queueEntries>>

\* A producer forms an entry at the tail. Several callers do so and then
\* return without committing it, so this is a step of its own.
FormEntry(e) ==
    /\ TailAvailable
    /\ slot' = [slot EXCEPT ![tailIndex] = e]
    /\ UNCHANGED <<headIndex, tailIndex, queueEntries>>

\* Faulty variant: the last place of the array is used too.
QueueWriteToCapacity ==
    /\ queueEntries < Capacity
    /\ queueEntries' = queueEntries + 1
    /\ tailIndex' = Advance(tailIndex)
    /\ UNCHANGED <<slot, headIndex>>

\* QueueWrite commits the entry at the tail, unless only one place is left:
\* then it logs an error and leaves the queue as it was (a stuttering step).
QueueWrite ==
    /\ queueEntries < Capacity - 1
    /\ queueEntries' = queueEntries + 1
    /\ tailIndex' = Advance(tailIndex)
    /\ UNCHANGED <<slot, headIndex>>

\* Dropping the head of an empty queue does nothing.
QueueDropHead ==
    /\ ~QueueEmpty
    /\ queueEntries' = queueEntries - 1
    /\ headIndex' = Advance(headIndex)
    /\ UNCHANGED <<slot, tailIndex>>

QueueFlush ==
    /\ headIndex' = 0
    /\ tailIndex' = 0
    /\ queueEntries' = 0
    /\ UNCHANGED slot

QueueNext ==
    \/ \E e \in Entry : FormEntry(e)
    \/ QueueWrite
    \/ QueueDropHead
    \/ QueueFlush

QueueSpec == QueueInit /\ [][QueueNext]_queueVars

-----------------------------------------------------------------------------

\* The fields of struct Queue stay within the array that QueueInit allocated.
QueueTypeOK ==
    /\ slot \in [Place -> Entry]
    /\ headIndex \in Place
    /\ tailIndex \in Place
    /\ queueEntries \in 0 .. Capacity

\* The place that lies k entries after the head.
PlaceAt(k) == IF headIndex + k >= Capacity THEN headIndex + k - Capacity
                                           ELSE headIndex + k

\* The tail is where the entry count says it is, and QueueWrite stops one
\* entry short of the array: head and tail meet only when the queue is empty,
\* and QueueFull and a NULL from QueueTail, on which every layer relies to
\* wait for room, never happen.
TailFollowsEntries ==
    /\ tailIndex = PlaceAt(queueEntries)
    /\ ~QueueFull

\* The committed entries, oldest first.
Contents == [k \in 1 .. queueEntries |-> slot[PlaceAt(k - 1)]]

\* The queue implements a first-in first-out buffer of Capacity - 1 entries:
\* forming an entry in place never overwrites a committed one that a consumer
\* may be reading, and wrapping head and tail loses and reorders nothing.
Fifo == INSTANCE BoundedFifo WITH
            q <- Contents, staged <- slot[tailIndex], Bound <- Capacity - 1

\* As stated at Fifo: QueueWrite, QueueDropHead and QueueFlush on the array
\* are Put, Drop and Discard on the sequence of committed entries.
ImplementsFifo == Fifo!FifoSpec
=============================================================================
