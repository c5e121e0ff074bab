-------------------------------- MODULE Deque --------------------------------
(***************************************************************************)
(* The deque of an executor: a ring buffer that grows (lib/src/deque.c).   *)
(* One deque, used under the lock of its executor, so that every operation *)
(* is one action.                                                          *)
(***************************************************************************)
EXTENDS Integers, Sequences, Region

CONSTANTS
    Elements,         \* the jobs that can be queued
    Nothing,          \* NULL
    Uninitialized,    \* what a slot holds that has never been written
    InitialSize,      \* initial_size of armd__deque_create
    MaxBufferSize     \* bound: a larger buffer cannot be allocated

ASSUME DequeAssumption ==
    /\ InitialSize \in Nat \ {0}
    /\ MaxBufferSize \in Nat
    /\ Nothing \notin Elements
    /\ Uninitialized \notin Elements

VARIABLES
    deque,            \* the ARMD__Deque; NoDeque before and after its life
    deque_answer      \* what the last operation returned

dequeVars == <<deque, deque_answer>>

Buffer(size) == [0 .. size - 1 -> Elements \cup {Nothing, Uninitialized}]

NoDeque == [buffer_size |-> 0, head_index |-> 0, tail_index |-> 0, buffer |-> <<>>]

Alive == deque # NoDeque

-----------------------------------------------------------------------------
(* Indices.  They are unsigned: m is added before one is taken away. *)

\* Mutant: the index is decremented without wrapping round.
PrevIndexUnwrapped(i, m) == i - 1

PrevIndex(i, m) == (i + m - 1) % m
NextIndex(i, m) == (i + 1) % m

IsEmpty(d) == d.head_index = d.tail_index
IsFull(d) == NextIndex(d.tail_index, d.buffer_size) = d.head_index
NumEntries(d) == (d.buffer_size + d.tail_index - d.head_index) % d.buffer_size

\* The i-th entry from the head, counted from zero.
Entry(d, i) == d.buffer[(d.head_index + i) % d.buffer_size]

NewDeque == [buffer_size |-> InitialSize, head_index |-> 0, tail_index |-> 0,
             buffer |-> [i \in 0 .. InitialSize - 1 |-> Uninitialized]]

-----------------------------------------------------------------------------
(* armd__deque_expand *)

\* Mutant: the old buffer is copied as it lies.
ExpandedInPlace(d) ==
    [buffer_size |-> d.buffer_size * 2,
     head_index |-> 0,
     tail_index |-> NumEntries(d),
     buffer |-> [i \in 0 .. d.buffer_size * 2 - 1 |->
                    IF i < NumEntries(d) THEN d.buffer[i] ELSE Uninitialized]]

\* The entries are moved to the start of a buffer of twice the size.
Expanded(d) ==
    [buffer_size |-> d.buffer_size * 2,
     head_index |-> 0,
     tail_index |-> NumEntries(d),
     buffer |-> [i \in 0 .. d.buffer_size * 2 - 1 |->
                    IF i < NumEntries(d) THEN Entry(d, i) ELSE Uninitialized]]

PutForward(d, j) ==
    LET h == PrevIndex(d.head_index, d.buffer_size) IN
    [d EXCEPT !.head_index = h, !.buffer[h] = j]

PutBack(d, j) ==
    [d EXCEPT !.tail_index = NextIndex(d.tail_index, d.buffer_size),
              !.buffer[d.tail_index] = j]

\* The slot that was taken is cleared.
TakeForward(d) ==
    [d EXCEPT !.head_index = NextIndex(d.head_index, d.buffer_size),
              !.buffer[d.head_index] = Nothing]

TakeBack(d) ==
    LET t == PrevIndex(d.tail_index, d.buffer_size) IN
    [d EXCEPT !.tail_index = t, !.buffer[t] = Nothing]

-----------------------------------------------------------------------------
(* Operations *)

Returns(status, element) == deque_answer' = [status |-> status, element |-> element]

DequeInit ==
    /\ deque = NoDeque
    /\ deque_answer = [status |-> 0, element |-> Nothing]

\* Two allocations; if the second fails the first is undone.
CreateDeque(allocated) ==
    /\ ~Alive
    /\ IF allocated
         THEN deque' = NewDeque /\ Allocate(2) /\ Returns(0, Nothing)
         ELSE UNCHANGED deque /\ NoAllocation /\ Returns(-1, Nothing)

DestroyDeque ==
    /\ Alive
    /\ Returns(IF IsEmpty(deque) THEN 0 ELSE -1, Nothing)
    /\ deque' = NoDeque
    /\ Free(2)

\* A full deque is expanded first: a new buffer is allocated, then the old one
\* is freed.
HasRoom(d, allocated) ==
    \/ ~IsFull(d)
    \/ allocated /\ d.buffer_size * 2 <= MaxBufferSize

Roomy(d) == IF IsFull(d) THEN Expanded(d) ELSE d

EnqueueForward(j, allocated) ==
    /\ Alive
    /\ NoAllocation
    /\ IF HasRoom(deque, allocated)
         THEN deque' = PutForward(Roomy(deque), j) /\ Returns(0, Nothing)
         ELSE UNCHANGED deque /\ Returns(-1, Nothing)

EnqueueBack(j, allocated) ==
    /\ Alive
    /\ NoAllocation
    /\ IF HasRoom(deque, allocated)
         THEN deque' = PutBack(Roomy(deque), j) /\ Returns(0, Nothing)
         ELSE UNCHANGED deque /\ Returns(-1, Nothing)

DequeueForward ==
    /\ Alive
    /\ NoAllocation
    /\ IF IsEmpty(deque)
         THEN UNCHANGED deque /\ Returns(-1, Nothing)
         ELSE /\ Returns(0, deque.buffer[deque.head_index])
              /\ deque' = TakeForward(deque)

DequeueBack ==
    /\ Alive
    /\ NoAllocation
    /\ IF IsEmpty(deque)
         THEN UNCHANGED deque /\ Returns(-1, Nothing)
         ELSE /\ Returns(0, deque.buffer[PrevIndex(deque.tail_index, deque.buffer_size)])
              /\ deque' = TakeBack(deque)

DequeNext ==
    \/ \E allocated \in BOOLEAN :
          \/ CreateDeque(allocated)
          \/ \E j \in Elements : EnqueueForward(j, allocated) \/ EnqueueBack(j, allocated)
    \/ DestroyDeque
    \/ DequeueForward
    \/ DequeueBack

DequeSpec == DequeInit /\ [][DequeNext]_dequeVars

-----------------------------------------------------------------------------

\* Type invariant: both indices are inside the buffer, and every slot between
\* head and tail holds a job, neither NULL nor what nobody wrote.
DequeTypeOK ==
    /\ deque # NoDeque =>
          /\ deque.buffer_size \in Nat \ {0}
          /\ deque.head_index \in 0 .. deque.buffer_size - 1
          /\ deque.tail_index \in 0 .. deque.buffer_size - 1
          /\ deque.buffer \in Buffer(deque.buffer_size)
          /\ \A i \in 0 .. NumEntries(deque) - 1 : Entry(deque, i) \in Elements
    /\ deque_answer \in [status : {-1, 0}, element : Elements \cup {Nothing}]

\* The entries from head to tail.
Contents(d) == [i \in 1 .. NumEntries(d) |-> Entry(d, i - 1)]

Q == INSTANCE JobQueue WITH
    queue <- IF Alive THEN Contents(deque) ELSE <<>>,
    alive <- Alive,
    answer <- deque_answer

(***************************************************************************)
(* The ring buffer behaves like a sequence: whatever the position of head  *)
(* and tail, however often it has wrapped round and grown, jobs come out   *)
(* in order, each once, and never a slot that nobody wrote.                *)
(***************************************************************************)
ImplementsJobQueue == Q!Spec

DequeBlocks == IF Alive THEN 2 ELSE 0
=============================================================================
