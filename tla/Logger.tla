------------------------------- MODULE Logger -------------------------------
(***************************************************************************)
(* A logger and the memory region it lives in (lib/src/logger.c), shared   *)
(* by threads.  The list of messages, the reference count and the callback *)
(* are used under the mutex of the logger, so that a critical section is   *)
(* one action; the callback runs outside of it, on a reference of its own. *)
(*                                                                         *)
(* The application follows the reference count: every thread uses the      *)
(* logger under a reference, which another thread took for it and which it *)
(* drops when it is done.                                                  *)
(***************************************************************************)
EXTENDS MemoryRegion

CONSTANTS
    Threads,        \* threads of the application
    First,          \* the one that creates the logger
    MaxCalls,       \* bound: how many messages are allocated
    FailingAllocations  \* whether an allocation that the code checks may fail

ASSUME LoggerAssumption ==
    /\ IsFiniteSet(Threads) /\ First \in Threads
    /\ MaxCalls \in Nat
    /\ NumBlocks >= 3 * MaxCalls + 3     \* only FailingAllocations fail
    /\ FailingAllocations \in BOOLEAN

VARIABLES
    memory,         \* the region and its blocks
    logger,         \* the ARMD_Logger; its list is a ring of nodes
    thread,         \* per thread: where it is, whether it owns a reference, what it holds
    logged,         \* how many messages have been put into the list
    taken,          \* the message taken from the list last
    calls,          \* how many messages have been allocated, for the bound
    non_freed       \* what armd_memory_region_destroy returned, -1 before

vars == <<memory, logger, thread, logged, taken, calls, non_freed>>

\* since: how many messages had been logged when the callback was set.
NoLogger == [block |-> NoBlock, sentinel |-> NoBlock, reference_count |-> 0,
             callback |-> FALSE, since |-> 0, ring |-> NoLinks]

LoggerAlive == logger.block # NoBlock

Idle(owns) == [pc |-> IF owns THEN "idle" ELSE "gone", owns |-> owns,
               block |-> NoBlock, detailed |-> FALSE]
Unborn == [pc |-> "unborn", owns |-> FALSE, block |-> NoBlock, detailed |-> FALSE]

\* Where a thread is when it is inside its callback, or about to enter it.
InCallback == {"take", "element"}

-----------------------------------------------------------------------------
(* Helpers *)

At(t, label) == thread[t].pc = label
Becomes(t, record) == thread' = [thread EXCEPT ![t] = record]
Goes(t, label) == thread' = [thread EXCEPT ![t].pc = label]
GoesWith(t, label, b) == thread' = [thread EXCEPT ![t].pc = label, ![t].block = b]

Message == Holding("message", NoBlock, 0)

MayFail == IF FailingAllocations THEN BOOLEAN ELSE {TRUE}

\* The messages in the list, the oldest first.
Listed == LET nodes == Reverse(Nodes(logger.ring, logger.sentinel)) IN
          [i \in DOMAIN nodes |-> memory.heap[memory.heap[nodes[i]].to].id]

\* destroy_element, as a change of memory.
ElementFreed(m, e) == Freed(Freed(m, m.heap[e].to), e)

\* Mutant: the callback runs on the reference of its caller.
CallbackUnreferenced(count) == count

\* "For callback".
CallbackReferenced(count) == count + 1

\* Mutant: references are never given back.
KeptReferences(count) == count

Dereferenced(count) == count - 1

\* Mutant: the newest message is taken.
NewestNode == logger.ring.next[logger.sentinel]

OldestNode == logger.ring.prev[logger.sentinel]

\* Mutant: the message of a node is forgotten.
NodeFreedOnly(m, n) == Freed(Freed(m, m.heap[n].to), n)

\* destroy_node, as a change of memory.
NodeFreed(m, n) == Freed(ElementFreed(m, m.heap[n].to), n)

Init ==
    /\ memory = NoMemory
    /\ logger = NoLogger
    /\ thread = [t \in Threads |-> Unborn]
    /\ logged = 0
    /\ taken = 0
    /\ calls = 0
    /\ non_freed = -1

-----------------------------------------------------------------------------
(* The region and the logger come and go *)

CreateRegion ==
    /\ ~RegionAlive(memory)
    /\ non_freed = -1
    /\ memory' = NewRegion
    /\ UNCHANGED <<logger, thread, logged, taken, calls, non_freed>>

\* armd_logger_create; if the sentinel cannot be allocated the logger is freed.
CreateLogger ==
    LET with_logger == Allocated(memory, Holding("logger", NoBlock, 0))
        sentinel == Fresh(with_logger) IN
    /\ RegionAlive(memory)
    /\ At(First, "unborn")
    /\ \E allocated \in MayFail :
         IF allocated
           THEN /\ memory' = Allocated(with_logger, Holding("ring", NoBlock, 0))
                /\ logger' = [NoLogger EXCEPT !.block = Fresh(memory),
                                              !.sentinel = sentinel,
                                              !.reference_count = 1,
                                              !.ring = NewRing(sentinel)]
                /\ Becomes(First, Idle(TRUE))
           ELSE /\ memory' = Freed(with_logger, Fresh(memory))
                /\ thread' = [t \in Threads |-> Idle(FALSE)]
                /\ UNCHANGED logger
    /\ UNCHANGED <<logged, taken, calls, non_freed>>

\* armd_logger_increment_reference_count, for a thread t hands the logger to.
HandOver(t, u) ==
    /\ At(t, "idle")
    /\ At(u, "unborn")
    /\ logger' = [logger EXCEPT !.reference_count = @ + 1]
    /\ Becomes(u, Idle(TRUE))
    /\ UNCHANGED <<memory, logged, taken, calls, non_freed>>

\* The critical section of armd_logger_decrement_reference_count.
Dropped(t, owns) ==
    /\ logger' = [logger EXCEPT !.reference_count = Dereferenced(@)]
    /\ Becomes(t, [Idle(owns) EXCEPT
                     !.pc = IF Dereferenced(logger.reference_count) = 0 THEN "destroy" ELSE @])

DropOwn(t) ==
    /\ At(t, "idle")
    /\ Dropped(t, FALSE)
    /\ UNCHANGED <<memory, logged, taken, calls, non_freed>>

\* destroy_logger, with the messages nobody took.
DestroyLogger(t) ==
    /\ At(t, "destroy")
    /\ memory' = Freed(Freed(FoldLeft(NodeFreed, memory, Nodes(logger.ring, logger.sentinel)),
                             logger.sentinel), logger.block)
    /\ logger' = NoLogger
    /\ Becomes(t, Idle(FALSE))
    /\ UNCHANGED <<logged, taken, calls, non_freed>>

\* armd_memory_region_destroy, once no thread uses the logger.
DestroyRegion ==
    /\ RegionAlive(memory)
    /\ \A t \in Threads : thread[t].pc \in {"gone", "unborn"}
    /\ thread[First].pc = "gone"
    /\ non_freed' = NonFreedCount(memory)
    /\ memory' = NoMemory
    /\ UNCHANGED <<logger, thread, logged, taken, calls>>

-----------------------------------------------------------------------------
(* Logging *)

SetCallback(t) ==
    /\ At(t, "idle")
    /\ ~logger.callback
    /\ logger' = [logger EXCEPT !.callback = TRUE, !.since = logged]
    /\ UNCHANGED <<memory, thread, logged, taken, calls, non_freed>>

\* The caller of armd_logger_log_string allocates the message, whatever its level.
NewMessage(t, detailed) ==
    /\ At(t, "idle")
    /\ calls < MaxCalls
    /\ calls' = calls + 1
    /\ memory' = Allocated(memory, Message)
    /\ Becomes(t, [Idle(TRUE) EXCEPT !.pc = "log", !.block = Fresh(memory), !.detailed = detailed])
    /\ UNCHANGED <<logger, logged, taken, non_freed>>

\* armd_logger_log_format checks the level, in a critical section of its own, ...
CheckLevel(t) ==
    /\ At(t, "idle")
    /\ Goes(t, "format")
    /\ UNCHANGED <<memory, logger, logged, taken, calls, non_freed>>

\* ... then allocates and formats the message; it gives up if it cannot.
Format(t) ==
    /\ At(t, "format")
    /\ \E allocated \in MayFail :
         IF allocated /\ calls < MaxCalls
           THEN /\ calls' = calls + 1
                /\ memory' = Allocated(memory, Message)
                /\ GoesWith(t, "log", Fresh(memory))
           ELSE /\ Goes(t, "idle")
                /\ UNCHANGED <<memory, calls>>
    /\ UNCHANGED <<logger, logged, taken, non_freed>>

\* armd_logger_log_string for a message the level of the logger excludes.
Reject(t) ==
    /\ At(t, "log")
    /\ thread[t].detailed
    /\ memory' = Freed(memory, thread[t].block)
    /\ Becomes(t, Idle(TRUE))
    /\ UNCHANGED <<logger, logged, taken, calls, non_freed>>

\* armd_logger_log_string up to the end of its critical section.
LogString(t) ==
    LET element == Fresh(memory)
        with_element == Allocated(memory, Holding("element", thread[t].block, logged + 1))
        node == Fresh(with_element) IN
    /\ At(t, "log")
    /\ ~thread[t].detailed
    /\ memory' = Allocated(with_element, Holding("node", element, 0))
    /\ logger' = [logger EXCEPT
          !.reference_count = IF logger.callback THEN CallbackReferenced(@) ELSE @,
          !.ring = Inserted(@, logger.sentinel, node)]
    /\ logged' = logged + 1
    /\ Becomes(t, [Idle(TRUE) EXCEPT !.pc = IF logger.callback THEN "take" ELSE @])
    /\ UNCHANGED <<taken, calls, non_freed>>

\* armd_logger_get_log_element: the oldest message leaves the list.
TakeElement(t, found, empty) ==
    LET node == OldestNode IN
    IF node = logger.sentinel
      THEN /\ Goes(t, empty)
           /\ UNCHANGED <<memory, logger, taken>>
      ELSE /\ logger' = [logger EXCEPT !.ring = Unlinked(@, node)]
           /\ memory' = Freed(memory, node)
           /\ GoesWith(t, found, memory.heap[node].to)
           /\ taken' = memory.heap[memory.heap[node].to].id

\* A thread may fetch a message itself.
Poll(t) ==
    /\ At(t, "idle")
    /\ TakeElement(t, "polled", "idle")
    /\ UNCHANGED <<logged, calls, non_freed>>

\* file_output_callback takes messages until there is none.
Drain(t) ==
    /\ At(t, "take")
    /\ TakeElement(t, "element", "release")
    /\ UNCHANGED <<logged, calls, non_freed>>

\* Mutant: the callback puts out one message.
AfterOutputOnce == "release"

\* Where the loop of file_output_callback goes on.
AfterOutput == "take"

\* armd_logger_destroy_log_element, after the message has been put out.
DestroyElement(t) ==
    /\ thread[t].pc \in {"element", "polled"}
    /\ memory' = ElementFreed(memory, thread[t].block)
    /\ GoesWith(t, IF At(t, "element") THEN AfterOutput ELSE "idle", NoBlock)
    /\ UNCHANGED <<logger, logged, taken, calls, non_freed>>

\* A callback of the application may drop the reference of its thread.
GiveUp(t) ==
    /\ thread[t].pc \in InCallback
    /\ thread[t].owns
    /\ logger' = [logger EXCEPT !.reference_count = Dereferenced(@)]
    /\ thread' = [thread EXCEPT ![t].owns = FALSE]
    /\ UNCHANGED <<memory, logged, taken, calls, non_freed>>

\* armd_logger_log_string drops the reference of the callback.
EndCallback(t) ==
    /\ At(t, "release")
    /\ Dropped(t, thread[t].owns)
    /\ UNCHANGED <<memory, logged, taken, calls, non_freed>>

-----------------------------------------------------------------------------

ThreadStep(t) ==
    \/ \E u \in Threads : HandOver(t, u)
    \/ DropOwn(t)
    \/ DestroyLogger(t)
    \/ SetCallback(t)
    \/ \E detailed \in BOOLEAN : NewMessage(t, detailed)
    \/ CheckLevel(t)
    \/ Format(t)
    \/ Reject(t)
    \/ LogString(t)
    \/ Poll(t)
    \/ Drain(t)
    \/ DestroyElement(t)
    \/ GiveUp(t)
    \/ EndCallback(t)

Finished == non_freed >= 0 /\ UNCHANGED vars

Next ==
    \/ CreateRegion
    \/ CreateLogger
    \/ DestroyRegion
    \/ \E t \in Threads : ThreadStep(t)
    \/ Finished

Spec == Init /\ [][Next]_vars

-----------------------------------------------------------------------------
(* Properties *)

\* Type invariant; each thread accounts for at most two references.
TypeOK ==
    /\ memory.heap \in [Blocks -> Content]
    /\ logger.reference_count \in 0 .. 2 * Cardinality(Threads)
    /\ logger.callback \in BOOLEAN
    /\ thread \in [Threads -> [pc : {"unborn", "idle", "format", "log", "take", "element",
                                     "polled", "release", "destroy", "gone"},
                               owns : BOOLEAN, block : Blocks \cup {NoBlock},
                               detailed : BOOLEAN]]
    /\ logged \in 0 .. MaxCalls
    /\ taken \in 0 .. logged
    /\ non_freed \in Nat \cup {-1}

(***************************************************************************)
(* Whatever the order in which threads allocate, free and log, both rings  *)
(* stay rings: the region's runs through exactly the blocks in use, so     *)
(* that nothing is lost to armd_memory_region_destroy, and the logger's    *)
(* through exactly its nodes, each with a message.                         *)
(***************************************************************************)
RingsConsistent ==
    /\ RegionAlive(memory) => IsRing(memory.ring, Sentinel, InUse(memory) \ {Sentinel})
    /\ LoggerAlive =>
          LET nodes == {b \in Blocks : memory.heap[b].kind = "node"} IN
          /\ IsRing(logger.ring, logger.sentinel, nodes)
          /\ \A n \in nodes : /\ memory.heap[memory.heap[n].to].kind = "element"
                              /\ memory.heap[memory.heap[memory.heap[n].to].to].kind = "message"

(***************************************************************************)
(* No thread can touch a logger that is gone: it exists while any thread   *)
(* has a reference, is inside a callback or is about to destroy it, and    *)
(* exactly one thread gets to destroy it.  This is what the callback's own *)
(* reference (logger.c:298) is for.                                        *)
(***************************************************************************)
NoUseAfterDestroy ==
    LET users == {t \in Threads : thread[t].pc \notin {"unborn", "gone"}} IN
    /\ users # {} => LoggerAlive
    /\ \A t \in Threads : At(t, "destroy") => users = {t}

(***************************************************************************)
(* Nothing is left in the list: when a callback has been set and no thread *)
(* is in it, the list holds only messages from before it was set.  Threads *)
(* drain it concurrently and may take each other's messages, but each one  *)
(* leaves only after it found the list empty.                              *)
(***************************************************************************)
NothingStranded ==
    (LoggerAlive /\ logger.callback /\ \A t \in Threads : thread[t].pc \notin InCallback)
        => \A i \in DOMAIN Listed : Listed[i] <= logger.since

(***************************************************************************)
(* The region is empty when it is destroyed: messages that were rejected,  *)
(* taken or never taken have been freed, each once.                        *)
(***************************************************************************)
NothingLeaked == non_freed \in {-1, 0}

(***************************************************************************)
(* Messages leave the list in the order in which they were logged, each    *)
(* once and none left out, whichever thread takes them.                    *)
(***************************************************************************)
TakenInOrder == [][taken' # taken => taken' = taken + 1]_vars

=============================================================================
