# A TLA+ model of libaramid

libaramid is a C library for fork/join and task-flow parallelism.  An application creates a
*context* with a number of *executors* (threads), describes work as *procedures* made of
*continuations*, and invokes them.  An invocation creates a *job* and a *promise*; promises can
depend on other promises; a running job can fork child jobs and is resumed when they have ended.
This directory models the library: first the parts where threads meet, the executors with their
deques of jobs and the promises with their dependency graph; then what these are built on and
what is built on them, the containers, the memory region, the logger and the procedures.

## Components

| component | state | operations | what makes it hard |
| --- | --- | --- | --- |
| executors (`executor.c`) | a deque of jobs and a spinlock each; `free_job_count`, `executor_mutex`, `executor_condvar` shared | start, take, sleep, steal, execute, stop | stealing; a count that is changed after the deque; stopping at any moment, a start that fails half-way |
| jobs (`job.c`, the fork part of `context.c`) | continuation index and frame, join counters, error flags, executor, parent | setup, step, fork, notify parent, error trap | the parent may be resumed by whoever ends last; errors cross threads; a fork is undone while siblings end |
| deque (`deque.c`) | ring buffer, head, tail | enqueue and dequeue at both ends, grow | wrap-around, growth when one slot is left |
| promises (`promise.c`) | status, reference count, dependency counters, continuation list, callbacks | create, link, unlink, complete, detach | who drops the last reference; links of a failed call |
| context (`context.c`) | table of promises, handle counter, `promise_manager.mutex` and `condvar` | create, invoke, await, await_all, detach, add callback, complete, destroy | sleeping with a pointer to a promise; failing half-way |
| hash table (`hash_table.c`) | chains of nodes, number of entries | insert, upsert, update, remove, get, destroy | rehash at a load limit, allocation failures on the way |
| memory region (`memory_region.c`) | a ring of allocations with a sentinel | allocate, free, destroy | anything freed in any order; what is left is freed and counted |
| logger (`logger.c`) | a ring of log elements, reference count, callback | log, poll, set callback, hand over, drop | callbacks run outside the mutex; the last reference goes anywhere |
| procedures, builder, `single`, `sequential_for`, `parallel_for` | continuation arrays; loop indices shared by children | build, run as continuations, destroy | an index shared by the children of a loop; constants of calls that fail |
| allocator, random, time, thread wrappers | none of their own | platform calls | - |

They interact as follows.  `armd_invoke` puts a job into the deque of executor 0, or leaves it
pending in its promise; it then counts it in `free_job_count` and wakes the executors.  An executor
takes a job from its own deque or steals one, executes its continuations, forks children into some
deque, and leaves a job that waits for children to the thread that ends the last child.  A job
that was invoked ends with `armd__context_complete_promise`, which runs callbacks, queues the jobs
whose last dependency this was, and wakes the threads in `armd_await` and `armd_await_all`.  The
continuation functions an executor calls are, for procedures made with the builder, those of
`single.c`, `sequential_for.c` and `parallel_for.c`; the last forks one child per executor.

## Modules

| module | models |
| --- | --- |
| `WorkStealing` | `executor.c`, `job.c`, the life-cycle, fork and queueing parts of `context.c` |
| `WorkStealing_proofs`, `WorkStealingRecords_proofs` | theorems about `WorkStealing`: where jobs are and how they are counted; what their records say |
| `JobSequence` | a deque as everybody but `deque.c` sees it: a sequence of jobs |
| `TaskFlow` | what promises are for: an abstract specification without handles, locks or threads |
| `PromiseManager` | `promise.c` and the promise parts of `context.c`; refines `TaskFlow` |
| `PromiseManager_proofs`, `PromiseGraph_proofs` | theorems about `PromiseManager` |
| `JobQueue` | what a deque promises, failing allocations included: an abstract specification over `JobSequence` |
| `Deque` | `deque.c`, index by index; refines `JobQueue` |
| `PromiseTable` | what the table of promises promises: a map from handles |
| `HashTable` | `hash_table.c`, chain by chain; refines `PromiseTable` |
| `Region` | a memory region as the containers use it: how many blocks are in use |
| `Containers` | `Deque` and `HashTable` side by side in one region |
| `Containers_proofs` | theorems about `Deque`, `HashTable` and `Containers` |
| `Ring`, `MemoryRegion` | the doubly linked ring with a sentinel; `memory_region.c` on it |
| `Logger` | `logger.c`, its own ring in blocks of `MemoryRegion`, used by several threads |
| `Logger_proofs` | theorems about `Logger`, `MemoryRegion` and `Ring` |
| `ProcedureBuilder` | `procedure_builder.c`, `procedure.c` and the constants of the continuation kinds |
| `Procedures` | a procedure that is built, run by one job and destroyed: the functions of `single.c`, `sequential_for.c`, `parallel_for.c` |
| `Procedures_proofs` | theorems about `ProcedureBuilder` and `Procedures` |
| `InductionLemmas` | induction on numbers, sums and folds, for the other modules of theorems |
| `MCWorkStealing`, `MCPromiseManager`, `MCContainers`, `MCLogger`, `MCProcedures` | small instances for TLC |

### WorkStealing

One action per critical section.  `deque[e]` is the deque of executor `e`, its head first;
`pc[e]` says where its thread is, `current[e]` is the local variable `job` of
`executor_thread_main` and of the functions below it, `child[e]` that of `fork_with_executor`.
`job[j]` has the fields of `ARMD_Job`; `parent[j]` is its awaiter, `NoJob` standing for a promise.
Of a promise only the `result` is kept, and in `waits` which of those a job was invoked with
completes last: nothing but the last release queues a job, so that `Invoke` may foresee it, and the
choice is free.  `phase[j]` says whether the object exists; it is `pending` while only a promise
knows the job, and `lost` when the last release could not queue it.  `main_pc` and
`main_index` are the place and the loop index of `armd_context_create` (`CreateExecutor`,
`OpenContext`) and of `armd_context_destroy` (`BeginDestroy` to `DestroyExecutors`); a creation
that fails goes through the same loop over the executors, `PassOver` for those it has not created.

| pc | the thread is | left by |
| --- | --- | --- |
| `unborn` | not created | `CreateExecutor` |
| `boot`, `nap` | in the loop around, or inside, the wait of `wait_for_context_ready` | `WaitForContext`, `Start`, `Exit`; a broadcast, `SpuriousWakeup` |
| `idle` | at the top of the loop of `get_free_job` | `DequeueLocal`, `Exit` |
| `wait`, `asleep` | in the loop around, or inside, `armd__condvar_wait` | `Sleep`, `GoStealing`, `Exit`; a broadcast, `SpuriousWakeup` |
| `steal` | about to lock a victim | `Steal` |
| `take` | about to decrement `free_job_count` | `Take` |
| `run` | at the top of the execution loop, or a parent whose last child was rejected | `ExecuteSetup`, `FailSetup`, `BeginStep`, `EndJob`, `Exit` |
| `step` | in a continuation function | `Fork`, `EndStep` |
| `fork`, `signal` | between the critical sections of `fork_with_executor` | `EnqueueFork`, `RefuseFork`, `SignalFork` |
| `undo` | there, after the deque could not grow | `UndoFork` |
| `next` | in `move_to_next` | `MoveToNext` |
| `finish`, `abort`, `reject` | ending the job: done, after an error, after a failed setup | `NotifyParent`, `CompleteRoot` |
| `release` | in the loop of `armd__context_complete_promise` | `Release`, `Lose`, `DestroyRoot` |
| `announce` | there, about to count the released job | `Announce` |
| `exited` | returned from `executor_thread_main` | - |

A continuation is abstracted to the set of results its function may return and the set its error
trap may return; having no trap is the same as a trap that always returns `Error`.  A setup
function never runs: `armd_procedure_builder_build_and_destroy` does not hand it to the procedure
(see `procedures_setup`).  `Failures` says which allocations may fail.  After `"frame"` and
`"deque"` only one build of the program goes on: the one without assertions (context.c:610 is an
`assert(0)`) and with `ARAMID_DISABLE_MEMORY_REGION`, because the frame of a job that never got one
is freed (job.c:81), which the region's `armd_memory_region_free` does not survive.  What the runs
and theorems say of these failures they say of that build.  Counters are `ARMD_Size` values that
wrap at `SizeMax`.

### TaskFlow and PromiseManager

`TaskFlow` says: a task is submitted with the tasks it depends on, starts after they have ended,
fails if one of them failed, and who awaits it is told its result.  `PromiseManager` has the
promise records, the table, the handle counter and the mutex.  A critical section of
`promise_manager.mutex` is one action, except that of `armd__context_complete_promise`: it queues
jobs that other threads can take at once, so it is `Complete`, one `Release` per continuation, and
`Finish`, with the mutex held in between.  Workers stand for the executors: they take any queued
job and complete its promise with a result.  `InvokeFails` is an `armd_invoke` that gives up after
the first `n` dependencies, for a bad one or for want of memory.  `Release` takes one link; where
it was the last of its job, the job is queued, or lost if `Failures` has `"deque"` and the deque
cannot grow (context.c:604-611, again in a build without assertions).  `dependencies`, `outcome`,
`observed` and `callbacks` are history variables, for the refinement and for `CallbacksOnce`.

### The containers and the memory region

`Deque` and `HashTable` have one action per function, under the lock their callers hold.
`deque_answer` and `table_answer` are what the last call returned, so that the refinements of
`JobQueue` and `PromiseTable` compare answers as well as contents.  A Boolean parameter
`allocated` (for the table also `room`) of an action says whether an allocation in it succeeds.
`Region` counts blocks: two for a container (itself and its buffer), one for each node of a chain.
`MemoryRegion` models what `Region` counts: `heap` maps blocks to their contents and `ring` is the
ring of headers.  `Logger` allocates its messages, elements and nodes there, and its list is a
second ring through the blocks that are nodes.  Levels are reduced to what a logger does with
them: a `detailed` message is one its level excludes.

### ProcedureBuilder and Procedures

A continuation is its kind; its constants are a number of blocks, and `lost` counts the blocks
that an `armd_then_...` without memory for a larger buffer has leaked.  In `Procedures` one job runs
the procedure: it begins with its setup, which fails for an error of a dependency or for want of a
frame (`ExecuteSetup`), and a step of it is one call of a continuation function, except that
`parallel_for` forks its children one at a time, and they fetch indices and run bodies concurrently.
A child that gets no frame (`RejectChild`) makes its parent, if it was the last to end, execute its
step again (`StepParallelForAgain`).  The job ends in `EndJob`, from each of the three places that
call the unwind function: `step` with nothing left, `abort`, `reject`.  Bodies return an error or do
not; `executed` counts their calls, `forked` the children, `unwound` the calls of the unwind
function.

## Runs

| run | shows |
| --- | --- |
| `ws_jobs` | each job is in one place (`OneOwner`); the join counters are exact (`JoinCount`); children end first; `job->executor` is right; `armd_context_destroy` reports success only if no job was cut short or lost; the free job count is the number of queued jobs but for steps in progress, and too high by one for each job that had to wait and each that was lost; nobody sleeps on queued work |
| `ws_errors` | with executors, frames and deques that cannot be allocated: the assertions of `job.c`; no frame left behind; errors reach the root and none is invented; a continuation is run again only on request or after a job it forked got no frame; invoked jobs complete; a shutdown ends, also that of a context that was never opened |
| `pm_threads` | with two threads that share handles, failing calls and releases that find no room: the reference counts are exact, the shares of callbacks included; no use after free, callbacks called once, no promise left over; under fairness `armd_await` returns, unless a job was lost |
| `pm_flow` | with three promises, joins and repeated dependencies, and no lost jobs: links and counters agree; `PromiseManager` implements `TaskFlow`, its liveness included: every submitted task runs and ends |
| `containers` | the ring buffer implements the sequence of jobs, the chains implement the map; no block is leaked or freed twice |
| `logger` | both rings stay rings; nobody uses a logger that is gone, and one thread destroys it; no message is stranded or leaked; messages are taken in order |
| `procedures` | a procedure is what was asked for; blocks are returned but for those a failed call leaks; loops run each index once; a job fails if and only if a body or a dependency did, or it or a child got no frame; the unwind function is called once, from each of its three places; jobs end |
| `ws_trap`, `pm_await_all`, `pm_free_jobs`, `pm_repeated`, `procedures_setup` | violations, see below |

Bounds.  `ws_jobs` has two executors, two invoked and two forked jobs and two clients: enough for
a victim and a thief, nested forks, two children of one parent that end on different threads, a root
that waits for the other and is released or lost, forks that are undone, and a shutdown in the
middle.  It treats the forked jobs as interchangeable, and the clients, which is sound because
it checks invariants only, and they have the same procedures and the same calls.  `ws_errors` has one root of two continuations, the first of which may
be repeated, two forked jobs, one without continuations and one with an error trap, and every
failure.  `SizeMax` is 7: the free
job count wraps at zero, and the queues are shorter.  In `pm_threads` there are two promises, one of which may
depend on the other, be refused for an unknown, used or detached one, or lose its job; `MaxCallbacks`
bounds the callbacks per promise, `MaxContinuations` the links that failed calls leave behind.
`pm_flow` has three promises and one thread that invokes them, which gives a join of two
dependencies that are completed by two workers in any order, one given twice, and the handle 0 that
is passed over; it has no callbacks, which `pm_threads` has.  The arrays of dependencies are listed
in `MCPromiseManager`.

In `containers` a deque starts with two slots and can grow to eight, so that it grows twice and
wraps in between; a table starts with one chain and grows to three and seven, with three keys of
which two share a chain in every table and the third in some; beyond that an expansion fails.  The
constraint `OneAtATime` exercises one container at a time: they share only the count of blocks.
`logger` has two threads and three messages, of which two can be in the list while the third is
logged, and 12 blocks, which is never the limit.  `procedures` has at most three continuations,
loops up to two rounds, and two executors, so that two children compete for the second index and
for the end; one `armd_then_...` may fail in each life of a builder and its procedure.

No run turns deadlock checking off: `Terminated`, `Quiet` and `Finished` are the only ends, and
the other systems can always go on.

Fairness.  Every thread that can go on does so in the end (weak fairness per thread, and of the
thread in `armd_context_create` or `armd_context_destroy`): spinlocks are held for a few
instructions, mutexes are released, and the operating system schedules threads.  Calls are up to
the application, and nothing relies on a spurious wakeup.  No continuation is repeated for ever
(strong fairness of `EndOfContinuation`): one that were would not let its own job end.  In
`Procedures` the job and each child go on when they can, which is what `InvokedCompletes` shows of
the executors.

### Where the code does not do what it says

* **Error traps** (`ws_trap`).  `has_error` is never cleared, so a trap that answers `Ended` is
  overruled by the next continuation, or by the parent.
* **`armd_await_all`** (`pm_await_all`) can sleep for ever: removals are not signalled.
* **Phantom free jobs** (`pm_free_jobs`).  A pending job is counted when it is invoked
  (context.c:496) and again when it is released (617), so that idle executors spin afterwards.
  `FreeCountConserved` says by exactly how much the count is too high (`Phantoms`).
* **A dependency given twice** (`pm_repeated`) breaks the assertion in
  `cleanup_dependency_graph` when the call fails.
* **The setup function** (`procedures_setup`) given to `armd_setup` never reaches the procedure.

Four more things a reader of the code should know are part of the model and are not runs of their
own: the constants of a continuation are lost when `armd_then` cannot grow its buffer (`lost` says
how many blocks); a `parallel_for` none of whose children could be forked is skipped without an
error (the second disjunct of `LoopsComplete`); a child whose setup fails and that ends last makes its
parent run its continuation again although it had ended well (executor.c:267-274; the last disjunct
of `RepeatedForReason`, which says that no other end of a child does); and a job whose last release
cannot queue it is lost, with its promise and all that depend on it (context.c:604-611, marked
`FIXME`; `Lose` in `WorkStealing`, `lost` in `PromiseManager`).

The model assumes that the application gives each handle back once, to `armd_await` or to
`armd_detach`: of two threads that await the same handle the second would use a promise that the
first has destroyed, for `armd_await` holds no reference of its own while it sleeps.  `Logger`
assumes that each thread uses the logger under a reference, and `WorkStealing` and
`ProcedureBuilder` that memory is cleared, as the default allocator does it: `armd__job_create`
leaves `has_error`, and `armd_procedure_builder_create` the two functions, as they are.

## Proofs

Proved for any number of executors, jobs and clients, any procedures and any choice of what may
fail:

| theorem | module | says |
| --- | --- | --- |
| `TypeCorrect` | `WorkStealing_proofs` | `Spec => []TypeOK` |
| `EveryJobHasOneOwner` | `WorkStealing_proofs` | `Spec => []OneOwner`: a job is never in two places, and never in none while it exists, unless it is pending, and then the promise it waits for will release it |
| `JoinCountersExact` | `WorkStealing_proofs` | `Spec => []JoinCount` |
| `ChildrenEndBeforeParents` | `WorkStealing_proofs` | `Spec => []ChildrenEndFirst` |
| `FreeCountExact` | `WorkStealing_proofs` | `Spec => []FreeCountConserved`: modulo its width `free_job_count` is the number of queued jobs, but for steps in progress and the jobs counted in vain |
| `NoLostWakeup` | `WorkStealing_proofs` | `Spec /\ []JobsFit => []NoSleepingOnWork`: nobody sleeps on queued work without a signal to come |
| `DestroyReportsHonestly` | `WorkStealing_proofs` | `Spec => []DestroyStatusHonest` |
| `HolderIsRecorded` | `WorkStealingRecords_proofs` | `Spec => []OwnerRecorded`: `job->executor` is the thread that has the job |
| `NoFrameLeftBehind` | `WorkStealingRecords_proofs` | `Spec => []FramesReleased` |
| `NoAssertionFails` | `WorkStealingRecords_proofs` | `Spec => []AssertionsHold` |
| `NoErrorIsSwallowed` | `WorkStealingRecords_proofs` | `Spec => []ErrorsReachRoot` |
| `NoErrorIsInvented` | `WorkStealingRecords_proofs` | `Spec => []ErrorsHaveCause` |
| `NoStepRepeatedByMistake` | `WorkStealingRecords_proofs` | `Spec => []RepeatedForReason`: a step that has ended is run again only on request or after a child without a frame |

for any number of threads, workers and promises and any arrays of dependencies:

| theorem | module | says |
| --- | --- | --- |
| `PromisesTyped` | `PromiseManager_proofs` | `Spec => []TypeOK`: also that a thread in a call, and a worker with a job, have a handle |
| `PendingCountsExact` | `PromiseGraph_proofs` | `Spec => []ReleasesOwed`: a pending promise waits for as many releases as there are links to it, and none is owed to a job that is not pending |
| `ReferenceCountsExact` | `PromiseGraph_proofs` | `Spec => []RefCountExact` |
| `NoPromiseUsedAfterFree` | `PromiseGraph_proofs` | `Spec => []NoUseAfterFree` |
| `CallbacksCalledOnce` | `PromiseGraph_proofs` | `Spec => []CallbacksOnce` |
| `NoPromiseLeaked` | `PromiseGraph_proofs` | `Spec => []NoLeak` |
| `PromisesImplementTaskFlow` | `PromiseGraph_proofs` | `Spec => ImplementsTaskFlow`: the safety part of the task flow |

for any number of continuations, iterations and executors and any initial size of the buffer:

| theorem | module | says |
| --- | --- | --- |
| `ProceduresAreAsRequested` | `Procedures_proofs` | `Spec => []BuiltAsRequested` |
| `BuildersReturnBlocks` | `Procedures_proofs` | `Spec => []BlocksReturned`: blocks are freed with their owner, but for those a failed call has leaked |
| `LoopsRunOnce` | `Procedures_proofs` | `Spec => []LoopsComplete`: each index once, all of them when the job ends well |
| `OutcomesAreHonest` | `Procedures_proofs` | `Spec => []OutcomeHonest`: a job fails if and only if one of its bodies or a dependency did, or it or a child got no frame |
| `UnwindsOnce` | `Procedures_proofs` | `Spec => []UnwoundOnce`: after the last continuation, an error, or a failed setup |

for any number of threads, messages and blocks of memory:

| theorem | module | says |
| --- | --- | --- |
| `LoggerTypes` | `Logger_proofs` | `Spec => []TypeOK` |
| `RingsStayRings` | `Logger_proofs` | `Spec => []RingsConsistent`: the region's ring runs through the blocks in use, the logger's through its nodes |
| `NoThreadUsesItDestroyed` | `Logger_proofs` | `Spec => []NoUseAfterDestroy` |
| `NobodyStrandsMessages` | `Logger_proofs` | `Spec => []NothingStranded` |
| `NothingIsLeaked` | `Logger_proofs` | `Spec => []NothingLeaked`: `armd_memory_region_destroy` finds the region empty |
| `MessagesTakenInOrder` | `Logger_proofs` | `Spec => TakenInOrder` |

and, for any initial and any largest size of a deque and of a table, any load limit, any jobs,
handles and values:

| theorem | module | says |
| --- | --- | --- |
| `IndicesStayInside` | `Containers_proofs` | `DequeSpec => []DequeTypeOK`: and every slot in use holds a job |
| `RingBufferIsQueue` | `Containers_proofs` | `DequeSpec => ImplementsJobQueue`: the ring buffer implements the sequence, answers included |
| `TableIsMap` | `Containers_proofs` | `TableSpec => ImplementsPromiseTable`: the chained table implements the map, answers included |
| `ContainersKeepPromises` | `Containers_proofs` | `Spec => ImplementsJobQueue /\ ImplementsPromiseTable`: also side by side |
| `BlocksStayOwned` | `Containers_proofs` | `Spec => []BlocksOwned` |

*Types.*  `TypeOK` is not inductive: `Steal` and the steps after it write the record of
`current[e]`, which has to be a job.  The invariant proved is `Typed`: `TypeOK`, `HandsFull` (a
thread that works on a job has one, a fork in progress has a child) and `JoinsExecutor`
(`armd_context_destroy` joins threads that exist).  `TypeOK` says of `num_all_waiting_jobs` only
that it is an integer; that the decrement of `UndoFork` does not make it negative follows from
`JoinCount`.  One lemma per action that writes a job record (`StolenEffect`, `ForkEffect`, ...)
says what becomes of the fields the join protocol reads.

*Ownership.*  `OneOwner`, `JoinCount` and `ChildrenEndFirst` need one another.  That the parent
resumed in `NotifyParent` is in nobody else's hands follows from its counters; that a child's end
brings the counters to the point exactly once follows from their being exact; and they stay exact
because whoever writes them has the job, or is its live child.  `Owned` says in which state of the
counters a job is in each place: in a deque or a half-done fork `AtRest`, in the hands of a thread
`Busy` in a continuation, `Overcounted` while it undoes a fork that failed, and `AtRest`
elsewhere, and in no place only if `Waiting` for live children.  It adds that parents of live jobs
are live and that jobs that are unborn, pending or lost have none.  Three more invariants go with
it: a half-done fork is one of the job in the same thread's hands (`ForkedByHolder`), executors are
created in order (`CreatedInOrder`), and `Promised`: one thread at a time completes a promise, that
of a job without a parent, and a pending job waits for a promise that is pending or being completed
and is `AtRest` but for not being queued.  `ElementRemoved` and `ElementAdded` say what the four deque operations do to
the set of queued jobs, `ChildAdded`, `ChildRemoved` and `OrphanAdded` how the number of live
children changes; `QuietStep` disposes of the steps that do none of this, `JobTaken` of both ways
to take a job, and one lemma each of the others.  `OwnedNotifyParent` is the heart of it: a parent
that still has a live child is either `Busy`, and then its own thread will see that the child has
ended, or `Waiting`, and then the child that ends last, and no other, takes it over.

*Free jobs.*  `free_job_count` is decremented after a job has left a deque and incremented after one
has entered, so that what it should be is `Due`: the sum of the lengths of the deques, plus the
threads about to decrement, less those about to increment.  What it is, is `Balance`: `Due` and the
`Phantoms`, the jobs counted in vain.  A job becomes a phantom when it is invoked and has to wait,
and does not cease to be one when it is counted again.  Every step leaves both alone, raises
both or lowers both by one (`Level`, `Raised`, `Lowered`), and the invariant, `TurnsApart`, says
that they are a whole number of turns of the counter apart; that is easier to carry through a step
than a remainder.  That the length of one deque changes the sum by as much is an induction over the
executors (`SumsChange`).

*Wakeups.*  A thread goes to sleep when it reads a zero.  `NothingForSleepers` says that as long as
one sleeps, `Balance` is at most zero; as phantoms only add to it, queued jobs are then no more
than threads about to signal.
What makes `Balance` grow wakes all.  The zero is to be trusted only if the counter has not made a
full turn, which is the hypothesis `JobsFit` of `NoLostWakeup`: no more jobs live, and have ever been
counted in vain, than `SizeMax`.  In the program that is the greatest `ARMD_Size`: memory ends
before the former are so many, and the latter are at most two for each call of
`armd_invoke` that had to wait, of which a 64-bit count holds more than a program makes.  The run `ws_jobs`
satisfies it, with four jobs and a `SizeMax` of 7.

*Destruction.*  `armd_context_destroy` looks at deques and promises only.  Whatever else is left, a
suspended, pending or lost job or one in the hands of a thread that was stopped, has an ancestor
that was invoked, and the promise of that one is pending (`Awaited`), or its thread is in the middle
of completing it.  `Rooted` says that there is such an ancestor:
no set of jobs but the empty one has all its parents in itself.

*Records.*  Both invariants here rest on `Owned`.  `Recorded` adds to `OwnerRecorded` that a queued
job is recorded for the executor whose deque it is in, so that a thread that takes a job from its
own deque finds its name there.  `Framed` says of every record that a frame belongs to a
continuation under way (`RecordSound`), of every thread whether its job has one (`ThreadSound`),
and that a job with live children has one (`ParentsUnderWay`), which is why whoever resumes a
parent finds its frame; with `ChildrenEndFirst` no frame is destroyed under a live child.
`FramedKept` disposes of the steps that leave frames alone, `FramedOwn` of those that write the
frame of the job in hand, `FramedCreated` of new jobs.

*Errors.*  The thread that ends a job decides by where it is, not by what happened to the job
before, so the three properties need what each place stands for.  `Traced` says it: of a record,
that its error has a cause that lasts (`LastingCause`), or that its setup or its last step failed,
and that the error of a job that is gone has arrived (`ErrorSound`); of a thread, what it may rely
on where it is (`KnownBy`): a job just taken is as it was created, a job about to run without a
frame has an error only if it has a trap and one that has a frame has a reason to go on with it
(`ReasonToRepeat`), a job to be ended has its error flag set or was ended by a
trap.  A child that is destroyed is a lasting cause because the past of a job that exists does not
change (`PastKept`).  `TracedKept` is the frame of every case: a step touches a few jobs, and what
it does not touch keeps its facts.  The theorem would not hold without `Garbage = {FALSE}`: the
flag `has_error` of a new job is whatever the allocator returned.

*Promises.*  `PromiseManager_proofs` says what each action does to records and lists
(`InvokeEffect`, `InvokeFailsEffect`, `ReleaseEffect`, ...; `TypeOK` with its conjunct `Pointers`
is inductive): `Extended` that a list got a number of
equal entries at its end, which are 0 for an `armd_invoke` that failed.  The invariant of
`PromiseGraph_proofs` is `Sound`.  Its first part, `Threads`, says who may be where: the mutex is
held from `Complete` to `Finish`, a job has at most one worker, a handle is given back once.
`Records` relates a promise to its job: a promise in the table has its job's result, is pending if
and only if its job is, and nothing is known of a handle before it is given out (`Fresh`), so that
the links made to a new handle are all there are.  `Counted` is `ReleasesOwed` and `RefCountExact`,
which need one another: a release finds the promise it is for because that promise counts it as
a reference, and drops the right reference because the releases that are owed are as many as the
difference of its counters (`Balance`).  `PlacesCounted` is the counting behind `armd_invoke`: the
links it appends, list by list, are as many as the places in the array that hold an unfinished
promise, also when a promise is given twice.  In `Release` exactly one pair leaves `Owed(h)`
(`ReleaseMovesOn`), and its counters reach each other exactly when the last one does.  A `lost` job differs
from a queued one only in that no worker takes it, so that none of this needs `Failures` to be empty.

*Task flow.*  What a job knows of its dependencies reaches it one release at a time, so the
refinement needs `Known`: each dependency of a job still owes it a release, or succeeded, or failed
and the flag of the pending promise, later of the job, says so (`Informed`); a worker that ends a
job heeds that flag (`Heeded`); who has been told a result no longer holds the handle (`Untold`).
With `ReleasesOwed`, a job that is not pending is owed nothing, and so all it depends on have ended
(`NobodyOwes`).  `Submits`, `Starts`, `Ends` and `Tells` say which changes are steps of `TaskFlow`;
`LinksKept`, which the lemmas about `Sound` establish with it, disposes of the other steps.

*Ring buffer.*  The invariant is `WellFormed`: the indices are inside the buffer, and the slots
between them hold jobs.  `RoundOnce` to `Placed` are the arithmetic of indices modulo the size;
one lemma per operation (`PutForwardContents` to `ExpandedContents`) says which sequence is stored
afterwards, `ExpandedContents` that a copy into a larger buffer in two pieces is the same sequence;
`DequeStepRefines` puts them together.

*Table.*  The invariant is `Sound`: every node is in the chain its key belongs to, no two nodes have
the same key (`Sorted`), and `num_entries` is the number of nodes, which is what makes the blocks
come out right.  Because of the first, a lookup that searches one chain misses nothing (`Found`);
because of the second, the nodes are a map (`EntriesAre`).  `SoundWithNode`, `SoundWithValue` and
`SoundWithoutNode` say which nodes there are after a chain has changed.  Rehashing is a loop over all
nodes: `InOrder` is an induction over the chains, which says that the loop meets every node once, and
`SoundRehashed` one over the nodes, which says that after each step the new table holds the nodes met
so far.  `TableStepRefines` puts the operations together, and `TableOwns` and `DequeOwns` compare
what each allocates and frees with what its container owns before and after.

*Builder.*  `BuilderSound` says of the builder what `BuiltAsRequested` says of the procedure that
it will become: the first `num_continuations` slots of the buffer hold what was asked for, also
when the buffer has been exchanged for a larger one.  `BlocksCounted` is exact at every moment, not
only at the end; that the loop that destroys the continuations gives back the sum of their constants
is an induction over the loop (`AddsUp`, `FoldExists`).

*Loops.*  `InTurn` says that what is before the current continuation is over and what is behind it
not begun, that after a failed dependency nothing is run (`Unmet`), and that the error flag is set
if and only if there is a `Cause`; `Current` says of each place of the job what its frame and its children mean.  The heart
is `ParallelyRan`: each index below the shared counter and below the count has been run or is in the
hands of exactly one child, and once there have been children and none has failed, there still are
some or the counter has reached the count.  So the job, when no child is left, has run them all.  A step
that is executed again after a child without a frame finds all this as it was, and the error flag
set (`AtStep`).

*Rings.*  A ring is a function `c`: `c[0]` is the sentinel, `c[1]` to `c[n]` are the nodes behind it
and `c[n + 1]` is the sentinel again (`RingOf`).  `InsertedIs` and `UnlinkedIs` say which `c` is
behind a ring after a node has been linked after the sentinel or unlinked anywhere, `WalkIs` and
`RingIs` that a walk through the links meets `c[1]` to `c[n]`.  `Region` says that the ring of a
region runs through the blocks in use; `AllocatedIs` and `FreedIs`, that it stays so.

*Logger.*  `LoggerInv` has four parts besides the types.  `Counted`: the reference count is the
number of threads that own a reference plus the number of those whose callback has one, which is
why the thread that brings it to zero is the only one left.  `Linked`: every node leads to an
element and every element to a message, no two to the same, and what is not led to is in the hands
of one thread; hence freeing an element that was taken touches nothing of the list, and
`destroy_logger`, which frees along the list (`ListFreed`), leaves nothing.  `Listing`: the list
holds the messages from the last one logged down to the one after the last one taken, which gives
the order, and if nobody is inside the callback they are older than the callback.  `Stored` and
`Roomy` say where the logger is and that there is a block for what is allocated without a test:
`LoggerAssumption` asks for three blocks for each message and three more, so that an allocation
fails only where `FailingAllocations` lets it.

The assumptions are those named in the modules: at least one executor, finitely many jobs and
clients, `NoJob` not among them, procedures that are sequences of continuations, `SizeMax`
positive; of the promises that bounds are natural numbers, dependencies sequences of them, and
`NoThread` not a worker; of the builder an initial buffer that is not empty; of the logger finitely
many threads and the blocks they need; of the deque an initial size that is positive, and that NULL
and what an unwritten slot holds are not jobs; of the table an initial size and a load limit that
are positive, and handles that are natural numbers.

Induction is used where it is needed, as a set of numbers without a least element
(`InductionLemmas`), and about recursive functions: the sums of `WorkStealing` and the folds of the
community modules, for which a function that satisfies the recursion has to be shown to exist first.

Every safety property and every refinement that a passing run checks is stated by a theorem.  Only
model-checked is what is about liveness, which is out of the prover's reach, as is what depends on
ENABLED.

## Not modelled

Paths that go on with a NULL pointer: `armd_invoke` when a promise with a pending job cannot be
allocated, `armd_logger_log_string` and `armd_memory_region_strdup` without memory, the `then`
functions when the constants cannot be allocated or the procedure of the children of a
`parallel_for` cannot be built (parallel_for.c:148-166, 190), a creator that returns a NULL frame
(job.c:207 asserts that it does not), and `armd_memory_region_free` of the frame of a job that never
got one, after a failed setup, a fork that is undone or an `armd_invoke` that fails: it is harmless
only in the build with `ARAMID_DISABLE_MEMORY_REGION`, which is the one these failures are modelled
for.  Assertions about failures are those of a build with `NDEBUG`: the thread stopped by a failed
`armd_context_create` (executor.c:31), the promise that a failed `armd_invoke` destroys
(promise.c:137), the job that a release cannot queue (context.c:610), and the table of a context
that is destroyed with promises left (context.c:196).  Initialising a lock or a condition variable
does not fail, and `armd_memory_region_create` succeeds (when its lock cannot be initialised it loses
the sentinel, memory_region.c:107-110).  An error trap is the result it returns; it runs with the lock of its job
held, so that one that forks from that job would spin.

Random numbers (a thief's victim is any executor) and the clock have no state worth a model, and
the platform wrappers are what makes a critical section an action.  Weak memory is not modelled:
what the code shares, it shares under a lock, except `thread_should_continue_running`,
`setup_executed` and the join counters read by the thread that owns the job.

## What could follow

`Runtime`: `WorkStealing` and `PromiseManager` composed.  `WorkStealing` has the releases with their
deques and counts, `PromiseManager` the links and counters that decide when they happen; that the
choice `waits` of the one is what the other does is argued above and not checked.  More than two executors, for which the state
space of `WorkStealing` is too large without symmetry of executors, which executor 0 does not allow.
