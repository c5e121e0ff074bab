--------------------------- MODULE PromiseManager ---------------------------
(***************************************************************************)
(* The promises of a libaramid context: handles, the dependency graph      *)
(* between promises, reference counts, callbacks, and the threads that     *)
(* invoke, await, detach and complete (lib/src/context.c, promise.c).      *)
(*                                                                         *)
(* The executors are abstracted to workers that take any queued job and    *)
(* complete its promise with a result; the module WorkStealing models what *)
(* happens in between.                                                     *)
(*                                                                         *)
(* Atomicity: a critical section of promise_manager.mutex is one action,   *)
(* except that of armd__context_complete_promise: it makes jobs available  *)
(* to other threads one at a time, so it is one action per continuation,   *)
(* with the mutex held by the worker in between.                           *)
(***************************************************************************)
EXTENDS Integers, Sequences, FiniteSets

CONSTANTS
    MaxHandles,        \* bound: how many promises are created
    Dependencies,      \* the arrays of dependencies given to armd_invoke
    Clients,           \* application threads
    Workers,           \* executor threads
    MaxCallbacks,      \* bound: callbacks added to one promise
    MaxContinuations,  \* bound: length of a list a failed armd_invoke extends
    Failures,          \* "deque": a deque may be unable to grow in a release;
                       \* the program goes on only without assertions
    NoThread

Handles == 1 .. MaxHandles

ASSUME BoundsAssumption ==
    MaxHandles \in Nat /\ MaxCallbacks \in Nat /\ MaxContinuations \in Nat
ASSUME DependenciesAssumption == Dependencies \subseteq Seq(Nat)
ASSUME FailuresAssumption == Failures \subseteq {"deque"}
ASSUME NoThreadAssumption == NoThread \notin Workers

VARIABLES
    table,             \* the handles in the hash table `promises'
    promise,           \* per handle, its ARMD__Promise
    handle_counter,
    mutex,             \* the worker that holds promise_manager.mutex
    job,               \* per handle, the job it stands for
    free_job_count,
    worker,            \* per worker, where it is in completing a promise
    client,            \* per client, the call it is in
    user,              \* handles the application may still await or detach
    dependencies,      \* history: per handle, the promises it depends on
    outcome,           \* history: per handle, the result of its job
    observed,          \* history: per handle, what armd_await returned for it
    callbacks          \* history: per handle, callbacks added and called

jobVars == <<job, free_job_count>>
histories == <<dependencies, outcome, observed, callbacks>>
vars == <<table, promise, handle_counter, mutex, jobVars, worker, client, user, histories>>

Status == {"NotFinished", "Success", "Error"}

PromiseRecord == [detached: BOOLEAN,
                  reference_count: Int,
                  status: Status,
                  num_all_waiting_promises: Nat,
                  num_ended_waiting_promises: Nat,
                  dependency_has_error: BOOLEAN,
                  pending_job: BOOLEAN,                     \* not NULL
                  continuation_promises: Seq(0 .. MaxHandles),
                  num_promise_callbacks: Nat]

\* A thread in a call on a promise, and a worker with a job, have a handle.
Pointers ==
    /\ \A c \in Clients : client[c].pc \in {"signal", "await"} => client[c].handle \in Handles
    /\ \A w \in Workers : worker[w].pc # "idle" => worker[w].handle \in Handles
    /\ \A w \in Workers : worker[w].pc = "release" => worker[w].i >= 1

TypeOK ==
    /\ table \subseteq Handles
    /\ promise \in [Handles -> PromiseRecord]
    /\ handle_counter \in 0 .. MaxHandles
    /\ mutex \in Workers \cup {NoThread}
    /\ job \in [Handles -> [state: {"none", "pending", "queued", "running", "ended", "lost"},
                            dependency_has_error: BOOLEAN]]
    /\ free_job_count \in Int
    /\ worker \in [Workers -> [pc: {"idle", "complete", "release"},
                               handle: 0 .. MaxHandles,
                               has_error: BOOLEAN,
                               i: Nat]]
    /\ client \in [Clients -> [pc: {"idle", "signal", "await", "await_all"},
                               handle: 0 .. MaxHandles,
                               asleep: BOOLEAN]]
    /\ user \subseteq Handles
    /\ dependencies \in [Handles -> SUBSET Handles]
    /\ outcome \in [Handles -> Status]
    /\ observed \in [Handles -> Status]
    /\ callbacks \in [Handles -> [added: Nat, called: Nat]]
    /\ Pointers

-----------------------------------------------------------------------------
(* promise.c *)

\* Mutant: "For internal job" is forgotten.
ReferencesWithoutJob(waiting) == 1 + waiting

\* Mutant: "For dependency graph" is forgotten.
ReferencesWithoutGraph(waiting) == 2

\* The caller's handle, the job, and one for each promise waited for.
References(waiting) == 2 + waiting

NewPromise(waiting, dependency_has_error) ==
    [detached |-> FALSE,
     reference_count |-> References(waiting),
     status |-> "NotFinished",
     num_all_waiting_promises |-> waiting,
     num_ended_waiting_promises |-> 0,
     dependency_has_error |-> dependency_has_error,
     pending_job |-> waiting > 0,
     continuation_promises |-> <<>>,
     num_promise_callbacks |-> 0]

\* Memory that holds no promise: a handle not in use, or one that is gone.
NoPromise == [NewPromise(0, FALSE) EXCEPT !.reference_count = 0]

Occurrences(s, x) == Cardinality({i \in DOMAIN s : s[i] = x})

\* Mutant: a failed armd_invoke leaves its handle in the lists it was put in.
Uncleaned(list, target) == list

\* Mutant: it marks the place with a value that is not a handle.
CleanedWithInvalid(list, target) == [i \in DOMAIN list |-> IF list[i] = target THEN -1 ELSE list[i]]

\* armd__promise_remove_continuation_promise overwrites, it does not shorten.
Cleaned(list, target) == [i \in DOMAIN list |-> IF list[i] = target THEN 0 ELSE list[i]]

-----------------------------------------------------------------------------
(* Dependencies of a new promise *)

NotFinished(d) == promise[d].status = "NotFinished"

\* A dependency for which check_and_build_dependency_graph gives up.
Bad(d) == d # 0 /\ (d \notin table \/ promise[d].detached)

\* Mutant: a promise that has finished is waited for as well.
AwaitedEvenFinished(deps) == {i \in DOMAIN deps : deps[i] # 0}

\* The places in deps of the dependencies the new promise waits for.
Awaited(deps) == {i \in DOMAIN deps : deps[i] # 0 /\ NotFinished(deps[i])}

\* The promises after `target' was appended once for each of these places.
Linked(deps, target) ==
    [h \in Handles |->
        [promise[h] EXCEPT !.continuation_promises =
            @ \o [k \in 1 .. Cardinality({i \in Awaited(deps) : deps[i] = h}) |-> target]]]

-----------------------------------------------------------------------------

Init ==
    /\ table = {}
    /\ promise = [h \in Handles |-> NoPromise]
    /\ handle_counter = 0
    /\ mutex = NoThread
    /\ job = [h \in Handles |-> [state |-> "none", dependency_has_error |-> FALSE]]
    /\ free_job_count = 0
    /\ worker = [w \in Workers |-> [pc |-> "idle", handle |-> 0, has_error |-> FALSE, i |-> 0]]
    /\ client = [c \in Clients |-> [pc |-> "idle", handle |-> 0, asleep |-> FALSE]]
    /\ user = {}
    /\ dependencies = [h \in Handles |-> {}]
    /\ outcome = [h \in Handles |-> "NotFinished"]
    /\ observed = [h \in Handles |-> "NotFinished"]
    /\ callbacks = [h \in Handles |-> [added |-> 0, called |-> 0]]

IdleClient == [pc |-> "idle", handle |-> 0, asleep |-> FALSE]

\* Drop the caller's reference, and the promise with the last one.
Drop(h, p) ==
    IF p.reference_count = 1
      THEN /\ table' = table \ {h}
           /\ promise' = [promise EXCEPT ![h] = NoPromise]
      ELSE /\ promise' = [promise EXCEPT ![h] = [p EXCEPT !.reference_count = @ - 1]]
           /\ UNCHANGED table

-----------------------------------------------------------------------------
(* armd_invoke *)

\* All dependencies are good: the job is queued, or left pending.
Invoke(c, deps) ==
    LET h == handle_counter + 1
        waited == Awaited(deps)
        has_error == \E i \in DOMAIN deps :
                        deps[i] # 0 /\ promise[deps[i]].status = "Error" IN
    /\ mutex = NoThread
    /\ client[c].pc = "idle"
    /\ handle_counter < MaxHandles
    /\ \A i \in DOMAIN deps : ~Bad(deps[i])
    /\ handle_counter' = h
    /\ table' = table \cup {h}
    /\ promise' = [Linked(deps, h) EXCEPT ![h] = NewPromise(Cardinality(waited), has_error)]
    /\ job' = [job EXCEPT ![h] = [state |-> IF waited = {} THEN "queued" ELSE "pending",
                                  dependency_has_error |-> has_error]]
    /\ client' = [client EXCEPT ![c] = [pc |-> "signal", handle |-> h, asleep |-> FALSE]]
    /\ dependencies' = [dependencies EXCEPT ![h] = {deps[i] : i \in DOMAIN deps} \ {0}]
    /\ UNCHANGED <<mutex, free_job_count, worker, user, outcome, observed, callbacks>>

\* armd_invoke returns the handle; it counts a free job even if the job is
\* pending.  (The count is a size_t; how it wraps is modelled in WorkStealing,
\* here an integer stands for its residue.)
SignalInvoke(c) ==
    /\ client[c].pc = "signal"
    /\ free_job_count' = free_job_count + 1
    /\ user' = user \cup {client[c].handle}
    /\ client' = [client EXCEPT ![c] = IdleClient]
    /\ UNCHANGED <<table, promise, handle_counter, mutex, job, worker, histories>>

\* The first n dependencies are good, and then one is bad, or memory is short:
\* for the link to it, or after the last one for the job, the promise, the
\* table or the queue.  cleanup_dependency_graph undoes the links made.  (With
\* the job its frame, which is NULL, is freed; the region allocator does not
\* survive that, ARAMID_DISABLE_MEMORY_REGION does.)
InvokeFails(c, deps, n) ==
    LET h == handle_counter + 1
        linked == Linked(SubSeq(deps, 1, n), h) IN
    /\ mutex = NoThread
    /\ client[c].pc = "idle"
    /\ handle_counter < MaxHandles
    /\ \A i \in 1 .. n : ~Bad(deps[i])
    /\ n < Len(deps) => deps[n + 1] # 0 /\ (Bad(deps[n + 1]) \/ NotFinished(deps[n + 1]))
    /\ \A d \in Handles : Len(linked[d].continuation_promises) <= MaxContinuations
    /\ promise' = [d \in Handles |->
          [linked[d] EXCEPT !.continuation_promises =
             IF d \in table /\ d \in {deps[i] : i \in DOMAIN deps}
               THEN Cleaned(@, h) ELSE @]]
    /\ UNCHANGED <<table, handle_counter, mutex, jobVars, worker, client, user, histories>>

-----------------------------------------------------------------------------
(* armd_await, armd_detach, armd_await_all, armd_add_promise_callback.     *)
(* Calls on a handle that is unknown or detached return -1 and change      *)
(* nothing.  The application gives each handle back once, to armd_await or *)
(* to armd_detach: of two threads that await the same handle the second    *)
(* would look at a promise that the first has destroyed.                   *)

\* The loop of armd_await once it has the mutex: drop and return, or sleep.
AwaitOrSleep(c, h) ==
    IF NotFinished(h)
      THEN /\ client' = [client EXCEPT ![c] = [pc |-> "await", handle |-> h, asleep |-> TRUE]]
           /\ UNCHANGED <<table, promise, observed>>
      ELSE /\ client' = [client EXCEPT ![c] = IdleClient]
           /\ observed' = [observed EXCEPT ![h] = promise[h].status]
           /\ Drop(h, promise[h])

Await(c, h) ==
    /\ mutex = NoThread
    /\ client[c].pc = "idle"
    /\ h \in user
    /\ h \in table
    /\ ~promise[h].detached
    /\ user' = user \ {h}
    /\ AwaitOrSleep(c, h)
    /\ UNCHANGED <<handle_counter, mutex, jobVars, worker, dependencies, outcome, callbacks>>

\* The thread looks at the promise it found before it slept.
AwaitAgain(c) ==
    /\ mutex = NoThread
    /\ client[c].pc = "await"
    /\ ~client[c].asleep
    /\ AwaitOrSleep(c, client[c].handle)
    /\ UNCHANGED <<handle_counter, mutex, jobVars, worker, user, dependencies, outcome, callbacks>>

\* Mutant: a detached promise keeps the reference of its handle.
DropNothing(h, p) == promise' = [promise EXCEPT ![h] = p] /\ UNCHANGED table

DropDetached(h, p) == Drop(h, p)

Detach(c, h) ==
    /\ mutex = NoThread
    /\ client[c].pc = "idle"
    /\ h \in user
    /\ h \in table
    /\ ~promise[h].detached
    /\ user' = user \ {h}
    /\ DropDetached(h, [promise[h] EXCEPT !.detached = TRUE])
    /\ UNCHANGED <<handle_counter, mutex, jobVars, worker, client, histories>>

\* A call, or a thread that has woken up in it.
AwaitAll(c) ==
    /\ mutex = NoThread
    /\ client[c].pc = "idle" \/ (client[c].pc = "await_all" /\ ~client[c].asleep)
    /\ client' = [client EXCEPT ![c] =
                    IF table = {} THEN IdleClient
                    ELSE [pc |-> "await_all", handle |-> 0, asleep |-> TRUE]]
    /\ UNCHANGED <<table, promise, handle_counter, mutex, jobVars, worker, user, histories>>

SpuriousWakeup(c) ==
    /\ client[c].asleep
    /\ client' = [client EXCEPT ![c].asleep = FALSE]
    /\ UNCHANGED <<table, promise, handle_counter, mutex, jobVars, worker, user, histories>>

\* Mutant: a callback is kept for later even if the promise has finished.
Deferred(h) == TRUE

Defers(h) == NotFinished(h)

AddCallback(c, h) ==
    /\ mutex = NoThread
    /\ client[c].pc = "idle"
    /\ h \in table
    /\ h \in user \/ \E d \in Clients : client[d].pc = "await" /\ client[d].handle = h
    /\ ~promise[h].detached
    /\ callbacks[h].added < MaxCallbacks
    /\ IF Defers(h)
         THEN /\ promise' = [promise EXCEPT ![h].num_promise_callbacks = @ + 1,
                                            ![h].reference_count = @ + 1]
              /\ callbacks' = [callbacks EXCEPT ![h].added = @ + 1]
         ELSE /\ callbacks' = [callbacks EXCEPT ![h] = [added |-> @.added + 1,
                                                        called |-> @.called + 1]]
              /\ UNCHANGED promise
    /\ UNCHANGED <<table, handle_counter, mutex, jobVars, worker, client, user,
                   dependencies, outcome, observed>>

-----------------------------------------------------------------------------
(* The executors *)

\* A worker takes a queued job and runs it; without a setup function the job
\* fails if one of its dependencies did.
Run(w, h, has_error) ==
    /\ worker[w].pc = "idle"
    /\ job[h].state = "queued"
    /\ job[h].dependency_has_error => has_error
    /\ job' = [job EXCEPT ![h].state = "running"]
    /\ free_job_count' = free_job_count - 1
    /\ worker' = [worker EXCEPT ![w] = [pc |-> "complete", handle |-> h,
                                        has_error |-> has_error, i |-> 0]]
    /\ UNCHANGED <<table, promise, handle_counter, mutex, client, user, histories>>

StatusOf(has_error) == IF has_error THEN "Error" ELSE "Success"

\* armd__context_complete_promise up to the loop over the continuations.
Complete(w) ==
    LET h == worker[w].handle
        n == promise[h].num_promise_callbacks IN
    /\ mutex = NoThread
    /\ worker[w].pc = "complete"
    /\ h \in table
    /\ mutex' = w
    /\ promise' = [promise EXCEPT ![h].status = StatusOf(worker[w].has_error),
                                  ![h].reference_count = @ - 1 - n]
    /\ callbacks' = [callbacks EXCEPT ![h].called = @ + n]
    /\ outcome' = [outcome EXCEPT ![h] = StatusOf(worker[w].has_error)]
    /\ worker' = [worker EXCEPT ![w] = [@ EXCEPT !.pc = "release", !.i = 1]]
    /\ UNCHANGED <<table, handle_counter, jobVars, client, user, dependencies, observed>>

\* Mutant: the last dependency but one releases the job.
AllButOneEnded(ended, all) == ended + 1 >= all

AllEnded(ended, all) == ended >= all

\* armd__deque_enqueue_back: if it fails the job is nowhere any more and never
\* runs ("FIXME: Handle this error").
Enqueued == {"queued"} \cup {state \in {"lost"} : "deque" \in Failures}

\* One iteration of that loop.
Release(w) ==
    LET list == promise[worker[w].handle].continuation_promises
        h == list[worker[w].i]
        p == promise[h]
        ended == p.num_ended_waiting_promises + 1
        has_error == p.dependency_has_error \/ worker[w].has_error
        last == AllEnded(ended, p.num_all_waiting_promises) IN
    /\ worker[w].pc = "release"
    /\ worker[w].i <= Len(list)
    /\ worker' = [worker EXCEPT ![w].i = @ + 1]
    /\ IF h = 0
         THEN UNCHANGED <<table, promise, jobVars>>
         ELSE /\ Drop(h, [p EXCEPT !.num_ended_waiting_promises = ended,
                                   !.dependency_has_error = has_error,
                                   !.pending_job = @ /\ ~last])
              /\ IF last
                   THEN /\ \E state \in Enqueued :
                             job' = [job EXCEPT ![h] = [state |-> state,
                                                        dependency_has_error |->
                                                           @.dependency_has_error \/ has_error]]
                        /\ free_job_count' = free_job_count + 1
                   ELSE UNCHANGED jobVars
    /\ UNCHANGED <<handle_counter, mutex, client, user, histories>>

\* Mutant: nobody is woken up.
AwakenedNone == client

\* armd__condvar_broadcast on promise_manager.condvar.
Awakened == [c \in Clients |-> [client[c] EXCEPT !.asleep = FALSE]]

\* The end of armd__context_complete_promise and armd__job_destroy.
Finish(w) ==
    LET h == worker[w].handle IN
    /\ worker[w].pc = "release"
    /\ worker[w].i > Len(promise[h].continuation_promises)
    /\ IF promise[h].reference_count = 0
         THEN /\ table' = table \ {h}
              /\ promise' = [promise EXCEPT ![h] = NoPromise]
         ELSE UNCHANGED <<table, promise>>
    /\ client' = Awakened
    /\ mutex' = NoThread
    /\ job' = [job EXCEPT ![h].state = "ended"]
    /\ worker' = [worker EXCEPT ![w] = [pc |-> "idle", handle |-> 0,
                                        has_error |-> FALSE, i |-> 0]]
    /\ UNCHANGED <<handle_counter, free_job_count, user, histories>>

\* The application makes no further calls and nothing is left to run.
Quiet ==
    /\ \A c \in Clients : client[c].pc = "idle"
    /\ \A w \in Workers : worker[w].pc = "idle"
    /\ \A h \in Handles : job[h].state # "queued"
    /\ UNCHANGED vars

ClientStep(c) ==
    \/ SignalInvoke(c)
    \/ AwaitAgain(c)
    \/ (client[c].pc = "await_all" /\ AwaitAll(c))

ClientCall(c) ==
    \/ \E deps \in Dependencies :
        \/ Invoke(c, deps)
        \/ \E n \in 0 .. Len(deps) : InvokeFails(c, deps, n)
    \/ \E h \in Handles : Await(c, h) \/ Detach(c, h) \/ AddCallback(c, h)
    \/ (client[c].pc = "idle" /\ AwaitAll(c))
    \/ SpuriousWakeup(c)

WorkerStep(w) ==
    \/ \E h \in Handles, has_error \in BOOLEAN : Run(w, h, has_error)
    \/ Complete(w)
    \/ Release(w)
    \/ Finish(w)

Next ==
    \/ \E c \in Clients : ClientStep(c) \/ ClientCall(c)
    \/ \E w \in Workers : WorkerStep(w)
    \/ Quiet

Spec == Init /\ [][Next]_vars

\* A thread in a call goes on when it can.  Calls are up to the application,
\* and no thread may count on a spurious wakeup.
Fairness ==
    /\ \A c \in Clients : WF_vars(ClientStep(c))
    /\ \A w \in Workers : WF_vars(WorkerStep(w))

FairSpec == Spec /\ Fairness

-----------------------------------------------------------------------------
(* Safety *)

\* The application's own reference: a handle it holds, or is given, or awaits.
UserHolds(h) ==
    \/ h \in user
    \/ \E c \in Clients : client[c].pc \in {"signal", "await"} /\ client[c].handle = h

JobHolds(h) == job[h].state # "none" /\ outcome[h] = "NotFinished"

One(b) == IF b THEN 1 ELSE 0

(***************************************************************************)
(* The reference count of a promise is the number of those who will still  *)
(* drop one: the application, the job, the promises waited for that have   *)
(* not ended, and the callbacks still to be called (context.c:446-456,     *)
(* 561-569, 628, 693, 731, 803).                                           *)
(***************************************************************************)
RefCountExact ==
    \A h \in table :
        promise[h].reference_count =
              One(UserHolds(h)) + One(JobHolds(h))
            + (promise[h].num_all_waiting_promises - promise[h].num_ended_waiting_promises)
            + IF NotFinished(h) THEN promise[h].num_promise_callbacks ELSE 0

(***************************************************************************)
(* Nobody uses a promise that is gone: not a thread asleep in armd_await,  *)
(* which kept a pointer to it, nor a job that is to complete it, nor the   *)
(* worker that is completing it (context.c:549-553, 575, 683).             *)
(***************************************************************************)
NoUseAfterFree ==
    /\ \A c \in Clients : client[c].pc = "await" => client[c].handle \in table
    /\ \A h \in Handles : JobHolds(h) => h \in table
    /\ \A w \in Workers : worker[w].pc = "release" => worker[w].handle \in table

\* The entries of h's list that are still to be processed.
Unreleased(h) ==
    {i \in DOMAIN promise[h].continuation_promises :
        \/ NotFinished(h)
        \/ \E w \in Workers :
              worker[w].pc = "release" /\ worker[w].handle = h /\ worker[w].i <= i}

\* The releases that are to come for h.
Owed(h) ==
    UNION {{d} \X {i \in Unreleased(d) : promise[d].continuation_promises[i] = h} : d \in table}

(***************************************************************************)
(* The dependency graph and the counters of the promises agree: a pending  *)
(* promise waits for exactly as many releases as the lists of unfinished   *)
(* promises hold for it, repetitions included, and those lists name only   *)
(* promises that exist and are pending, as context.c:582-588 asserts; so   *)
(* every job is released once, with its last dependency, and then queued   *)
(* or, if the deque cannot grow (context.c:604-611), lost.                 *)
(***************************************************************************)
ReleasesOwed ==
    \A h \in Handles :
        /\ Owed(h) # {} => h \in table /\ promise[h].pending_job
        /\ h \in table =>
             Cardinality(Owed(h)) = promise[h].num_all_waiting_promises
                                      - promise[h].num_ended_waiting_promises
        /\ job[h].state = "pending" <=> Owed(h) # {}

(***************************************************************************)
(* A callback that was accepted is called exactly once: never before the   *)
(* promise is completed, and by the time anybody sees it completed.        *)
(***************************************************************************)
CallbacksOnce ==
    \A h \in Handles :
        callbacks[h].called = IF outcome[h] = "NotFinished" THEN 0 ELSE callbacks[h].added

(***************************************************************************)
(* Once the application has given back all its handles and all jobs have   *)
(* ended, no promise is left in the table, so that armd_context_destroy    *)
(* reports success (context.c:190-193).                                    *)
(***************************************************************************)
NoLeak ==
    (\A h \in Handles : ~UserHolds(h) /\ job[h].state \in {"none", "ended"}) => table = {}

Flow == INSTANCE TaskFlow WITH
    Tasks <- Handles,
    task <- [h \in Handles |->
                IF outcome[h] # "NotFinished" THEN outcome[h]
                ELSE IF job[h].state = "none" THEN "none"
                ELSE IF job[h].state = "running" THEN "started"
                ELSE "submitted"],
    after <- dependencies,
    told <- observed

(***************************************************************************)
(* The promise manager implements the task flow: jobs start after what     *)
(* they depend on, errors flow along dependencies, and armd_await returns  *)
(* the result of the job, once.                                            *)
(***************************************************************************)
ImplementsTaskFlow == Flow!Spec

-----------------------------------------------------------------------------
(* Liveness *)

(***************************************************************************)
(* Every job that was invoked runs in the end, those with dependencies     *)
(* too, whatever the application does with the handles.  So it is without  *)
(* Failures: a release that finds no room in a deque loses its job         *)
(* (context.c:604-611).                                                    *)
(***************************************************************************)
TaskFlowLive == Flow!FairSpec

(***************************************************************************)
(* armd_await returns: its thread is woken up after the promise completed, *)
(* even if it slept before or the promise completed before it could sleep, *)
(* unless a job was lost, which then is never completed.                   *)
(***************************************************************************)
AwaitReturns ==
    \A c \in Clients :
        client[c].pc = "await"
          ~> client[c].pc # "await" \/ \E h \in Handles : job[h].state = "lost"

(***************************************************************************)
(* "Await all promise" (aramid.h:235-237): a thread in armd_await_all      *)
(* returns once there is no promise left to wait for, or there are new     *)
(* ones.                                                                   *)
(***************************************************************************)
AwaitAllReturns ==
    \A c \in Clients :
        client[c].pc = "await_all" /\ table = {} ~> client[c].pc # "await_all" \/ table # {}

-----------------------------------------------------------------------------
(* What comments and assertions of the code say, and the code does not do. *)

(***************************************************************************)
(* executor.c:97, reached by a thread that found free_job_count not to be  *)
(* zero: "There are some free jobs in some executors".  At least when all  *)
(* jobs have ended and no armd_invoke is in progress there are none.       *)
(***************************************************************************)
NoPhantomJobs ==
    /\ \A h \in Handles : job[h].state \in {"none", "ended"}
    /\ \A c \in Clients : client[c].pc # "signal"
    => free_job_count = 0

(***************************************************************************)
(* context.c:308, assert(num_removed <= 1): a failed armd_invoke finds its *)
(* handle at most once in the list of a dependency.                        *)
(***************************************************************************)
RemovesAtMostOne ==
    [][\A h \in Handles :
         LET zeros(p) == Occurrences(p.continuation_promises, 0) IN
         h \in table /\ h \in table' => zeros(promise'[h]) - zeros(promise[h]) <= 1]_vars
=============================================================================
