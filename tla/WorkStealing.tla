---------------------------- MODULE WorkStealing ----------------------------
(***************************************************************************)
(* The executor threads of libaramid: one deque of jobs per executor, the  *)
(* shared count of free jobs and its condition variable, work stealing,    *)
(* the fork/join execution of a job's continuations, and the life of the   *)
(* context that owns the threads (lib/src/executor.c, lib/src/job.c, the   *)
(* life-cycle, fork and queueing parts of context.c).                      *)
(*                                                                         *)
(* Promises appear here only as the `result' a root job leaves behind and  *)
(* the results other roots wait for before they are queued; the module     *)
(* PromiseManager models them in full.                                     *)
(*                                                                         *)
(* Atomicity: every critical section (a spinlock of a deque or of a job,   *)
(* executor_mutex) is one action.  What a thread does between two critical *)
(* sections on memory no other thread can reach is merged with one of      *)
(* them.                                                                   *)
(***************************************************************************)
EXTENDS Integers, FiniteSets, JobSequence

CONSTANTS
    NumExecutors,     \* num_executors of armd_context_create
    Jobs,             \* job objects that may come to exist
    Roots,            \* the jobs created by armd_invoke; the others are forked
    Procedure,        \* per job, what each of its continuations may return
    Clients,          \* application threads that call armd_invoke
    DependencyErrors, \* what dependency_has_error may be when a root is queued
    Failures,         \* what may fail: "executor", its creation; "frame", the
                      \* allocation of a job's frame; "deque", its growth.
                      \* After the last two the program goes on only without
                      \* assertions and with ARAMID_DISABLE_MEMORY_REGION.
    SizeMax,          \* largest ARMD_Size
    NoJob             \* NULL

Executors == 0 .. NumExecutors - 1

Result == {"Error", "Ended", "Repeat"}    \* ARMD_ContinuationResult

(***************************************************************************)
(* A continuation is abstracted to the results its function may return and *)
(* the results its error trap may return; no trap is the same as a trap    *)
(* that always returns Error.                                              *)
(***************************************************************************)
Continuation == [results: SUBSET Result \ {{}}, traps: SUBSET Result \ {{}}]

ASSUME NumExecutorsAssumption == NumExecutors \in Nat \ {0}
ASSUME JobsAssumption == IsFiniteSet(Jobs) /\ Roots \subseteq Jobs /\ NoJob \notin Jobs
ASSUME ProcedureAssumption == Procedure \in [Jobs -> Seq(Continuation)]
ASSUME FlagsAssumption == /\ DependencyErrors \subseteq BOOLEAN
                          /\ Failures \subseteq {"executor", "frame", "deque"}
ASSUME ClientsAssumption == IsFiniteSet(Clients)
ASSUME SizeMaxAssumption == SizeMax \in Nat \ {0}

VARIABLES
    deque,            \* per executor, its deque, head (forward end) first
    free_job_count,   \* context->free_job_count
    pc,               \* per executor, where its thread is
    current,          \* per executor, the local variable `job'
    child,            \* per executor, the local `job' of fork_with_executor
    phase,            \* per job, whether its object exists; a "pending" one is
                      \* known to a promise only, a "lost" one to nobody
    parent,           \* per job, awaiter.parent_job; NoJob: awaited by a promise
    job,              \* per job, the other fields of ARMD_Job
    result,           \* per root, what its promise was completed with
    waits,            \* per root, the root whose promise it had to wait for
    client,           \* per client, "idle" or inside armd_invoke
    running,          \* per executor, thread_should_continue_running
    context_ready,    \* the flag of the same name, set for all executors at once
    main_pc,          \* where armd_context_create or armd_context_destroy is
    main_index,       \* its loop index
    destroy_status    \* what armd_context_destroy returned

dequeVars == <<deque, free_job_count>>
threadVars == <<pc, current, child>>
promiseVars == <<result, waits>>
jobVars == <<phase, parent, job, promiseVars>>
contextVars == <<running, context_ready, main_pc, main_index, destroy_status>>
vars == <<dequeVars, threadVars, jobVars, client, contextVars>>

NumContinuations(j) == Len(Procedure[j])
ContinuationOf(j) == Procedure[j][job[j].continuation_index + 1]

\* Mutant: the count is kept in a signed integer.
DecSigned(n) == n - 1

\* Mutant: the count stops at zero.
DecSaturating(n) == IF n = 0 THEN 0 ELSE n - 1

\* ARMD_Size arithmetic: unsigned, wrapping at both ends.
Inc(n) == IF n = SizeMax THEN 0 ELSE n + 1
Dec(n) == IF n = 0 THEN SizeMax ELSE n - 1

-----------------------------------------------------------------------------
(* Types *)

PC == {"unborn", "boot", "nap",                        \* wait_for_context_ready
       "idle", "wait", "asleep", "steal", "take",      \* get_free_job
       "run", "step", "fork", "undo", "signal", "next",   \* executing a job
       "finish", "abort", "reject",                    \* ending a job
       "release", "announce",                          \* completing its promise
       "exited"}

\* Where an executor's thread has a job in hand.
Holding == {"take", "run", "step", "fork", "undo", "signal", "next",
            "finish", "abort", "reject", "release", "announce"}

\* Where it is between the start and the end of a continuation function.
InStep == {"step", "fork", "undo", "signal"}

JobRecord == [executor: Executors,
              continuation_index: Nat,
              continuation_frame: BOOLEAN,       \* allocated or NULL
              continuation_result: Result,
              setup_executed: BOOLEAN,
              dependency_has_error: BOOLEAN,
              has_error: BOOLEAN,
              parent_finished: BOOLEAN,
              num_all_waiting_jobs: Int,         \* that it is not negative shows JoinCount
              num_ended_waiting_jobs: Nat]

TypeOK ==
    /\ deque \in [Executors -> Seq(Jobs)]
    /\ free_job_count \in 0 .. SizeMax
    /\ pc \in [Executors -> PC]
    /\ current \in [Executors -> Jobs \cup {NoJob}]
    /\ child \in [Executors -> Jobs \cup {NoJob}]
    /\ phase \in [Jobs -> {"unborn", "pending", "live", "destroyed", "lost"}]
    /\ parent \in [Jobs -> Jobs \cup {NoJob}]
    /\ job \in [Jobs -> JobRecord]
    /\ result \in [Jobs -> {"none", "pending", "ok", "error"}]
    /\ waits \in [Jobs -> Roots \cup {NoJob}]
    /\ client \in [Clients -> {"idle", "signal"}]
    /\ running \in [Executors -> BOOLEAN]
    /\ context_ready \in BOOLEAN
    /\ main_pc \in {"create", "up", "stop", "join", "destroyed"}
    /\ main_index \in 0 .. NumExecutors
    /\ destroy_status \in {"none", "ok", "failed"}

-----------------------------------------------------------------------------
(* Helpers *)

\* armd__job_create.  It leaves has_error, continuation_result and the counters
\* as the allocator returned them; move_to_next reads has_error, and the first
\* assertion of armd__job_execute_step about the counters reads them, before
\* anybody has written them.
NewJob(e, dependency_has_error, garbage) ==
    [executor |-> e,
     continuation_index |-> 0,
     continuation_frame |-> FALSE,
     continuation_result |-> "Error",
     setup_executed |-> FALSE,
     dependency_has_error |-> dependency_has_error,
     has_error |-> garbage,
     parent_finished |-> FALSE,
     num_all_waiting_jobs |-> 0,
     num_ended_waiting_jobs |-> 0]

\* Mutant: the memory allocator does not clear the memory it returns.
GarbageUncleared == BOOLEAN

\* What is in a flag nobody has set: the default allocator clears its memory.
Garbage == {FALSE}

\* Mutant: the broadcast is forgotten.
WokenNone(pcs) == pcs

\* armd__condvar_broadcast on executor_condvar, as a change of the threads.
Woken(pcs) == [e \in Executors |-> CASE pcs[e] = "asleep" -> "wait"
                                     [] pcs[e] = "nap" -> "boot"
                                     [] OTHER -> pcs[e]]

\* Mutant: one child too few is waited for.
JoinReadyEarly(finished, all, ended) == finished /\ ended + 1 >= all

\* parent_enabled: the parent's step is over and all it waits for has ended.
JoinReady(finished, all, ended) == finished /\ ended >= all

\* Mutant: the thief does not record itself as the job's executor.
StolenByNobody(j, e) == job

Stolen(j, e) == [job EXCEPT ![j] = [@ EXCEPT !.executor = e]]

Goto(e, label) == pc' = [pc EXCEPT ![e] = label]

Init ==
    /\ deque = [e \in Executors |-> <<>>]
    /\ free_job_count = 0
    /\ pc = [e \in Executors |-> "unborn"]
    /\ current = [e \in Executors |-> NoJob]
    /\ child = [e \in Executors |-> NoJob]
    /\ phase = [j \in Jobs |-> "unborn"]
    /\ parent = [j \in Jobs |-> NoJob]
    /\ job = [j \in Jobs |-> NewJob(0, FALSE, FALSE)]
    /\ result = [j \in Jobs |-> "none"]
    /\ waits = [j \in Jobs |-> NoJob]
    /\ client = [c \in Clients |-> "idle"]
    /\ running = [e \in Executors |-> FALSE]
    /\ context_ready = FALSE
    /\ main_pc = "create"
    /\ main_index = 0
    /\ destroy_status = "none"

-----------------------------------------------------------------------------
(* armd_context_create *)

\* armd__executor_create.  If it fails the executors there are so far are
\* stopped, as armd_context_destroy does it, and no context is returned.
CreateExecutor ==
    /\ main_pc = "create"
    /\ main_index < NumExecutors
    /\ \/ /\ running' = [running EXCEPT ![main_index] = TRUE]
          /\ pc' = [pc EXCEPT ![main_index] = "boot"]
          /\ main_index' = main_index + 1
          /\ UNCHANGED main_pc
       \/ /\ "executor" \in Failures
          /\ main_pc' = "stop"
          /\ main_index' = 0
          /\ UNCHANGED <<running, pc>>
    /\ UNCHANGED <<dequeVars, current, child, jobVars, client, context_ready, destroy_status>>

OpenContext ==
    /\ main_pc = "create"
    /\ main_index = NumExecutors
    /\ context_ready' = TRUE
    /\ pc' = Woken(pc)
    /\ main_pc' = "up"
    /\ main_index' = 0
    /\ UNCHANGED <<dequeVars, current, child, jobVars, client, running, destroy_status>>

-----------------------------------------------------------------------------
(* wait_for_context_ready *)

WaitForContext(e) ==
    /\ pc[e] = "boot"
    /\ running[e]
    /\ ~context_ready
    /\ Goto(e, "nap")
    /\ UNCHANGED <<dequeVars, current, child, jobVars, client, contextVars>>

Start(e) ==
    /\ pc[e] = "boot"
    /\ running[e]
    /\ context_ready
    /\ Goto(e, "idle")
    /\ UNCHANGED <<dequeVars, current, child, jobVars, client, contextVars>>

-----------------------------------------------------------------------------
(* get_free_job *)

\* The flag is read before the deque is locked; no other thread can tell.
DequeueLocal(e) ==
    /\ pc[e] = "idle"
    /\ running[e]
    /\ IF deque[e] = <<>>
         THEN /\ Goto(e, "wait")
              /\ UNCHANGED <<deque, current>>
         ELSE /\ current' = [current EXCEPT ![e] = Front(deque[e])]
              /\ deque' = [deque EXCEPT ![e] = WithoutFront(@)]
              /\ Goto(e, "take")
    /\ UNCHANGED <<free_job_count, child, jobVars, client, contextVars>>

\* Mutant: a thread told to stop sleeps on.
ShouldSleepIgnoringStop(e) == free_job_count = 0

\* The loop condition around armd__condvar_wait.
ShouldSleep(e) == free_job_count = 0 /\ running[e]

Sleep(e) ==
    /\ pc[e] = "wait"
    /\ ShouldSleep(e)
    /\ Goto(e, "asleep")
    /\ UNCHANGED <<dequeVars, current, child, jobVars, client, contextVars>>

SpuriousWakeup(e) ==
    /\ pc[e] \in {"asleep", "nap"}
    /\ Goto(e, IF pc[e] = "asleep" THEN "wait" ELSE "boot")
    /\ UNCHANGED <<dequeVars, current, child, jobVars, client, contextVars>>

GoStealing(e) ==
    /\ pc[e] = "wait"
    /\ running[e]
    /\ ~ShouldSleep(e)
    /\ Goto(e, "steal")
    /\ UNCHANGED <<dequeVars, current, child, jobVars, client, contextVars>>

\* The victim is random and may be the thief itself.
Steal(e, victim) ==
    /\ pc[e] = "steal"
    /\ IF deque[victim] = <<>>
         THEN /\ Goto(e, "idle")
              /\ UNCHANGED <<deque, current, job>>
         ELSE LET j == Back(deque[victim]) IN
              /\ current' = [current EXCEPT ![e] = j]
              /\ deque' = [deque EXCEPT ![victim] = WithoutBack(@)]
              /\ job' = Stolen(j, e)
              /\ Goto(e, "take")
    /\ UNCHANGED <<free_job_count, child, phase, parent, promiseVars, client, contextVars>>

Take(e) ==
    /\ pc[e] = "take"
    /\ free_job_count' = Dec(free_job_count)
    /\ Goto(e, "run")
    /\ UNCHANGED <<deque, current, child, jobVars, client, contextVars>>

\* The places where a thread notices that it has been told to stop.  A job it
\* had in hand stays where it is and is never executed again.
Exit(e) ==
    /\ pc[e] \in {"boot", "idle", "wait", "run"}
    /\ ~running[e]
    /\ Goto(e, "exited")
    /\ UNCHANGED <<dequeVars, current, child, jobVars, client, contextVars>>

-----------------------------------------------------------------------------
(* Executing a job *)

\* armd__job_execute_setup, for a procedure without a setup function.
ExecuteSetup(e) ==
    LET j == current[e] IN
    /\ pc[e] = "run"
    /\ running[e]
    /\ ~job[j].setup_executed
    /\ job' = [job EXCEPT ![j] = [@ EXCEPT
                 !.setup_executed = TRUE,
                 !.has_error = job[j].has_error \/ job[j].dependency_has_error]]
    /\ Goto(e, IF job[j].dependency_has_error THEN "reject" ELSE "run")
    /\ UNCHANGED <<dequeVars, current, child, phase, parent, promiseVars, client, contextVars>>

\* armd__job_execute_setup when the frame of the job cannot be allocated.  When
\* the job is destroyed its NULL frame is freed: see Failures.
FailSetup(e) ==
    LET j == current[e] IN
    /\ pc[e] = "run"
    /\ running[e]
    /\ ~job[j].setup_executed
    /\ "frame" \in Failures
    /\ job' = [job EXCEPT ![j] = [@ EXCEPT !.has_error = TRUE]]
    /\ Goto(e, "reject")
    /\ UNCHANGED <<dequeVars, current, child, phase, parent, promiseVars, client, contextVars>>

\* Mutant: a job does not wait for its own step.
NoOwnShare == 0

\* "For myself": a job counts among what it waits for while its step runs.
OwnShare == 1

\* armd__job_execute_step up to the call of the continuation function, whose
\* frame the creator is asserted to return.
BeginStep(e) ==
    LET j == current[e] IN
    /\ pc[e] = "run"
    /\ running[e]
    /\ job[j].setup_executed
    /\ job[j].continuation_index # NumContinuations(j)
    /\ job' = [job EXCEPT ![j] = [@ EXCEPT
                 !.parent_finished = FALSE,
                 !.num_all_waiting_jobs = OwnShare,
                 !.num_ended_waiting_jobs = 0,
                 !.continuation_frame = TRUE]]
    /\ Goto(e, "step")
    /\ UNCHANGED <<dequeVars, current, child, phase, parent, promiseVars, client, contextVars>>

\* armd__job_execute_step when every continuation has ended.
EndJob(e) ==
    LET j == current[e] IN
    /\ pc[e] = "run"
    /\ running[e]
    /\ job[j].setup_executed
    /\ job[j].continuation_index = NumContinuations(j)
    /\ Goto(e, "finish")
    /\ UNCHANGED <<dequeVars, current, child, jobVars, client, contextVars>>

\* fork_with_executor, up to the increment under the parent's lock: the
\* continuation function forks a child that is to be queued at `target'.
Fork(e, j, target) ==
    LET p == current[e] IN
    /\ pc[e] = "step"
    /\ j \in Jobs \ Roots
    /\ phase[j] = "unborn"
    /\ phase' = [phase EXCEPT ![j] = "live"]
    /\ parent' = [parent EXCEPT ![j] = p]
    /\ child' = [child EXCEPT ![e] = j]
    /\ \E garbage \in Garbage :
         job' = [job EXCEPT ![j] = NewJob(target, FALSE, garbage),
                            ![p] = [@ EXCEPT
                                !.num_all_waiting_jobs = job[p].num_all_waiting_jobs + 1]]
    /\ Goto(e, "fork")
    /\ UNCHANGED <<dequeVars, current, promiseVars, client, contextVars>>

EnqueueFork(e) ==
    LET j == child[e] IN
    /\ pc[e] = "fork"
    /\ deque' = [deque EXCEPT ![job[j].executor] = EnqueueForward(@, j)]
    /\ child' = [child EXCEPT ![e] = NoJob]
    /\ Goto(e, "signal")
    /\ UNCHANGED <<free_job_count, current, jobVars, client, contextVars>>

\* The deque is full and cannot grow: the child is destroyed, with the frame
\* it has not got (see Failures), ...
RefuseFork(e) ==
    /\ pc[e] = "fork"
    /\ "deque" \in Failures
    /\ phase' = [phase EXCEPT ![child[e]] = "destroyed"]
    /\ child' = [child EXCEPT ![e] = NoJob]
    /\ Goto(e, "undo")
    /\ UNCHANGED <<dequeVars, current, parent, job, promiseVars, client, contextVars>>

\* ... then the parent no longer waits for it.
UndoFork(e) ==
    LET p == current[e] IN
    /\ pc[e] = "undo"
    /\ job' = [job EXCEPT ![p] = [@ EXCEPT
                 !.num_all_waiting_jobs = job[p].num_all_waiting_jobs - 1]]
    /\ Goto(e, "step")
    /\ UNCHANGED <<dequeVars, current, child, phase, parent, promiseVars, client, contextVars>>

SignalFork(e) ==
    /\ pc[e] = "signal"
    /\ free_job_count' = Inc(free_job_count)
    /\ pc' = Woken([pc EXCEPT ![e] = "step"])
    /\ UNCHANGED <<deque, current, child, jobVars, client, contextVars>>

\* armd__job_execute_step after the continuation function returned r.
EndStep(e, r) ==
    LET j == current[e]
        ended == job[j].num_ended_waiting_jobs + 1 IN
    /\ pc[e] = "step"
    /\ r \in ContinuationOf(j).results
    /\ job' = [job EXCEPT ![j] = [@ EXCEPT
                 !.continuation_result = r,
                 !.has_error = job[j].has_error \/ r = "Error",
                 !.parent_finished = TRUE,
                 !.num_ended_waiting_jobs = ended]]
    /\ IF JoinReady(TRUE, job[j].num_all_waiting_jobs, ended)
         THEN Goto(e, "next") /\ UNCHANGED current
         ELSE Goto(e, "idle") /\ current' = [current EXCEPT ![e] = NoJob]
    /\ UNCHANGED <<dequeVars, child, phase, parent, promiseVars, client, contextVars>>

\* Mutant: an error the job got from a child is not looked at.
OutcomesOfStep(j) == {job[j].continuation_result}

\* What move_to_next acts on: the trap's verdict once the job has an error.
Outcomes(j) == IF job[j].has_error THEN ContinuationOf(j).traps
                                   ELSE {job[j].continuation_result}

\* Mutant: the frame is not destroyed when the continuation failed.
KeepsFrameOnError(r) == r # "Ended"

\* Only a continuation that is to be repeated keeps its frame.
KeepsFrame(r) == r = "Repeat"

MoveToNext(e, r) ==
    LET j == current[e] IN
    /\ pc[e] = "next"
    /\ r \in Outcomes(j)
    /\ job' = [job EXCEPT ![j] = [@ EXCEPT
                 !.continuation_frame = job[j].continuation_frame /\ KeepsFrame(r),
                 !.continuation_index = job[j].continuation_index
                                          + (IF r = "Ended" THEN 1 ELSE 0)]]
    /\ Goto(e, IF r = "Error" THEN "abort" ELSE "run")
    /\ UNCHANGED <<dequeVars, current, child, phase, parent, promiseVars, client, contextVars>>

-----------------------------------------------------------------------------
(* Ending a job: "finish" after its last continuation, "abort" after an    *)
(* error no trap handled, "reject" after a failed setup.                   *)

\* Mutant: move_to_next is left out after an error of the last child, too.
AfterLastChildFinished(place) == IF place = "finish" THEN "next" ELSE "run"

\* Where a resumed parent is taken up: after a failed setup of the child that
\* ended last its continuation is executed again, without move_to_next.
AfterLastChild(place) == IF place = "reject" THEN "run" ELSE "next"

\* armd__job_notify_to_parent_and_steal, then armd__job_destroy.
NotifyParent(e) ==
    LET j == current[e]
        p == parent[j]
        ended == job[p].num_ended_waiting_jobs + 1
        enabled == JoinReady(job[p].parent_finished, job[p].num_all_waiting_jobs, ended) IN
    /\ pc[e] \in {"finish", "abort", "reject"}
    /\ p # NoJob
    /\ phase' = [phase EXCEPT ![j] = "destroyed"]
    /\ job' = [job EXCEPT ![p] = [@ EXCEPT
                 !.num_ended_waiting_jobs = ended,
                 !.has_error = job[p].has_error \/ job[j].has_error,
                 !.executor = IF enabled THEN e ELSE job[p].executor]]
    /\ current' = [current EXCEPT ![e] = IF enabled THEN p ELSE NoJob]
    /\ Goto(e, IF enabled THEN AfterLastChild(pc[e]) ELSE "idle")
    /\ UNCHANGED <<dequeVars, child, parent, promiseVars, client, contextVars>>

\* Nobody is between the start and the end of armd__context_complete_promise,
\* which holds promise_manager.mutex all the time.
PromisesUnlocked == \A e \in Executors : pc[e] \notin {"release", "announce"}

\* armd__context_complete_promise up to the loop over the promises that wait.
CompleteRoot(e) ==
    LET j == current[e] IN
    /\ pc[e] \in {"finish", "abort", "reject"}
    /\ parent[j] = NoJob
    /\ PromisesUnlocked
    /\ result' = [result EXCEPT ![j] = IF pc[e] = "finish" THEN "ok" ELSE "error"]
    /\ Goto(e, "release")
    /\ UNCHANGED <<dequeVars, current, child, phase, parent, job, waits, client, contextVars>>

\* k waits for the root that e completes.
AwaitsRootOf(e, k) ==
    /\ pc[e] = "release"
    /\ phase[k] = "pending"
    /\ waits[k] = current[e]

\* The pending job of a continuation promise is told of the error, ...
Told(k, r) == [job EXCEPT ![k] = [@ EXCEPT
                 !.dependency_has_error = job[k].dependency_has_error \/ result[r] = "error"]]

\* ... and queued, ...
Release(e, k) ==
    /\ AwaitsRootOf(e, k)
    /\ job' = Told(k, current[e])
    /\ phase' = [phase EXCEPT ![k] = "live"]
    /\ deque' = [deque EXCEPT ![job[k].executor] = EnqueueBack(@, k)]
    /\ Goto(e, "announce")
    /\ UNCHANGED <<free_job_count, current, child, parent, promiseVars, client, contextVars>>

\* ... unless the deque cannot grow ("FIXME: Handle this error"), ...
Lose(e, k) ==
    /\ "deque" \in Failures
    /\ AwaitsRootOf(e, k)
    /\ job' = Told(k, current[e])
    /\ phase' = [phase EXCEPT ![k] = "lost"]
    /\ Goto(e, "announce")
    /\ UNCHANGED <<dequeVars, current, child, parent, promiseVars, client, contextVars>>

\* ... and in both cases counted as a free job.
Announce(e) ==
    /\ pc[e] = "announce"
    /\ free_job_count' = Inc(free_job_count)
    /\ pc' = Woken([pc EXCEPT ![e] = "release"])
    /\ UNCHANGED <<deque, current, child, jobVars, client, contextVars>>

\* The end of armd__context_complete_promise, then armd__job_destroy.
DestroyRoot(e) ==
    /\ pc[e] = "release"
    /\ \A k \in Roots : ~AwaitsRootOf(e, k)
    /\ phase' = [phase EXCEPT ![current[e]] = "destroyed"]
    /\ current' = [current EXCEPT ![e] = NoJob]
    /\ Goto(e, "idle")
    /\ UNCHANGED <<dequeVars, child, parent, job, promiseVars, client, contextVars>>

-----------------------------------------------------------------------------
(* The application *)

\* armd_invoke under promise_manager.mutex.  If it depends on promises that are
\* not completed the new job is pending until the last of these is; `waits' is
\* that one, foreseen.  What the other dependencies leave it, before or after,
\* is in dependency_has_error.  (PromiseManager counts them.)
Invoke(c, j) ==
    /\ main_pc = "up"
    /\ client[c] = "idle"
    /\ PromisesUnlocked
    /\ j \in Roots
    /\ phase[j] = "unborn"
    /\ \E dependency_has_error \in DependencyErrors, garbage \in Garbage :
         job' = [job EXCEPT ![j] = NewJob(0, dependency_has_error, garbage)]
    /\ \/ /\ phase' = [phase EXCEPT ![j] = "live"]
          /\ deque' = [deque EXCEPT ![0] = EnqueueBack(@, j)]
          /\ UNCHANGED waits
       \/ \E last \in Roots :
            /\ result[last] = "pending"
            /\ waits' = [waits EXCEPT ![j] = last]
            /\ phase' = [phase EXCEPT ![j] = "pending"]
            /\ UNCHANGED deque
    /\ result' = [result EXCEPT ![j] = "pending"]
    /\ client' = [client EXCEPT ![c] = "signal"]
    /\ UNCHANGED <<free_job_count, threadVars, parent, contextVars>>

\* The new job is counted as a free one, be it queued or not.
SignalInvoke(c) ==
    /\ client[c] = "signal"
    /\ free_job_count' = Inc(free_job_count)
    /\ pc' = Woken(pc)
    /\ client' = [client EXCEPT ![c] = "idle"]
    /\ UNCHANGED <<deque, current, child, jobVars, contextVars>>

\* armd_context_destroy is called when no other call is in progress.
BeginDestroy ==
    /\ main_pc = "up"
    /\ \A c \in Clients : client[c] = "idle"
    /\ main_pc' = "stop"
    /\ UNCHANGED <<dequeVars, threadVars, jobVars, client,
                   running, context_ready, main_index, destroy_status>>

\* armd__executor_stop, up to the join.
StopExecutor ==
    /\ main_pc = "stop"
    /\ main_index < NumExecutors
    /\ pc[main_index] # "unborn"
    /\ running' = [running EXCEPT ![main_index] = FALSE]
    /\ pc' = Woken(pc)
    /\ main_pc' = "join"
    /\ UNCHANGED <<dequeVars, current, child, jobVars, client,
                   context_ready, main_index, destroy_status>>

\* armd_context_create passes over an executor it has not created.
PassOver ==
    /\ main_pc = "stop"
    /\ main_index < NumExecutors
    /\ pc[main_index] = "unborn"
    /\ main_index' = main_index + 1
    /\ UNCHANGED <<dequeVars, threadVars, jobVars, client,
                   running, context_ready, main_pc, destroy_status>>

JoinExecutor ==
    /\ main_pc = "join"
    /\ pc[main_index] = "exited"
    /\ main_index' = main_index + 1
    /\ main_pc' = "stop"
    /\ UNCHANGED <<dequeVars, threadVars, jobVars, client, running, context_ready, destroy_status>>

\* Mutant: the promises are not looked at.
NothingQueued == \A e \in Executors : deque[e] = <<>>

\* What armd_context_destroy requires of the deques and of the promises.
NothingLeft == /\ \A e \in Executors : deque[e] = <<>>
               /\ \A j \in Roots : result[j] # "pending"

\* The rest of armd_context_destroy; armd_context_create returns no status.
DestroyExecutors ==
    /\ main_pc = "stop"
    /\ main_index = NumExecutors
    /\ destroy_status' = IF ~context_ready THEN "none"
                         ELSE IF NothingLeft THEN "ok" ELSE "failed"
    /\ main_pc' = "destroyed"
    /\ UNCHANGED <<dequeVars, threadVars, jobVars, client, running, context_ready, main_index>>

Terminated == main_pc = "destroyed" /\ UNCHANGED vars

-----------------------------------------------------------------------------

ExecutorStep(e) ==
    \/ WaitForContext(e)
    \/ Start(e)
    \/ DequeueLocal(e)
    \/ Sleep(e)
    \/ GoStealing(e)
    \/ \E victim \in Executors : Steal(e, victim)
    \/ Take(e)
    \/ Exit(e)
    \/ ExecuteSetup(e)
    \/ FailSetup(e)
    \/ BeginStep(e)
    \/ EndJob(e)
    \/ \E j \in Jobs, target \in Executors : Fork(e, j, target)
    \/ EnqueueFork(e)
    \/ RefuseFork(e)
    \/ UndoFork(e)
    \/ SignalFork(e)
    \/ \E r \in Result : EndStep(e, r)
    \/ \E r \in Result : MoveToNext(e, r)
    \/ NotifyParent(e)
    \/ CompleteRoot(e)
    \/ \E k \in Roots : Release(e, k) \/ Lose(e, k)
    \/ Announce(e)
    \/ DestroyRoot(e)

ContextStep ==
    \/ CreateExecutor
    \/ OpenContext
    \/ StopExecutor
    \/ PassOver
    \/ JoinExecutor
    \/ DestroyExecutors

Next ==
    \/ \E e \in Executors : ExecutorStep(e) \/ SpuriousWakeup(e)
    \/ \E c \in Clients : SignalInvoke(c) \/ \E j \in Jobs : Invoke(c, j)
    \/ ContextStep
    \/ BeginDestroy
    \/ Terminated

Spec == Init /\ [][Next]_vars

\* The step that makes a continuation end.
EndOfContinuation(e) == \E r \in {"Ended", "Error"} : EndStep(e, r)

\* Every thread that can run eventually does, and no continuation function
\* asks to be repeated for ever; nobody is obliged to call armd_invoke or
\* armd_context_destroy.
Fairness ==
    /\ \A e \in Executors : WF_vars(ExecutorStep(e)) /\ SF_vars(EndOfContinuation(e))
    /\ \A c \in Clients : WF_vars(SignalInvoke(c))
    /\ WF_vars(ContextStep)

FairSpec == Spec /\ Fairness

-----------------------------------------------------------------------------
(* Safety *)

Queued(j) == \E e \in Executors : \E i \in 1 .. Len(deque[e]) : deque[e][i] = j
Held(j) == \E e \in Executors : current[e] = j
Forking(j) == \E e \in Executors : child[e] = j
Suspended(j) == /\ phase[j] = "live"
                /\ job[j].parent_finished
                /\ job[j].num_ended_waiting_jobs < job[j].num_all_waiting_jobs

LiveChildren(j) == {k \in Jobs : phase[k] = "live" /\ parent[k] = j}

\* A thread is in armd__context_complete_promise for root r.
Completing(r) == \E e \in Executors : current[e] = r /\ pc[e] \in {"release", "announce"}

Stepping(j) == \E e \in Executors : current[e] = j /\ pc[e] \in InStep

\* A child of j is gone but still counted.
Undoing(j) == \E e \in Executors : current[e] = j /\ pc[e] = "undo"

\* A job is in at most one place: one position of one deque, or the hands of
\* one thread, or its parent's half-done fork.
NoSharing ==
    /\ \A e, f \in Executors :
         \A i \in 1 .. Len(deque[e]), k \in 1 .. Len(deque[f]) :
            deque[e][i] = deque[f][k] => e = f /\ i = k
    /\ \A e, f \in Executors : current[e] = current[f] /\ current[e] # NoJob => e = f
    /\ \A e, f \in Executors : child[e] = child[f] /\ child[e] # NoJob => e = f
    /\ \A j \in Jobs : /\ ~(Queued(j) /\ Held(j))
                       /\ ~(Queued(j) /\ Forking(j))
                       /\ ~(Held(j) /\ Forking(j))
                       /\ Suspended(j) => ~Queued(j) /\ ~Held(j) /\ ~Forking(j)

\* A job that exists is in some place, and only jobs that exist are; a pending
\* one is in none, and the promise it waits for has yet to release it.
NoneLost ==
    \A j \in Jobs :
        /\ (Queued(j) \/ Held(j) \/ Forking(j) \/ Suspended(j)) <=> phase[j] = "live"
        /\ phase[j] = "pending" => result[waits[j]] = "pending" \/ Completing(waits[j])

(***************************************************************************)
(* Stealing, forking, suspending, resuming and releasing hand each job to  *)
(* exactly one thread: no job runs twice, and none is forgotten but those  *)
(* a release loses (executor.c:51-126, context.c:594-626 and the result of *)
(* armd__job_notify_to_parent_and_steal).                                  *)
(***************************************************************************)
OneOwner == NoSharing /\ NoneLost

(***************************************************************************)
(* The fork/join counters tell the truth at every moment: what a job still *)
(* waits for is its live children, and itself while its own step runs,     *)
(* even where a fork fails after the child was counted (context.c:231,     *)
(* context.c:241-250, job.c:121-131, job.c:196-227).                       *)
(***************************************************************************)
JoinCount ==
    \A j \in Jobs :
        phase[j] = "live" =>
            job[j].num_all_waiting_jobs - job[j].num_ended_waiting_jobs
                = Cardinality(LiveChildren(j)) + (IF Stepping(j) THEN 1 ELSE 0)
                                               + (IF Undoing(j) THEN 1 ELSE 0)

(***************************************************************************)
(* No continuation starts, and no job ends, while a job it forked is       *)
(* alive; so the parent pointer of a job never dangles.                    *)
(***************************************************************************)
ChildrenEndFirst ==
    /\ \A e \in Executors :
         pc[e] \in {"run", "next", "finish", "abort", "reject", "release", "announce"} =>
            LiveChildren(current[e]) = {}
    /\ \A j \in Jobs :
         phase[j] = "live" /\ parent[j] # NoJob => phase[parent[j]] = "live"

(***************************************************************************)
(* The assertions of job.c that relate counters and frames: 96, 124, 149,  *)
(* 188, 189 and 225.                                                       *)
(***************************************************************************)
AssertionsHold ==
    /\ \A j \in Jobs :
         job[j].num_ended_waiting_jobs <= job[j].num_all_waiting_jobs
    /\ \A e \in Executors :
         LET j == current[e] IN
         /\ pc[e] = "run" =>
              /\ job[j].setup_executed \/ job[j].continuation_index = 0
              /\ job[j].continuation_index <= NumContinuations(j)
              /\ job[j].num_all_waiting_jobs <= job[j].num_ended_waiting_jobs
         /\ pc[e] = "next" => job[j].continuation_frame

\* A job that is gone left no continuation frame behind (job.c:95-104).
FramesReleased ==
    \A j \in Jobs : phase[j] = "destroyed" => ~job[j].continuation_frame

(***************************************************************************)
(* job->executor, through which a continuation forks and reads its         *)
(* executor id, names the thread that runs it (executor.c:113, job.c:133). *)
(***************************************************************************)
OwnerRecorded ==
    \A e \in Executors : pc[e] \in Holding => job[current[e]].executor = e

QueueLengths == LET f[e \in 0 .. NumExecutors] ==
                        IF e = 0 THEN 0 ELSE f[e - 1] + Len(deque[e - 1])
                IN  f[NumExecutors]
Taking == Cardinality({e \in Executors : pc[e] = "take"})
Signalling == Cardinality({e \in Executors : pc[e] \in {"signal", "announce"}})
                + Cardinality({c \in Clients : client[c] = "signal"})

\* Jobs that are counted and never taken for it: those that had to wait are
\* counted when they are invoked and again when they are released, those that
\* are lost are counted as if they had been queued.
Phantoms == Cardinality({j \in Jobs : waits[j] # NoJob})
                + Cardinality({j \in Jobs : phase[j] = "lost"})

(***************************************************************************)
(* The count of free jobs is the number of queued jobs, corrected by the   *)
(* threads that are between a change of a deque and the matching change of *)
(* the count, and too high by one for each job that had to wait and one    *)
(* for each that was lost (context.c:496, 604-617).  It is updated after   *)
(* the deque, so it passes through zero downwards and wraps.               *)
(***************************************************************************)
FreeCountConserved ==
    free_job_count = (QueueLengths + Taking - Signalling + Phantoms) % (SizeMax + 1)

(***************************************************************************)
(* No lost wakeup: a thread sleeps on executor_condvar while a job is      *)
(* queued only if a signal is still to come (executor.c:79-84).            *)
(***************************************************************************)
NoSleepingOnWork ==
    (\E e \in Executors : pc[e] = "asleep") /\ (\E e \in Executors : deque[e] # <<>>)
        => Signalling > 0

HasTrap(j) == \E i \in 1 .. NumContinuations(j) : Procedure[j][i].traps # {"Error"}

\* A continuation function of j has returned, the last one with Error.
LastStepFailed(j) == /\ job[j].num_all_waiting_jobs # 0
                     /\ job[j].continuation_result = "Error"

(***************************************************************************)
(* No error is swallowed: a failed job passes its error to its parent, and *)
(* a failed root fails its promise unless an error trap was there to       *)
(* recover (job.c:126-128, executor.c:188-239).                            *)
(***************************************************************************)
ErrorsReachRoot ==
    \A j \in Jobs :
        phase[j] = "destroyed" /\ (job[j].has_error \/ LastStepFailed(j)) =>
            IF parent[j] = NoJob THEN result[j] = "error" \/ HasTrap(j)
                                 ELSE job[parent[j]].has_error

(***************************************************************************)
(* No error is invented: a job that ended in error was queued with a       *)
(* failed dependency, or got no frame, or failed itself, or had a child    *)
(* that failed, or has an error trap that may have failed.                 *)
(***************************************************************************)
ErrorsHaveCause ==
    \A j \in Jobs :
        phase[j] = "destroyed" /\ (job[j].has_error \/ result[j] = "error") =>
            \/ job[j].dependency_has_error
            \/ ~job[j].setup_executed
            \/ LastStepFailed(j)
            \/ HasTrap(j)
            \/ \E k \in Jobs : /\ parent[k] = j
                               /\ phase[k] = "destroyed"
                               /\ job[k].has_error

\* j ended before its first continuation, for want of a frame.
Rejected(j) == phase[j] = "destroyed" /\ job[j].has_error /\ ~job[j].setup_executed

(***************************************************************************)
(* A continuation is run again only because it or its trap asked for it,   *)
(* or because it forked a job that got no frame, after which whoever       *)
(* resumes the parent passes over move_to_next (executor.c:267-274).  No   *)
(* other end of a child, on whatever thread and with whatever error, makes *)
(* a step that has ended run again.                                        *)
(***************************************************************************)
RepeatedForReason ==
    \A e \in Executors :
        LET j == current[e] IN
        pc[e] = "run" /\ job[j].continuation_frame =>
            \/ job[j].continuation_result = "Repeat"
            \/ job[j].has_error /\ "Repeat" \in ContinuationOf(j).traps
            \/ \E k \in Jobs : parent[k] = j /\ Rejected(k)

(***************************************************************************)
(* When armd_context_destroy reports success no job was cut short: every   *)
(* job that was created has ended, forked, pending and lost ones included. *)
(***************************************************************************)
DestroyStatusHonest ==
    destroy_status = "ok" => \A j \in Jobs : phase[j] \in {"unborn", "destroyed"}

(***************************************************************************)
(* What the test ErrorTrapRecover expects of a trap that returns Ended:    *)
(* the error is over.  A root fails only when it was given a failed        *)
(* dependency, when the last function it ran failed, or when a child ended *)
(* before its last continuation.                                           *)
(***************************************************************************)
TrapRecovers ==
    \A r \in Roots :
        result[r] = "error" =>
            \/ job[r].dependency_has_error
            \/ job[r].continuation_result = "Error"
            \/ \E k \in Jobs : /\ parent[k] = r
                               /\ phase[k] = "destroyed"
                               /\ job[k].continuation_index < NumContinuations(k)

-----------------------------------------------------------------------------
(* Liveness *)

(***************************************************************************)
(* Every invoked job completes its promise unless the context is being     *)
(* destroyed or a release has lost a job: no fork is left joined by        *)
(* nobody, no queued job unseen, no pending job forgotten.                 *)
(***************************************************************************)
InvokedCompletes ==
    \A r \in Roots :
        result[r] = "pending" ~> \/ result[r] \in {"ok", "error"}
                                 \/ main_pc # "up"
                                 \/ \E k \in Roots : phase[k] = "lost"

(***************************************************************************)
(* Stopping the executors one after the other never hangs in a join, even  *)
(* while others still run, steal and wake sleepers (executor.c:410-432).   *)
(***************************************************************************)
ShutdownCompletes == main_pc = "stop" ~> main_pc = "destroyed"
=============================================================================
