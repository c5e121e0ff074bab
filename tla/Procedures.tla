----------------------------- MODULE Procedures -----------------------------
(***************************************************************************)
(* A procedure is built, run by one invoked job and destroyed.  What the   *)
(* three kinds of continuations do in a step is that of single.c,          *)
(* sequential_for.c and parallel_for.c.  Of the executors (the module      *)
(* WorkStealing) only this is used: forked jobs run concurrently, and a    *)
(* continuation ends when its own step and the jobs it forked have ended.  *)
(***************************************************************************)
EXTENDS ProcedureBuilder

CONSTANTS
    Executors,    \* executor ids
    Failures,     \* what may fail: "frame", the allocation of a job's frame,
                  \* after which only a build with ARAMID_DISABLE_MEMORY_REGION
                  \* goes on
    MaxCount      \* bound: the largest count a count function returns

ASSUME ProceduresAssumption == MaxCount \in Nat /\ Failures \subseteq {"frame"}

VARIABLES
    job,          \* the invoked job
    child,        \* per executor, the job forked for it by a parallel_for
    count,        \* per continuation, what its count function returned
    forked,       \* per continuation, how many children it forked
    executed,     \* per continuation and index, how often the body ran, up to two
    body_failed,  \* whether a body has returned an error
    unwound       \* how often the unwind function has been called

runVars == <<job, child, count, forked, executed, body_failed, unwound>>
vars == <<buildVars, runVars>>

Continuations == 1 .. MaxContinuations

\* A continuation frame as its creator leaves it.  Where there is none the next
\* step creates one, so that this stands for both.
NewFrame == [is_first_time |-> TRUE, count |-> 0, index |-> 0]

\* pc is "none" before the life of the job, then "setup", then "step", in a
\* continuation function, "fork", in its loop of forks, "join", when it has
\* returned, "reject" after a failed setup and "abort" after an error, and in
\* the end "ok" or "failed".  unfit: the job, or one it forked, got no frame.
NoJob == [pc |-> "none", continuation_index |-> 1, frame |-> NewFrame,
          result |-> "Ended", dependency_has_error |-> FALSE, has_error |-> FALSE,
          unfit |-> FALSE, next_executor |-> {}]
NoChild == [pc |-> "none", index |-> 0]

Kind == procedure.continuations[job.continuation_index]

Init ==
    /\ BuilderInit
    /\ job = NoJob
    /\ child = [e \in Executors |-> NoChild]
    /\ count = [i \in Continuations |-> 0]
    /\ forked = [i \in Continuations |-> 0]
    /\ executed = [i \in Continuations |-> [n \in 0 .. MaxCount |-> 0]]
    /\ body_failed = FALSE
    /\ unwound = 0

-----------------------------------------------------------------------------
(* Bodies *)

Twice(n) == IF n = 0 THEN 1 ELSE 2

\* The function of the application is called with `index' and may fail.
RunBody(index, failed) ==
    /\ executed' = [executed EXCEPT ![job.continuation_index][index] = Twice(@)]
    /\ body_failed' = (body_failed \/ failed)

NoBody == UNCHANGED <<executed, body_failed>>

\* What a continuation function returns for an error of its body.
Outcome(failed, result) == IF failed THEN "Error" ELSE result

\* The step is over; armd__job_execute_step notes an error.
Returns(frame, result) ==
    job' = [job EXCEPT !.pc = "join", !.frame = frame, !.result = result,
                       !.has_error = @ \/ result = "Error"]

-----------------------------------------------------------------------------
(* The invoked job *)

InvokeProcedure ==
    /\ Built
    /\ job.pc = "none"
    /\ \E dependency_has_error \in BOOLEAN :
         job' = [NoJob EXCEPT !.pc = "setup", !.dependency_has_error = dependency_has_error]
    /\ UNCHANGED <<buildVars, child, count, forked, executed, body_failed, unwound>>

\* Whether the frame of a job could not be allocated.
Unfit == IF "frame" \in Failures THEN BOOLEAN ELSE {FALSE}

\* What armd__job_execute_setup returns for a job that has its frame.
SetupResults == IF procedure.setup_func THEN BOOLEAN ELSE {job.dependency_has_error}

\* armd__job_execute_setup
ExecuteSetup ==
    /\ job.pc = "setup"
    /\ \E unfit \in Unfit, setup_result \in SetupResults :
         job' = [job EXCEPT !.pc = IF unfit \/ setup_result THEN "reject" ELSE "step",
                            !.has_error = unfit \/ setup_result,
                            !.unfit = unfit]
    /\ UNCHANGED <<buildVars, child, count, forked, executed, body_failed, unwound>>

InStep(kind) ==
    /\ job.pc = "step"
    /\ job.continuation_index <= procedure.num_continuations
    /\ Kind = kind

StepSingle ==
    /\ InStep("single")
    /\ \E failed \in BOOLEAN : RunBody(0, failed) /\ Returns(job.frame, Outcome(failed, "Ended"))
    /\ UNCHANGED <<buildVars, child, count, forked, unwound>>

\* Mutant: the body runs once too often.
PastLastIndex(index, n) == index > n

\* Nothing is left to do.
PastLast(index, n) == index >= n

\* What sequential_for returns after its body.
AfterBody(index, n) == IF index = n - 1 THEN "Ended" ELSE "Repeat"

StepSequentialFor ==
    /\ InStep("sequential_for")
    /\ \E n \in IF job.frame.is_first_time THEN 0 .. MaxCount ELSE {job.frame.count} :
       LET index == job.frame.index
           frame == [is_first_time |-> FALSE, count |-> n, index |-> index + 1] IN
       /\ count' = [count EXCEPT ![job.continuation_index] = n]
       /\ IF PastLast(index, n)
            THEN NoBody /\ Returns(frame, "Ended")
            ELSE \E failed \in BOOLEAN :
                    /\ RunBody(index, failed)
                    /\ Returns(frame, Outcome(failed, AfterBody(index, n)))
    /\ UNCHANGED <<buildVars, child, forked, unwound>>

\* The loop of parent_continuation_func begins.
StepParallelFor ==
    /\ InStep("parallel_for")
    /\ job.frame.is_first_time
    /\ \E n \in 0 .. MaxCount :
         /\ count' = [count EXCEPT ![job.continuation_index] = n]
         /\ job' = [job EXCEPT !.pc = "fork", !.next_executor = Executors,
                               !.frame = [is_first_time |-> FALSE, count |-> n, index |-> 0]]
    /\ NoBody
    /\ UNCHANGED <<buildVars, child, forked, unwound>>

\* A parallel_for never asks to be repeated, but is executed again when it was
\* resumed by a child without a frame.
StepParallelForAgain ==
    /\ InStep("parallel_for")
    /\ ~job.frame.is_first_time
    /\ Returns(job.frame, "Ended")
    /\ NoBody
    /\ UNCHANGED <<buildVars, child, count, forked, unwound>>

\* armd_fork_with_id, for the executors in turn; that it failed is ignored.
ForkChild(e) ==
    /\ job.pc = "fork"
    /\ e \in job.next_executor
    /\ \A f \in job.next_executor : e <= f
    /\ job' = [job EXCEPT !.next_executor = @ \ {e}]
    /\ \/ /\ child' = [child EXCEPT ![e].pc = "setup"]
          /\ forked' = [forked EXCEPT ![job.continuation_index] = @ + 1]
       \/ UNCHANGED <<child, forked>>
    /\ NoBody
    /\ UNCHANGED <<buildVars, count, unwound>>

EndForks ==
    /\ job.pc = "fork"
    /\ job.next_executor = {}
    /\ Returns(job.frame, "Ended")
    /\ NoBody
    /\ UNCHANGED <<buildVars, child, count, forked, unwound>>

\* Mutant: the frame is destroyed although the continuation is to be repeated.
FrameAfterAll(frame, result) == NewFrame

FrameAfter(frame, result) == IF result = "Repeat" THEN frame ELSE NewFrame

\* move_to_next, once the children have ended; no error trap is set.
MoveToNext ==
    LET result == IF job.has_error THEN "Error" ELSE job.result IN
    /\ job.pc = "join"
    /\ \A e \in Executors : child[e].pc = "none"
    /\ job' = [job EXCEPT !.pc = IF result = "Error" THEN "abort" ELSE "step",
                          !.frame = FrameAfter(@, result),
                          !.continuation_index = IF result = "Ended" THEN @ + 1 ELSE @]
    /\ UNCHANGED <<buildVars, child, count, forked, executed, body_failed, unwound>>

\* Mutant: the unwind function is not called after a failed setup.
UnwindsAfterSetup == IF procedure.unwind_func /\ job.pc # "reject" THEN 1 ELSE 0

\* unwind
Unwinds == IF procedure.unwind_func THEN 1 ELSE 0

\* The job ends: all continuations are through, or one has failed, or none has
\* been begun.
EndJob ==
    /\ \/ job.pc = "step" /\ job.continuation_index > procedure.num_continuations
       \/ job.pc \in {"abort", "reject"}
    /\ unwound' = unwound + Unwinds
    /\ job' = [job EXCEPT !.pc = IF job.pc = "step" THEN "ok" ELSE "failed"]
    /\ UNCHANGED <<buildVars, child, count, forked, executed, body_failed>>

-----------------------------------------------------------------------------
(* The children of a parallel_for *)

\* The child has not got its frame.  If it was the last one its parent goes on,
\* and executes its step again: move_to_next is left out.
RejectChild(e) ==
    LET last == job.pc = "join" /\ \A f \in Executors \ {e} : child[f].pc = "none" IN
    /\ "frame" \in Failures
    /\ child[e].pc = "setup"
    /\ job' = [job EXCEPT !.pc = IF last THEN "step" ELSE @,
                          !.has_error = TRUE, !.unfit = TRUE]
    /\ child' = [child EXCEPT ![e] = NoChild]
    /\ UNCHANGED <<buildVars, count, forked, executed, body_failed, unwound>>

\* The child, which has got its frame and depends on no promise, reads and
\* advances the counter in the frame of the parent at once.
Fetch(e) ==
    LET index == job.frame.index IN
    /\ child[e].pc \in {"setup", "fetch"}
    /\ job' = [job EXCEPT !.frame.index = index + 1]
    /\ child' = [child EXCEPT ![e] = IF PastLast(index, job.frame.count) THEN NoChild
                                     ELSE [pc |-> "body", index |-> index]]
    /\ UNCHANGED <<buildVars, count, forked, executed, body_failed, unwound>>

\* Mutant: the child ends as if nothing had happened.
ChildErrorIgnored(failed) == job

\* The child ends and marks its parent.
ChildError(failed) == [job EXCEPT !.has_error = @ \/ failed]

RunChild(e) ==
    /\ child[e].pc = "body"
    /\ \E failed \in BOOLEAN :
         /\ RunBody(child[e].index, failed)
         /\ job' = ChildError(failed)
         /\ child' = [child EXCEPT ![e] = IF failed THEN NoChild
                                          ELSE [NoChild EXCEPT !.pc = "fetch"]]
    /\ UNCHANGED <<buildVars, count, forked, unwound>>

-----------------------------------------------------------------------------

\* A procedure is destroyed when no job runs it.
Destroy ==
    /\ DestroyProcedure
    /\ job.pc \in {"none", "ok", "failed"}
    /\ job' = NoJob
    /\ child' = [e \in Executors |-> NoChild]
    /\ count' = [i \in Continuations |-> 0]
    /\ forked' = [i \in Continuations |-> 0]
    /\ executed' = [i \in Continuations |-> [n \in 0 .. MaxCount |-> 0]]
    /\ body_failed' = FALSE
    /\ unwound' = 0

JobStep ==
    \/ ExecuteSetup
    \/ StepSingle
    \/ StepSequentialFor
    \/ StepParallelFor
    \/ StepParallelForAgain
    \/ \E e \in Executors : ForkChild(e)
    \/ EndForks
    \/ MoveToNext
    \/ EndJob

ChildStep(e) == RejectChild(e) \/ Fetch(e) \/ RunChild(e)

Next ==
    \/ BuilderNext /\ UNCHANGED runVars
    \/ InvokeProcedure
    \/ JobStep
    \/ \E e \in Executors : ChildStep(e)
    \/ Destroy

Spec == Init /\ [][Next]_vars

\* Executors run what is to be run (WorkStealing, InvokedCompletes).
FairSpec == Spec /\ WF_vars(JobStep) /\ \A e \in Executors : WF_vars(ChildStep(e))

-----------------------------------------------------------------------------
(* Properties *)

(***************************************************************************)
(* A loop calls its body once for each index below its count, however many *)
(* children of a parallel_for share the counter: never twice, never beyond *)
(* the count, and not at all or for all when the job ends without error.   *)
(* "Not at all" is for a parallel_for none of whose children could be      *)
(* forked: it is skipped, and the job still succeeds (parallel_for.c:78).  *)
(***************************************************************************)
LoopsComplete ==
    LET kind(i) == procedure.continuations[i]
        IsLoop(i) == kind(i) \in {"sequential_for", "parallel_for"}
        Indices(i) == IF IsLoop(i) THEN 0 .. count[i] - 1 ELSE {0} IN
    Built => \A i \in 1 .. procedure.num_continuations :
        /\ \A n \in 0 .. MaxCount : executed[i][n] <= IF n \in Indices(i) THEN 1 ELSE 0
        /\ job.pc = "ok" => \/ \A n \in Indices(i) : executed[i][n] = 1
                            \/ kind(i) = "parallel_for" /\ forked[i] = 0

(***************************************************************************)
(* A job fails if and only if one of its bodies has failed, or a promise   *)
(* it depends on, or it or a job it forked got no frame (job.c:156-175).   *)
(* The error of a child is not lost while others are still at work, and no *)
(* continuation after the failed one is begun; after a failed dependency,  *)
(* none at all.                                                            *)
(***************************************************************************)
OutcomeHonest ==
    /\ job.pc \in {"ok", "failed"} =>
         (job.pc = "failed" <=> body_failed \/ job.dependency_has_error \/ job.unfit)
    /\ body_failed \/ job.dependency_has_error \/ job.unfit =>
         \A i \in Continuations :
            i > job.continuation_index \/ job.dependency_has_error =>
                \A n \in 0 .. MaxCount : executed[i][n] = 0

(***************************************************************************)
(* "The unwind callback is called when procedures exit independent of the  *)
(* execution status" (aramid.h:517), and once: after the last continuation *)
(* (executor.c:286), after an error (executor.c:234), and after a setup    *)
(* that failed (executor.c:269).                                           *)
(***************************************************************************)
UnwoundOnce ==
    unwound = IF job.pc \in {"ok", "failed"} /\ requested.unwind THEN 1 ELSE 0

\* Every job comes to an end, whatever its loops.
JobsEnd == (job.pc = "setup") ~> (job.pc \in {"ok", "failed"})
=============================================================================
