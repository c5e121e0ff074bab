------------------------ MODULE WorkStealing_proofs -------------------------
(***************************************************************************)
(* Theorems about WorkStealing, for any number of executors, jobs and      *)
(* clients and any procedures: the types; who owns a job, and the counters *)
(* of fork and join; the count of free jobs, and whom it wakes.            *)
(***************************************************************************)
EXTENDS WorkStealing, InductionLemmas, FiniteSetTheorems, SequenceTheorems, FunctionTheorems

-----------------------------------------------------------------------------
(* Type correctness *)

\* The operations of a deque stay among sequences of jobs.
LEMMA DequeTypes ==
    ASSUME NEW q \in Seq(Jobs), NEW j \in Jobs
    PROVE  /\ EnqueueForward(q, j) \in Seq(Jobs)
           /\ EnqueueBack(q, j) \in Seq(Jobs)
<1>1. EnqueueForward(q, j) \in Seq(Jobs)
  BY <<j>> \in Seq(Jobs), ConcatProperties DEF EnqueueForward
<1> QED
  BY <1>1 DEF EnqueueBack

LEMMA DequeBackType ==
    ASSUME NEW q \in Seq(Jobs), q # <<>>
    PROVE  Back(q) \in Jobs /\ WithoutBack(q) \in Seq(Jobs)
<1>1. Len(q) \in Nat \ {0}
  BY EmptySeq
<1>2. \A i \in 1 .. Len(q) - 1 : q[i] \in Jobs
  BY <1>1, ElementOfSeq
<1>3. WithoutBack(q) \in Seq(Jobs)
  BY <1>1, <1>2, SubSeqProperties DEF WithoutBack
<1>4. Back(q) \in Jobs
  BY <1>1, ElementOfSeq DEF Back
<1> QED
  BY <1>3, <1>4

(***************************************************************************)
(* Type correctness is not inductive alone: a thread that works on a job   *)
(* has one, a fork in progress has a child, and armd_context_destroy joins *)
(* only threads that exist.                                                *)
(***************************************************************************)
HandsFull ==
    \A e \in Executors :
        /\ pc[e] \in Holding => current[e] \in Jobs
        /\ pc[e] = "fork" => child[e] \in Jobs

JoinsExecutor == main_pc = "join" => main_index \in Executors

Typed == TypeOK /\ HandsFull /\ JoinsExecutor

LEMMA NewJobType ==
    ASSUME NEW e \in Executors, NEW d \in BOOLEAN, NEW g \in BOOLEAN
    PROVE  NewJob(e, d, g) \in JobRecord
BY DEF NewJob, JobRecord, Result

LEMMA WokenType ==
    ASSUME NEW pcs \in [Executors -> PC]
    PROVE  /\ Woken(pcs) \in [Executors -> PC]
           /\ \A e \in Executors : /\ Woken(pcs)[e] \in Holding <=> pcs[e] \in Holding
                                   /\ Woken(pcs)[e] = "fork" <=> pcs[e] = "fork"
BY DEF Woken, PC, Holding

LEMMA GarbageType == Garbage \subseteq BOOLEAN
BY DEF Garbage

LEMMA ExecutorsNonempty == 0 \in Executors
BY NumExecutorsAssumption DEF Executors

LEMMA TypedInit == Init => Typed
<1> SUFFICES ASSUME Init PROVE Typed
  OBVIOUS
<1>1. TypeOK
  <2>1. deque \in [Executors -> Seq(Jobs)]
    BY EmptySeq DEF Init
  <2>2. job \in [Jobs -> JobRecord]
    BY NewJobType, ExecutorsNonempty DEF Init
  <2>3. /\ pc \in [Executors -> PC]
        /\ main_index \in 0 .. NumExecutors
        /\ free_job_count \in 0 .. SizeMax
    BY SizeMaxAssumption, NumExecutorsAssumption DEF Init, PC
  <2> QED
    BY <2>1, <2>2, <2>3 DEF Init, TypeOK
<1>2. HandsFull
  BY DEF Init, HandsFull, Holding
<1>3. JoinsExecutor
  BY DEF Init, JoinsExecutor
<1> QED
  BY <1>1, <1>2, <1>3 DEF Typed

(***************************************************************************)
(* What the steps that write job records do to them.  Only the fields the  *)
(* join protocol is about are named.                                       *)
(***************************************************************************)
SameJoin(k) ==
    /\ job'[k].parent_finished = job[k].parent_finished
    /\ job'[k].num_all_waiting_jobs = job[k].num_all_waiting_jobs
    /\ job'[k].num_ended_waiting_jobs = job[k].num_ended_waiting_jobs

LEMMA HeldJob ==
    ASSUME Typed, NEW e \in Executors, pc[e] \in Holding
    PROVE  /\ current[e] \in Jobs
           /\ current[e] # NoJob
           /\ job \in [Jobs -> JobRecord]
           /\ job[current[e]] \in JobRecord
BY JobsAssumption DEF Typed, TypeOK, HandsFull

LEMMA StolenEffect ==
    ASSUME Typed, NEW e \in Executors, NEW j \in Jobs, job' = Stolen(j, e)
    PROVE  /\ job' \in [Jobs -> JobRecord]
           /\ \A k \in Jobs : SameJoin(k)
<1> DEFINE new == [job[j] EXCEPT !.executor = e]
<1>1. job \in [Jobs -> JobRecord] /\ job[j] \in JobRecord
  BY DEF Typed, TypeOK
<1>2. /\ new \in JobRecord
      /\ new.parent_finished = job[j].parent_finished
      /\ new.num_all_waiting_jobs = job[j].num_all_waiting_jobs
      /\ new.num_ended_waiting_jobs = job[j].num_ended_waiting_jobs
  BY <1>1 DEF JobRecord
<1>3. job' = [job EXCEPT ![j] = new]
  BY DEF Stolen
<1> HIDE DEF new
<1> QED
  BY <1>1, <1>2, <1>3 DEF SameJoin

LEMMA ToldEffect ==
    ASSUME Typed, NEW j \in Jobs, NEW r, job' = Told(j, r)
    PROVE  /\ job' \in [Jobs -> JobRecord]
           /\ \A k \in Jobs : SameJoin(k)
<1> DEFINE dependency_has_error == job[j].dependency_has_error \/ result[r] = "error"
           new == [job[j] EXCEPT !.dependency_has_error = dependency_has_error]
<1>1. job \in [Jobs -> JobRecord] /\ job[j] \in JobRecord
  BY DEF Typed, TypeOK
<1>2. job' = [job EXCEPT ![j] = new]
  BY DEF Told
<1>3. dependency_has_error \in BOOLEAN
  OBVIOUS
<1> HIDE DEF dependency_has_error
<1>4. /\ new \in JobRecord
      /\ new.parent_finished = job[j].parent_finished
      /\ new.num_all_waiting_jobs = job[j].num_all_waiting_jobs
      /\ new.num_ended_waiting_jobs = job[j].num_ended_waiting_jobs
  BY <1>1, <1>3 DEF JobRecord
<1> HIDE DEF new
<1> QED
  BY <1>1, <1>2, <1>4 DEF SameJoin

LEMMA ExecuteSetupEffect ==
    ASSUME Typed, NEW e \in Executors, ExecuteSetup(e)
    PROVE  /\ job' \in [Jobs -> JobRecord]
           /\ \A k \in Jobs : SameJoin(k)
<1> DEFINE j == current[e]
           has_error == job[j].has_error \/ job[j].dependency_has_error
<1>1. j \in Jobs /\ job \in [Jobs -> JobRecord]
  BY HeldJob DEF ExecuteSetup, Holding
<1>2. job' = [job EXCEPT ![j] = [@ EXCEPT !.setup_executed = TRUE, !.has_error = has_error]]
  BY DEF ExecuteSetup
<1>3. has_error \in BOOLEAN
  OBVIOUS
<1> HIDE DEF j, has_error
<1>4. [job[j] EXCEPT !.setup_executed = TRUE, !.has_error = has_error] \in JobRecord
  BY <1>1, <1>3 DEF JobRecord
<1> QED
  BY <1>1, <1>2, <1>4 DEF SameJoin, JobRecord

LEMMA FailSetupEffect ==
    ASSUME Typed, NEW e \in Executors, FailSetup(e)
    PROVE  /\ job' \in [Jobs -> JobRecord]
           /\ \A k \in Jobs : SameJoin(k)
<1> DEFINE j == current[e]
<1>1. j \in Jobs /\ job \in [Jobs -> JobRecord]
  BY HeldJob DEF FailSetup, Holding
<1>2. job' = [job EXCEPT ![j] = [@ EXCEPT !.has_error = TRUE]]
  BY DEF FailSetup
<1> HIDE DEF j
<1>3. [job[j] EXCEPT !.has_error = TRUE] \in JobRecord
  BY <1>1 DEF JobRecord
<1> QED
  BY <1>1, <1>2, <1>3 DEF SameJoin, JobRecord

LEMMA UndoForkEffect ==
    ASSUME Typed, NEW e \in Executors, UndoFork(e)
    PROVE  /\ job' \in [Jobs -> JobRecord]
           /\ job'[current[e]].parent_finished = job[current[e]].parent_finished
           /\ job'[current[e]].num_all_waiting_jobs = job[current[e]].num_all_waiting_jobs - 1
           /\ job'[current[e]].num_ended_waiting_jobs = job[current[e]].num_ended_waiting_jobs
           /\ \A k \in Jobs \ {current[e]} : SameJoin(k)
<1> DEFINE p == current[e]
           all == job[p].num_all_waiting_jobs - 1
           new == [job[p] EXCEPT !.num_all_waiting_jobs = all]
<1>1. p \in Jobs /\ job \in [Jobs -> JobRecord]
  BY HeldJob DEF UndoFork, Holding
<1>2. job' = [job EXCEPT ![p] = new]
  BY DEF UndoFork
<1>3. job[p] \in JobRecord /\ all \in Int
  BY <1>1 DEF JobRecord
<1>4. /\ new \in JobRecord
      /\ new.parent_finished = job[p].parent_finished
      /\ new.num_all_waiting_jobs = all
      /\ new.num_ended_waiting_jobs = job[p].num_ended_waiting_jobs
  <2> HIDE DEF p, all
  <2> QED
    BY <1>3 DEF JobRecord
<1> HIDE DEF p, new
<1>5. job' \in [Jobs -> JobRecord] /\ job'[p] = new /\ \A k \in Jobs \ {p} : job'[k] = job[k]
  BY <1>1, <1>2, <1>4
<1> QED
  BY <1>4, <1>5 DEF SameJoin, p

LEMMA BeginStepEffect ==
    ASSUME Typed, NEW e \in Executors, BeginStep(e)
    PROVE  /\ job' \in [Jobs -> JobRecord]
           /\ job'[current[e]].parent_finished = FALSE
           /\ job'[current[e]].num_all_waiting_jobs = 1
           /\ job'[current[e]].num_ended_waiting_jobs = 0
           /\ \A k \in Jobs \ {current[e]} : SameJoin(k)
<1> DEFINE j == current[e]
           share == OwnShare
           none == 0
           new == [job[j] EXCEPT !.parent_finished = FALSE,
                                 !.num_all_waiting_jobs = share,
                                 !.num_ended_waiting_jobs = none,
                                 !.continuation_frame = TRUE]
<1>1. j \in Jobs /\ job \in [Jobs -> JobRecord]
  BY HeldJob DEF BeginStep, Holding
<1>2. job' = [job EXCEPT ![j] = new]
  BY DEF BeginStep
<1>3. share \in Int /\ share = 1 /\ none \in Nat /\ none = 0
  BY DEF OwnShare
<1>4. job[j] \in JobRecord
  BY <1>1
<1> HIDE DEF j, share, none
<1>5. /\ new \in JobRecord
      /\ new.parent_finished = FALSE
      /\ new.num_all_waiting_jobs = share
      /\ new.num_ended_waiting_jobs = none
  BY <1>3, <1>4 DEF JobRecord
<1> HIDE DEF new
<1>6. job' \in [Jobs -> JobRecord] /\ job'[j] = new /\ \A k \in Jobs \ {j} : job'[k] = job[k]
  BY <1>1, <1>2, <1>5
<1> QED
  BY <1>3, <1>5, <1>6 DEF SameJoin, j

LEMMA ForkEffect ==
    ASSUME Typed, NEW e \in Executors, NEW j \in Jobs, NEW target \in Executors,
           Fork(e, j, target), j # current[e]
    PROVE  /\ job' \in [Jobs -> JobRecord]
           /\ job'[j].parent_finished = FALSE
           /\ job'[j].num_all_waiting_jobs = 0
           /\ job'[j].num_ended_waiting_jobs = 0
           /\ job'[current[e]].parent_finished = job[current[e]].parent_finished
           /\ job'[current[e]].num_all_waiting_jobs = job[current[e]].num_all_waiting_jobs + 1
           /\ job'[current[e]].num_ended_waiting_jobs = job[current[e]].num_ended_waiting_jobs
           /\ \A k \in Jobs \ {j, current[e]} : SameJoin(k)
<1> PICK garbage \in Garbage :
        job' = [job EXCEPT ![j] = NewJob(target, FALSE, garbage),
                           ![current[e]] = [@ EXCEPT !.num_all_waiting_jobs
                                                 = job[current[e]].num_all_waiting_jobs + 1]]
  BY DEF Fork
<1> DEFINE p == current[e]
           new == NewJob(target, FALSE, garbage)
           par == [job[p] EXCEPT !.num_all_waiting_jobs
                                = job[p].num_all_waiting_jobs + 1]
<1>1. p \in Jobs /\ job \in [Jobs -> JobRecord]
  BY HeldJob DEF Fork, Holding
<1>2. job' = [job EXCEPT ![j] = new, ![p] = par]
  OBVIOUS
<1>3. /\ new \in JobRecord
      /\ new.parent_finished = FALSE
      /\ new.num_all_waiting_jobs = 0
      /\ new.num_ended_waiting_jobs = 0
  BY NewJobType, GarbageType DEF NewJob
<1>4. /\ par \in JobRecord
      /\ par.parent_finished = job[p].parent_finished
      /\ par.num_all_waiting_jobs = job[p].num_all_waiting_jobs + 1
      /\ par.num_ended_waiting_jobs = job[p].num_ended_waiting_jobs
  BY <1>1 DEF JobRecord
<1>5. p # j
  OBVIOUS
<1> HIDE DEF p, new, par
<1>6. /\ job' \in [Jobs -> JobRecord]
      /\ job'[j] = new
      /\ job'[p] = par
      /\ \A k \in Jobs \ {j, p} : job'[k] = job[k]
  BY <1>1, <1>2, <1>3, <1>4, <1>5
<1> QED
  BY <1>3, <1>4, <1>6 DEF SameJoin, p

LEMMA EndStepEffect ==
    ASSUME Typed, NEW e \in Executors, NEW r \in Result, EndStep(e, r)
    PROVE  /\ job' \in [Jobs -> JobRecord]
           /\ job'[current[e]].parent_finished = TRUE
           /\ job'[current[e]].num_all_waiting_jobs = job[current[e]].num_all_waiting_jobs
           /\ job'[current[e]].num_ended_waiting_jobs
                = job[current[e]].num_ended_waiting_jobs + 1
           /\ \A k \in Jobs \ {current[e]} : SameJoin(k)
<1> DEFINE j == current[e]
           has_error == job[j].has_error \/ r = "Error"
           ended == job[j].num_ended_waiting_jobs + 1
           new == [job[j] EXCEPT !.continuation_result = r,
                                 !.has_error = has_error,
                                 !.parent_finished = TRUE,
                                 !.num_ended_waiting_jobs = ended]
<1>1. j \in Jobs /\ job \in [Jobs -> JobRecord]
  BY HeldJob DEF EndStep, Holding
<1>2. job' = [job EXCEPT ![j] = new]
  BY DEF EndStep
<1>3. has_error \in BOOLEAN /\ ended \in Nat
  BY <1>1 DEF JobRecord
<1>4. /\ new \in JobRecord
      /\ new.parent_finished = TRUE
      /\ new.num_all_waiting_jobs = job[j].num_all_waiting_jobs
      /\ new.num_ended_waiting_jobs = ended
  <2> HIDE DEF j, has_error, ended
  <2> QED
    BY <1>1, <1>3 DEF JobRecord
<1> HIDE DEF j, new
<1>5. job' \in [Jobs -> JobRecord] /\ job'[j] = new /\ \A k \in Jobs \ {j} : job'[k] = job[k]
  BY <1>1, <1>2, <1>4
<1> QED
  BY <1>4, <1>5 DEF SameJoin, j

LEMMA MoveToNextEffect ==
    ASSUME Typed, NEW e \in Executors, NEW r \in Result, MoveToNext(e, r)
    PROVE  /\ job' \in [Jobs -> JobRecord]
           /\ \A k \in Jobs : SameJoin(k)
<1> DEFINE j == current[e]
           frame == job[j].continuation_frame /\ KeepsFrame(r)
           index == job[j].continuation_index + (IF r = "Ended" THEN 1 ELSE 0)
<1>1. j \in Jobs /\ job \in [Jobs -> JobRecord]
  BY HeldJob DEF MoveToNext, Holding
<1>2. job' = [job EXCEPT ![j] = [@ EXCEPT !.continuation_frame = frame,
                                          !.continuation_index = index]]
  BY DEF MoveToNext
<1>3. frame \in BOOLEAN
  BY DEF KeepsFrame
<1>4. index \in Nat
  BY <1>1 DEF JobRecord
<1> HIDE DEF j, frame, index
<1>5. [job[j] EXCEPT !.continuation_frame = frame, !.continuation_index = index] \in JobRecord
  BY <1>1, <1>3, <1>4 DEF JobRecord
<1> QED
  BY <1>1, <1>2, <1>5 DEF SameJoin, JobRecord

LEMMA NotifyParentEffect ==
    ASSUME Typed, NEW e \in Executors, NotifyParent(e), NEW p, p = parent[current[e]]
    PROVE  /\ p \in Jobs
           /\ job' \in [Jobs -> JobRecord]
           /\ job'[p].parent_finished = job[p].parent_finished
           /\ job'[p].num_all_waiting_jobs = job[p].num_all_waiting_jobs
           /\ job'[p].num_ended_waiting_jobs = job[p].num_ended_waiting_jobs + 1
           /\ \A k \in Jobs \ {p} : SameJoin(k)
<1> DEFINE j == current[e]
           ended == job[p].num_ended_waiting_jobs + 1
           enabled == JoinReady(job[p].parent_finished, job[p].num_all_waiting_jobs, ended)
           has_error == job[p].has_error \/ job[j].has_error
           executor == IF enabled THEN e ELSE job[p].executor
           new == [job[p] EXCEPT !.num_ended_waiting_jobs = ended,
                                 !.has_error = has_error,
                                 !.executor = executor]
<1>1. j \in Jobs /\ p \in Jobs /\ job \in [Jobs -> JobRecord]
  BY HeldJob DEF Typed, TypeOK, NotifyParent, Holding
<1>2. job' = [job EXCEPT ![p] = new]
  BY DEF NotifyParent
<1>3. has_error \in BOOLEAN
  OBVIOUS
<1>4. ended \in Nat /\ executor \in Executors
  BY <1>1 DEF JobRecord
<1>5. /\ new \in JobRecord
      /\ new.parent_finished = job[p].parent_finished
      /\ new.num_all_waiting_jobs = job[p].num_all_waiting_jobs
      /\ new.num_ended_waiting_jobs = ended
  <2>1. job[p] \in JobRecord
    BY <1>1
  <2> HIDE DEF j, has_error, ended, executor, enabled
  <2> QED
    BY <2>1, <1>3, <1>4 DEF JobRecord
<1> HIDE DEF j, new
<1>6. job' \in [Jobs -> JobRecord] /\ job'[p] = new /\ \A k \in Jobs \ {p} : job'[k] = job[k]
  BY <1>1, <1>2, <1>5
<1> QED
  BY <1>1, <1>5, <1>6 DEF SameJoin

LEMMA InvokeEffect ==
    ASSUME Typed, NEW c \in Clients, NEW j \in Jobs, Invoke(c, j)
    PROVE  /\ job' \in [Jobs -> JobRecord]
           /\ job'[j].parent_finished = FALSE
           /\ job'[j].num_all_waiting_jobs = 0
           /\ job'[j].num_ended_waiting_jobs = 0
           /\ \A k \in Jobs \ {j} : SameJoin(k)
<1> PICK d \in DependencyErrors, g \in Garbage : job' = [job EXCEPT ![j] = NewJob(0, d, g)]
  BY DEF Invoke
<1> DEFINE new == NewJob(0, d, g)
<1>1. /\ new \in JobRecord
      /\ new.parent_finished = FALSE
      /\ new.num_all_waiting_jobs = 0
      /\ new.num_ended_waiting_jobs = 0
  BY NewJobType, GarbageType, FlagsAssumption, ExecutorsNonempty DEF NewJob
<1>2. job' = [job EXCEPT ![j] = new] /\ job \in [Jobs -> JobRecord]
  BY DEF Typed, TypeOK
<1> HIDE DEF new
<1>3. job' \in [Jobs -> JobRecord] /\ job'[j] = new /\ \A k \in Jobs \ {j} : job'[k] = job[k]
  BY <1>1, <1>2
<1> QED
  BY <1>1, <1>3 DEF SameJoin

LEMMA TypedExecutorStep ==
    ASSUME Typed, NEW e \in Executors, ExecutorStep(e)
    PROVE  Typed'
<1> USE DEF Goto, dequeVars, jobVars, promiseVars, contextVars, PC, Holding
<1>1. CASE DequeueLocal(e)
  <2>1. CASE deque[e] = <<>>
    BY <1>1, <2>1, ZenonT(60) DEF Typed, TypeOK, HandsFull, JoinsExecutor, DequeueLocal
  <2>2. CASE deque[e] # <<>>
    <3>1. Front(deque[e]) \in Jobs /\ WithoutFront(deque[e]) \in Seq(Jobs)
      <4>1. deque[e] \in Seq(Jobs)
        BY DEF Typed, TypeOK
      <4> QED
        BY <2>2, <4>1, HeadTailProperties DEF Front, WithoutFront
    <3> DEFINE j == Front(deque[e])
               q == WithoutFront(deque[e])
    <3>2. /\ current' = [current EXCEPT ![e] = j]
          /\ deque' = [deque EXCEPT ![e] = q]
          /\ pc' = [pc EXCEPT ![e] = "take"]
          /\ UNCHANGED <<free_job_count, child, jobVars, client, contextVars>>
      BY <1>1, <2>2 DEF DequeueLocal
    <3> HIDE DEF j, q
    <3>3. TypeOK'
      BY <3>1, <3>2 DEF Typed, TypeOK, j, q
    <3>4. HandsFull' /\ JoinsExecutor'
      BY <3>1, <3>2 DEF Typed, TypeOK, HandsFull, JoinsExecutor, j, q
    <3> QED
      BY <3>3, <3>4 DEF Typed
  <2> QED
    BY <2>1, <2>2
<1>2. CASE Sleep(e)
  BY <1>2 DEF Typed, TypeOK, HandsFull, JoinsExecutor, Sleep
<1>3. CASE GoStealing(e)
  BY <1>3 DEF Typed, TypeOK, HandsFull, JoinsExecutor, GoStealing
<1>4. CASE \E victim \in Executors : Steal(e, victim)
  <2> PICK victim \in Executors : Steal(e, victim)
    BY <1>4
  <2>1. CASE deque[victim] = <<>>
    BY <2>1, ZenonT(60) DEF Typed, TypeOK, HandsFull, JoinsExecutor, Steal
  <2>2. CASE deque[victim] # <<>>
    <3> DEFINE j == Back(deque[victim])
    <3>1. j \in Jobs /\ WithoutBack(deque[victim]) \in Seq(Jobs)
      BY <2>2, DequeBackType DEF Typed, TypeOK
    <3>2. job' \in [Jobs -> JobRecord]
      BY <2>2, <3>1, StolenEffect DEF Steal
    <3> HIDE DEF j
    <3>3. /\ current' = [current EXCEPT ![e] = j]
          /\ deque' = [deque EXCEPT ![victim] = WithoutBack(deque[victim])]
      BY <2>2 DEF Steal, j
    <3>4. TypeOK'
      BY <2>2, <3>1, <3>2, <3>3 DEF Typed, TypeOK, Steal
    <3>5. HandsFull' /\ JoinsExecutor'
      BY <2>2, <3>1, <3>3 DEF Typed, TypeOK, HandsFull, JoinsExecutor, Steal
    <3> QED
      BY <3>4, <3>5 DEF Typed
  <2> QED
    BY <2>1, <2>2
<1>5. CASE Take(e)
  <2>1. free_job_count' \in 0 .. SizeMax
    BY <1>5, SizeMaxAssumption DEF Typed, TypeOK, Take, Dec
  <2> QED
    BY <1>5, <2>1 DEF Typed, TypeOK, HandsFull, JoinsExecutor, Take
<1>6. CASE Exit(e)
  BY <1>6 DEF Typed, TypeOK, HandsFull, JoinsExecutor, Exit
<1>7. CASE ExecuteSetup(e)
  <2>1. TypeOK'
    BY <1>7, ExecuteSetupEffect DEF Typed, TypeOK, ExecuteSetup
  <2>2. HandsFull' /\ JoinsExecutor'
    BY <1>7 DEF Typed, TypeOK, HandsFull, JoinsExecutor, ExecuteSetup
  <2> QED
    BY <2>1, <2>2 DEF Typed
<1>8. CASE BeginStep(e)
  <2>1. TypeOK'
    BY <1>8, BeginStepEffect DEF Typed, TypeOK, BeginStep
  <2>2. HandsFull' /\ JoinsExecutor'
    BY <1>8 DEF Typed, TypeOK, HandsFull, JoinsExecutor, BeginStep
  <2> QED
    BY <2>1, <2>2 DEF Typed
<1>9. CASE EndJob(e)
  BY <1>9 DEF Typed, TypeOK, HandsFull, JoinsExecutor, EndJob
<1>10. CASE \E k \in Jobs, target \in Executors : Fork(e, k, target)
  <2> PICK k \in Jobs, target \in Executors : Fork(e, k, target)
    BY <1>10
  <2>1. current[e] \in Jobs
    BY HeldJob DEF Fork
  <2>2. job' \in [Jobs -> JobRecord]
    <3> DEFINE p == current[e]
               par == [job[p] EXCEPT !.num_all_waiting_jobs
                                        = job[p].num_all_waiting_jobs + 1]
    <3> PICK garbage \in Garbage :
            job' = [job EXCEPT ![k] = NewJob(target, FALSE, garbage), ![p] = par]
      BY DEF Fork
    <3> DEFINE new == NewJob(target, FALSE, garbage)
    <3>1. new \in JobRecord
      BY NewJobType, GarbageType
    <3>2. job \in [Jobs -> JobRecord] /\ p \in Jobs
      BY <2>1 DEF Typed, TypeOK
    <3>3. par \in JobRecord
      <4>1. job[p] \in JobRecord
        BY <3>2
      <4> HIDE DEF p
      <4> QED
        BY <4>1 DEF JobRecord
    <3>4. job' = [job EXCEPT ![k] = new, ![p] = par]
      OBVIOUS
    <3> HIDE DEF p, par, new
    <3> QED
      BY <3>1, <3>2, <3>3, <3>4
  <2>3. TypeOK'
    BY <2>1, <2>2 DEF Typed, TypeOK, Fork
  <2>4. HandsFull' /\ JoinsExecutor'
    BY DEF Typed, TypeOK, HandsFull, JoinsExecutor, Fork
  <2> QED
    BY <2>3, <2>4 DEF Typed
<1>11. CASE EnqueueFork(e)
  <2>1. child[e] \in Jobs /\ job[child[e]].executor \in Executors
    BY <1>11 DEF Typed, TypeOK, HandsFull, EnqueueFork, JobRecord
  <2>2. deque' \in [Executors -> Seq(Jobs)]
    BY <1>11, <2>1, DequeTypes DEF Typed, TypeOK, EnqueueFork
  <2>3. TypeOK'
    BY <1>11, <2>2 DEF Typed, TypeOK, EnqueueFork
  <2>4. HandsFull' /\ JoinsExecutor'
    BY <1>11 DEF Typed, TypeOK, HandsFull, JoinsExecutor, EnqueueFork
  <2> QED
    BY <2>3, <2>4 DEF Typed
<1>12. CASE SignalFork(e)
  <2> DEFINE pcs == [pc EXCEPT ![e] = "step"]
  <2>1. free_job_count' \in 0 .. SizeMax
    BY <1>12, SizeMaxAssumption DEF Typed, TypeOK, SignalFork, Inc
  <2>2. pcs \in [Executors -> PC] /\ pc' = Woken(pcs)
    BY <1>12 DEF Typed, TypeOK, SignalFork
  <2>3. \A f \in Executors : /\ pcs[f] \in Holding <=> pc[f] \in Holding
                             /\ pcs[f] = "fork" => pc[f] = "fork"
    BY <1>12 DEF Typed, TypeOK, SignalFork
  <2> HIDE DEF pcs
  <2>4. TypeOK'
    <3>1. pc' \in [Executors -> PC]
      BY <2>2, WokenType
    <3> QED
      BY <1>12, <2>1, <3>1 DEF Typed, TypeOK, SignalFork
  <2>5. HandsFull' /\ JoinsExecutor'
    BY <1>12, <2>2, <2>3, WokenType DEF Typed, HandsFull, JoinsExecutor, SignalFork
  <2> QED
    BY <2>4, <2>5 DEF Typed
<1>13. CASE \E r \in Result : EndStep(e, r)
  <2> PICK r \in Result : EndStep(e, r)
    BY <1>13
  <2>1. TypeOK'
    BY EndStepEffect, ZenonT(60) DEF Typed, TypeOK, EndStep
  <2>2. HandsFull'
    BY ZenonT(60) DEF Typed, TypeOK, HandsFull, EndStep
  <2>3. JoinsExecutor'
    BY DEF Typed, TypeOK, JoinsExecutor, EndStep
  <2> QED
    BY <2>1, <2>2, <2>3 DEF Typed
<1>14. CASE \E r \in Result : MoveToNext(e, r)
  <2> PICK r \in Result : MoveToNext(e, r)
    BY <1>14
  <2>1. TypeOK'
    BY MoveToNextEffect DEF Typed, TypeOK, MoveToNext
  <2>2. HandsFull' /\ JoinsExecutor'
    BY DEF Typed, TypeOK, HandsFull, JoinsExecutor, MoveToNext
  <2> QED
    BY <2>1, <2>2 DEF Typed
<1>15. CASE NotifyParent(e)
  <2> DEFINE j == current[e]
             p == parent[j]
             enabled == JoinReady(job[p].parent_finished, job[p].num_all_waiting_jobs,
                                  job[p].num_ended_waiting_jobs + 1)
  <2>1. j \in Jobs /\ p \in Jobs /\ job' \in [Jobs -> JobRecord]
    BY <1>15, HeldJob, NotifyParentEffect DEF NotifyParent
  <2>2. /\ phase' = [phase EXCEPT ![j] = "destroyed"]
        /\ current' = [current EXCEPT ![e] = IF enabled THEN p ELSE NoJob]
        /\ pc' = [pc EXCEPT ![e] = IF enabled THEN AfterLastChild(pc[e]) ELSE "idle"]
        /\ AfterLastChild(pc[e]) \in {"run", "next"}
        /\ UNCHANGED <<deque, free_job_count, child, parent, result, waits, client,
                       running, context_ready, main_pc, main_index, destroy_status>>
    BY <1>15 DEF NotifyParent, AfterLastChild
  <2> HIDE DEF j, p, enabled
  <2>3. TypeOK'
    BY <2>1, <2>2 DEF Typed, TypeOK
  <2>4. HandsFull' /\ JoinsExecutor'
    BY <2>1, <2>2 DEF Typed, TypeOK, HandsFull, JoinsExecutor
  <2> QED
    BY <2>3, <2>4 DEF Typed
<1>16. CASE CompleteRoot(e)
  BY <1>16 DEF Typed, TypeOK, HandsFull, JoinsExecutor, CompleteRoot
<1>17. CASE WaitForContext(e)
  BY <1>17 DEF Typed, TypeOK, HandsFull, JoinsExecutor, WaitForContext
<1>18. CASE Start(e)
  BY <1>18 DEF Typed, TypeOK, HandsFull, JoinsExecutor, Start
<1>19. CASE FailSetup(e)
  <2>1. TypeOK'
    BY <1>19, FailSetupEffect DEF Typed, TypeOK, FailSetup
  <2>2. HandsFull' /\ JoinsExecutor'
    BY <1>19 DEF Typed, TypeOK, HandsFull, JoinsExecutor, FailSetup
  <2> QED
    BY <2>1, <2>2 DEF Typed
<1>20. CASE RefuseFork(e)
  BY <1>20 DEF Typed, TypeOK, HandsFull, JoinsExecutor, RefuseFork
<1>21. CASE UndoFork(e)
  <2>1. TypeOK'
    BY <1>21, UndoForkEffect DEF Typed, TypeOK, UndoFork
  <2>2. HandsFull' /\ JoinsExecutor'
    BY <1>21 DEF Typed, TypeOK, HandsFull, JoinsExecutor, UndoFork
  <2> QED
    BY <2>1, <2>2 DEF Typed
<1>22. CASE \E k \in Roots : Release(e, k)
  <2> PICK k \in Roots : Release(e, k)
    BY <1>22
  <2>1. k \in Jobs /\ job[k].executor \in Executors
    BY JobsAssumption DEF Typed, TypeOK, JobRecord
  <2>2. deque' \in [Executors -> Seq(Jobs)]
    BY <2>1, DequeTypes DEF Typed, TypeOK, Release
  <2>3. TypeOK'
    BY <2>1, <2>2, ToldEffect DEF Typed, TypeOK, Release
  <2>4. HandsFull' /\ JoinsExecutor'
    BY DEF Typed, TypeOK, HandsFull, JoinsExecutor, Release, AwaitsRootOf
  <2> QED
    BY <2>3, <2>4 DEF Typed
<1>23. CASE \E k \in Roots : Lose(e, k)
  <2> PICK k \in Roots : Lose(e, k)
    BY <1>23
  <2>1. k \in Jobs
    BY JobsAssumption
  <2>2. TypeOK'
    BY <2>1, ToldEffect DEF Typed, TypeOK, Lose
  <2>3. HandsFull' /\ JoinsExecutor'
    BY DEF Typed, TypeOK, HandsFull, JoinsExecutor, Lose, AwaitsRootOf
  <2> QED
    BY <2>2, <2>3 DEF Typed
<1>24. CASE Announce(e)
  <2> DEFINE pcs == [pc EXCEPT ![e] = "release"]
  <2>1. free_job_count' \in 0 .. SizeMax
    BY <1>24, SizeMaxAssumption DEF Typed, TypeOK, Announce, Inc
  <2>2. pcs \in [Executors -> PC] /\ pc' = Woken(pcs)
    BY <1>24 DEF Typed, TypeOK, Announce
  <2>3. \A f \in Executors : /\ pcs[f] \in Holding <=> pc[f] \in Holding
                             /\ pcs[f] = "fork" => pc[f] = "fork"
    BY <1>24 DEF Typed, TypeOK, Announce
  <2> HIDE DEF pcs
  <2>4. TypeOK'
    <3>1. pc' \in [Executors -> PC]
      BY <2>2, WokenType
    <3> QED
      BY <1>24, <2>1, <3>1 DEF Typed, TypeOK, Announce
  <2>5. HandsFull' /\ JoinsExecutor'
    BY <1>24, <2>2, <2>3, WokenType DEF Typed, HandsFull, JoinsExecutor, Announce
  <2> QED
    BY <2>4, <2>5 DEF Typed
<1>25. CASE DestroyRoot(e)
  BY <1>25 DEF Typed, TypeOK, HandsFull, JoinsExecutor, DestroyRoot
<1> QED
  BY <1>1, <1>2, <1>3, <1>4, <1>5, <1>6, <1>7, <1>8, <1>9, <1>10, <1>11, <1>12,
     <1>13, <1>14, <1>15, <1>16, <1>17, <1>18, <1>19, <1>20, <1>21, <1>22, <1>23,
     <1>24, <1>25 DEF ExecutorStep

LEMMA TypedStep == Typed /\ [Next]_vars => Typed'
<1> SUFFICES ASSUME Typed, [Next]_vars PROVE Typed'
  OBVIOUS
<1> USE DEF dequeVars, threadVars, jobVars, promiseVars, contextVars
<1>1. CASE \E e \in Executors : ExecutorStep(e)
  BY <1>1, TypedExecutorStep
<1>2. CASE \E e \in Executors : SpuriousWakeup(e)
  BY <1>2 DEF Typed, TypeOK, HandsFull, JoinsExecutor, SpuriousWakeup, Goto, PC, Holding
<1>3. CASE \E c \in Clients : SignalInvoke(c)
  <2> PICK c \in Clients : SignalInvoke(c)
    BY <1>3
  <2>1. free_job_count' \in 0 .. SizeMax
    BY SizeMaxAssumption DEF Typed, TypeOK, SignalInvoke, Inc
  <2>2. TypeOK'
    BY <2>1, WokenType DEF Typed, TypeOK, SignalInvoke
  <2>3. HandsFull' /\ JoinsExecutor'
    BY WokenType, SMTT(30) DEF Typed, TypeOK, HandsFull, JoinsExecutor, SignalInvoke
  <2> QED
    BY <2>2, <2>3 DEF Typed
<1>4. CASE \E c \in Clients, j \in Jobs : Invoke(c, j)
  <2> PICK c \in Clients, j \in Jobs : Invoke(c, j)
    BY <1>4
  <2>1. deque' \in [Executors -> Seq(Jobs)]
    <3>1. CASE deque' = deque
      BY <3>1 DEF Typed, TypeOK
    <3>2. CASE deque' = [deque EXCEPT ![0] = EnqueueBack(deque[0], j)]
      BY <3>2, ExecutorsNonempty, DequeTypes DEF Typed, TypeOK
    <3> QED
      BY <3>1, <3>2 DEF Invoke
  <2>2. /\ phase' \in [Jobs -> {"unborn", "pending", "live", "destroyed", "lost"}]
        /\ waits' \in [Jobs -> Roots \cup {NoJob}]
    <3>1. CASE phase' = [phase EXCEPT ![j] = "live"] /\ UNCHANGED waits
      BY <3>1 DEF Typed, TypeOK
    <3>2. ASSUME NEW last \in Roots, phase' = [phase EXCEPT ![j] = "pending"],
                 waits' = [waits EXCEPT ![j] = last]
          PROVE  /\ phase' \in [Jobs -> {"unborn", "pending", "live", "destroyed", "lost"}]
                 /\ waits' \in [Jobs -> Roots \cup {NoJob}]
      BY <3>2 DEF Typed, TypeOK
    <3> QED
      BY <3>1, <3>2 DEF Invoke
  <2>3. TypeOK'
    <3>1. job' \in [Jobs -> JobRecord]
      BY InvokeEffect
    <3>2. /\ result' = [result EXCEPT ![j] = "pending"]
          /\ client' = [client EXCEPT ![c] = "signal"]
          /\ UNCHANGED <<free_job_count, pc, current, child, parent, running, context_ready,
                         main_pc, main_index, destroy_status>>
      BY DEF Invoke
    <3> QED
      BY <2>1, <2>2, <3>1, <3>2 DEF Typed, TypeOK
  <2>4. HandsFull' /\ JoinsExecutor'
    BY DEF Typed, HandsFull, JoinsExecutor, Invoke
  <2> QED
    BY <2>3, <2>4 DEF Typed
<1>5. CASE BeginDestroy
  BY <1>5 DEF Typed, TypeOK, HandsFull, JoinsExecutor, BeginDestroy
<1>6. CASE StopExecutor
  <2>1. main_index \in Executors
    BY <1>6, NumExecutorsAssumption DEF Typed, TypeOK, StopExecutor, Executors
  <2> QED
    BY <1>6, <2>1, WokenType DEF Typed, TypeOK, HandsFull, JoinsExecutor, StopExecutor
<1>7. CASE JoinExecutor
  <2>1. main_index' \in 0 .. NumExecutors
    BY <1>7, NumExecutorsAssumption DEF Typed, JoinsExecutor, JoinExecutor, Executors
  <2> QED
    BY <1>7, <2>1 DEF Typed, TypeOK, HandsFull, JoinsExecutor, JoinExecutor
<1>8. CASE DestroyExecutors
  BY <1>8 DEF Typed, TypeOK, HandsFull, JoinsExecutor, DestroyExecutors
<1>9. CASE UNCHANGED vars
  BY <1>9 DEF vars, Typed, TypeOK, HandsFull, JoinsExecutor
<1>10. CASE CreateExecutor
  <2>1. main_index \in Executors /\ main_index' \in 0 .. NumExecutors
    BY <1>10, NumExecutorsAssumption DEF Typed, TypeOK, CreateExecutor, Executors
  <2>2. /\ running' \in [Executors -> BOOLEAN]
        /\ pc' \in [Executors -> PC]
        /\ \A e \in Executors : pc'[e] = pc[e] \/ pc'[e] = "boot"
    BY <1>10, <2>1 DEF Typed, TypeOK, CreateExecutor, PC
  <2>3. TypeOK'
    BY <1>10, <2>1, <2>2 DEF Typed, TypeOK, CreateExecutor
  <2>4. HandsFull' /\ JoinsExecutor'
    BY <1>10, <2>2 DEF Typed, HandsFull, JoinsExecutor, CreateExecutor, Holding
  <2> QED
    BY <2>3, <2>4 DEF Typed
<1>11. CASE OpenContext
  <2>1. TypeOK'
    BY <1>11, WokenType, NumExecutorsAssumption DEF Typed, TypeOK, OpenContext
  <2>2. HandsFull' /\ JoinsExecutor'
    BY <1>11, WokenType DEF Typed, TypeOK, HandsFull, JoinsExecutor, OpenContext
  <2> QED
    BY <2>1, <2>2 DEF Typed
<1>12. CASE PassOver
  <2>1. main_index' \in 0 .. NumExecutors
    BY <1>12, NumExecutorsAssumption DEF Typed, TypeOK, PassOver
  <2> QED
    BY <1>12, <2>1 DEF Typed, TypeOK, HandsFull, JoinsExecutor, PassOver
<1> QED
  BY <1>1, <1>2, <1>3, <1>4, <1>5, <1>6, <1>7, <1>8, <1>9, <1>10, <1>11, <1>12
     DEF Next, ContextStep, Terminated

(***************************************************************************)
(* In every reachable state the variables have their types: the executors' *)
(* threads, the deques, the job records and the free job count, which      *)
(* stays in the range of an ARMD_Size although it is decremented at zero.  *)
(***************************************************************************)
THEOREM TypeCorrect == Spec => []TypeOK
<1>1. Spec => []Typed
  BY TypedInit, TypedStep, PTL DEF Spec
<1>2. Typed => TypeOK
  BY DEF Typed
<1> QED
  BY <1>1, <1>2, PTL

-----------------------------------------------------------------------------
(***************************************************************************)
(* Who owns a job: the theorems that stealing, forking, suspending and     *)
(* resuming keep every job in exactly one place, that the fork/join        *)
(* counters are exact, and that children end before their parents.         *)
(***************************************************************************)

-----------------------------------------------------------------------------
(* The inductive invariant *)

\* No job is at two positions of the deques.
DequesDisjoint ==
    \A e, f \in Executors :
        \A i \in 1 .. Len(deque[e]), k \in 1 .. Len(deque[f]) :
            deque[e][i] = deque[f][k] => e = f /\ i = k

HandsDisjoint ==
    /\ \A e, f \in Executors : current[e] = current[f] /\ current[e] # NoJob => e = f
    /\ \A e, f \in Executors : child[e] = child[f] /\ child[e] # NoJob => e = f

NumChildren == [j \in Jobs |-> Cardinality(LiveChildren(j))]

\* A job that waits for nothing: not begun, or between two continuations.
AtRest(j) ==
    /\ phase[j] = "live"
    /\ job[j].num_all_waiting_jobs = job[j].num_ended_waiting_jobs
    /\ NumChildren[j] = 0

\* A job whose continuation function runs waits for its children and itself.
Busy(j) ==
    /\ phase[j] = "live"
    /\ ~job[j].parent_finished
    /\ job[j].num_all_waiting_jobs = job[j].num_ended_waiting_jobs + NumChildren[j] + 1

\* ... and for one child too many after a fork that failed.
Overcounted(j) ==
    /\ phase[j] = "live"
    /\ ~job[j].parent_finished
    /\ job[j].num_all_waiting_jobs = job[j].num_ended_waiting_jobs + NumChildren[j] + 2

\* What a job waits for while the thread that has it in hand is at `label'.
StateAt(label, j) == IF label = "undo" THEN Overcounted(j)
                     ELSE IF label \in InStep THEN Busy(j) ELSE AtRest(j)

\* A job suspended after a step waits for its children, of which it has some.
Waiting(j) ==
    /\ job[j].parent_finished
    /\ job[j].num_all_waiting_jobs = job[j].num_ended_waiting_jobs + NumChildren[j]
    /\ NumChildren[j] > 0

QueuedAtRest == \A j \in Jobs : Queued(j) => AtRest(j) /\ ~Held(j) /\ ~Forking(j)

ForkedAtRest ==
    \A e \in Executors, j \in Jobs :
        child[e] = j => pc[e] = "fork" /\ AtRest(j) /\ ~Held(j)

HeldAsProgrammed ==
    \A e \in Executors, j \in Jobs :
        current[e] = j =>
            /\ pc[e] \in Holding \cup {"exited"}
            /\ StateAt(pc[e], j)

ElsewhereWaiting ==
    \A j \in Jobs :
        phase[j] = "live" /\ ~Queued(j) /\ ~Held(j) /\ ~Forking(j) => Waiting(j)

ParentsLive ==
    \A j \in Jobs : phase[j] = "live" /\ parent[j] # NoJob => phase[parent[j]] = "live"

\* Only jobs that were live once have a parent.
UnbornOrphan ==
    \A j \in Jobs : phase[j] \in {"unborn", "pending", "lost"} => parent[j] = NoJob

(***************************************************************************)
(* OneOwner is not inductive: that a parent resumed by its last child is   *)
(* in nobody's hands follows from the counters, and that the counters are  *)
(* exact follows from where each job is.  So each place has its state of   *)
(* the counters.                                                           *)
(***************************************************************************)
Owned ==
    /\ DequesDisjoint
    /\ HandsDisjoint
    /\ QueuedAtRest
    /\ ForkedAtRest
    /\ HeldAsProgrammed
    /\ ElsewhereWaiting
    /\ ParentsLive
    /\ UnbornOrphan

\* Whose fork it is that is half done.
ForkedByHolder ==
    \A e \in Executors, j \in Jobs : child[e] = j => parent[j] = current[e]

\* Where a thread holds promise_manager.mutex to complete a promise.
Completes == {"release", "announce"}

OneCompletes == \A e, f \in Executors : pc[e] \in Completes /\ pc[f] \in Completes => e = f

CompletesForRoot == \A e \in Executors : pc[e] \in Completes => parent[current[e]] = NoJob

\* A pending job waits for nothing but the promise that is to release it.
PendingPromised ==
    \A j \in Jobs :
        phase[j] = "pending" =>
            /\ j \in Roots /\ waits[j] \in Roots
            /\ result[waits[j]] = "pending" \/ Completing(waits[j])

PendingSettled ==
    \A j \in Jobs :
        phase[j] = "pending" => job[j].num_all_waiting_jobs = job[j].num_ended_waiting_jobs

Promised == OneCompletes /\ CompletesForRoot /\ PendingPromised /\ PendingSettled

\* Only a job that was created has to wait.
UnbornWaitsForNone == \A j \in Jobs : phase[j] = "unborn" => waits[j] = NoJob

\* armd_context_create creates the executors in order.
CreatedInOrder ==
    main_pc = "create" => \A e \in Executors : e >= main_index => pc[e] = "unborn"

-----------------------------------------------------------------------------
(* What the operations of the deques do to the sets of queued jobs *)

\* q is the deque p without its element x at i0, of which s is the distance
\* the elements that are left move.
Removed(q, p, x, i0, s) ==
    /\ s \in {0, 1}
    /\ i0 \in 1 .. Len(p)
    /\ i0 = IF s = 1 THEN 1 ELSE Len(p)
    /\ x = p[i0]
    /\ Len(q) = Len(p) - 1
    /\ \A i \in 1 .. Len(q) : q[i] = p[i + s]

LEMMA ElementRemoved ==
    ASSUME Typed, DequesDisjoint, NEW e \in Executors, NEW q \in Seq(Jobs),
           NEW x, NEW i0, NEW s, Removed(q, deque[e], x, i0, s),
           deque' = [deque EXCEPT ![e] = q]
    PROVE  /\ DequesDisjoint'
           /\ Queued(x)
           /\ \A k \in Jobs : Queued(k)' <=> Queued(k) /\ k # x
<1> USE DEF Removed
<1>1. /\ deque \in [Executors -> Seq(Jobs)]
      /\ \A f \in Executors : Len(deque[f]) \in Nat
  BY DEF Typed, TypeOK
<1>2. deque'[e] = q /\ \A f \in Executors \ {e} : deque'[f] = deque[f]
  BY <1>1
<1>3. DequesDisjoint'
  <2> SUFFICES ASSUME NEW f \in Executors, NEW g \in Executors,
                      NEW i \in 1 .. Len(deque'[f]), NEW k \in 1 .. Len(deque'[g]),
                      deque'[f][i] = deque'[g][k]
               PROVE  f = g /\ i = k
    BY DEF DequesDisjoint
  <2> DEFINE shift(h) == IF h = e THEN s ELSE 0
  <2>0. ASSUME NEW h \in Executors, NEW n \in 1 .. Len(deque'[h])
        PROVE  n + shift(h) \in 1 .. Len(deque[h]) /\ deque'[h][n] = deque[h][n + shift(h)]
    <3>1. CASE h = e
      BY <1>1, <1>2, <3>1
    <3>2. CASE h # e
      BY <1>1, <1>2, <3>2
    <3> QED
      BY <3>1, <3>2
  <2>1. /\ i + shift(f) \in 1 .. Len(deque[f]) /\ deque'[f][i] = deque[f][i + shift(f)]
        /\ k + shift(g) \in 1 .. Len(deque[g]) /\ deque'[g][k] = deque[g][k + shift(g)]
    BY <2>0
  <2>2. f = g /\ i + shift(f) = k + shift(g)
    BY <2>1 DEF DequesDisjoint
  <2> QED
    BY <2>2
<1>4. \A f \in Executors : \A i \in 1 .. Len(deque[f]) :
         deque[f][i] = x => f = e /\ i = i0
  BY DEF DequesDisjoint
<1>5. ASSUME NEW k \in Jobs, Queued(k)' PROVE Queued(k) /\ k # x
  <2> PICK f \in Executors : \E i \in 1 .. Len(deque'[f]) : deque'[f][i] = k
    BY <1>5 DEF Queued
  <2> PICK i \in 1 .. Len(deque'[f]) : deque'[f][i] = k
    OBVIOUS
  <2>1. CASE f # e
    BY <1>2, <1>4, <2>1 DEF Queued
  <2>2. CASE f = e
    <3>1. i + s \in 1 .. Len(deque[e]) /\ deque[e][i + s] = k
      BY <1>1, <1>2, <2>2
    <3>2. i + s # i0
      BY <1>1, <1>2, <2>2
    <3> QED
      BY <1>4, <3>1, <3>2 DEF Queued
  <2> QED
    BY <2>1, <2>2
<1>6. ASSUME NEW k \in Jobs, Queued(k), k # x PROVE Queued(k)'
  <2> PICK f \in Executors : \E i \in 1 .. Len(deque[f]) : deque[f][i] = k
    BY <1>6 DEF Queued
  <2> PICK i \in 1 .. Len(deque[f]) : deque[f][i] = k
    OBVIOUS
  <2>1. CASE f # e
    BY <1>2, <2>1 DEF Queued
  <2>2. CASE f = e
    <3>1. i # i0
      BY <1>6, <2>2
    <3>2. i - s \in 1 .. Len(q) /\ (i - s) + s = i
      BY <1>1, <2>2, <3>1
    <3>3. q[i - s] = k
      BY <2>2, <3>2
    <3> QED
      BY <1>2, <2>2, <3>2, <3>3 DEF Queued
  <2> QED
    BY <2>1, <2>2
<1>7. Queued(x)
  BY DEF Queued
<1> QED
  BY <1>3, <1>5, <1>6, <1>7

LEMMA FrontDequeued ==
    ASSUME Typed, DequesDisjoint, NEW e \in Executors, deque[e] # <<>>,
           deque' = [deque EXCEPT ![e] = WithoutFront(deque[e])]
    PROVE  /\ Front(deque[e]) \in Jobs
           /\ DequesDisjoint'
           /\ Queued(Front(deque[e]))
           /\ \A k \in Jobs : Queued(k)' <=> Queued(k) /\ k # Front(deque[e])
<1> DEFINE q == WithoutFront(deque[e])
<1>1. deque[e] \in Seq(Jobs) /\ Len(deque[e]) \in Nat \ {0}
  BY EmptySeq DEF Typed, TypeOK
<1>2. /\ Front(deque[e]) \in Jobs
      /\ q \in Seq(Jobs)
      /\ Len(q) = Len(deque[e]) - 1
      /\ \A i \in 1 .. Len(q) : q[i] = deque[e][i + 1]
  BY <1>1, HeadTailProperties DEF Front, WithoutFront
<1>3. Front(deque[e]) = deque[e][1]
  BY <1>1 DEF Front
<1> HIDE DEF q
<1>4. deque' = [deque EXCEPT ![e] = q]
  BY DEF q
<1> QED
  <2> DEFINE s == 1
             i0 == 1
             x == Front(deque[e])
  <2>1. Removed(q, deque[e], x, i0, s)
    BY <1>1, <1>2, <1>3 DEF Removed
  <2> HIDE DEF s, i0, x
  <2>2. /\ DequesDisjoint'
        /\ Queued(x)
        /\ \A k \in Jobs : Queued(k)' <=> Queued(k) /\ k # x
    BY <1>2, <1>4, <2>1, ElementRemoved
  <2> QED
    BY <1>2, <2>2 DEF x

LEMMA BackDequeued ==
    ASSUME Typed, DequesDisjoint, NEW e \in Executors, deque[e] # <<>>,
           deque' = [deque EXCEPT ![e] = WithoutBack(deque[e])]
    PROVE  /\ Back(deque[e]) \in Jobs
           /\ DequesDisjoint'
           /\ Queued(Back(deque[e]))
           /\ \A k \in Jobs : Queued(k)' <=> Queued(k) /\ k # Back(deque[e])
<1> DEFINE q == WithoutBack(deque[e])
<1>1. deque[e] \in Seq(Jobs) /\ Len(deque[e]) \in Nat \ {0}
  BY EmptySeq DEF Typed, TypeOK
<1>2. Back(deque[e]) \in Jobs /\ q \in Seq(Jobs)
  BY <1>1, DequeBackType
<1>3. /\ Len(q) = Len(deque[e]) - 1
      /\ \A i \in 1 .. Len(q) : q[i] = deque[e][i + 0]
  <2>1. \A i \in 1 .. Len(deque[e]) - 1 : deque[e][i] \in Jobs
    BY <1>1, ElementOfSeq
  <2>2. /\ Len(q) = IF 1 <= Len(deque[e]) - 1 THEN Len(deque[e]) - 1 - 1 + 1 ELSE 0
        /\ \A i \in 1 .. Len(deque[e]) - 1 - 1 + 1 : q[i] = deque[e][1 + i - 1]
    BY <1>1, <2>1, SubSeqProperties DEF WithoutBack
  <2> HIDE DEF q
  <2> QED
    BY <1>1, <2>2
<1>4. Back(deque[e]) = deque[e][Len(deque[e])]
  BY DEF Back
<1> HIDE DEF q
<1>5. deque' = [deque EXCEPT ![e] = q]
  BY DEF q
<1> QED
  <2> DEFINE s == 0
             i0 == Len(deque[e])
             x == Back(deque[e])
  <2>1. Removed(q, deque[e], x, i0, s)
    BY <1>1, <1>3, <1>4 DEF Removed
  <2> HIDE DEF s, i0, x
  <2>2. /\ DequesDisjoint'
        /\ Queued(x)
        /\ \A k \in Jobs : Queued(k)' <=> Queued(k) /\ k # x
    BY <1>2, <1>5, <2>1, ElementRemoved
  <2> QED
    BY <1>2, <2>2 DEF x

LEMMA ElementAdded ==
    ASSUME Typed, DequesDisjoint, NEW e \in Executors, NEW q \in Seq(Jobs), NEW x \in Jobs,
           ~Queued(x), NEW s \in {0, 1}, NEW i0 \in 1 .. Len(q),
           i0 = IF s = 1 THEN 1 ELSE Len(q),
           Len(q) = Len(deque[e]) + 1,
           q[i0] = x,
           \A i \in 1 .. Len(deque[e]) : q[i + s] = deque[e][i],
           deque' = [deque EXCEPT ![e] = q]
    PROVE  /\ DequesDisjoint'
           /\ \A k \in Jobs : Queued(k)' <=> Queued(k) \/ k = x
<1>1. /\ deque \in [Executors -> Seq(Jobs)]
      /\ \A f \in Executors : Len(deque[f]) \in Nat
  BY DEF Typed, TypeOK
<1>2. deque'[e] = q /\ \A f \in Executors \ {e} : deque'[f] = deque[f]
  BY <1>1
<1> DEFINE shift(h) == IF h = e THEN s ELSE 0
           New(f, i) == f = e /\ i = i0
<1>3. ASSUME NEW f \in Executors, NEW i \in 1 .. Len(deque'[f]), ~New(f, i)
      PROVE  i - shift(f) \in 1 .. Len(deque[f]) /\ deque'[f][i] = deque[f][i - shift(f)]
  <2>1. CASE f # e
    BY <1>1, <1>2, <2>1
  <2>2. CASE f = e
    <3>1. i - s \in 1 .. Len(deque[e])
      BY <1>1, <1>2, <1>3, <2>2
    <3>2. q[(i - s) + s] = deque[e][i - s]
      BY <3>1
    <3> QED
      BY <1>1, <1>2, <2>2, <3>1, <3>2
  <2> QED
    BY <2>1, <2>2
<1>4. DequesDisjoint'
  <2> SUFFICES ASSUME NEW f \in Executors, NEW g \in Executors,
                      NEW i \in 1 .. Len(deque'[f]), NEW k \in 1 .. Len(deque'[g]),
                      deque'[f][i] = deque'[g][k]
               PROVE  f = g /\ i = k
    BY DEF DequesDisjoint
  <2>1. CASE New(f, i) /\ New(g, k)
    BY <2>1
  <2>2. CASE ~New(f, i) /\ ~New(g, k)
    <3>1. f = g /\ i - shift(f) = k - shift(g)
      BY <1>3, <2>2 DEF DequesDisjoint
    <3> QED
      BY <1>1, <1>2, <3>1
  <2>3. CASE New(f, i) /\ ~New(g, k)
    <3>1. deque'[f][i] = x
      BY <1>2, <2>3
    <3> QED
      BY <1>3, <2>3, <3>1 DEF Queued
  <2>4. CASE ~New(f, i) /\ New(g, k)
    <3>1. deque'[g][k] = x
      BY <1>2, <2>4
    <3>2. deque[f][i - shift(f)] = x /\ i - shift(f) \in 1 .. Len(deque[f])
      BY <1>3, <2>4, <3>1
    <3> QED
      BY <3>2 DEF Queued
  <2> QED
    BY <2>1, <2>2, <2>3, <2>4
<1>5. ASSUME NEW k \in Jobs, Queued(k)' PROVE Queued(k) \/ k = x
  <2> PICK f \in Executors : \E i \in 1 .. Len(deque'[f]) : deque'[f][i] = k
    BY <1>5 DEF Queued
  <2> PICK i \in 1 .. Len(deque'[f]) : deque'[f][i] = k
    OBVIOUS
  <2> QED
    BY <1>2, <1>3, SMTT(30) DEF Queued
<1>6. ASSUME NEW k \in Jobs, Queued(k) PROVE Queued(k)'
  <2> PICK f \in Executors : \E i \in 1 .. Len(deque[f]) : deque[f][i] = k
    BY <1>6 DEF Queued
  <2> PICK i \in 1 .. Len(deque[f]) : deque[f][i] = k
    OBVIOUS
  <2>1. i + shift(f) \in 1 .. Len(deque'[f]) /\ deque'[f][i + shift(f)] = k
    BY <1>1, <1>2
  <2> QED
    BY <2>1 DEF Queued
<1>7. Queued(x)'
  BY <1>2 DEF Queued
<1> QED
  BY <1>4, <1>5, <1>6, <1>7

LEMMA FrontEnqueued ==
    ASSUME Typed, DequesDisjoint, NEW e \in Executors, NEW x \in Jobs, ~Queued(x),
           deque' = [deque EXCEPT ![e] = EnqueueForward(deque[e], x)]
    PROVE  /\ DequesDisjoint'
           /\ \A k \in Jobs : Queued(k)' <=> Queued(k) \/ k = x
<1> DEFINE q == EnqueueForward(deque[e], x)
<1>1. deque[e] \in Seq(Jobs) /\ Len(deque[e]) \in Nat
  BY DEF Typed, TypeOK
<1>2. q \in Seq(Jobs)
  BY <1>1, DequeTypes
<1>3. /\ Len(q) = Len(deque[e]) + 1
      /\ q[1] = x
      /\ \A i \in 1 .. Len(deque[e]) : q[i + 1] = deque[e][i]
  <2>1. <<x>> \in Seq(Jobs) /\ Len(<<x>>) = 1 /\ <<x>>[1] = x
    OBVIOUS
  <2>2. /\ Len(q) = Len(<<x>>) + Len(deque[e])
        /\ \A i \in 1 .. Len(<<x>>) + Len(deque[e]) :
              q[i] = IF i <= Len(<<x>>) THEN <<x>>[i] ELSE deque[e][i - Len(<<x>>)]
    BY <1>1, <2>1, ConcatProperties DEF EnqueueForward
  <2> HIDE DEF q
  <2>3. \A i \in 1 .. Len(deque[e]) : q[i + 1] = deque[e][i]
    <3> TAKE i \in 1 .. Len(deque[e])
    <3>1. i + 1 \in 1 .. 1 + Len(deque[e]) /\ ~(i + 1 <= 1) /\ (i + 1) - 1 = i
      BY <1>1
    <3> QED
      BY <2>1, <2>2, <3>1
  <2> QED
    BY <1>1, <2>1, <2>2, <2>3
<1> HIDE DEF q
<1>4. deque' = [deque EXCEPT ![e] = q]
  BY DEF q
<1> QED
  <2>1. 1 \in 1 .. Len(q) /\ 1 \in {0, 1} /\ (1 = IF 1 = 1 THEN 1 ELSE Len(q))
    BY <1>1, <1>3
  <2> QED
    BY <1>2, <1>3, <1>4, <2>1, ElementAdded

LEMMA BackEnqueued ==
    ASSUME Typed, DequesDisjoint, NEW e \in Executors, NEW x \in Jobs, ~Queued(x),
           deque' = [deque EXCEPT ![e] = EnqueueBack(deque[e], x)]
    PROVE  /\ DequesDisjoint'
           /\ \A k \in Jobs : Queued(k)' <=> Queued(k) \/ k = x
<1> DEFINE q == EnqueueBack(deque[e], x)
<1>1. deque[e] \in Seq(Jobs) /\ Len(deque[e]) \in Nat
  BY DEF Typed, TypeOK
<1>2. /\ q \in Seq(Jobs)
      /\ Len(q) = Len(deque[e]) + 1
      /\ q[Len(q)] = x
      /\ \A i \in 1 .. Len(deque[e]) : q[i] = deque[e][i]
  BY <1>1, AppendProperties DEF EnqueueBack
<1> HIDE DEF q
<1>3. deque' = [deque EXCEPT ![e] = q] /\ \A i \in 1 .. Len(deque[e]) : q[i + 0] = deque[e][i]
  BY <1>1, <1>2 DEF q
<1> QED
  <2>1. Len(q) \in 1 .. Len(q) /\ 0 \in {0, 1} /\ (Len(q) = IF 0 = 1 THEN 1 ELSE Len(q))
    BY <1>1, <1>2
  <2> QED
    BY <1>2, <1>3, <2>1, ElementAdded, ZenonT(60)

-----------------------------------------------------------------------------
(* How many children a job has *)

LEMMA ChildrenFinite == \A j \in Jobs : IsFiniteSet(LiveChildren(j))
BY JobsAssumption, FS_Subset DEF LiveChildren

LEMMA NumChildrenType ==
    \A j \in Jobs : /\ NumChildren[j] \in Nat
                    /\ NumChildren[j] = Cardinality(LiveChildren(j))
                    /\ NumChildren[j] = 0 <=> LiveChildren(j) = {}
BY ChildrenFinite, FS_CardinalityType, FS_EmptySet DEF NumChildren

LEMMA SameChildren ==
    ASSUME UNCHANGED <<phase, parent>>
    PROVE  NumChildren' = NumChildren
BY DEF NumChildren, LiveChildren

LEMMA ChildAdded ==
    ASSUME Typed, NEW j \in Jobs, NEW p \in Jobs, phase[j] # "live",
           phase' = [phase EXCEPT ![j] = "live"],
           parent' = [parent EXCEPT ![j] = p]
    PROVE  \A k \in Jobs :
              NumChildren'[k] = IF k = p THEN NumChildren[k] + 1 ELSE NumChildren[k]
<1>1. /\ phase \in [Jobs -> {"unborn", "pending", "live", "destroyed", "lost"}]
      /\ parent \in [Jobs -> Jobs \cup {NoJob}]
  BY DEF Typed, TypeOK
<1>2. \A k \in Jobs : NumChildren'[k] = Cardinality(LiveChildren(k)')
  BY DEF NumChildren
<1>3. \A k \in Jobs \ {p} : LiveChildren(k)' = LiveChildren(k)
  BY <1>1 DEF LiveChildren
<1>4. LiveChildren(p)' = LiveChildren(p) \cup {j} /\ j \notin LiveChildren(p)
  BY <1>1 DEF LiveChildren
<1>5. Cardinality(LiveChildren(p)') = Cardinality(LiveChildren(p)) + 1
  BY <1>4, ChildrenFinite, FS_AddElement
<1> QED
  BY <1>2, <1>3, <1>5, NumChildrenType

LEMMA ChildRemoved ==
    ASSUME Typed, NEW j \in Jobs, phase[j] = "live",
           phase' = [phase EXCEPT ![j] = "destroyed"],
           UNCHANGED parent
    PROVE  \A k \in Jobs :
              NumChildren'[k] = IF k = parent[j] THEN NumChildren[k] - 1 ELSE NumChildren[k]
<1>1. /\ phase \in [Jobs -> {"unborn", "pending", "live", "destroyed", "lost"}]
      /\ parent \in [Jobs -> Jobs \cup {NoJob}]
  BY DEF Typed, TypeOK
<1>2. \A k \in Jobs : NumChildren'[k] = Cardinality(LiveChildren(k)')
  BY DEF NumChildren
<1>3. \A k \in Jobs \ {parent[j]} : LiveChildren(k)' = LiveChildren(k)
  BY <1>1 DEF LiveChildren
<1>4. ASSUME NEW k \in Jobs, k = parent[j]
      PROVE  Cardinality(LiveChildren(k)') = Cardinality(LiveChildren(k)) - 1
  <2>1. LiveChildren(k)' = LiveChildren(k) \ {j} /\ j \in LiveChildren(k)
    BY <1>1, <1>4 DEF LiveChildren
  <2> QED
    BY <2>1, ChildrenFinite, FS_RemoveElement
<1> QED
  BY <1>2, <1>3, <1>4, NumChildrenType

LEMMA OrphanAdded ==
    ASSUME Typed, NEW j \in Jobs, parent[j] = NoJob,
           phase' = [phase EXCEPT ![j] = "live"],
           UNCHANGED parent
    PROVE  \A k \in Jobs : NumChildren'[k] = NumChildren[k]
<1>1. \A k \in Jobs : LiveChildren(k)' = LiveChildren(k)
  BY JobsAssumption DEF Typed, TypeOK, LiveChildren
<1> QED
  BY <1>1 DEF NumChildren

LEMMA ChildrenKept ==
    ASSUME Typed, NEW j \in Jobs, phase[j] # "live", NEW label, label # "live",
           phase' = [phase EXCEPT ![j] = label],
           UNCHANGED parent
    PROVE  \A k \in Jobs : NumChildren'[k] = NumChildren[k]
<1>1. \A k \in Jobs : LiveChildren(k)' = LiveChildren(k)
  BY DEF Typed, TypeOK, LiveChildren
<1> QED
  BY <1>1 DEF NumChildren

-----------------------------------------------------------------------------
(* What a job waits for, and the hands it is in *)

LEMMA StateKept ==
    ASSUME NEW k \in Jobs, phase'[k] = phase[k], SameJoin(k), NumChildren'[k] = NumChildren[k]
    PROVE  /\ AtRest(k)' <=> AtRest(k)
           /\ Busy(k)' <=> Busy(k)
           /\ Overcounted(k)' <=> Overcounted(k)
           /\ Waiting(k)' <=> Waiting(k)
BY DEF SameJoin, AtRest, Busy, Overcounted, Waiting

LEMMA PlacedLive ==
    ASSUME Typed, Owned, NEW j \in Jobs, phase[j] # "live"
    PROVE  ~Queued(j) /\ ~Held(j) /\ ~Forking(j)
<1>1. ~Queued(j)
  BY DEF Owned, QueuedAtRest, AtRest
<1>2. ~Held(j)
  BY JobsAssumption DEF Owned, HeldAsProgrammed, StateAt, Held, AtRest, Busy, Overcounted
<1>3. ~Forking(j)
  BY JobsAssumption DEF Owned, ForkedAtRest, Forking, AtRest
<1> QED
  BY <1>1, <1>2, <1>3

LEMMA NoneDependsOnUnborn ==
    ASSUME Owned, NEW j \in Jobs, phase[j] # "live"
    PROVE  NumChildren[j] = 0
<1>1. LiveChildren(j) = {}
  BY JobsAssumption DEF Owned, ParentsLive, LiveChildren
<1> QED
  BY <1>1, NumChildrenType

LEMMA EmptyHanded ==
    ASSUME Typed, Owned, NEW e \in Executors
    PROVE  /\ pc[e] \in {"unborn", "boot", "nap", "idle", "wait", "asleep", "steal"}
                => current[e] = NoJob
           /\ pc[e] # "fork" => child[e] = NoJob
BY ZenonT(60) DEF Typed, TypeOK, Owned, HeldAsProgrammed, StateAt, ForkedAtRest, Holding

LEMMA Grabbed ==
    ASSUME Typed, Owned, NEW e \in Executors, NEW j \in Jobs, current[e] = NoJob, ~Held(j),
           current' = [current EXCEPT ![e] = j], UNCHANGED child
    PROVE  /\ HandsDisjoint'
           /\ \A k \in Jobs : Held(k)' <=> Held(k) \/ k = j
           /\ \A k \in Jobs : Forking(k)' <=> Forking(k)
BY JobsAssumption DEF Typed, TypeOK, Owned, HandsDisjoint, Held, Forking

LEMMA Released ==
    ASSUME Typed, Owned, NEW e \in Executors, NEW j \in Jobs, current[e] = j,
           current' = [current EXCEPT ![e] = NoJob], UNCHANGED child
    PROVE  /\ HandsDisjoint'
           /\ \A k \in Jobs : Held(k)' <=> Held(k) /\ k # j
           /\ \A k \in Jobs : Forking(k)' <=> Forking(k)
BY JobsAssumption DEF Typed, TypeOK, Owned, HandsDisjoint, Held, Forking

LEMMA Exchanged ==
    ASSUME Typed, Owned, NEW e \in Executors, NEW j \in Jobs, NEW p \in Jobs,
           current[e] = j, ~Held(p),
           current' = [current EXCEPT ![e] = p], UNCHANGED child
    PROVE  /\ HandsDisjoint'
           /\ \A k \in Jobs : Held(k)' <=> (Held(k) /\ k # j) \/ k = p
           /\ \A k \in Jobs : Forking(k)' <=> Forking(k)
BY JobsAssumption DEF Typed, TypeOK, Owned, HandsDisjoint, Held, Forking

LEMMA SamePlaces ==
    ASSUME UNCHANGED <<deque, current, child>>, DequesDisjoint, HandsDisjoint
    PROVE  /\ DequesDisjoint' /\ HandsDisjoint'
           /\ \A k \in Jobs : /\ Queued(k)' <=> Queued(k)
                              /\ Held(k)' <=> Held(k)
                              /\ Forking(k)' <=> Forking(k)
BY DEF DequesDisjoint, HandsDisjoint, Queued, Held, Forking

-----------------------------------------------------------------------------
(* Every step preserves Owned *)

\* Steps that move no job and change nothing the join protocol reads.
LEMMA QuietStep ==
    ASSUME Typed, Owned, UNCHANGED <<deque, current, child, phase, parent>>,
           \A k \in Jobs : SameJoin(k),
           \A f \in Executors :
              /\ current[f] # NoJob => /\ pc'[f] \in Holding \cup {"exited"}
                                       /\ pc'[f] \in InStep <=> pc[f] \in InStep
                                       /\ pc'[f] = "undo" <=> pc[f] = "undo"
              /\ child[f] # NoJob => pc'[f] = "fork"
    PROVE  Owned'
<1>1. \A k \in Jobs : /\ AtRest(k)' <=> AtRest(k)
                      /\ Busy(k)' <=> Busy(k)
                      /\ Overcounted(k)' <=> Overcounted(k)
                      /\ Waiting(k)' <=> Waiting(k)
  BY StateKept, SameChildren
<1>2. /\ DequesDisjoint' /\ HandsDisjoint'
      /\ \A k \in Jobs : /\ Queued(k)' <=> Queued(k)
                         /\ Held(k)' <=> Held(k)
                         /\ Forking(k)' <=> Forking(k)
  BY SamePlaces DEF Owned
<1>3. QueuedAtRest'
  BY <1>1, <1>2 DEF Owned, QueuedAtRest
<1>4. ForkedAtRest'
  BY <1>1, <1>2, JobsAssumption DEF Typed, TypeOK, Owned, ForkedAtRest
<1>5. HeldAsProgrammed'
  BY <1>1, JobsAssumption DEF Typed, TypeOK, Owned, HeldAsProgrammed, StateAt
<1>6. ElsewhereWaiting'
  BY <1>1, <1>2 DEF Owned, ElsewhereWaiting
<1>7. ParentsLive' /\ UnbornOrphan'
  BY DEF Owned, ParentsLive, UnbornOrphan
<1> QED
  BY <1>2, <1>3, <1>4, <1>5, <1>6, <1>7 DEF Owned

\* The successful ends of get_free_job, from the own deque and by stealing.
LEMMA JobTaken ==
    ASSUME Typed, Owned, NEW e \in Executors, NEW j \in Jobs, pc[e] \in {"idle", "steal"},
           Queued(j), DequesDisjoint',
           \A k \in Jobs : Queued(k)' <=> Queued(k) /\ k # j,
           current' = [current EXCEPT ![e] = j],
           pc' = [pc EXCEPT ![e] = "take"],
           UNCHANGED <<child, phase, parent>>,
           \A k \in Jobs : SameJoin(k)
    PROVE  Owned'
<1>1. AtRest(j) /\ ~Held(j) /\ ~Forking(j)
  BY DEF Owned, QueuedAtRest
<1>2. current[e] = NoJob /\ child[e] = NoJob
  BY EmptyHanded
<1>3. /\ HandsDisjoint'
      /\ \A k \in Jobs : Held(k)' <=> Held(k) \/ k = j
      /\ \A k \in Jobs : Forking(k)' <=> Forking(k)
  BY <1>1, <1>2, Grabbed
<1>4. \A k \in Jobs : /\ AtRest(k)' <=> AtRest(k)
                      /\ Busy(k)' <=> Busy(k)
                      /\ Overcounted(k)' <=> Overcounted(k)
                      /\ Waiting(k)' <=> Waiting(k)
  BY StateKept, SameChildren
<1>5. QueuedAtRest'
  BY <1>3, <1>4 DEF Owned, QueuedAtRest
<1>6. ForkedAtRest'
  <2> SUFFICES ASSUME NEW f \in Executors, NEW k \in Jobs, child[f] = k
               PROVE  pc'[f] = "fork" /\ AtRest(k)' /\ ~Held(k)'
    BY DEF ForkedAtRest
  <2>1. k # j /\ f # e
    BY <1>1, <1>2, JobsAssumption DEF Forking
  <2> QED
    BY <1>3, <1>4, <2>1 DEF Typed, TypeOK, Owned, ForkedAtRest
<1>7. HeldAsProgrammed'
  <2> SUFFICES ASSUME NEW f \in Executors, NEW k \in Jobs, current'[f] = k
               PROVE  /\ pc'[f] \in Holding \cup {"exited"}
                      /\ StateAt(pc[f], k)'
    BY DEF HeldAsProgrammed, StateAt
  <2>1. CASE f = e
    BY <1>1, <1>4, <2>1 DEF StateAt, Typed, TypeOK, Holding, InStep
  <2>2. CASE f # e
    BY <1>4, <2>2 DEF Typed, TypeOK, Owned, HeldAsProgrammed, StateAt
  <2> QED
    BY <2>1, <2>2
<1>8. ElsewhereWaiting'
  BY <1>3, <1>4 DEF Owned, ElsewhereWaiting
<1>9. ParentsLive' /\ UnbornOrphan'
  BY DEF Owned, ParentsLive, UnbornOrphan
<1> QED
  BY <1>3, <1>5, <1>6, <1>7, <1>8, <1>9 DEF Owned

LEMMA OwnedDequeueLocal ==
    ASSUME Typed, Owned, NEW e \in Executors, DequeueLocal(e)
    PROVE  Owned'
<1> USE DEF Goto, jobVars, promiseVars
<1>1. \A k \in Jobs : SameJoin(k)
  BY DEF DequeueLocal, SameJoin
<1>2. CASE deque[e] = <<>>
  <2>1. /\ UNCHANGED <<deque, current, child, phase, parent>>
        /\ pc' = [pc EXCEPT ![e] = "wait"]
    BY <1>2 DEF DequeueLocal
  <2>2. current[e] = NoJob /\ child[e] = NoJob
    BY EmptyHanded DEF DequeueLocal
  <2>3. \A f \in Executors :
          /\ current[f] # NoJob => /\ pc'[f] \in Holding \cup {"exited"}
                                   /\ pc'[f] \in InStep <=> pc[f] \in InStep
                                   /\ pc'[f] = "undo" <=> pc[f] = "undo"
          /\ child[f] # NoJob => pc'[f] = "fork"
    BY <2>1, <2>2 DEF Typed, TypeOK, Owned, HeldAsProgrammed, StateAt, ForkedAtRest
  <2> QED
    BY <1>1, <2>1, <2>3, QuietStep
<1>3. CASE deque[e] # <<>>
  <2> DEFINE j == Front(deque[e])
  <2>1. /\ deque' = [deque EXCEPT ![e] = WithoutFront(deque[e])]
        /\ current' = [current EXCEPT ![e] = j]
        /\ pc' = [pc EXCEPT ![e] = "take"]
        /\ UNCHANGED <<child, phase, parent>>
    BY <1>3 DEF DequeueLocal
  <2>2. /\ j \in Jobs /\ DequesDisjoint' /\ Queued(j)
        /\ \A k \in Jobs : Queued(k)' <=> Queued(k) /\ k # j
    BY <1>3, <2>1, FrontDequeued DEF Owned
  <2>3. pc[e] \in {"idle", "steal"}
    BY DEF DequeueLocal
  <2> HIDE DEF j
  <2> QED
    BY <1>1, <2>1, <2>2, <2>3, JobTaken
<1> QED
  BY <1>2, <1>3

LEMMA OwnedSteal ==
    ASSUME Typed, Owned, NEW e \in Executors, NEW victim \in Executors, Steal(e, victim)
    PROVE  Owned'
<1> USE DEF Goto
<1>1. CASE deque[victim] = <<>>
  <2>1. /\ UNCHANGED <<deque, current, child, phase, parent, job>>
        /\ pc' = [pc EXCEPT ![e] = "idle"]
    BY <1>1 DEF Steal
  <2>2. current[e] = NoJob /\ child[e] = NoJob
    BY EmptyHanded DEF Steal
  <2>3. \A f \in Executors :
          /\ current[f] # NoJob => /\ pc'[f] \in Holding \cup {"exited"}
                                   /\ pc'[f] \in InStep <=> pc[f] \in InStep
                                   /\ pc'[f] = "undo" <=> pc[f] = "undo"
          /\ child[f] # NoJob => pc'[f] = "fork"
    BY <2>1, <2>2 DEF Typed, TypeOK, Owned, HeldAsProgrammed, StateAt, ForkedAtRest
  <2>4. \A k \in Jobs : SameJoin(k)
    BY <2>1 DEF SameJoin
  <2> QED
    BY <2>1, <2>3, <2>4, QuietStep
<1>2. CASE deque[victim] # <<>>
  <2> DEFINE j == Back(deque[victim])
  <2>1. /\ deque' = [deque EXCEPT ![victim] = WithoutBack(deque[victim])]
        /\ current' = [current EXCEPT ![e] = j]
        /\ pc' = [pc EXCEPT ![e] = "take"]
        /\ UNCHANGED <<child, phase, parent>>
        /\ job' = Stolen(j, e)
    BY <1>2 DEF Steal
  <2>2. /\ j \in Jobs /\ DequesDisjoint' /\ Queued(j)
        /\ \A k \in Jobs : Queued(k)' <=> Queued(k) /\ k # j
    BY <1>2, <2>1, BackDequeued DEF Owned
  <2>3. pc[e] \in {"idle", "steal"}
    BY DEF Steal
  <2>4. \A k \in Jobs : SameJoin(k)
    BY <2>1, <2>2, StolenEffect
  <2> HIDE DEF j
  <2> QED
    BY <2>1, <2>2, <2>3, <2>4, JobTaken
<1> QED
  BY <1>1, <1>2

LEMMA OwnedBeginStep ==
    ASSUME Typed, Owned, NEW e \in Executors, BeginStep(e)
    PROVE  Owned'
<1> DEFINE j == current[e]
<1>1. /\ j \in Jobs /\ pc[e] = "run"
      /\ pc' = [pc EXCEPT ![e] = "step"]
      /\ UNCHANGED <<deque, current, child, phase, parent>>
  BY HeldJob DEF BeginStep, Goto, dequeVars, Holding
<1>2. AtRest(j) /\ child[e] = NoJob
  BY <1>1, EmptyHanded DEF Owned, HeldAsProgrammed, StateAt, InStep
<1>3. /\ DequesDisjoint' /\ HandsDisjoint'
      /\ \A k \in Jobs : /\ Queued(k)' <=> Queued(k)
                         /\ Held(k)' <=> Held(k)
                         /\ Forking(k)' <=> Forking(k)
  BY <1>1, SamePlaces DEF Owned
<1>4. \A k \in Jobs \ {j} : /\ AtRest(k)' <=> AtRest(k)
                            /\ Busy(k)' <=> Busy(k)
                            /\ Overcounted(k)' <=> Overcounted(k)
                            /\ Waiting(k)' <=> Waiting(k)
  BY <1>1, StateKept, SameChildren, BeginStepEffect
<1>5. Busy(j)'
  <2>1. /\ ~job'[j].parent_finished
        /\ job'[j].num_all_waiting_jobs = 1
        /\ job'[j].num_ended_waiting_jobs = 0
    BY BeginStepEffect
  <2>2. phase'[j] = "live" /\ NumChildren'[j] = 0
    BY <1>1, <1>2, SameChildren DEF AtRest
  <2>3. j' = j
    BY <1>1
  <2> QED
    BY <2>1, <2>2, <2>3 DEF Busy
<1>6. Held(j)
  BY DEF Held
<1> HIDE DEF j
<1>7. QueuedAtRest'
  BY <1>3, <1>4, <1>6 DEF Owned, QueuedAtRest
<1>8. ForkedAtRest'
  BY <1>1, <1>2, <1>3, <1>4, <1>6, JobsAssumption DEF Typed, TypeOK, Owned, ForkedAtRest
<1>9. HeldAsProgrammed'
  <2> SUFFICES ASSUME NEW f \in Executors, NEW k \in Jobs, current'[f] = k
               PROVE  /\ pc'[f] \in Holding \cup {"exited"}
                      /\ StateAt(pc[f], k)'
    BY DEF HeldAsProgrammed, StateAt
  <2>1. CASE f = e
    BY <1>1, <1>5, <2>1 DEF StateAt, Typed, TypeOK, Holding, InStep, j
  <2>2. CASE f # e
    <3>1. k # j
      BY <1>1, <2>2, JobsAssumption DEF Owned, HandsDisjoint, j
    <3> QED
      BY <1>1, <1>4, <2>2, <3>1 DEF Typed, TypeOK, Owned, HeldAsProgrammed, StateAt
  <2> QED
    BY <2>1, <2>2
<1>10. ElsewhereWaiting'
  BY <1>1, <1>3, <1>4, <1>6 DEF Owned, ElsewhereWaiting
<1>11. ParentsLive' /\ UnbornOrphan'
  BY <1>1 DEF Owned, ParentsLive, UnbornOrphan
<1> QED
  BY <1>3, <1>7, <1>8, <1>9, <1>10, <1>11 DEF Owned

LEMMA OwnedEndStep ==
    ASSUME Typed, Owned, NEW e \in Executors, NEW r \in Result, EndStep(e, r)
    PROVE  Owned'
<1> PICK j \in Jobs : current[e] = j
  BY HeldJob DEF EndStep, Holding
<1> DEFINE enabled == JoinReady(TRUE, job[j].num_all_waiting_jobs,
                                job[j].num_ended_waiting_jobs + 1)
<1>1. /\ pc[e] = "step"
      /\ enabled => pc' = [pc EXCEPT ![e] = "next"] /\ UNCHANGED current
      /\ ~enabled => pc' = [pc EXCEPT ![e] = "idle"] /\ current' = [current EXCEPT ![e] = NoJob]
      /\ UNCHANGED <<deque, child, phase, parent>>
  BY DEF EndStep, Goto, dequeVars
<1>2. Busy(j) /\ child[e] = NoJob
  BY <1>1, EmptyHanded DEF Owned, HeldAsProgrammed, StateAt, InStep
<1>3. Held(j) /\ ~Queued(j) /\ ~Forking(j)
  BY DEF Held, Forking, Owned, QueuedAtRest, ForkedAtRest
<1>4. \A k \in Jobs \ {j} : /\ AtRest(k)' <=> AtRest(k)
                            /\ Busy(k)' <=> Busy(k)
                            /\ Overcounted(k)' <=> Overcounted(k)
                            /\ Waiting(k)' <=> Waiting(k)
  BY <1>1, StateKept, SameChildren, EndStepEffect
<1>5. /\ enabled => AtRest(j)'
      /\ ~enabled => Waiting(j)'
  <2>1. /\ job'[j].parent_finished
        /\ job'[j].num_all_waiting_jobs = job[j].num_all_waiting_jobs
        /\ job'[j].num_ended_waiting_jobs = job[j].num_ended_waiting_jobs + 1
    BY EndStepEffect
  <2>2. /\ job[j].num_all_waiting_jobs
             = job[j].num_ended_waiting_jobs + NumChildren[j] + 1
        /\ phase'[j] = "live"
    BY <1>1, <1>2 DEF Busy
  <2>3. NumChildren'[j] = NumChildren[j] /\ NumChildren[j] \in Nat
    BY <1>1, SameChildren, NumChildrenType
  <2>4. job[j].num_ended_waiting_jobs \in Nat
    BY DEF Typed, TypeOK, JobRecord
  <2> QED
    BY <2>1, <2>2, <2>3, <2>4 DEF JoinReady, AtRest, Waiting
<1> HIDE DEF enabled
<1>6. /\ HandsDisjoint'
      /\ \A k \in Jobs : Held(k)' <=> Held(k) /\ (enabled \/ k # j)
      /\ \A k \in Jobs : Forking(k)' <=> Forking(k)
  <2>1. CASE enabled
    BY <1>1, <2>1, SamePlaces DEF Owned
  <2>2. CASE ~enabled
    BY <1>1, <2>2, Released
  <2> QED
    BY <2>1, <2>2
<1>7. DequesDisjoint' /\ \A k \in Jobs : Queued(k)' <=> Queued(k)
  BY <1>1 DEF Owned, DequesDisjoint, Queued
<1>8. QueuedAtRest'
  BY <1>3, <1>4, <1>6, <1>7 DEF Owned, QueuedAtRest
<1>9. ForkedAtRest'
  <2> SUFFICES ASSUME NEW f \in Executors, NEW k \in Jobs, child[f] = k
               PROVE  pc'[f] = "fork" /\ AtRest(k)' /\ ~Held(k)'
    BY <1>1 DEF ForkedAtRest
  <2>1. k # j /\ f # e
    BY <1>2, <1>3, JobsAssumption DEF Forking
  <2> QED
    BY <1>1, <1>4, <1>6, <2>1 DEF Typed, TypeOK, Owned, ForkedAtRest
<1>10. HeldAsProgrammed'
  <2> SUFFICES ASSUME NEW f \in Executors, NEW k \in Jobs, current'[f] = k
               PROVE  /\ pc'[f] \in Holding \cup {"exited"}
                      /\ StateAt(pc[f], k)'
    BY DEF HeldAsProgrammed, StateAt
  <2>1. CASE f = e
    BY <1>1, <1>5, <2>1, JobsAssumption DEF StateAt, Typed, TypeOK, Holding, InStep
  <2>2. CASE f # e
    <3>1. current[f] = k /\ pc'[f] = pc[f]
      BY <1>1, <2>2 DEF Typed, TypeOK
    <3>2. k # j
      BY <2>2, <3>1, JobsAssumption DEF Owned, HandsDisjoint
    <3> QED
      BY <1>4, <3>1, <3>2 DEF Owned, HeldAsProgrammed, StateAt
  <2> QED
    BY <2>1, <2>2
<1>11. ElsewhereWaiting'
  BY <1>1, <1>3, <1>4, <1>5, <1>6, <1>7 DEF Owned, ElsewhereWaiting
<1>12. ParentsLive' /\ UnbornOrphan'
  BY <1>1 DEF Owned, ParentsLive, UnbornOrphan
<1> QED
  BY <1>6, <1>7, <1>8, <1>9, <1>10, <1>11, <1>12 DEF Owned

LEMMA OwnedFork ==
    ASSUME Typed, Owned, NEW e \in Executors, NEW j \in Jobs, NEW target \in Executors,
           Fork(e, j, target)
    PROVE  Owned'
<1> PICK p \in Jobs : current[e] = p
  BY HeldJob DEF Fork, Holding
<1>1. /\ pc[e] = "step" /\ phase[j] = "unborn"
      /\ pc' = [pc EXCEPT ![e] = "fork"]
      /\ phase' = [phase EXCEPT ![j] = "live"]
      /\ parent' = [parent EXCEPT ![j] = p]
      /\ child' = [child EXCEPT ![e] = j]
      /\ UNCHANGED <<deque, current>>
  BY DEF Fork, Goto, dequeVars
<1>2. Busy(p) /\ child[e] = NoJob
  BY <1>1, EmptyHanded DEF Owned, HeldAsProgrammed, StateAt, InStep
<1>3. j # p /\ ~Queued(j) /\ ~Held(j) /\ ~Forking(j) /\ NumChildren[j] = 0
  BY <1>1, <1>2, PlacedLive, NoneDependsOnUnborn DEF Busy
<1>4. Held(p) /\ ~Queued(p) /\ ~Forking(p)
  BY DEF Held, Forking, Owned, QueuedAtRest, ForkedAtRest
<1>5. \A k \in Jobs : NumChildren'[k] = IF k = p THEN NumChildren[k] + 1 ELSE NumChildren[k]
  BY <1>1, ChildAdded
<1>6. \A k \in Jobs \ {j, p} : /\ AtRest(k)' <=> AtRest(k)
                               /\ Busy(k)' <=> Busy(k)
                               /\ Overcounted(k)' <=> Overcounted(k)
                               /\ Waiting(k)' <=> Waiting(k)
  <2> TAKE k \in Jobs \ {j, p}
  <2>1. phase'[k] = phase[k] /\ NumChildren'[k] = NumChildren[k] /\ SameJoin(k)
    BY <1>1, <1>3, <1>5, ForkEffect DEF Typed, TypeOK
  <2> QED
    BY <2>1, StateKept
<1>7. AtRest(j)'
  BY <1>1, <1>3, <1>5, ForkEffect, ZenonT(60) DEF Typed, TypeOK, AtRest
<1>8. Busy(p)'
  <2>1. job[p].num_ended_waiting_jobs \in Nat /\ NumChildren[p] \in Nat
    BY NumChildrenType DEF Typed, TypeOK, JobRecord
  <2>2. /\ job'[p].parent_finished = job[p].parent_finished
        /\ job'[p].num_all_waiting_jobs = job[p].num_all_waiting_jobs + 1
        /\ job'[p].num_ended_waiting_jobs = job[p].num_ended_waiting_jobs
    BY <1>3, ForkEffect
  <2>3. phase'[p] = "live"
    BY <1>1, <1>2, <1>3 DEF Busy
  <2> QED
    BY <1>2, <1>5, <2>1, <2>2, <2>3 DEF Busy
<1>9. /\ DequesDisjoint' /\ HandsDisjoint'
      /\ \A k \in Jobs : /\ Queued(k)' <=> Queued(k)
                         /\ Held(k)' <=> Held(k)
                         /\ Forking(k)' <=> Forking(k) \/ k = j
  <2>1. DequesDisjoint' /\ \A k \in Jobs : Queued(k)' <=> Queued(k)
    BY <1>1 DEF Owned, DequesDisjoint, Queued
  <2>2. HandsDisjoint' /\ \A k \in Jobs : Forking(k)' <=> Forking(k) \/ k = j
    BY <1>1, <1>2, <1>3, JobsAssumption
       DEF Typed, TypeOK, Owned, HandsDisjoint, Forking
  <2>3. \A k \in Jobs : Held(k)' <=> Held(k)
    BY <1>1 DEF Held
  <2> QED
    BY <2>1, <2>2, <2>3
<1>10. QueuedAtRest'
  BY <1>3, <1>4, <1>6, <1>9 DEF Owned, QueuedAtRest
<1>11. ForkedAtRest'
  <2> SUFFICES ASSUME NEW f \in Executors, NEW k \in Jobs, child'[f] = k
               PROVE  pc'[f] = "fork" /\ AtRest(k)' /\ ~Held(k)'
    BY DEF ForkedAtRest
  <2>1. CASE f = e
    BY <1>1, <1>3, <1>7, <1>9, <2>1 DEF Typed, TypeOK
  <2>2. CASE f # e
    <3>1. child[f] = k /\ pc'[f] = pc[f]
      BY <1>1, <2>2 DEF Typed, TypeOK
    <3>2. k # j /\ k # p
      BY <1>3, <1>4, <3>1 DEF Forking
    <3> QED
      BY <1>6, <1>9, <3>1, <3>2 DEF Owned, ForkedAtRest
  <2> QED
    BY <2>1, <2>2
<1>12. HeldAsProgrammed'
  <2> SUFFICES ASSUME NEW f \in Executors, NEW k \in Jobs, current[f] = k
               PROVE  /\ pc'[f] \in Holding \cup {"exited"}
                      /\ StateAt(pc[f], k)'
    BY <1>1 DEF HeldAsProgrammed, StateAt
  <2>1. CASE f = e
    BY <1>1, <1>8, <2>1 DEF StateAt, Typed, TypeOK, Holding, InStep
  <2>2. CASE f # e
    <3>1. k # j /\ k # p /\ pc'[f] = pc[f]
      BY <1>1, <1>3, <2>2, JobsAssumption DEF Typed, TypeOK, Held, Owned, HandsDisjoint
    <3> QED
      BY <1>6, <3>1 DEF Owned, HeldAsProgrammed, StateAt
  <2> QED
    BY <2>1, <2>2
<1>13. ElsewhereWaiting'
  BY <1>1, <1>4, <1>6, <1>9 DEF Typed, TypeOK, Owned, ElsewhereWaiting
<1>14. ParentsLive' /\ UnbornOrphan'
  BY <1>1, <1>2, <1>3 DEF Typed, TypeOK, Owned, ParentsLive, UnbornOrphan, Busy
<1> QED
  BY <1>9, <1>10, <1>11, <1>12, <1>13, <1>14 DEF Owned

LEMMA OwnedEnqueueFork ==
    ASSUME Typed, Owned, NEW e \in Executors, EnqueueFork(e)
    PROVE  Owned'
<1> PICK j \in Jobs : child[e] = j
  BY DEF EnqueueFork, Typed, HandsFull
<1> PICK target \in Executors : target = job[j].executor
  BY DEF Typed, TypeOK, JobRecord
<1>1. /\ pc[e] = "fork"
      /\ pc' = [pc EXCEPT ![e] = "signal"]
      /\ child' = [child EXCEPT ![e] = NoJob]
      /\ deque' = [deque EXCEPT ![target] = EnqueueForward(deque[target], j)]
      /\ UNCHANGED <<current, phase, parent, job>>
  BY DEF EnqueueFork, Goto, jobVars, promiseVars
<1>2. AtRest(j) /\ Forking(j) /\ ~Held(j) /\ ~Queued(j)
  BY DEF Owned, ForkedAtRest, QueuedAtRest, Forking
<1>3. \A k \in Jobs : /\ AtRest(k)' <=> AtRest(k)
                      /\ Busy(k)' <=> Busy(k)
                      /\ Overcounted(k)' <=> Overcounted(k)
                      /\ Waiting(k)' <=> Waiting(k)
  BY <1>1, StateKept, SameChildren DEF SameJoin
<1>4. DequesDisjoint' /\ \A k \in Jobs : Queued(k)' <=> Queued(k) \/ k = j
  BY <1>1, <1>2, FrontEnqueued DEF Owned
<1>5. /\ HandsDisjoint'
      /\ \A k \in Jobs : Held(k)' <=> Held(k)
      /\ \A k \in Jobs : Forking(k)' <=> Forking(k) /\ k # j
  BY <1>1, JobsAssumption DEF Typed, TypeOK, Owned, HandsDisjoint, Held, Forking
<1>6. QueuedAtRest'
  BY <1>2, <1>3, <1>4, <1>5 DEF Owned, QueuedAtRest
<1>7. ForkedAtRest'
  <2> SUFFICES ASSUME NEW f \in Executors, NEW k \in Jobs, child'[f] = k
               PROVE  pc'[f] = "fork" /\ AtRest(k)' /\ ~Held(k)'
    BY DEF ForkedAtRest
  <2>1. f # e
    BY <1>1, JobsAssumption DEF Typed, TypeOK
  <2> QED
    BY <1>1, <1>3, <1>5, <2>1 DEF Typed, TypeOK, Owned, ForkedAtRest
<1>8. HeldAsProgrammed'
  <2> SUFFICES ASSUME NEW f \in Executors, NEW k \in Jobs, current[f] = k
               PROVE  /\ pc'[f] \in Holding \cup {"exited"}
                      /\ StateAt(pc[f], k)'
    BY <1>1 DEF HeldAsProgrammed, StateAt
  <2>1. CASE f = e
    BY <1>1, <1>3, <2>1 DEF Typed, TypeOK, Owned, HeldAsProgrammed, StateAt, Holding, InStep
  <2>2. CASE f # e
    BY <1>1, <1>3, <2>2 DEF Typed, TypeOK, Owned, HeldAsProgrammed, StateAt
  <2> QED
    BY <2>1, <2>2
<1>9. ElsewhereWaiting'
  BY <1>1, <1>3, <1>4, <1>5 DEF Owned, ElsewhereWaiting
<1>10. ParentsLive' /\ UnbornOrphan'
  BY <1>1 DEF Owned, ParentsLive, UnbornOrphan
<1> QED
  BY <1>4, <1>5, <1>6, <1>7, <1>8, <1>9, <1>10 DEF Owned

(***************************************************************************)
(* A fork that fails destroys the child it has counted; the parent waits   *)
(* for one child too many until the fork is undone.                        *)
(***************************************************************************)
LEMMA OwnedRefuseFork ==
    ASSUME Typed, Owned, ForkedByHolder, NEW e \in Executors, RefuseFork(e)
    PROVE  Owned'
<1> PICK j \in Jobs : child[e] = j
  BY DEF RefuseFork, Typed, HandsFull
<1> PICK p \in Jobs : current[e] = p
  BY HeldJob DEF RefuseFork, Holding
<1>1. /\ pc[e] = "fork"
      /\ phase' = [phase EXCEPT ![j] = "destroyed"]
      /\ pc' = [pc EXCEPT ![e] = "undo"]
      /\ child' = [child EXCEPT ![e] = NoJob]
      /\ UNCHANGED <<deque, current, parent, job>>
  BY DEF RefuseFork, Goto, dequeVars
<1>2. AtRest(j) /\ Forking(j) /\ ~Held(j) /\ ~Queued(j)
  BY DEF Owned, ForkedAtRest, QueuedAtRest, Forking
<1>3. Busy(p) /\ Held(p) /\ ~Queued(p) /\ ~Forking(p) /\ p # j
  <2>1. Busy(p) /\ Held(p)
    BY <1>1 DEF Owned, HeldAsProgrammed, StateAt, InStep, Held
  <2> QED
    BY <1>2, <2>1 DEF Owned, QueuedAtRest, ForkedAtRest, Forking
<1>4. phase[j] = "live" /\ parent[j] = p
  BY <1>1, <1>2 DEF AtRest, ForkedByHolder
<1>5. \A k \in Jobs : NumChildren'[k] = IF k = p THEN NumChildren[k] - 1 ELSE NumChildren[k]
  BY <1>1, <1>4, ChildRemoved
<1>6. \A k \in Jobs \ {j, p} : /\ AtRest(k)' <=> AtRest(k)
                               /\ Busy(k)' <=> Busy(k)
                               /\ Overcounted(k)' <=> Overcounted(k)
                               /\ Waiting(k)' <=> Waiting(k)
  <2> TAKE k \in Jobs \ {j, p}
  <2>1. phase'[k] = phase[k] /\ NumChildren'[k] = NumChildren[k] /\ SameJoin(k)
    BY <1>1, <1>5 DEF Typed, TypeOK, SameJoin
  <2> QED
    BY <2>1, StateKept
<1>7. Overcounted(p)'
  <2>1. job[p].num_ended_waiting_jobs \in Nat /\ NumChildren[p] \in Nat
    BY NumChildrenType DEF Typed, TypeOK, JobRecord
  <2>2. phase'[p] = "live" /\ job'[p] = job[p] /\ NumChildren'[p] = NumChildren[p] - 1
    BY <1>1, <1>3, <1>5 DEF Typed, TypeOK, Busy
  <2> QED
    BY <1>3, <2>1, <2>2 DEF Busy, Overcounted
<1>8. /\ DequesDisjoint' /\ HandsDisjoint'
      /\ \A k \in Jobs : /\ Queued(k)' <=> Queued(k)
                         /\ Held(k)' <=> Held(k)
                         /\ Forking(k)' <=> Forking(k) /\ k # j
  <2>1. DequesDisjoint' /\ \A k \in Jobs : (Queued(k)' <=> Queued(k)) /\ (Held(k)' <=> Held(k))
    BY <1>1 DEF Owned, DequesDisjoint, Queued, Held
  <2>2. HandsDisjoint' /\ \A k \in Jobs : Forking(k)' <=> Forking(k) /\ k # j
    BY <1>1, JobsAssumption DEF Typed, TypeOK, Owned, HandsDisjoint, Forking
  <2> QED
    BY <2>1, <2>2
<1>9. QueuedAtRest'
  BY <1>2, <1>3, <1>6, <1>8 DEF Owned, QueuedAtRest
<1>10. ForkedAtRest'
  <2> SUFFICES ASSUME NEW f \in Executors, NEW k \in Jobs, child'[f] = k
               PROVE  pc'[f] = "fork" /\ AtRest(k)' /\ ~Held(k)'
    BY DEF ForkedAtRest
  <2>1. f # e /\ child[f] = k /\ pc'[f] = pc[f]
    BY <1>1, JobsAssumption DEF Typed, TypeOK
  <2>2. k # j /\ k # p
    BY <1>3, <2>1, JobsAssumption DEF Owned, HandsDisjoint, Forking
  <2> QED
    BY <1>1, <1>6, <1>8, <2>1, <2>2 DEF Owned, ForkedAtRest
<1>11. HeldAsProgrammed'
  <2> SUFFICES ASSUME NEW f \in Executors, NEW k \in Jobs, current[f] = k
               PROVE  /\ pc'[f] \in Holding \cup {"exited"}
                      /\ StateAt(pc[f], k)'
    BY <1>1 DEF HeldAsProgrammed, StateAt
  <2>1. CASE f = e
    BY <1>1, <1>7, <2>1 DEF StateAt, Typed, TypeOK, Holding, InStep
  <2>2. CASE f # e
    <3>1. k # j /\ k # p /\ pc'[f] = pc[f]
      BY <1>1, <1>2, <2>2, JobsAssumption DEF Typed, TypeOK, Held, Owned, HandsDisjoint
    <3> QED
      BY <1>6, <3>1 DEF Owned, HeldAsProgrammed, StateAt
  <2> QED
    BY <2>1, <2>2
<1>12. ElsewhereWaiting'
  BY <1>1, <1>3, <1>6, <1>8 DEF Typed, TypeOK, Owned, ElsewhereWaiting
<1>13. ParentsLive' /\ UnbornOrphan'
  <2>1. LiveChildren(j) = {}
    BY <1>2, NumChildrenType DEF AtRest
  <2>2. ParentsLive'
    BY <1>1, <2>1 DEF Typed, TypeOK, Owned, ParentsLive, LiveChildren
  <2>3. UnbornOrphan'
    BY <1>1 DEF Typed, TypeOK, Owned, UnbornOrphan
  <2> QED
    BY <2>2, <2>3
<1> QED
  BY <1>8, <1>9, <1>10, <1>11, <1>12, <1>13 DEF Owned

LEMMA OwnedUndoFork ==
    ASSUME Typed, Owned, NEW e \in Executors, UndoFork(e)
    PROVE  Owned'
<1> PICK p \in Jobs : current[e] = p
  BY HeldJob DEF UndoFork, Holding
<1>1. /\ pc[e] = "undo"
      /\ pc' = [pc EXCEPT ![e] = "step"]
      /\ UNCHANGED <<deque, current, child, phase, parent>>
  BY DEF UndoFork, Goto, dequeVars
<1>2. Overcounted(p) /\ child[e] = NoJob
  BY <1>1, EmptyHanded DEF Owned, HeldAsProgrammed, StateAt
<1>3. /\ DequesDisjoint' /\ HandsDisjoint'
      /\ \A k \in Jobs : /\ Queued(k)' <=> Queued(k)
                         /\ Held(k)' <=> Held(k)
                         /\ Forking(k)' <=> Forking(k)
  BY <1>1, SamePlaces DEF Owned
<1>4. \A k \in Jobs \ {p} : /\ AtRest(k)' <=> AtRest(k)
                            /\ Busy(k)' <=> Busy(k)
                            /\ Overcounted(k)' <=> Overcounted(k)
                            /\ Waiting(k)' <=> Waiting(k)
  BY <1>1, StateKept, SameChildren, UndoForkEffect
<1>5. Busy(p)'
  <2>1. /\ job'[p].parent_finished = job[p].parent_finished
        /\ job'[p].num_all_waiting_jobs = job[p].num_all_waiting_jobs - 1
        /\ job'[p].num_ended_waiting_jobs = job[p].num_ended_waiting_jobs
    BY UndoForkEffect
  <2>2. phase'[p] = "live" /\ NumChildren'[p] = NumChildren[p]
    BY <1>1, <1>2, SameChildren DEF Overcounted
  <2>3. job[p].num_ended_waiting_jobs \in Nat /\ NumChildren[p] \in Nat
    BY NumChildrenType DEF Typed, TypeOK, JobRecord
  <2> QED
    BY <1>2, <2>1, <2>2, <2>3 DEF Busy, Overcounted
<1>6. Held(p) /\ ~Queued(p) /\ ~Forking(p)
  BY DEF Held, Forking, Owned, QueuedAtRest, ForkedAtRest
<1>7. QueuedAtRest'
  BY <1>3, <1>4, <1>6 DEF Owned, QueuedAtRest
<1>8. ForkedAtRest'
  BY <1>1, <1>2, <1>3, <1>4, <1>6, JobsAssumption
     DEF Typed, TypeOK, Owned, ForkedAtRest
<1>9. HeldAsProgrammed'
  <2> SUFFICES ASSUME NEW f \in Executors, NEW k \in Jobs, current'[f] = k
               PROVE  /\ pc'[f] \in Holding \cup {"exited"}
                      /\ StateAt(pc[f], k)'
    BY DEF HeldAsProgrammed, StateAt
  <2>1. CASE f = e
    BY <1>1, <1>5, <2>1 DEF StateAt, Typed, TypeOK, Holding, InStep
  <2>2. CASE f # e
    <3>1. k # p
      BY <1>1, <2>2, JobsAssumption DEF Owned, HandsDisjoint
    <3> QED
      BY <1>1, <1>4, <2>2, <3>1 DEF Typed, TypeOK, Owned, HeldAsProgrammed, StateAt
  <2> QED
    BY <2>1, <2>2
<1>10. ElsewhereWaiting'
  BY <1>1, <1>3, <1>4, <1>6 DEF Owned, ElsewhereWaiting
<1>11. ParentsLive' /\ UnbornOrphan'
  BY <1>1 DEF Owned, ParentsLive, UnbornOrphan
<1> QED
  BY <1>3, <1>7, <1>8, <1>9, <1>10, <1>11 DEF Owned

(***************************************************************************)
(* The step this proof is about: the last child that ends takes over its   *)
(* suspended parent, and a parent that is not suspended is left to the     *)
(* thread whose step will end.                                             *)
(***************************************************************************)
LEMMA OwnedNotifyParent ==
    ASSUME Typed, Owned, NEW e \in Executors, NotifyParent(e)
    PROVE  Owned'
<1> PICK j \in Jobs : current[e] = j
  BY HeldJob DEF NotifyParent, Holding
<1> PICK p \in Jobs : parent[j] = p
  BY NotifyParentEffect
<1> DEFINE enabled == JoinReady(job[p].parent_finished, job[p].num_all_waiting_jobs,
                                job[p].num_ended_waiting_jobs + 1)
           label == IF pc[e] = "reject" THEN "run" ELSE "next"
<1>1. /\ pc[e] \in {"finish", "abort", "reject"}
      /\ phase' = [phase EXCEPT ![j] = "destroyed"]
      /\ enabled => pc' = [pc EXCEPT ![e] = label] /\ current' = [current EXCEPT ![e] = p]
      /\ ~enabled => pc' = [pc EXCEPT ![e] = "idle"] /\ current' = [current EXCEPT ![e] = NoJob]
      /\ UNCHANGED <<deque, child, parent>>
  BY DEF NotifyParent, AfterLastChild, Goto, dequeVars
<1>2. AtRest(j) /\ child[e] = NoJob /\ Held(j) /\ ~Queued(j) /\ ~Forking(j)
  <2>1. AtRest(j) /\ child[e] = NoJob
    BY <1>1, EmptyHanded DEF Owned, HeldAsProgrammed, StateAt, InStep
  <2> QED
    BY <2>1 DEF Held, Forking, Owned, QueuedAtRest, ForkedAtRest
<1>3. phase[j] = "live" /\ phase[p] = "live"
  BY <1>2, JobsAssumption DEF AtRest, Owned, ParentsLive
<1>4. NumChildren[p] \in Nat \ {0}
  <2>1. j \in LiveChildren(p)
    BY <1>3 DEF LiveChildren
  <2> QED
    BY <2>1, NumChildrenType
<1>5. p # j /\ ~AtRest(p)
  BY <1>2, <1>4 DEF AtRest
<1>6. /\ Held(p) => Busy(p) \/ Overcounted(p)
      /\ \A f \in Executors : current[f] = p => pc[f] \in InStep /\ StateAt(pc[f], p)
  BY <1>5 DEF InStep, Owned, HeldAsProgrammed, StateAt, Held
<1>7. ~Held(p) => Waiting(p)
  BY <1>3, <1>5 DEF Owned, QueuedAtRest, ForkedAtRest, ElsewhereWaiting, Forking
<1>8. ~Queued(p) /\ ~Forking(p)
  BY <1>5 DEF Owned, QueuedAtRest, ForkedAtRest, Forking
<1>9. \A k \in Jobs : NumChildren'[k] = IF k = p THEN NumChildren[k] - 1 ELSE NumChildren[k]
  BY <1>1, <1>3, ChildRemoved
<1>10. \A k \in Jobs \ {j, p} : /\ AtRest(k)' <=> AtRest(k)
                                /\ Busy(k)' <=> Busy(k)
                                /\ Overcounted(k)' <=> Overcounted(k)
                                /\ Waiting(k)' <=> Waiting(k)
  <2> TAKE k \in Jobs \ {j, p}
  <2>1. phase'[k] = phase[k] /\ NumChildren'[k] = NumChildren[k] /\ SameJoin(k)
    BY <1>1, <1>9, NotifyParentEffect, SMTT(30) DEF Typed, TypeOK
  <2> QED
    BY <2>1, StateKept
<1>11. /\ enabled => ~Held(p) /\ AtRest(p)'
       /\ ~enabled /\ ~Held(p) => Waiting(p)'
       /\ Busy(p) => Busy(p)'
       /\ Overcounted(p) => Overcounted(p)'
  <2>1. /\ job'[p].parent_finished = job[p].parent_finished
        /\ job'[p].num_all_waiting_jobs = job[p].num_all_waiting_jobs
        /\ job'[p].num_ended_waiting_jobs = job[p].num_ended_waiting_jobs + 1
    BY NotifyParentEffect
  <2>2. phase'[p] = "live"
    BY <1>1, <1>3, <1>5 DEF Typed, TypeOK
  <2>3. job[p].num_ended_waiting_jobs \in Nat /\ NumChildren'[p] = NumChildren[p] - 1
    BY <1>9 DEF Typed, TypeOK, JobRecord
  <2>4. NumChildren[p] \in Nat
    BY <1>4
  <2>5. Busy(p) => Busy(p)'
    BY <2>1, <2>2, <2>3, <2>4 DEF Busy
  <2>6. Overcounted(p) => Overcounted(p)'
    BY <2>1, <2>2, <2>3, <2>4 DEF Overcounted
  <2>7. Held(p) => ~enabled
    BY <1>6 DEF JoinReady, Busy, Overcounted
  <2>8. ~Held(p) => IF enabled THEN AtRest(p)' ELSE Waiting(p)'
    BY <1>4, <1>7, <2>1, <2>2, <2>3 DEF JoinReady, Waiting, AtRest
  <2> QED
    BY <2>5, <2>6, <2>7, <2>8
<1>12. label \in {"run", "next"}
  OBVIOUS
<1> HIDE DEF enabled, label
<1>13. /\ HandsDisjoint'
       /\ \A k \in Jobs : Held(k)' <=> (Held(k) /\ k # j) \/ (enabled /\ k = p)
       /\ \A k \in Jobs : Forking(k)' <=> Forking(k)
  <2>1. CASE enabled
    BY <1>1, <1>11, <2>1, Exchanged
  <2>2. CASE ~enabled
    BY <1>1, <2>2, Released
  <2> QED
    BY <2>1, <2>2
<1>14. DequesDisjoint' /\ \A k \in Jobs : Queued(k)' <=> Queued(k)
  BY <1>1 DEF Owned, DequesDisjoint, Queued
<1>15. QueuedAtRest'
  BY <1>2, <1>8, <1>10, <1>13, <1>14 DEF Owned, QueuedAtRest
<1>16. ForkedAtRest'
  <2> SUFFICES ASSUME NEW f \in Executors, NEW k \in Jobs, child[f] = k
               PROVE  pc'[f] = "fork" /\ AtRest(k)' /\ ~Held(k)'
    BY <1>1 DEF ForkedAtRest
  <2>1. k # j /\ k # p /\ f # e
    BY <1>2, <1>8, JobsAssumption DEF Forking
  <2> QED
    BY <1>1, <1>10, <1>13, <2>1 DEF Typed, TypeOK, Owned, ForkedAtRest
<1>17. HeldAsProgrammed'
  <2> SUFFICES ASSUME NEW f \in Executors, NEW k \in Jobs, current'[f] = k
               PROVE  /\ pc'[f] \in Holding \cup {"exited"}
                      /\ StateAt(pc[f], k)'
    BY DEF HeldAsProgrammed, StateAt
  <2>1. CASE f = e
    <3>1. enabled /\ k = p /\ pc'[f] = label
      BY <1>1, <2>1, JobsAssumption DEF Typed, TypeOK
    <3> QED
      BY <1>11, <1>12, <3>1 DEF StateAt, Holding, InStep
  <2>2. CASE f # e
    <3>1. current[f] = k /\ pc'[f] = pc[f] /\ k # j
      BY <1>1, <2>2, JobsAssumption DEF Typed, TypeOK, Owned, HandsDisjoint
    <3>2. CASE k = p
      <4>1. pc[f] \in InStep /\ StateAt(pc[f], p)
        BY <1>6, <3>1, <3>2
      <4> QED
        BY <1>11, <3>1, <3>2, <4>1 DEF StateAt, Holding, InStep
    <3>3. CASE k # p
      BY <1>10, <3>1, <3>3 DEF Owned, HeldAsProgrammed, StateAt
    <3> QED
      BY <3>2, <3>3
  <2> QED
    BY <2>1, <2>2
<1>18. ElsewhereWaiting'
  <2> SUFFICES ASSUME NEW k \in Jobs, phase'[k] = "live", ~Queued(k)', ~Held(k)', ~Forking(k)'
               PROVE  Waiting(k)'
    BY DEF ElsewhereWaiting
  <2>1. k # j /\ phase[k] = "live"
    BY <1>1 DEF Typed, TypeOK
  <2>2. CASE k = p
    BY <1>11, <1>13, <2>1, <2>2
  <2>3. CASE k # p
    BY <1>10, <1>13, <1>14, <2>1, <2>3 DEF Owned, ElsewhereWaiting
  <2> QED
    BY <2>2, <2>3
<1>19. ParentsLive' /\ UnbornOrphan'
  <2>1. LiveChildren(j) = {}
    BY <1>2, NumChildrenType DEF AtRest
  <2>2. ParentsLive'
    BY <1>1, <2>1 DEF Typed, TypeOK, Owned, ParentsLive, LiveChildren
  <2>3. UnbornOrphan'
    BY <1>1 DEF Typed, TypeOK, Owned, UnbornOrphan
  <2> QED
    BY <2>2, <2>3
<1> QED
  BY <1>13, <1>14, <1>15, <1>16, <1>17, <1>18, <1>19 DEF Owned

LEMMA OwnedDestroyRoot ==
    ASSUME Typed, Owned, Promised, NEW e \in Executors, DestroyRoot(e)
    PROVE  Owned'
<1> PICK j \in Jobs : current[e] = j
  BY HeldJob DEF DestroyRoot, Holding
<1>1. /\ pc[e] = "release"
      /\ parent[j] = NoJob
      /\ phase' = [phase EXCEPT ![j] = "destroyed"]
      /\ pc' = [pc EXCEPT ![e] = "idle"]
      /\ current' = [current EXCEPT ![e] = NoJob]
      /\ UNCHANGED <<deque, child, parent, job>>
  BY DEF DestroyRoot, Goto, dequeVars, Promised, CompletesForRoot, Completes
<1>2. AtRest(j) /\ child[e] = NoJob /\ Held(j) /\ ~Queued(j) /\ ~Forking(j)
  <2>1. AtRest(j) /\ child[e] = NoJob
    BY <1>1, EmptyHanded DEF Owned, HeldAsProgrammed, StateAt, InStep
  <2> QED
    BY <2>1 DEF Held, Forking, Owned, QueuedAtRest, ForkedAtRest
<1>3. \A k \in Jobs \ {j} : /\ AtRest(k)' <=> AtRest(k)
                            /\ Busy(k)' <=> Busy(k)
                            /\ Overcounted(k)' <=> Overcounted(k)
                            /\ Waiting(k)' <=> Waiting(k)
  <2> TAKE k \in Jobs \ {j}
  <2>1. NumChildren'[k] = NumChildren[k]
    BY <1>1, <1>2, ChildRemoved, JobsAssumption DEF AtRest
  <2>2. phase'[k] = phase[k] /\ SameJoin(k)
    BY <1>1 DEF Typed, TypeOK, SameJoin
  <2> QED
    BY <2>1, <2>2, StateKept
<1>4. /\ HandsDisjoint'
      /\ \A k \in Jobs : Held(k)' <=> Held(k) /\ k # j
      /\ \A k \in Jobs : Forking(k)' <=> Forking(k)
  BY <1>1, Released
<1>5. DequesDisjoint' /\ \A k \in Jobs : Queued(k)' <=> Queued(k)
  BY <1>1 DEF Owned, DequesDisjoint, Queued
<1>6. QueuedAtRest'
  BY <1>2, <1>3, <1>4, <1>5 DEF Owned, QueuedAtRest
<1>7. ForkedAtRest'
  <2> SUFFICES ASSUME NEW f \in Executors, NEW k \in Jobs, child[f] = k
               PROVE  pc'[f] = "fork" /\ AtRest(k)' /\ ~Held(k)'
    BY <1>1 DEF ForkedAtRest
  <2>1. k # j /\ f # e
    BY <1>2, JobsAssumption DEF Forking
  <2> QED
    BY <1>1, <1>3, <1>4, <2>1 DEF Typed, TypeOK, Owned, ForkedAtRest
<1>8. HeldAsProgrammed'
  <2> SUFFICES ASSUME NEW f \in Executors, NEW k \in Jobs, current'[f] = k
               PROVE  /\ pc'[f] \in Holding \cup {"exited"}
                      /\ StateAt(pc[f], k)'
    BY DEF HeldAsProgrammed, StateAt
  <2>1. f # e /\ current[f] = k /\ pc'[f] = pc[f]
    BY <1>1, JobsAssumption DEF Typed, TypeOK
  <2>2. k # j
    BY <2>1, JobsAssumption DEF Owned, HandsDisjoint
  <2> QED
    BY <1>3, <2>1, <2>2 DEF Owned, HeldAsProgrammed, StateAt
<1>9. ElsewhereWaiting'
  <2> SUFFICES ASSUME NEW k \in Jobs, phase'[k] = "live", ~Queued(k)', ~Held(k)', ~Forking(k)'
               PROVE  Waiting(k)'
    BY DEF ElsewhereWaiting
  <2>1. k # j /\ phase[k] = "live"
    BY <1>1 DEF Typed, TypeOK
  <2> QED
    BY <1>3, <1>4, <1>5, <2>1 DEF Owned, ElsewhereWaiting
<1>10. ParentsLive' /\ UnbornOrphan'
  <2>1. LiveChildren(j) = {}
    BY <1>2, NumChildrenType DEF AtRest
  <2>2. ParentsLive'
    BY <1>1, <2>1 DEF Typed, TypeOK, Owned, ParentsLive, LiveChildren
  <2>3. UnbornOrphan'
    BY <1>1 DEF Typed, TypeOK, Owned, UnbornOrphan
  <2> QED
    BY <2>2, <2>3
<1> QED
  BY <1>4, <1>5, <1>6, <1>7, <1>8, <1>9, <1>10 DEF Owned

\* A job that was not live is queued: by armd_invoke, or when it is released.
LEMMA JobQueued ==
    ASSUME Typed, Owned, NEW j \in Jobs, NEW target \in Executors,
           phase[j] \in {"unborn", "pending"}, phase' = [phase EXCEPT ![j] = "live"],
           deque' = [deque EXCEPT ![target] = EnqueueBack(deque[target], j)],
           UNCHANGED <<current, child, parent>>,
           job'[j].num_all_waiting_jobs = job'[j].num_ended_waiting_jobs,
           \A k \in Jobs \ {j} : SameJoin(k),
           \A f \in Executors :
              /\ current[f] # NoJob => /\ pc'[f] \in Holding \cup {"exited"}
                                       /\ pc'[f] \in InStep <=> pc[f] \in InStep
                                       /\ pc'[f] = "undo" <=> pc[f] = "undo"
              /\ child[f] # NoJob => pc'[f] = "fork"
    PROVE  Owned'
<1>1. /\ ~Queued(j) /\ ~Held(j) /\ ~Forking(j)
      /\ NumChildren[j] = 0
      /\ parent[j] = NoJob
  BY PlacedLive, NoneDependsOnUnborn DEF Owned, UnbornOrphan
<1>2. \A k \in Jobs : NumChildren'[k] = NumChildren[k]
  BY <1>1, OrphanAdded
<1>3. \A k \in Jobs \ {j} : /\ AtRest(k)' <=> AtRest(k)
                            /\ Busy(k)' <=> Busy(k)
                            /\ Overcounted(k)' <=> Overcounted(k)
                            /\ Waiting(k)' <=> Waiting(k)
  <2> TAKE k \in Jobs \ {j}
  <2>1. phase'[k] = phase[k] /\ NumChildren'[k] = NumChildren[k] /\ SameJoin(k)
    BY <1>2 DEF Typed, TypeOK
  <2> QED
    BY <2>1, StateKept
<1>4. AtRest(j)'
  BY <1>1, <1>2 DEF Typed, TypeOK, AtRest
<1>5. DequesDisjoint' /\ \A k \in Jobs : Queued(k)' <=> Queued(k) \/ k = j
  BY <1>1, BackEnqueued DEF Owned
<1>6. /\ HandsDisjoint'
      /\ \A k \in Jobs : /\ Held(k)' <=> Held(k)
                         /\ Forking(k)' <=> Forking(k)
  BY DEF Owned, HandsDisjoint, Held, Forking
<1>7. QueuedAtRest'
  BY <1>1, <1>3, <1>4, <1>5, <1>6 DEF Owned, QueuedAtRest
<1>8. ForkedAtRest'
  BY <1>1, <1>3, <1>6, JobsAssumption DEF Typed, TypeOK, Owned, ForkedAtRest, Forking
<1>9. HeldAsProgrammed'
  BY <1>1, <1>3, JobsAssumption DEF Typed, TypeOK, Owned, HeldAsProgrammed, StateAt, Held
<1>10. ElsewhereWaiting'
  BY <1>3, <1>5, <1>6 DEF Typed, TypeOK, Owned, ElsewhereWaiting
<1>11. ParentsLive' /\ UnbornOrphan'
  BY <1>1 DEF Typed, TypeOK, Owned, ParentsLive, UnbornOrphan
<1> QED
  BY <1>5, <1>6, <1>7, <1>8, <1>9, <1>10, <1>11 DEF Owned

\* A job that is in no place goes to another phase in which it is in none.
LEMMA JobUnplaced ==
    ASSUME Typed, Owned, NEW j \in Jobs, NEW label, label \in {"pending", "lost"},
           phase[j] \in {"unborn", "pending"}, phase' = [phase EXCEPT ![j] = label],
           UNCHANGED <<deque, current, child, parent>>,
           \A k \in Jobs \ {j} : SameJoin(k),
           \A f \in Executors :
              /\ current[f] # NoJob => /\ pc'[f] \in Holding \cup {"exited"}
                                       /\ pc'[f] \in InStep <=> pc[f] \in InStep
                                       /\ pc'[f] = "undo" <=> pc[f] = "undo"
              /\ child[f] # NoJob => pc'[f] = "fork"
    PROVE  Owned'
<1>1. ~Queued(j) /\ ~Held(j) /\ ~Forking(j) /\ parent[j] = NoJob
  BY PlacedLive DEF Owned, UnbornOrphan
<1>2. \A k \in Jobs : NumChildren'[k] = NumChildren[k]
  BY ChildrenKept
<1>3. \A k \in Jobs \ {j} : /\ AtRest(k)' <=> AtRest(k)
                            /\ Busy(k)' <=> Busy(k)
                            /\ Overcounted(k)' <=> Overcounted(k)
                            /\ Waiting(k)' <=> Waiting(k)
  <2> TAKE k \in Jobs \ {j}
  <2>1. phase'[k] = phase[k] /\ NumChildren'[k] = NumChildren[k] /\ SameJoin(k)
    BY <1>2 DEF Typed, TypeOK
  <2> QED
    BY <2>1, StateKept
<1>4. /\ DequesDisjoint' /\ HandsDisjoint'
      /\ \A k \in Jobs : /\ Queued(k)' <=> Queued(k)
                         /\ Held(k)' <=> Held(k)
                         /\ Forking(k)' <=> Forking(k)
  BY SamePlaces DEF Owned
<1>5. QueuedAtRest'
  BY <1>1, <1>3, <1>4 DEF Owned, QueuedAtRest
<1>6. ForkedAtRest'
  BY <1>1, <1>3, <1>4, JobsAssumption DEF Typed, TypeOK, Owned, ForkedAtRest, Forking
<1>7. HeldAsProgrammed'
  BY <1>1, <1>3, JobsAssumption DEF Typed, TypeOK, Owned, HeldAsProgrammed, StateAt, Held
<1>8. ElsewhereWaiting'
  BY <1>3, <1>4 DEF Typed, TypeOK, Owned, ElsewhereWaiting
<1>9. ParentsLive' /\ UnbornOrphan'
  BY <1>1 DEF Typed, TypeOK, Owned, ParentsLive, UnbornOrphan
<1> QED
  BY <1>4, <1>5, <1>6, <1>7, <1>8, <1>9 DEF Owned

\* Every thread is at a label that fits what it has in hand.
LEMMA Handed ==
    ASSUME Typed, Owned, NEW f \in Executors
    PROVE  /\ current[f] # NoJob => pc[f] \in Holding \cup {"exited"}
           /\ child[f] # NoJob => pc[f] = "fork"
BY DEF Typed, TypeOK, Owned, HeldAsProgrammed, StateAt, ForkedAtRest

LEMMA OwnedInvoke ==
    ASSUME Typed, Owned, NEW c \in Clients, NEW j \in Jobs, Invoke(c, j)
    PROVE  Owned'
<1>1. /\ phase[j] = "unborn"
      /\ UNCHANGED <<pc, current, child, parent>>
  BY DEF Invoke, threadVars
<1>2. /\ job'[j].num_all_waiting_jobs = job'[j].num_ended_waiting_jobs
      /\ \A k \in Jobs \ {j} : SameJoin(k)
  BY InvokeEffect
<1>3. CASE /\ phase' = [phase EXCEPT ![j] = "live"]
           /\ deque' = [deque EXCEPT ![0] = EnqueueBack(deque[0], j)]
  BY <1>1, <1>2, <1>3, Handed, JobQueued, ExecutorsNonempty
<1>4. CASE phase' = [phase EXCEPT ![j] = "pending"] /\ UNCHANGED deque
  BY <1>1, <1>2, <1>4, Handed, JobUnplaced
<1> QED
  BY <1>3, <1>4 DEF Invoke

LEMMA OwnedRelease ==
    ASSUME Typed, Owned, Promised, NEW e \in Executors, NEW k \in Roots,
           Release(e, k) \/ Lose(e, k)
    PROVE  Owned'
<1>1. /\ k \in Jobs /\ phase[k] = "pending" /\ pc[e] = "release"
      /\ pc' = [pc EXCEPT ![e] = "announce"]
      /\ UNCHANGED <<current, child, parent>>
      /\ job' = Told(k, current[e])
  BY JobsAssumption DEF Release, Lose, AwaitsRootOf, Goto
<1>2. \A j \in Jobs : SameJoin(j)
  BY <1>1, ToldEffect
<1>3. job'[k].num_all_waiting_jobs = job'[k].num_ended_waiting_jobs
  BY <1>1, <1>2 DEF SameJoin, Promised, PendingSettled
<1>4. \A f \in Executors :
         /\ current[f] # NoJob => /\ pc'[f] \in Holding \cup {"exited"}
                                  /\ pc'[f] \in InStep <=> pc[f] \in InStep
                                  /\ pc'[f] = "undo" <=> pc[f] = "undo"
         /\ child[f] # NoJob => pc'[f] = "fork"
  BY <1>1, Handed DEF Typed, TypeOK, Holding, InStep
<1>5. CASE Release(e, k)
  <2> PICK target \in Executors : target = job[k].executor
    BY <1>1 DEF Typed, TypeOK, JobRecord
  <2>1. /\ phase' = [phase EXCEPT ![k] = "live"]
        /\ deque' = [deque EXCEPT ![target] = EnqueueBack(deque[target], k)]
    BY <1>5 DEF Release
  <2> QED
    BY <1>1, <1>2, <1>3, <1>4, <2>1, JobQueued
<1>6. CASE Lose(e, k)
  <2>1. phase' = [phase EXCEPT ![k] = "lost"] /\ UNCHANGED deque
    BY <1>6 DEF Lose, dequeVars
  <2> QED
    BY <1>1, <1>2, <1>4, <2>1, JobUnplaced
<1> QED
  BY <1>5, <1>6

LEMMA OwnedExecutorStep ==
    ASSUME Typed, Owned, ForkedByHolder, Promised, NEW e \in Executors, ExecutorStep(e)
    PROVE  Owned'
<1> USE DEF Goto, dequeVars, jobVars, promiseVars
<1> DEFINE Quiet == /\ UNCHANGED <<deque, current, child, phase, parent>>
                    /\ \A k \in Jobs : SameJoin(k)
           Kept == \A f \in Executors :
                      /\ current[f] # NoJob => /\ pc'[f] \in Holding \cup {"exited"}
                                               /\ pc'[f] \in InStep <=> pc[f] \in InStep
                                               /\ pc'[f] = "undo" <=> pc[f] = "undo"
                      /\ child[f] # NoJob => pc'[f] = "fork"
<1>1. Quiet /\ Kept => Owned'
  BY QuietStep
<1>2. ASSUME NEW label, pc' = [pc EXCEPT ![e] = label], pc[e] # "fork",
             current[e] # NoJob => /\ label \in Holding \cup {"exited"}
                                   /\ label \in InStep <=> pc[e] \in InStep
                                   /\ label = "undo" <=> pc[e] = "undo"
      PROVE  Kept
  <2>1. child[e] = NoJob
    BY <1>2, EmptyHanded
  <2>2. \A f \in Executors :
           /\ current[f] # NoJob => pc[f] \in Holding \cup {"exited"}
           /\ child[f] # NoJob => pc[f] = "fork"
    BY DEF Typed, TypeOK, Owned, HeldAsProgrammed, StateAt, ForkedAtRest
  <2> QED
    BY <1>2, <2>1, <2>2 DEF Typed, TypeOK
<1>3. CASE DequeueLocal(e)
  BY <1>3, OwnedDequeueLocal
<1>4. CASE WaitForContext(e) \/ Start(e) \/ Sleep(e) \/ GoStealing(e)
  <2> USE DEF WaitForContext, Start, Sleep, GoStealing
  <2>1. current[e] = NoJob /\ pc[e] # "fork"
    BY <1>4, EmptyHanded
  <2>2. Quiet
    BY <1>4 DEF SameJoin
  <2>3. Kept
    BY <1>2, <1>4, <2>1
  <2> QED
    BY <1>1, <2>2, <2>3
<1>5. CASE \E victim \in Executors : Steal(e, victim)
  BY <1>5, OwnedSteal
<1>6. CASE Take(e) \/ EndJob(e)
  <2>1. Quiet
    BY <1>6 DEF Take, EndJob, SameJoin
  <2>2. Kept
    BY <1>2, <1>6 DEF Take, EndJob, Holding, InStep
  <2> QED
    BY <1>1, <2>1, <2>2
<1>7. CASE Exit(e)
  <2>1. Quiet
    BY <1>7 DEF Exit, SameJoin
  <2>2. Kept
    BY <1>2, <1>7 DEF Exit, InStep
  <2> QED
    BY <1>1, <2>1, <2>2
<1>8. CASE ExecuteSetup(e)
  <2>1. Quiet
    BY <1>8, ExecuteSetupEffect DEF ExecuteSetup
  <2> DEFINE label == IF job[current[e]].dependency_has_error THEN "reject" ELSE "run"
  <2>2. pc' = [pc EXCEPT ![e] = label] /\ pc[e] = "run"
    BY <1>8 DEF ExecuteSetup
  <2>3. label \in {"reject", "run"}
    OBVIOUS
  <2> HIDE DEF label
  <2>4. Kept
    BY <1>2, <2>2, <2>3 DEF Holding, InStep
  <2> QED
    BY <1>1, <2>1, <2>4
<1>9. CASE BeginStep(e)
  BY <1>9, OwnedBeginStep
<1>10. CASE \E j \in Jobs, target \in Executors : Fork(e, j, target)
  BY <1>10, OwnedFork
<1>11. CASE EnqueueFork(e)
  BY <1>11, OwnedEnqueueFork
<1>12. CASE SignalFork(e)
  <2> DEFINE pcs == [pc EXCEPT ![e] = "step"]
  <2>1. Quiet
    BY <1>12 DEF SignalFork, SameJoin
  <2>2. pc[e] = "signal" /\ pc' = Woken(pcs)
    BY <1>12 DEF SignalFork
  <2>3. \A f \in Executors : pc'[f] = IF f = e THEN "step"
                                      ELSE IF pc[f] = "asleep" THEN "wait"
                                      ELSE IF pc[f] = "nap" THEN "boot" ELSE pc[f]
    BY <2>2 DEF Typed, TypeOK, Woken
  <2>4. \A f \in Executors :
           /\ current[f] # NoJob => pc[f] \in Holding \cup {"exited"}
           /\ child[f] # NoJob => pc[f] = "fork"
    BY DEF Typed, TypeOK, Owned, HeldAsProgrammed, StateAt, ForkedAtRest
  <2>5. Kept
    BY <2>2, <2>3, <2>4 DEF Holding, InStep
  <2> QED
    BY <1>1, <2>1, <2>5
<1>13. CASE \E r \in Result : EndStep(e, r)
  BY <1>13, OwnedEndStep
<1>14. CASE \E r \in Result : MoveToNext(e, r)
  <2> PICK r \in Result : MoveToNext(e, r)
    BY <1>14
  <2>1. Quiet
    BY MoveToNextEffect DEF MoveToNext
  <2> DEFINE label == IF r = "Error" THEN "abort" ELSE "run"
  <2>2. pc' = [pc EXCEPT ![e] = label] /\ pc[e] = "next"
    BY DEF MoveToNext
  <2>3. label \in {"abort", "run"}
    OBVIOUS
  <2> HIDE DEF label
  <2>4. Kept
    BY <1>2, <2>2, <2>3 DEF Holding, InStep
  <2> QED
    BY <1>1, <2>1, <2>4
<1>15. CASE NotifyParent(e)
  BY <1>15, OwnedNotifyParent
<1>16. CASE CompleteRoot(e)
  <2>1. Quiet
    BY <1>16 DEF CompleteRoot, SameJoin
  <2>2. Kept
    BY <1>2, <1>16 DEF CompleteRoot, Holding, InStep
  <2> QED
    BY <1>1, <2>1, <2>2
<1>17. CASE FailSetup(e)
  <2>1. Quiet
    BY <1>17, FailSetupEffect DEF FailSetup
  <2>2. Kept
    BY <1>2, <1>17 DEF FailSetup, Holding, InStep
  <2> QED
    BY <1>1, <2>1, <2>2
<1>18. CASE RefuseFork(e)
  BY <1>18, OwnedRefuseFork
<1>19. CASE UndoFork(e)
  BY <1>19, OwnedUndoFork
<1>20. CASE \E k \in Roots : Release(e, k) \/ Lose(e, k)
  BY <1>20, OwnedRelease
<1>21. CASE Announce(e)
  <2> DEFINE pcs == [pc EXCEPT ![e] = "release"]
  <2>1. Quiet
    BY <1>21 DEF Announce, SameJoin
  <2>2. pc[e] = "announce" /\ pc' = Woken(pcs)
    BY <1>21 DEF Announce
  <2>3. \A f \in Executors : pc'[f] = IF f = e THEN "release"
                                      ELSE IF pc[f] = "asleep" THEN "wait"
                                      ELSE IF pc[f] = "nap" THEN "boot" ELSE pc[f]
    BY <2>2 DEF Typed, TypeOK, Woken
  <2>4. Kept
    BY <2>2, <2>3, Handed DEF Holding, InStep
  <2> QED
    BY <1>1, <2>1, <2>4
<1>22. CASE DestroyRoot(e)
  BY <1>22, OwnedDestroyRoot
<1> QED
  BY <1>3, <1>4, <1>5, <1>6, <1>7, <1>8, <1>9, <1>10, <1>11, <1>12, <1>13, <1>14,
     <1>15, <1>16, <1>17, <1>18, <1>19, <1>20, <1>21, <1>22 DEF ExecutorStep

LEMMA OwnedInit == Init => Owned
<1> SUFFICES ASSUME Init PROVE Owned
  OBVIOUS
<1>1. \A e \in Executors : deque[e] = <<>> /\ Len(deque[e]) = 0
  BY EmptySeq DEF Init
<1>2. \A j \in Jobs : ~Queued(j) /\ phase[j] = "unborn" /\ parent[j] = NoJob
  BY <1>1 DEF Init, Queued
<1>3. DequesDisjoint /\ HandsDisjoint
  BY <1>1 DEF Init, DequesDisjoint, HandsDisjoint
<1>4. QueuedAtRest /\ ForkedAtRest /\ HeldAsProgrammed
  BY <1>2, JobsAssumption DEF Init, QueuedAtRest, ForkedAtRest, HeldAsProgrammed, StateAt
<1>5. ElsewhereWaiting /\ ParentsLive /\ UnbornOrphan
  BY <1>2 DEF ElsewhereWaiting, ParentsLive, UnbornOrphan
<1> QED
  BY <1>3, <1>4, <1>5 DEF Owned

LEMMA OwnedStep ==
    Typed /\ Owned /\ ForkedByHolder /\ CreatedInOrder /\ Promised /\ [Next]_vars => Owned'
<1> SUFFICES ASSUME Typed, Owned, ForkedByHolder, CreatedInOrder, Promised, [Next]_vars
             PROVE  Owned'
  OBVIOUS
<1> USE DEF dequeVars, threadVars, jobVars, promiseVars, contextVars
<1> DEFINE Quiet == /\ UNCHANGED <<deque, current, child, phase, parent>>
                    /\ \A k \in Jobs : SameJoin(k)
           Kept == \A f \in Executors :
                      /\ current[f] # NoJob => /\ pc'[f] \in Holding \cup {"exited"}
                                               /\ pc'[f] \in InStep <=> pc[f] \in InStep
                                               /\ pc'[f] = "undo" <=> pc[f] = "undo"
                      /\ child[f] # NoJob => pc'[f] = "fork"
<1>1. Quiet /\ Kept => Owned'
  BY QuietStep
<1>2. \A f \in Executors :
         /\ current[f] # NoJob => pc[f] \in Holding \cup {"exited"}
         /\ child[f] # NoJob => pc[f] = "fork"
  BY DEF Typed, TypeOK, Owned, HeldAsProgrammed, StateAt, ForkedAtRest
<1>3. pc' = pc => Kept
  BY <1>2
<1>4. pc' = Woken(pc) => Kept
  BY <1>2 DEF Woken, Holding, InStep
<1>5. CASE \E e \in Executors : ExecutorStep(e)
  BY <1>5, OwnedExecutorStep
<1>6. CASE \E e \in Executors : SpuriousWakeup(e)
  <2>1. Quiet
    BY <1>6 DEF SpuriousWakeup, SameJoin
  <2>2. Kept
    BY <1>2, <1>6 DEF SpuriousWakeup, Goto, Typed, TypeOK, Holding, InStep
  <2> QED
    BY <1>1, <2>1, <2>2
<1>7. CASE \E c \in Clients : SignalInvoke(c)
  BY <1>1, <1>4, <1>7 DEF SignalInvoke, SameJoin
<1>8. CASE \E c \in Clients, j \in Jobs : Invoke(c, j)
  BY <1>8, OwnedInvoke
<1>9. CASE StopExecutor \/ OpenContext
  BY <1>1, <1>4, <1>9 DEF StopExecutor, OpenContext, SameJoin
<1>10. CASE BeginDestroy \/ PassOver \/ JoinExecutor \/ DestroyExecutors \/ UNCHANGED vars
  BY <1>1, <1>3, <1>10
     DEF BeginDestroy, PassOver, JoinExecutor, DestroyExecutors, vars, SameJoin
<1>11. CASE CreateExecutor
  <2>1. Quiet
    BY <1>11 DEF CreateExecutor, SameJoin
  <2>2. Kept
    <3>1. CASE pc' = [pc EXCEPT ![main_index] = "boot"]
      <4>1. main_index \in Executors
        BY <1>11, NumExecutorsAssumption DEF CreateExecutor, Typed, TypeOK, Executors
      <4>2. current[main_index] = NoJob /\ child[main_index] = NoJob
        BY <1>11, <4>1, EmptyHanded DEF CreateExecutor, CreatedInOrder, Executors
      <4> QED
        BY <1>2, <3>1, <4>1, <4>2 DEF Typed, TypeOK
    <3>2. CASE pc' = pc
      BY <1>3, <3>2
    <3> QED
      BY <1>11, <3>1, <3>2 DEF CreateExecutor
  <2> QED
    BY <1>1, <2>1, <2>2
<1> QED
  BY <1>5, <1>6, <1>7, <1>8, <1>9, <1>10, <1>11 DEF Next, ContextStep, Terminated

\* A thread that does not exist yet, or no longer runs, does nothing.
LEMMA RestingKept ==
    ASSUME Typed, NEW e \in Executors, ExecutorStep(e) \/ SpuriousWakeup(e)
    PROVE  /\ UNCHANGED <<main_pc, main_index>>
           /\ \A f \in Executors : pc[f] \in {"unborn", "exited"} => pc'[f] = pc[f]
<1> USE DEF dequeVars, threadVars, jobVars, promiseVars, contextVars, Goto
<1>1. UNCHANGED <<main_pc, main_index>>
  BY DEF ExecutorStep, SpuriousWakeup, WaitForContext, Start, DequeueLocal, Sleep, GoStealing,
         Steal, Take, Exit, ExecuteSetup, FailSetup, BeginStep, EndJob, Fork, EnqueueFork,
         RefuseFork, UndoFork, SignalFork, EndStep, MoveToNext, NotifyParent, CompleteRoot,
         AwaitsRootOf, Release, Lose, Announce, DestroyRoot
<1>2. pc[e] \notin {"unborn", "exited"}
  BY DEF ExecutorStep, SpuriousWakeup, WaitForContext, Start, DequeueLocal, Sleep, GoStealing,
         Steal, Take, Exit, ExecuteSetup, FailSetup, BeginStep, EndJob, Fork, EnqueueFork,
         RefuseFork, UndoFork, SignalFork, EndStep, MoveToNext, NotifyParent, CompleteRoot,
         AwaitsRootOf, Release, Lose, Announce, DestroyRoot
<1>3. CASE SignalFork(e) \/ Announce(e)
  BY <1>1, <1>2, <1>3 DEF SignalFork, Announce, Woken, Typed, TypeOK
<1>4. CASE ~SignalFork(e) /\ ~Announce(e)
  <2>1. \E label : pc' = [pc EXCEPT ![e] = label]
    BY <1>4 DEF ExecutorStep, SpuriousWakeup, WaitForContext, Start, DequeueLocal, Sleep,
         GoStealing, Steal, Take, Exit, ExecuteSetup, FailSetup, BeginStep, EndJob, Fork,
         EnqueueFork, RefuseFork, UndoFork, EndStep, MoveToNext, NotifyParent, CompleteRoot,
         Release, Lose, DestroyRoot
  <2> QED
    BY <1>1, <1>2, <2>1 DEF Typed, TypeOK
<1> QED
  BY <1>3, <1>4

LEMMA CreatedStep == Typed /\ CreatedInOrder /\ [Next]_vars => CreatedInOrder'
<1> SUFFICES ASSUME Typed, CreatedInOrder, [Next]_vars PROVE CreatedInOrder'
  OBVIOUS
<1> USE DEF dequeVars, threadVars, jobVars, promiseVars, contextVars, Goto
<1>1. ASSUME UNCHANGED <<main_pc, main_index>>,
             \A f \in Executors : pc[f] = "unborn" => pc'[f] = "unborn"
      PROVE  CreatedInOrder'
  BY <1>1 DEF CreatedInOrder
<1>2. ASSUME pc' = Woken(pc)
      PROVE  \A f \in Executors : pc[f] = "unborn" => pc'[f] = "unborn"
  BY <1>2 DEF Woken
<1>3. CASE \E e \in Executors : ExecutorStep(e) \/ SpuriousWakeup(e)
  BY <1>1, <1>3, RestingKept
<1>4. CASE \E c \in Clients : SignalInvoke(c) \/ \E j \in Jobs : Invoke(c, j)
  BY <1>1, <1>2, <1>4 DEF SignalInvoke, Invoke
<1>5. CASE CreateExecutor
  BY <1>5, NumExecutorsAssumption DEF CreateExecutor, CreatedInOrder, Typed, TypeOK, Executors
<1>6. CASE \/ OpenContext \/ StopExecutor \/ PassOver
           \/ JoinExecutor \/ DestroyExecutors \/ BeginDestroy
  BY <1>6 DEF OpenContext, StopExecutor, PassOver, JoinExecutor, DestroyExecutors, BeginDestroy,
              CreatedInOrder
<1>7. CASE UNCHANGED vars
  BY <1>1, <1>7 DEF vars
<1> QED
  BY <1>3, <1>4, <1>5, <1>6, <1>7 DEF Next, ContextStep, Terminated

LEMMA ForkedByHolderStep == Typed /\ Owned /\ ForkedByHolder /\ [Next]_vars => ForkedByHolder'
<1> SUFFICES ASSUME Typed, Owned, ForkedByHolder, [Next]_vars PROVE ForkedByHolder'
  OBVIOUS
<1> USE DEF dequeVars, threadVars, jobVars, promiseVars, contextVars
<1>1. ASSUME UNCHANGED <<current, child, parent>> PROVE ForkedByHolder'
  BY <1>1 DEF ForkedByHolder
<1>2. ASSUME NEW e \in Executors, pc[e] # "fork", UNCHANGED <<child, parent>>,
             \A f \in Executors \ {e} : current'[f] = current[f]
      PROVE  ForkedByHolder'
  <2>1. child[e] = NoJob
    BY <1>2, EmptyHanded
  <2> QED
    BY <1>2, <2>1, JobsAssumption DEF ForkedByHolder
<1>3. CASE \E e \in Executors : ExecutorStep(e) \/ SpuriousWakeup(e)
  <2> PICK e \in Executors : ExecutorStep(e) \/ SpuriousWakeup(e)
    BY <1>3
  <2>1. CASE \E j \in Jobs, target \in Executors : Fork(e, j, target)
    <3> PICK j \in Jobs, target \in Executors : Fork(e, j, target)
      BY <2>1
    <3>1. /\ phase[j] = "unborn"
          /\ parent' = [parent EXCEPT ![j] = current[e]]
          /\ child' = [child EXCEPT ![e] = j]
          /\ UNCHANGED current
      BY DEF Fork
    <3>2. \A f \in Executors : child[f] # j
      BY <3>1, PlacedLive DEF Forking
    <3> QED
      BY <3>1, <3>2 DEF Typed, TypeOK, ForkedByHolder
  <2>2. CASE EnqueueFork(e) \/ RefuseFork(e)
    <3>1. child' = [child EXCEPT ![e] = NoJob] /\ UNCHANGED <<current, parent>>
      BY <2>2 DEF EnqueueFork, RefuseFork
    <3> QED
      BY <3>1, JobsAssumption DEF Typed, TypeOK, ForkedByHolder
  <2>3. CASE DequeueLocal(e) \/ NotifyParent(e) \/ DestroyRoot(e)
             \/ (\E victim \in Executors : Steal(e, victim))
             \/ (\E r \in Result : EndStep(e, r))
    <3>1. pc[e] # "fork" /\ UNCHANGED <<child, parent>>
      BY <2>3 DEF DequeueLocal, NotifyParent, DestroyRoot, Steal, EndStep
    <3>2. \A f \in Executors \ {e} : current'[f] = current[f]
      BY <2>3 DEF DequeueLocal, NotifyParent, DestroyRoot, Steal, EndStep, Typed, TypeOK
    <3> QED
      BY <1>2, <3>1, <3>2
  <2>4. CASE \/ SpuriousWakeup(e) \/ WaitForContext(e) \/ Start(e) \/ Sleep(e)
             \/ GoStealing(e) \/ Take(e) \/ Exit(e) \/ ExecuteSetup(e) \/ FailSetup(e)
             \/ BeginStep(e) \/ EndJob(e) \/ UndoFork(e) \/ SignalFork(e)
             \/ (\E r \in Result : MoveToNext(e, r)) \/ CompleteRoot(e)
             \/ (\E k \in Roots : Release(e, k) \/ Lose(e, k)) \/ Announce(e)
    BY <1>1, <2>4
       DEF SpuriousWakeup, WaitForContext, Start, Sleep, GoStealing, Take, Exit, ExecuteSetup,
           FailSetup, BeginStep, EndJob, UndoFork, SignalFork, MoveToNext, CompleteRoot,
           Release, Lose, Announce
  <2> QED
    BY <2>1, <2>2, <2>3, <2>4 DEF ExecutorStep
<1>4. CASE \/ \E c \in Clients : SignalInvoke(c) \/ \E j \in Jobs : Invoke(c, j)
           \/ ContextStep \/ BeginDestroy \/ UNCHANGED vars
  BY <1>1, <1>4
     DEF SignalInvoke, Invoke, ContextStep, CreateExecutor, OpenContext, StopExecutor, PassOver,
         JoinExecutor, DestroyExecutors, BeginDestroy, vars
<1> QED
  BY <1>3, <1>4 DEF Next, Terminated

\* Steps that leave the promises alone, and those who complete them.
LEMMA PromisesKept ==
    ASSUME Typed, Promised, UNCHANGED promiseVars,
           \A f \in Executors :
              /\ pc'[f] \in Completes <=> pc[f] \in Completes
              /\ pc[f] \in Completes => /\ current'[f] = current[f]
                                       /\ parent'[current[f]] = parent[current[f]],
           \A k \in Jobs : phase'[k] = "pending" => phase[k] = "pending" /\ SameJoin(k)
    PROVE  Promised'
<1>1. \A k \in Roots : Completing(k) => Completing(k)'
  BY DEF Completing, Completes
<1>2. OneCompletes' /\ CompletesForRoot'
  BY DEF Promised, OneCompletes, CompletesForRoot
<1>3. PendingPromised'
  BY <1>1 DEF Promised, PendingPromised, promiseVars
<1>4. PendingSettled'
  BY DEF Promised, PendingSettled, SameJoin
<1> QED
  BY <1>2, <1>3, <1>4 DEF Promised

LEMMA PromisedCompleteRoot ==
    ASSUME Typed, Owned, Promised, NEW e \in Executors, CompleteRoot(e)
    PROVE  Promised'
<1> PICK j \in Jobs : current[e] = j
  BY HeldJob DEF CompleteRoot, Holding
<1>1. /\ \A f \in Executors : pc[f] \notin Completes
      /\ pc' = [pc EXCEPT ![e] = "release"]
      /\ parent[j] = NoJob
      /\ \A k \in Jobs \ {j} : result'[k] = result[k]
      /\ UNCHANGED <<current, parent, phase, job, waits>>
  BY DEF CompleteRoot, PromisesUnlocked, Completes, Goto, Typed, TypeOK
<1>2. Completing(j)'
  BY <1>1 DEF Typed, TypeOK, Completing
<1>3. OneCompletes' /\ CompletesForRoot'
  BY <1>1 DEF Typed, TypeOK, OneCompletes, CompletesForRoot
<1>4. PendingPromised'
  BY <1>1, <1>2, JobsAssumption DEF Promised, PendingPromised, Completing, Completes
<1>5. PendingSettled'
  BY <1>1 DEF Promised, PendingSettled
<1> QED
  BY <1>3, <1>4, <1>5 DEF Promised

LEMMA PromisedDestroyRoot ==
    ASSUME Typed, Owned, Promised, NEW e \in Executors, DestroyRoot(e)
    PROVE  Promised'
<1> PICK j \in Jobs : current[e] = j
  BY HeldJob DEF DestroyRoot, Holding
<1>1. /\ pc[e] = "release"
      /\ \A k \in Roots : ~(phase[k] = "pending" /\ waits[k] = j)
      /\ phase' = [phase EXCEPT ![j] = "destroyed"]
      /\ pc' = [pc EXCEPT ![e] = "idle"]
      /\ UNCHANGED <<parent, job, result, waits>>
      /\ \A f \in Executors \ {e} : current'[f] = current[f]
  BY DEF DestroyRoot, AwaitsRootOf, Goto, promiseVars, Typed, TypeOK
<1>2. OneCompletes' /\ CompletesForRoot'
  BY <1>1 DEF Typed, TypeOK, Promised, OneCompletes, CompletesForRoot, Completes
<1>3. PendingPromised'
  <2> SUFFICES ASSUME NEW k \in Jobs, phase'[k] = "pending"
               PROVE  /\ k \in Roots /\ waits[k] \in Roots
                      /\ result[waits[k]] = "pending" \/ Completing(waits[k])'
    BY <1>1 DEF PendingPromised, Completing
  <2>1. phase[k] = "pending"
    BY <1>1 DEF Typed, TypeOK
  <2>2. k \in Roots /\ waits[k] \in Roots
    BY <2>1 DEF Promised, PendingPromised
  <2>3. CASE result[waits[k]] = "pending"
    BY <2>2, <2>3
  <2>4. CASE Completing(waits[k])
    <3> PICK f \in Executors : current[f] = waits[k] /\ pc[f] \in {"release", "announce"}
      BY <2>4 DEF Completing
    <3>1. f # e
      BY <1>1, <2>1, <2>2
    <3>2. current'[f] = waits[k] /\ pc'[f] \in {"release", "announce"}
      BY <1>1, <3>1 DEF Typed, TypeOK
    <3> QED
      BY <1>1, <2>2, <3>2 DEF Completing
  <2> QED
    BY <2>1, <2>3, <2>4 DEF Promised, PendingPromised
<1>4. PendingSettled'
  BY <1>1 DEF Typed, TypeOK, Promised, PendingSettled
<1> QED
  BY <1>2, <1>3, <1>4 DEF Promised

LEMMA PromisedInvoke ==
    ASSUME Typed, Owned, Promised, NEW c \in Clients, NEW j \in Jobs, Invoke(c, j)
    PROVE  Promised'
<1>1. /\ UNCHANGED <<pc, current, parent>>
      /\ j \in Roots
      /\ result' = [result EXCEPT ![j] = "pending"]
      /\ \A k \in Jobs \ {j} : phase'[k] = phase[k] /\ waits'[k] = waits[k]
  BY DEF Invoke, threadVars, Typed, TypeOK
<1>2. phase'[j] = "pending" => waits'[j] \in Roots /\ result[waits'[j]] = "pending"
  BY <1>1 DEF Invoke, Typed, TypeOK
<1>3. /\ job'[j].num_all_waiting_jobs = job'[j].num_ended_waiting_jobs
      /\ \A k \in Jobs \ {j} : SameJoin(k)
  BY InvokeEffect
<1>4. \A k \in Jobs : result[k] = "pending" => result'[k] = "pending"
  BY <1>1 DEF Typed, TypeOK
<1>5. \A k \in Roots : Completing(k)' <=> Completing(k)
  BY <1>1 DEF Completing
<1>6. OneCompletes' /\ CompletesForRoot'
  BY <1>1 DEF Promised, OneCompletes, CompletesForRoot
<1>7. PendingPromised'
  BY <1>1, <1>2, <1>4, <1>5, JobsAssumption DEF Promised, PendingPromised
<1>8. PendingSettled'
  BY <1>1, <1>3 DEF Promised, PendingSettled, SameJoin
<1> QED
  BY <1>6, <1>7, <1>8 DEF Promised

\* Steps of a thread that completes nothing, in which no job becomes pending.
LEMMA PromisedElsewhere ==
    ASSUME Typed, Owned, Promised, NEW e \in Executors, pc[e] \notin Completes,
           UNCHANGED promiseVars,
           pc'[e] \notin Completes,
           \A f \in Executors \ {e} :
              /\ pc'[f] \in Completes <=> pc[f] \in Completes
              /\ current'[f] = current[f],
           \A k \in Jobs : phase[k] = "live" => parent'[k] = parent[k],
           \A k \in Jobs : phase'[k] = "pending" => phase[k] = "pending" /\ SameJoin(k)
    PROVE  Promised'
<1>1. \A f \in Executors : pc[f] \in Completes => f # e /\ phase[current[f]] = "live" /\ current[f] \in Jobs
  BY HeldJob DEF Completes, Holding, Owned, HeldAsProgrammed, StateAt, AtRest, Busy, Overcounted
<1> QED
  BY <1>1, PromisesKept

LEMMA PromisedExecutorStep ==
    ASSUME Typed, Owned, Promised, NEW e \in Executors, ExecutorStep(e)
    PROVE  Promised'
<1> USE DEF Goto, dequeVars, jobVars, promiseVars
<1> DEFINE Elsewhere == /\ pc[e] \notin Completes
                        /\ UNCHANGED promiseVars
                        /\ pc'[e] \notin Completes
                        /\ \A f \in Executors \ {e} :
                              /\ pc'[f] \in Completes <=> pc[f] \in Completes
                              /\ current'[f] = current[f]
           Settled == /\ \A k \in Jobs : phase[k] = "live" => parent'[k] = parent[k]
                      /\ \A k \in Jobs : phase'[k] = "pending" => phase[k] = "pending" /\ SameJoin(k)
<1>1. Elsewhere /\ Settled => Promised'
  BY PromisedElsewhere
<1>2. Elsewhere /\ UNCHANGED <<phase, parent>> /\ (\A k \in Jobs : SameJoin(k)) => Promised'
  BY <1>1
<1>3. ASSUME NEW label, label \notin Completes, pc[e] \notin Completes,
             pc' = [pc EXCEPT ![e] = label], UNCHANGED promiseVars,
             \A f \in Executors \ {e} : current'[f] = current[f]
      PROVE  Elsewhere
  BY <1>3 DEF Typed, TypeOK
<1>4. ASSUME pc[e] \in Holding, NEW k \in Jobs, phase[k] = "pending"
      PROVE  current[e] # k
  BY <1>4, PlacedLive DEF Held
<1> HIDE DEF Settled
<1>5. CASE \/ WaitForContext(e) \/ Start(e) \/ Sleep(e) \/ GoStealing(e) \/ Take(e) \/ Exit(e)
           \/ EndJob(e)
  <2>1. Elsewhere
    BY <1>5 DEF WaitForContext, Start, Sleep, GoStealing, Take, Exit, EndJob, Completes, Typed, TypeOK
  <2> QED
    BY <1>2, <1>5, <2>1 DEF WaitForContext, Start, Sleep, GoStealing, Take, Exit, EndJob, SameJoin
<1>6. CASE DequeueLocal(e)
  <2>1. Elsewhere
    BY <1>6 DEF DequeueLocal, Completes, Typed, TypeOK
  <2> QED
    BY <1>2, <1>6, <2>1 DEF DequeueLocal, SameJoin
<1>7. CASE \E victim \in Executors : Steal(e, victim)
  <2> PICK victim \in Executors : Steal(e, victim)
    BY <1>7
  <2>1. Elsewhere
    BY DEF Steal, Completes, Typed, TypeOK
  <2>2. \A k \in Jobs : SameJoin(k)
    <3>1. CASE deque[victim] = <<>>
      BY <3>1 DEF Steal, SameJoin
    <3>2. CASE deque[victim] # <<>>
      <4>1. Back(deque[victim]) \in Jobs
        BY <3>2, DequeBackType DEF Typed, TypeOK
      <4> QED
        BY <3>2, <4>1, StolenEffect DEF Steal
    <3> QED
      BY <3>1, <3>2
  <2> QED
    BY <1>2, <2>1, <2>2 DEF Steal
<1>8. CASE ExecuteSetup(e)
  <2>1. Elsewhere
    BY <1>8 DEF ExecuteSetup, Completes, Typed, TypeOK
  <2> QED
    BY <1>2, <1>8, <2>1, ExecuteSetupEffect DEF ExecuteSetup
<1>9. CASE FailSetup(e)
  <2>1. Elsewhere
    BY <1>9 DEF FailSetup, Completes, Typed, TypeOK
  <2> QED
    BY <1>2, <1>9, <2>1, FailSetupEffect DEF FailSetup
<1>10. CASE \E r \in Result : MoveToNext(e, r)
  <2> PICK r \in Result : MoveToNext(e, r)
    BY <1>10
  <2>1. Elsewhere
    BY DEF MoveToNext, Completes, Typed, TypeOK
  <2> QED
    BY <1>2, <2>1, MoveToNextEffect DEF MoveToNext
<1>11. CASE BeginStep(e)
  <2>1. Elsewhere
    BY <1>11 DEF BeginStep, Completes, Typed, TypeOK
  <2>2. Settled
    BY <1>4, <1>11, BeginStepEffect DEF BeginStep, Holding, Settled
  <2> QED
    BY <1>1, <2>1, <2>2
<1>12. CASE \E j \in Jobs, target \in Executors : Fork(e, j, target)
  <2> PICK j \in Jobs, target \in Executors : Fork(e, j, target)
    BY <1>12
  <2>1. Elsewhere
    BY DEF Fork, Completes, Typed, TypeOK
  <2>2. /\ phase[j] = "unborn"
        /\ phase' = [phase EXCEPT ![j] = "live"]
        /\ parent' = [parent EXCEPT ![j] = current[e]]
        /\ pc[e] \in Holding
    BY DEF Fork, Holding
  <2>3. j # current[e]
    BY <2>2, PlacedLive DEF Held
  <2>4. Settled
    BY <1>4, <2>2, <2>3, ForkEffect DEF Typed, TypeOK, Settled
  <2> QED
    BY <1>1, <2>1, <2>4
<1>13. CASE EnqueueFork(e)
  <2>1. Elsewhere
    BY <1>13 DEF EnqueueFork, Completes, Typed, TypeOK
  <2> QED
    BY <1>2, <1>13, <2>1 DEF EnqueueFork, SameJoin
<1>14. CASE RefuseFork(e)
  <2>1. Elsewhere
    BY <1>14 DEF RefuseFork, Completes, Typed, TypeOK
  <2>2. Settled
    BY <1>14 DEF RefuseFork, SameJoin, Typed, TypeOK, Settled
  <2> QED
    BY <1>1, <2>1, <2>2
<1>15. CASE UndoFork(e)
  <2>1. Elsewhere
    BY <1>15 DEF UndoFork, Completes, Typed, TypeOK
  <2>2. Settled
    BY <1>4, <1>15, UndoForkEffect DEF UndoFork, Holding, Settled
  <2> QED
    BY <1>1, <2>1, <2>2
<1>16. CASE SignalFork(e)
  <2>1. Elsewhere
    BY <1>16 DEF SignalFork, Woken, Completes, Typed, TypeOK
  <2> QED
    BY <1>2, <1>16, <2>1 DEF SignalFork, SameJoin
<1>17. CASE \E r \in Result : EndStep(e, r)
  <2> PICK r \in Result : EndStep(e, r)
    BY <1>17
  <2>1. Elsewhere
    BY DEF EndStep, Completes, Typed, TypeOK
  <2>2. Settled
    BY <1>4, EndStepEffect DEF EndStep, Holding, Settled
  <2> QED
    BY <1>1, <2>1, <2>2
<1>18. CASE NotifyParent(e)
  <2>1. Elsewhere
    BY <1>18 DEF NotifyParent, AfterLastChild, Completes, Typed, TypeOK
  <2>2. pc[e] \in Holding /\ UNCHANGED parent /\ phase' = [phase EXCEPT ![current[e]] = "destroyed"]
    BY <1>18 DEF NotifyParent, Holding
  <2>3. phase[current[e]] = "live" /\ current[e] \in Jobs
    BY <2>2, HeldJob DEF Owned, HeldAsProgrammed, StateAt, AtRest, Busy, Overcounted
  <2> PICK p \in Jobs : p = parent[current[e]]
    BY <1>18, NotifyParentEffect
  <2>4. p # NoJob /\ phase[p] = "live"
    BY <2>3, JobsAssumption DEF Owned, ParentsLive
  <2>5. Settled
    BY <1>18, <2>2, <2>4, NotifyParentEffect DEF Typed, TypeOK, Settled
  <2> QED
    BY <1>1, <2>1, <2>5
<1>19. CASE CompleteRoot(e)
  BY <1>19, PromisedCompleteRoot
<1>20. CASE \E k \in Roots : Release(e, k) \/ Lose(e, k)
  <2> PICK k \in Jobs : k \in Roots /\ (Release(e, k) \/ Lose(e, k))
    BY <1>20, JobsAssumption
  <2>1. /\ pc[e] = "release" /\ pc' = [pc EXCEPT ![e] = "announce"]
        /\ UNCHANGED <<current, parent, promiseVars>>
        /\ phase' = [phase EXCEPT ![k] = "live"] \/ phase' = [phase EXCEPT ![k] = "lost"]
        /\ job' = Told(k, current[e])
    BY DEF Release, Lose, AwaitsRootOf
  <2>2. \A l \in Jobs : SameJoin(l)
    BY <2>1, ToldEffect
  <2>3. \A l \in Jobs : phase'[l] = "pending" => phase[l] = "pending"
    BY <2>1 DEF Typed, TypeOK
  <2>4. \A f \in Executors : pc'[f] \in Completes <=> pc[f] \in Completes
    BY <2>1 DEF Typed, TypeOK, Completes
  <2> QED
    BY <2>1, <2>2, <2>3, <2>4, PromisesKept
<1>21. CASE Announce(e)
  <2>1. \A f \in Executors : pc'[f] \in Completes <=> pc[f] \in Completes
    BY <1>21 DEF Announce, Woken, Typed, TypeOK, Completes
  <2>2. UNCHANGED <<current, parent, phase, job, promiseVars>>
    BY <1>21 DEF Announce
  <2> QED
    BY <2>1, <2>2, PromisesKept DEF SameJoin
<1>22. CASE DestroyRoot(e)
  BY <1>22, PromisedDestroyRoot
<1> QED
  BY <1>5, <1>6, <1>7, <1>8, <1>9, <1>10, <1>11, <1>12, <1>13, <1>14, <1>15, <1>16, <1>17,
     <1>18, <1>19, <1>20, <1>21, <1>22 DEF ExecutorStep

LEMMA PromisedStep == Typed /\ Owned /\ CreatedInOrder /\ Promised /\ [Next]_vars => Promised'
<1> SUFFICES ASSUME Typed, Owned, CreatedInOrder, Promised, [Next]_vars PROVE Promised'
  OBVIOUS
<1> USE DEF dequeVars, threadVars, jobVars, contextVars
<1>1. ASSUME UNCHANGED <<current, phase, parent, job, promiseVars>>,
             \A f \in Executors : pc'[f] \in Completes <=> pc[f] \in Completes
      PROVE  Promised'
  BY <1>1, PromisesKept DEF SameJoin
<1>2. CASE \E e \in Executors : ExecutorStep(e)
  BY <1>2, PromisedExecutorStep
<1>3. CASE \E e \in Executors : SpuriousWakeup(e)
  BY <1>1, <1>3 DEF SpuriousWakeup, Goto, Completes, Typed, TypeOK
<1>4. CASE \E c \in Clients : SignalInvoke(c)
  BY <1>1, <1>4 DEF SignalInvoke, Woken, Completes, Typed, TypeOK
<1>5. CASE \E c \in Clients, j \in Jobs : Invoke(c, j)
  BY <1>5, PromisedInvoke
<1>6. CASE OpenContext \/ StopExecutor
  BY <1>1, <1>6 DEF OpenContext, StopExecutor, Woken, Completes, Typed, TypeOK
<1>7. CASE PassOver \/ JoinExecutor \/ DestroyExecutors \/ BeginDestroy \/ UNCHANGED vars
  BY <1>1, <1>7 DEF PassOver, JoinExecutor, DestroyExecutors, BeginDestroy, vars
<1>8. CASE CreateExecutor
  <2>1. \A f \in Executors : pc'[f] \in Completes <=> pc[f] \in Completes
    <3>1. CASE pc' = [pc EXCEPT ![main_index] = "boot"]
      <4>1. main_index \in Executors /\ pc[main_index] = "unborn"
        BY <1>8, NumExecutorsAssumption DEF CreateExecutor, CreatedInOrder, Typed, TypeOK, Executors
      <4> QED
        BY <3>1, <4>1 DEF Typed, TypeOK, Completes
    <3> QED
      BY <1>8, <3>1 DEF CreateExecutor
  <2> QED
    BY <1>1, <1>8, <2>1 DEF CreateExecutor
<1> QED
  BY <1>2, <1>3, <1>4, <1>5, <1>6, <1>7, <1>8 DEF Next, ContextStep, Terminated

LEMMA UnbornWaitsStep == Typed /\ UnbornWaitsForNone /\ [Next]_vars => UnbornWaitsForNone'
<1> SUFFICES ASSUME Typed, UnbornWaitsForNone, [Next]_vars PROVE UnbornWaitsForNone'
  OBVIOUS
<1> USE DEF dequeVars, threadVars, jobVars, promiseVars, contextVars
<1>1. ASSUME UNCHANGED waits, \A k \in Jobs : phase'[k] = "unborn" => phase[k] = "unborn"
      PROVE  UnbornWaitsForNone'
  BY <1>1 DEF UnbornWaitsForNone
<1>2. ASSUME UNCHANGED waits,
             \E x, label : label # "unborn" /\ phase' = [phase EXCEPT ![x] = label]
      PROVE  UnbornWaitsForNone'
  BY <1>1, <1>2 DEF Typed, TypeOK
<1>3. CASE \E e \in Executors : ExecutorStep(e) \/ SpuriousWakeup(e)
  <2> PICK e \in Executors : ExecutorStep(e) \/ SpuriousWakeup(e)
    BY <1>3
  <2>1. CASE \/ \E j \in Jobs, target \in Executors : Fork(e, j, target)
             \/ RefuseFork(e) \/ NotifyParent(e) \/ DestroyRoot(e)
             \/ \E k \in Roots : Release(e, k) \/ Lose(e, k)
    BY <1>2, <2>1 DEF Fork, RefuseFork, NotifyParent, DestroyRoot, Release, Lose
  <2>2. CASE \/ SpuriousWakeup(e) \/ WaitForContext(e) \/ Start(e) \/ Sleep(e) \/ DequeueLocal(e)
             \/ (\E victim \in Executors : Steal(e, victim))
             \/ GoStealing(e) \/ Take(e) \/ Exit(e) \/ ExecuteSetup(e) \/ FailSetup(e)
             \/ BeginStep(e) \/ EndJob(e) \/ EnqueueFork(e) \/ UndoFork(e) \/ SignalFork(e)
             \/ (\E r \in Result : EndStep(e, r) \/ MoveToNext(e, r))
             \/ CompleteRoot(e) \/ Announce(e)
    BY <1>1, <2>2
       DEF SpuriousWakeup, WaitForContext, Start, Sleep, DequeueLocal, Steal, GoStealing, Take,
           Exit, ExecuteSetup, FailSetup, BeginStep, EndJob, EnqueueFork, UndoFork, SignalFork,
           EndStep, MoveToNext, CompleteRoot, Announce
  <2> QED
    BY <2>1, <2>2 DEF ExecutorStep
<1>4. CASE \E c \in Clients, j \in Jobs : Invoke(c, j)
  <2> PICK c \in Clients, j \in Jobs : Invoke(c, j)
    BY <1>4
  <2>1. /\ phase'[j] # "unborn"
        /\ \A k \in Jobs \ {j} : phase'[k] = phase[k] /\ waits'[k] = waits[k]
    BY DEF Invoke, Typed, TypeOK
  <2> QED
    BY <2>1 DEF UnbornWaitsForNone
<1>5. CASE \/ \E c \in Clients : SignalInvoke(c)
           \/ ContextStep \/ BeginDestroy \/ UNCHANGED vars
  BY <1>1, <1>5
     DEF SignalInvoke, ContextStep, CreateExecutor, OpenContext, StopExecutor, PassOver,
         JoinExecutor, DestroyExecutors, BeginDestroy, vars
<1> QED
  BY <1>3, <1>4, <1>5 DEF Next, Terminated

LEMMA SideInit == Init => ForkedByHolder /\ CreatedInOrder /\ Promised /\ UnbornWaitsForNone
<1>1. Init => Promised
  BY DEF Init, Promised, OneCompletes, CompletesForRoot, PendingPromised, PendingSettled, Completes
<1> QED
  BY <1>1, JobsAssumption DEF Init, ForkedByHolder, CreatedInOrder, UnbornWaitsForNone

LEMMA AlwaysOwned == Spec => [](Typed /\ Owned /\ Promised)
<1> DEFINE Strong == Typed /\ Owned /\ ForkedByHolder /\ CreatedInOrder /\ Promised
<1>1. Init => Strong
  BY TypedInit, OwnedInit, SideInit
<1>2. Strong /\ [Next]_vars => Strong'
  BY TypedStep, OwnedStep, ForkedByHolderStep, CreatedStep, PromisedStep
<1> QED
  BY <1>1, <1>2, PTL DEF Spec

-----------------------------------------------------------------------------
(* The theorems *)

\* Who is suspended has live children, and is nowhere else.
LEMMA SuspendedNowhere ==
    ASSUME Typed, Owned, NEW j \in Jobs, Suspended(j)
    PROVE  ~Queued(j) /\ ~Held(j) /\ ~Forking(j)
<1>1. ~AtRest(j) /\ ~Busy(j) /\ ~Overcounted(j)
  BY DEF Typed, TypeOK, JobRecord, Suspended, AtRest, Busy, Overcounted
<1> QED
  BY <1>1 DEF Owned, QueuedAtRest, ForkedAtRest, HeldAsProgrammed, StateAt, Held, Forking

(***************************************************************************)
(* Stealing, forking, suspending, resuming and releasing hand each job to  *)
(* exactly one thread (executor.c:51-126, job.c:110-143, 196-227 and       *)
(* context.c:594-626): of any number of executors and jobs, no job is in   *)
(* two places, none that was queued is in no place, and none that waits    *)
(* for a promise is forgotten by it.                                       *)
(***************************************************************************)
THEOREM EveryJobHasOneOwner == Spec => []OneOwner
<1>1. ASSUME Typed, Owned, Promised PROVE OneOwner
  <2>1. NoSharing
    <3>1. \A j \in Jobs : /\ ~(Queued(j) /\ Held(j))
                          /\ ~(Queued(j) /\ Forking(j))
                          /\ ~(Held(j) /\ Forking(j))
                          /\ Suspended(j) => ~Queued(j) /\ ~Held(j) /\ ~Forking(j)
      BY <1>1, SuspendedNowhere DEF Owned, QueuedAtRest, ForkedAtRest, Forking
    <3> QED
      BY <1>1, <3>1 DEF Owned, DequesDisjoint, HandsDisjoint, NoSharing
  <2>2. NoneLost
    <3> SUFFICES ASSUME NEW j \in Jobs
                 PROVE (Queued(j) \/ Held(j) \/ Forking(j) \/ Suspended(j)) <=> phase[j] = "live"
      BY <1>1 DEF Promised, PendingPromised, NoneLost
    <3>1. ASSUME phase[j] # "live" PROVE ~(Queued(j) \/ Held(j) \/ Forking(j) \/ Suspended(j))
      BY <1>1, <3>1, PlacedLive DEF Suspended
    <3>2. ASSUME phase[j] = "live", ~Queued(j), ~Held(j), ~Forking(j) PROVE Suspended(j)
      <4>1. Waiting(j)
        BY <1>1, <3>2 DEF Owned, ElsewhereWaiting
      <4>2. job[j].num_ended_waiting_jobs \in Nat /\ NumChildren[j] \in Nat
        BY <1>1, NumChildrenType DEF Typed, TypeOK, JobRecord
      <4> QED
        BY <3>2, <4>1, <4>2 DEF Waiting, Suspended
    <3> QED
      BY <3>1, <3>2
  <2> QED
    BY <2>1, <2>2 DEF OneOwner
<1> QED
  BY <1>1, AlwaysOwned, PTL

(***************************************************************************)
(* The counters of a fork, of a step's end and of a child's end (context.c *)
(* 231 and 241-250, job.c:121-131, job.c:196-227) never drift apart: their *)
(* difference is the number of live children, one more in a step, and yet  *)
(* another while a fork that failed is undone.                             *)
(***************************************************************************)
THEOREM JoinCountersExact == Spec => []JoinCount
<1>1. ASSUME Typed, Owned PROVE JoinCount
  <2> SUFFICES ASSUME NEW j \in Jobs, phase[j] = "live"
               PROVE  job[j].num_all_waiting_jobs - job[j].num_ended_waiting_jobs
                        = Cardinality(LiveChildren(j)) + (IF Stepping(j) THEN 1 ELSE 0)
                                                       + (IF Undoing(j) THEN 1 ELSE 0)
    BY DEF JoinCount
  <2>1. /\ job[j].num_all_waiting_jobs \in Int
        /\ job[j].num_ended_waiting_jobs \in Nat
        /\ NumChildren[j] \in Nat
        /\ NumChildren[j] = Cardinality(LiveChildren(j))
    BY <1>1, NumChildrenType DEF Typed, TypeOK, JobRecord
  <2>2. CASE Stepping(j) /\ ~Undoing(j)
    <3>1. Busy(j)
      BY <1>1, <2>2 DEF Owned, HeldAsProgrammed, StateAt, Stepping, Undoing
    <3> QED
      BY <2>1, <2>2, <3>1 DEF Busy
  <2>3. CASE Undoing(j)
    <3>1. Overcounted(j) /\ Stepping(j)
      BY <1>1, <2>3 DEF Owned, HeldAsProgrammed, StateAt, Stepping, Undoing, InStep
    <3> QED
      BY <2>1, <2>3, <3>1 DEF Overcounted
  <2>4. CASE ~Stepping(j)
    <3>1. AtRest(j) \/ Waiting(j)
      BY <1>1, <2>4
      DEF Owned, QueuedAtRest, ForkedAtRest, HeldAsProgrammed, StateAt, ElsewhereWaiting,
          Stepping, Held, Forking, InStep
    <3>2. ~Undoing(j)
      BY <2>4 DEF Stepping, Undoing, InStep
    <3> QED
      BY <2>1, <2>4, <3>1, <3>2 DEF AtRest, Waiting
  <2> QED
    BY <2>2, <2>3, <2>4
<1> QED
  BY <1>1, AlwaysOwned, PTL

(***************************************************************************)
(* A job is neither continued nor ended while a job it forked is alive, so *)
(* the parent a forked job notifies when it ends (job.c:196-227) exists.   *)
(***************************************************************************)
THEOREM ChildrenEndBeforeParents == Spec => []ChildrenEndFirst
<1>1. ASSUME Typed, Owned PROVE ChildrenEndFirst
  <2>1. ASSUME NEW e \in Executors, pc[e] \in {"run", "next", "finish", "abort", "reject",
                                             "release", "announce"}
        PROVE  LiveChildren(current[e]) = {}
    <3> PICK j \in Jobs : current[e] = j
      BY <1>1, <2>1, HeldJob DEF Holding
    <3>1. AtRest(j)
      BY <1>1, <2>1 DEF Owned, HeldAsProgrammed, StateAt, InStep
    <3> QED
      BY <3>1, NumChildrenType DEF AtRest
  <2> QED
    BY <1>1, <2>1 DEF Owned, ParentsLive, ChildrenEndFirst
<1> QED
  BY <1>1, AlwaysOwned, PTL

-----------------------------------------------------------------------------
(***************************************************************************)
(* The shared count of free jobs: it is exact but for the threads that are *)
(* about to change it, and no thread sleeps while a job is queued unless a *)
(* signal is still to come.                                                *)
(***************************************************************************)

-----------------------------------------------------------------------------
(* The sum of the lengths of the deques *)

TotalLength(d) == LET f[e \in 0 .. NumExecutors] ==
                          IF e = 0 THEN 0 ELSE f[e - 1] + Len(d[e - 1])
                  IN  f[NumExecutors]

Lengths(d) == [e \in Executors |-> Len(d[e])]

LEMMA TotalIsSum ==
    ASSUME NEW d \in [Executors -> Seq(Jobs)]
    PROVE  /\ \A i \in 0 .. NumExecutors - 1 : Lengths(d)[i] = Len(d[i]) /\ Lengths(d)[i] \in Nat
           /\ \E f : SumsUp(f, Lengths(d), NumExecutors) /\ TotalLength(d) = f[NumExecutors]
<1> USE NumExecutorsAssumption DEF Executors
<1> DEFINE f[e \in 0 .. NumExecutors] == IF e = 0 THEN 0 ELSE f[e - 1] + Len(d[e - 1])
<1>1. \A i \in 0 .. NumExecutors - 1 : Lengths(d)[i] = Len(d[i]) /\ Lengths(d)[i] \in Nat
  BY DEF Lengths
<1>2. \E g : SumsUp(g, Lengths(d), NumExecutors)
  <2> DEFINE lengths == Lengths(d)
  <2>1. NumExecutors \in Nat /\ \A i \in 0 .. NumExecutors - 1 : lengths[i] \in Int
    BY <1>1
  <2> HIDE DEF lengths
  <2>2. \E g : SumsUp(g, lengths, NumExecutors)
    BY ONLY <2>1, SumsExist
  <2> QED
    BY <2>2 DEF lengths
<1>3. PICK g : g = [e \in 0 .. NumExecutors |-> IF e = 0 THEN 0 ELSE g[e - 1] + Len(d[e - 1])]
  BY <1>1, <1>2, SMTT(30) DEF SumsUp
<1>4. f = [e \in 0 .. NumExecutors |-> IF e = 0 THEN 0 ELSE f[e - 1] + Len(d[e - 1])]
  BY <1>3
<1>5. TotalLength(d) = f[NumExecutors]
  BY DEF TotalLength
<1> HIDE DEF f
<1>6. SumsUp(f, Lengths(d), NumExecutors)
  BY <1>1, <1>4 DEF SumsUp
<1> QED
  BY <1>1, <1>5, <1>6

LEMMA TotalBounds ==
    ASSUME NEW d \in [Executors -> Seq(Jobs)]
    PROVE  TotalLength(d) \in Nat /\ \A e \in Executors : Len(d[e]) <= TotalLength(d)
<1>1. PICK f : SumsUp(f, Lengths(d), NumExecutors) /\ TotalLength(d) = f[NumExecutors]
  BY TotalIsSum
<1>2. \A i \in 0 .. NumExecutors - 1 : Lengths(d)[i] = Len(d[i]) /\ Lengths(d)[i] \in Nat
  BY TotalIsSum
<1>3. f[NumExecutors] \in Nat
  BY <1>1, <1>2, NumExecutorsAssumption, SumsType
<1>4. \A e \in 0 .. NumExecutors - 1 : Lengths(d)[e] <= f[NumExecutors]
  BY <1>1, <1>2, NumExecutorsAssumption, SumsBound
<1> QED
  BY <1>1, <1>2, <1>3, <1>4 DEF Executors

LEMMA TotalChanges ==
    ASSUME NEW d \in [Executors -> Seq(Jobs)], NEW e \in Executors, NEW q \in Seq(Jobs)
    PROVE  TotalLength([d EXCEPT ![e] = q]) = TotalLength(d) + Len(q) - Len(d[e])
<1> DEFINE d2 == [d EXCEPT ![e] = q]
<1>1. d2 \in [Executors -> Seq(Jobs)] /\ d2[e] = q /\ \A i \in Executors : i # e => d2[i] = d[i]
  OBVIOUS
<1> HIDE DEF d2
<1>2. PICK f : SumsUp(f, Lengths(d), NumExecutors) /\ TotalLength(d) = f[NumExecutors]
  BY TotalIsSum
<1>3. PICK g : SumsUp(g, Lengths(d2), NumExecutors) /\ TotalLength(d2) = g[NumExecutors]
  BY <1>1, TotalIsSum
<1>4. \A i \in 0 .. NumExecutors - 1 : Lengths(d)[i] = Len(d[i]) /\ Lengths(d)[i] \in Nat
  BY TotalIsSum
<1>5. \A i \in 0 .. NumExecutors - 1 : Lengths(d2)[i] = Len(d2[i]) /\ Lengths(d2)[i] \in Nat
  BY <1>1, TotalIsSum
<1>6. g[NumExecutors] = f[NumExecutors] + Lengths(d2)[e] - Lengths(d)[e]
  <2>1. e \in 0 .. NumExecutors - 1 /\ NumExecutors \in Nat
    BY NumExecutorsAssumption DEF Executors
  <2>2. ChangedAt(Lengths(d2), Lengths(d), e, NumExecutors)
    BY <1>1, <1>4, <1>5 DEF ChangedAt, Executors
  <2> QED
    BY <1>2, <1>3, <2>1, <2>2, SumsChange
<1> QED
  BY <1>1, <1>2, <1>3, <1>4, <1>5, <1>6 DEF d2, Executors

LEMMA QueueLengthsType ==
    ASSUME Typed
    PROVE  QueueLengths \in Nat /\ QueueLengths = TotalLength(deque)
<1>1. QueueLengths = TotalLength(deque)
  BY DEF QueueLengths, TotalLength
<1> QED
  BY <1>1, TotalBounds DEF Typed, TypeOK

LEMMA QueueLengthsSame ==
    ASSUME UNCHANGED deque
    PROVE  QueueLengths' = QueueLengths
BY DEF QueueLengths

LEMMA QueueLengthsChange ==
    ASSUME Typed, NEW e \in Executors, NEW q \in Seq(Jobs), deque' = [deque EXCEPT ![e] = q]
    PROVE  QueueLengths' = QueueLengths + Len(q) - Len(deque[e])
<1>1. QueueLengths = TotalLength(deque) /\ QueueLengths' = TotalLength(deque')
  BY DEF QueueLengths, TotalLength
<1>2. deque \in [Executors -> Seq(Jobs)]
  BY DEF Typed, TypeOK
<1>3. TotalLength([deque EXCEPT ![e] = q]) = TotalLength(deque) + Len(q) - Len(deque[e])
  BY <1>2, TotalChanges
<1> QED
  BY <1>1, <1>3

-----------------------------------------------------------------------------
(* How many threads, or clients, are at a label *)

\* The members of D that f maps to a member of V.
Positions(f, D, V) == {x \in D : f[x] \in V}
NumAt(f, D, V) == Cardinality(Positions(f, D, V))

LEMMA NumAtType ==
    ASSUME NEW D, IsFiniteSet(D), NEW f, NEW V
    PROVE  NumAt(f, D, V) \in Nat /\ IsFiniteSet(Positions(f, D, V))
<1>1. IsFiniteSet(Positions(f, D, V))
  BY FS_Subset DEF Positions
<1> QED
  BY <1>1, FS_CardinalityType DEF NumAt

\* g is f but for the value at x.
DiffersAt(g, f, D, x) == \A y \in D : y # x => g[y] = f[y]

LEMMA NumAtChanges ==
    ASSUME NEW D, IsFiniteSet(D), NEW f, NEW g, NEW x \in D, DiffersAt(g, f, D, x), NEW V
    PROVE  /\ f[x] \notin V /\ g[x] \notin V => NumAt(g, D, V) = NumAt(f, D, V)
           /\ f[x] \in V /\ g[x] \notin V => NumAt(g, D, V) = NumAt(f, D, V) - 1
           /\ f[x] \notin V /\ g[x] \in V => NumAt(g, D, V) = NumAt(f, D, V) + 1
<1>1. \A y \in D \ {x} : g[y] = f[y]
  BY DEF DiffersAt
<1>2. IsFiniteSet(Positions(f, D, V))
  BY NumAtType
<1>3. ASSUME f[x] \notin V, g[x] \notin V PROVE NumAt(g, D, V) = NumAt(f, D, V)
  <2>1. Positions(g, D, V) = Positions(f, D, V)
    BY <1>1, <1>3 DEF Positions
  <2> QED
    BY <2>1 DEF NumAt
<1>4. ASSUME f[x] \in V, g[x] \notin V PROVE NumAt(g, D, V) = NumAt(f, D, V) - 1
  <2>1. Positions(g, D, V) = Positions(f, D, V) \ {x} /\ x \in Positions(f, D, V)
    BY <1>1, <1>4 DEF Positions
  <2> QED
    BY <1>2, <2>1, FS_RemoveElement DEF NumAt
<1>5. ASSUME f[x] \notin V, g[x] \in V PROVE NumAt(g, D, V) = NumAt(f, D, V) + 1
  <2>1. Positions(g, D, V) = Positions(f, D, V) \cup {x} /\ x \notin Positions(f, D, V)
    BY <1>1, <1>5 DEF Positions
  <2> QED
    BY <1>2, <2>1, FS_AddElement DEF NumAt
<1> QED
  BY <1>3, <1>4, <1>5

LEMMA ExecutorsFinite == IsFiniteSet(Executors)
BY NumExecutorsAssumption, FS_Interval DEF Executors

\* Where a thread is about to count a job.
Signals == {"signal", "announce"}

LEMMA WokenNumAt ==
    ASSUME NEW p \in [Executors -> PC], NEW V, V \in {{"take"}, Signals}
    PROVE  NumAt(Woken(p), Executors, V) = NumAt(p, Executors, V)
<1>1. \A e \in Executors : Woken(p)[e] \in V <=> p[e] \in V
  BY DEF Woken, Signals
<1>2. Positions(Woken(p), Executors, V) = Positions(p, Executors, V)
  BY <1>1 DEF Positions
<1> QED
  BY <1>2 DEF NumAt

TakingOf(p) == NumAt(p, Executors, {"take"})
SignallingOf(p, c) == NumAt(p, Executors, Signals) + NumAt(c, Clients, {"signal"})
PhantomsOf(w, p) == NumAt(w, Jobs, Roots) + NumAt(p, Jobs, {"lost"})

LEMMA TakingSignalling ==
    /\ Taking = TakingOf(pc)
    /\ Signalling = SignallingOf(pc, client)
    /\ TakingOf(pc) \in Nat
    /\ SignallingOf(pc, client) \in Nat
<1>1. Taking = TakingOf(pc) /\ Signalling = SignallingOf(pc, client)
  <2>1. /\ {e \in Executors : pc[e] = "take"} = Positions(pc, Executors, {"take"})
        /\ {e \in Executors : pc[e] \in {"signal", "announce"}} = Positions(pc, Executors, Signals)
        /\ {c \in Clients : client[c] = "signal"} = Positions(client, Clients, {"signal"})
    BY DEF Positions, Signals
  <2> QED
    BY <2>1 DEF Taking, Signalling, TakingOf, SignallingOf, NumAt
<1>2. NumAt(pc, Executors, {"take"}) \in Nat /\ NumAt(pc, Executors, Signals) \in Nat
  BY ExecutorsFinite, NumAtType
<1>3. NumAt(client, Clients, {"signal"}) \in Nat
  BY ClientsAssumption, NumAtType
<1> QED
  BY <1>1, <1>2, <1>3 DEF TakingOf, SignallingOf

LEMMA PhantomsCounted ==
    ASSUME Typed
    PROVE  Phantoms = PhantomsOf(waits, phase) /\ Phantoms \in Nat
<1>1. /\ {j \in Jobs : waits[j] # NoJob} = Positions(waits, Jobs, Roots)
      /\ {j \in Jobs : phase[j] = "lost"} = Positions(phase, Jobs, {"lost"})
  BY JobsAssumption DEF Typed, TypeOK, Positions
<1>2. NumAt(waits, Jobs, Roots) \in Nat /\ NumAt(phase, Jobs, {"lost"}) \in Nat
  BY JobsAssumption, NumAtType
<1> QED
  BY <1>1, <1>2 DEF Phantoms, PhantomsOf, NumAt

LEMMA SamePhantoms ==
    ASSUME UNCHANGED waits, \A k \in Jobs : phase'[k] = "lost" <=> phase[k] = "lost"
    PROVE  Phantoms' = Phantoms
<1>1. {j \in Jobs : phase[j] = "lost"}' = {j \in Jobs : phase[j] = "lost"}
  OBVIOUS
<1> QED
  BY <1>1 DEF Phantoms

\* What the count of free jobs should be, but for those counted in vain, and
\* what it is.
Due == QueueLengths + Taking - Signalling
Balance == Due + Phantoms

LEMMA DueType ==
    ASSUME Typed
    PROVE  Due \in Int /\ Due = QueueLengths + TakingOf(pc) - SignallingOf(pc, client)
BY QueueLengthsType, TakingSignalling DEF Due

LEMMA DueNext == Due' = QueueLengths' + TakingOf(pc)' - SignallingOf(pc, client)'
<1>1. Taking' = TakingOf(pc)' /\ Signalling' = SignallingOf(pc, client)'
  <2>1. /\ {e \in Executors : pc'[e] = "take"} = Positions(pc', Executors, {"take"})
        /\ {e \in Executors : pc'[e] \in {"signal", "announce"}} = Positions(pc', Executors, Signals)
        /\ {c \in Clients : client'[c] = "signal"} = Positions(client', Clients, {"signal"})
    BY DEF Positions, Signals
  <2> QED
    BY <2>1 DEF Taking, Signalling, TakingOf, SignallingOf, NumAt
<1> QED
  BY <1>1 DEF Due

LEMMA BalanceType ==
    ASSUME Typed
    PROVE  Balance \in Int
BY DueType, PhantomsCounted DEF Balance

\* What a thread that goes from one label to another does to the two numbers.
LEMMA ThreadMoves ==
    ASSUME Typed, NEW e \in Executors, NEW label \in PC, pc' = [pc EXCEPT ![e] = label]
    PROVE  /\ pc[e] # "take" /\ label # "take" => TakingOf(pc)' = TakingOf(pc)
           /\ pc[e] = "take" /\ label # "take" => TakingOf(pc)' = TakingOf(pc) - 1
           /\ pc[e] # "take" /\ label = "take" => TakingOf(pc)' = TakingOf(pc) + 1
           /\ pc[e] \notin Signals /\ label \notin Signals =>
                SignallingOf(pc, client) + NumAt(client', Clients, {"signal"})
                  = SignallingOf(pc, client)' + NumAt(client, Clients, {"signal"})
           /\ pc[e] \in Signals /\ label \notin Signals /\ client' = client =>
                SignallingOf(pc, client)' = SignallingOf(pc, client) - 1
           /\ pc[e] \notin Signals /\ label \in Signals /\ client' = client =>
                SignallingOf(pc, client)' = SignallingOf(pc, client) + 1
<1>1. pc \in [Executors -> PC]
  BY DEF Typed, TypeOK
<1>2. /\ NumAt(pc, Executors, Signals) \in Nat /\ NumAt(pc', Executors, Signals) \in Nat
      /\ NumAt(client, Clients, {"signal"}) \in Nat /\ NumAt(client', Clients, {"signal"}) \in Nat
  BY ExecutorsFinite, ClientsAssumption, NumAtType
<1>3. ASSUME NEW V
      PROVE  /\ pc[e] \notin V /\ label \notin V => NumAt(pc', Executors, V) = NumAt(pc, Executors, V)
             /\ pc[e] \in V /\ label \notin V => NumAt(pc', Executors, V) = NumAt(pc, Executors, V) - 1
             /\ pc[e] \notin V /\ label \in V => NumAt(pc', Executors, V) = NumAt(pc, Executors, V) + 1
  <2>1. DiffersAt(pc', pc, Executors, e) /\ pc'[e] = label
    BY <1>1 DEF DiffersAt
  <2> QED
    BY ONLY <2>1, ExecutorsFinite, NumAtChanges, e \in Executors
<1>4. TakingOf(pc)' = NumAt(pc', Executors, {"take"}) /\ TakingOf(pc) = NumAt(pc, Executors, {"take"})
  BY DEF TakingOf
<1> HIDE DEF NumAt
<1> QED
  <2>1. /\ pc[e] \notin Signals /\ label \notin Signals =>
             NumAt(pc', Executors, Signals) = NumAt(pc, Executors, Signals)
        /\ pc[e] \in Signals /\ label \notin Signals =>
             NumAt(pc', Executors, Signals) = NumAt(pc, Executors, Signals) - 1
        /\ pc[e] \notin Signals /\ label \in Signals =>
             NumAt(pc', Executors, Signals) = NumAt(pc, Executors, Signals) + 1
    BY <1>3
  <2>2. /\ pc[e] # "take" /\ label # "take" => TakingOf(pc)' = TakingOf(pc)
        /\ pc[e] = "take" /\ label # "take" => TakingOf(pc)' = TakingOf(pc) - 1
        /\ pc[e] # "take" /\ label = "take" => TakingOf(pc)' = TakingOf(pc) + 1
    BY <1>3, <1>4
  <2> QED
    BY <1>2, <2>1, <2>2 DEF SignallingOf
-----------------------------------------------------------------------------
(* What a step does to the count and to what it should be *)

Asleep == \E e \in Executors : pc[e] = "asleep"

\* The deques and the threads change, and the count does not.
Level == /\ Balance' = Balance
         /\ free_job_count' = free_job_count
         /\ Asleep' => Asleep \/ free_job_count = 0

\* A thread counts a job that it took out of a deque before.
Lowered == /\ Balance' = Balance - 1
           /\ free_job_count' = Dec(free_job_count)
           /\ Asleep' => Asleep

\* A job that was put in a deque before is counted, and every thread woken.
Raised == /\ Balance' = Balance + 1
          /\ free_job_count' = Inc(free_job_count)
          /\ ~Asleep'

\* A step of one thread to a label where nothing is counted.
LEMMA PlainStep ==
    ASSUME Typed, NEW e \in Executors, NEW label \in PC,
           pc[e] \notin {"take"} \cup Signals, label \notin {"take"} \cup Signals,
           label = "asleep" => free_job_count = 0,
           pc' = [pc EXCEPT ![e] = label], UNCHANGED <<deque, free_job_count, client>>,
           Phantoms' = Phantoms
    PROVE  Level
<1>1. Typed /\ QueueLengths' = QueueLengths
  BY QueueLengthsSame
<1>2. /\ TakingOf(pc)' = TakingOf(pc)
      /\ SignallingOf(pc, client) + NumAt(client', Clients, {"signal"})
            = SignallingOf(pc, client)' + NumAt(client, Clients, {"signal"})
  BY ThreadMoves
<1>3. NumAt(client, Clients, {"signal"}) \in Nat /\ NumAt(pc', Executors, Signals) \in Nat
  BY ExecutorsFinite, ClientsAssumption, NumAtType
<1>4. SignallingOf(pc, client)' \in Nat
  BY <1>3 DEF SignallingOf
<1>5. SignallingOf(pc, client)' = SignallingOf(pc, client)
  BY <1>2, <1>3, <1>4, TakingSignalling
<1>6. Due' = Due
  BY <1>1, <1>2, <1>5, TakingSignalling, DueNext, DueType, QueueLengthsType
<1>7. Asleep' => Asleep \/ free_job_count = 0
  BY DEF Asleep, Typed, TypeOK
<1> QED
  BY <1>6, <1>7 DEF Balance, Level

\* A step of another actor, that may wake the threads.
LEMMA WakingStep ==
    ASSUME Typed, pc' = Woken(pc) \/ pc' = pc, UNCHANGED <<deque, free_job_count, client>>,
           Phantoms' = Phantoms
    PROVE  Level
<1>1. pc \in [Executors -> PC]
  BY DEF Typed, TypeOK
<1>2. QueueLengths' = QueueLengths
  BY QueueLengthsSame
<1>3. TakingOf(pc)' = TakingOf(pc) /\ SignallingOf(pc, client)' = SignallingOf(pc, client)
  BY <1>1, WokenNumAt DEF TakingOf, SignallingOf
<1>4. Asleep' => Asleep
  BY <1>1 DEF Asleep, Woken
<1> QED
  BY <1>2, <1>3, <1>4, TakingSignalling, DueNext, DueType DEF Balance, Level

\* A job leaves the deque f for the hands of the thread e.
LEMMA TakingStep ==
    ASSUME Typed, NEW e \in Executors, NEW f \in Executors, NEW q \in Seq(Jobs),
           Len(q) = Len(deque[f]) - 1, deque' = [deque EXCEPT ![f] = q],
           pc[e] \notin {"take"} \cup Signals, pc' = [pc EXCEPT ![e] = "take"],
           UNCHANGED <<free_job_count, client>>, Phantoms' = Phantoms
    PROVE  Level
<1>1. QueueLengths' = QueueLengths + Len(q) - Len(deque[f])
  BY QueueLengthsChange
<1>2. Len(deque[f]) \in Nat /\ Len(q) \in Nat
  BY DEF Typed, TypeOK
<1>3. QueueLengths' = QueueLengths - 1
  BY <1>1, <1>2, QueueLengthsType
<1>4. "take" \in PC
  BY DEF PC
<1>5. /\ TakingOf(pc)' = TakingOf(pc) + 1
      /\ SignallingOf(pc, client) + NumAt(client', Clients, {"signal"})
            = SignallingOf(pc, client)' + NumAt(client, Clients, {"signal"})
  BY <1>4, ThreadMoves DEF Signals
<1>6. NumAt(client, Clients, {"signal"}) \in Nat /\ NumAt(pc', Executors, Signals) \in Nat
  BY ExecutorsFinite, ClientsAssumption, NumAtType
<1>7. SignallingOf(pc, client)' \in Nat
  BY <1>6 DEF SignallingOf
<1>8. SignallingOf(pc, client)' = SignallingOf(pc, client)
  BY <1>5, <1>6, <1>7, TakingSignalling
<1>9. Due' = Due
  BY <1>3, <1>5, <1>8, QueueLengthsType, TakingSignalling, DueNext, DueType
<1>10. Asleep' => Asleep
  BY DEF Asleep, Typed, TypeOK
<1> QED
  BY <1>9, <1>10 DEF Balance, Level

\* A job enters the deque f, and whoever put it there is about to signal.
LEMMA QueueingStep ==
    ASSUME Typed, NEW f \in Executors, NEW q \in Seq(Jobs),
           Len(q) = Len(deque[f]) + 1, deque' = [deque EXCEPT ![f] = q],
           TakingOf(pc)' = TakingOf(pc),
           SignallingOf(pc, client)' = SignallingOf(pc, client) + 1,
           Asleep' => Asleep, UNCHANGED free_job_count, Phantoms' = Phantoms
    PROVE  Level
<1>1. QueueLengths' = QueueLengths + Len(q) - Len(deque[f])
  BY QueueLengthsChange
<1>2. Len(deque[f]) \in Nat /\ Len(q) \in Nat
  BY DEF Typed, TypeOK
<1>3. QueueLengths' = QueueLengths + 1
  BY <1>1, <1>2, QueueLengthsType
<1>4. Due' = Due
  BY <1>3, QueueLengthsType, TakingSignalling, DueNext, DueType
<1> QED
  BY <1>4 DEF Balance, Level

\* A job that enters no deque is about to be counted all the same.
LEMMA PhantomStep ==
    ASSUME Typed, UNCHANGED <<deque, free_job_count>>,
           TakingOf(pc)' = TakingOf(pc),
           SignallingOf(pc, client)' = SignallingOf(pc, client) + 1,
           Asleep' => Asleep, Phantoms' = Phantoms + 1
    PROVE  Level
<1>1. Due' = Due - 1
  BY QueueLengthsSame, QueueLengthsType, TakingSignalling, DueNext, DueType
<1> QED
  BY <1>1, DueType, PhantomsCounted DEF Balance, Level

\* Whoever put a job in a deque counts it and wakes the others.
LEMMA SignallingStep ==
    ASSUME Typed, UNCHANGED deque, NEW p \in [Executors -> PC], pc' = Woken(p),
           TakingOf(p) = TakingOf(pc),
           SignallingOf(p, client') = SignallingOf(pc, client) - 1,
           free_job_count' = Inc(free_job_count), Phantoms' = Phantoms
    PROVE  Raised
<1>1. QueueLengths' = QueueLengths
  BY QueueLengthsSame
<1>2. TakingOf(pc)' = TakingOf(p) /\ SignallingOf(pc, client)' = SignallingOf(p, client')
  BY WokenNumAt DEF TakingOf, SignallingOf
<1>3. Due' = Due + 1
  BY <1>1, <1>2, QueueLengthsType, TakingSignalling, DueNext, DueType
<1>4. ~Asleep'
  BY DEF Asleep, Woken
<1> QED
  BY <1>3, <1>4, DueType, PhantomsCounted DEF Balance, Raised

\* What has no place and what is in a thread's hands was not lost.
LEMMA LiveInHand ==
    ASSUME Typed, Owned, NEW e \in Executors
    PROVE  /\ pc[e] \in Holding => phase[current[e]] = "live"
           /\ pc[e] = "fork" => phase[child[e]] = "live"
<1>1. ASSUME pc[e] \in Holding PROVE phase[current[e]] = "live"
  BY <1>1, HeldJob DEF Owned, HeldAsProgrammed, StateAt, AtRest, Busy, Overcounted
<1>2. ASSUME pc[e] = "fork" PROVE phase[child[e]] = "live"
  BY <1>2 DEF Typed, HandsFull, Owned, ForkedAtRest, AtRest
<1> QED
  BY <1>1, <1>2

\* A job is taken out of a deque by a thread.
LEMMA BalanceDequeue ==
    ASSUME Typed, NEW e \in Executors, \/ DequeueLocal(e)
                                       \/ \E victim \in Executors : Steal(e, victim)
    PROVE  Level
<1> USE DEF Goto, dequeVars, contextVars, jobVars, promiseVars
<1>1. /\ pc[e] \in {"idle", "steal"}
      /\ UNCHANGED <<free_job_count, client, phase, waits>>
  BY DEF DequeueLocal, Steal
<1> USE SamePhantoms DEF Signals
<1>2. CASE UNCHANGED deque
  <2>1. \E label \in {"wait", "idle"} : pc' = [pc EXCEPT ![e] = label]
    <3>1. CASE DequeueLocal(e) /\ deque[e] = <<>>
      BY <3>1 DEF DequeueLocal
    <3>2. CASE DequeueLocal(e) /\ deque[e] # <<>>
      <4>1. Len(WithoutFront(deque[e])) = Len(deque[e]) - 1 /\ Len(deque[e]) \in Nat
        BY <3>2, EmptySeq, HeadTailProperties DEF Typed, TypeOK, WithoutFront
      <4> QED
        BY <1>2, <3>2, <4>1 DEF DequeueLocal, Typed, TypeOK
    <3>3. ASSUME NEW victim \in Executors, Steal(e, victim), deque[victim] = <<>>
          PROVE  pc' = [pc EXCEPT ![e] = "idle"]
      BY <3>3 DEF Steal
    <3>4. ASSUME NEW victim \in Executors, Steal(e, victim), deque[victim] # <<>> PROVE FALSE
      <4>1. deque[victim] \in Seq(Jobs) /\ Len(deque[victim]) \in Nat
        BY DEF Typed, TypeOK
      <4>2. Len(WithoutBack(deque[victim])) = Len(deque[victim]) - 1
        BY <3>4, <4>1, EmptySeq, DequeBackType, SubSeqProperties DEF WithoutBack
      <4> QED
        BY <1>2, <3>4, <4>1, <4>2 DEF Steal, Typed, TypeOK
    <3> QED
      BY <3>1, <3>2, <3>3, <3>4
  <2> QED
    BY <1>1, <1>2, <2>1, PlainStep DEF PC
<1>3. CASE ~ UNCHANGED deque
  <2>1. PICK f \in Executors, q \in Seq(Jobs) :
           /\ Len(q) = Len(deque[f]) - 1
           /\ deque' = [deque EXCEPT ![f] = q]
           /\ pc' = [pc EXCEPT ![e] = "take"]
    <3>1. CASE DequeueLocal(e)
      <4>1. deque[e] # <<>> /\ deque[e] \in Seq(Jobs)
        BY <1>3, <3>1 DEF DequeueLocal, Typed, TypeOK
      <4>2. /\ Len(WithoutFront(deque[e])) = Len(deque[e]) - 1
            /\ WithoutFront(deque[e]) \in Seq(Jobs)
        BY <4>1, EmptySeq, HeadTailProperties DEF WithoutFront
      <4> QED
        BY <3>1, <4>1, <4>2 DEF DequeueLocal
    <3>2. CASE \E victim \in Executors : Steal(e, victim)
      <4> PICK victim \in Executors : Steal(e, victim)
        BY <3>2
      <4>1. deque[victim] # <<>> /\ deque[victim] \in Seq(Jobs)
        BY <1>3 DEF Steal, Typed, TypeOK
      <4>2. /\ Len(WithoutBack(deque[victim])) = Len(deque[victim]) - 1
            /\ WithoutBack(deque[victim]) \in Seq(Jobs)
        BY <4>1, EmptySeq, DequeBackType, SubSeqProperties DEF WithoutBack
      <4> QED
        BY <4>1, <4>2 DEF Steal
    <3> QED
      BY <3>1, <3>2
  <2> QED
    BY <1>1, <2>1, TakingStep
<1> QED
  BY <1>2, <1>3

LEMMA BalanceEnqueueFork ==
    ASSUME Typed, NEW e \in Executors, EnqueueFork(e)
    PROVE  Level
<1> DEFINE f == job[child[e]].executor
           q == EnqueueForward(deque[f], child[e])
<1>1. child[e] \in Jobs /\ f \in Executors
  BY DEF EnqueueFork, Typed, TypeOK, HandsFull, JobRecord
<1>2. deque[f] \in Seq(Jobs) /\ deque' = [deque EXCEPT ![f] = q]
  BY <1>1 DEF EnqueueFork, Typed, TypeOK
<1>3. q \in Seq(Jobs) /\ Len(q) = Len(deque[f]) + 1
  BY <1>1, <1>2, DequeTypes, ConcatProperties DEF EnqueueForward
<1>4. /\ pc[e] = "fork" /\ pc' = [pc EXCEPT ![e] = "signal"]
      /\ UNCHANGED <<client, free_job_count, phase, waits>>
  BY DEF EnqueueFork, Goto, jobVars, promiseVars
<1> HIDE DEF f, q
<1>5. TakingOf(pc)' = TakingOf(pc) /\ SignallingOf(pc, client)' = SignallingOf(pc, client) + 1
  BY <1>4, ThreadMoves DEF PC, Signals
<1>6. Asleep' => Asleep
  BY <1>4 DEF Asleep, Typed, TypeOK
<1> QED
  BY <1>1, <1>2, <1>3, <1>4, <1>5, <1>6, QueueingStep, SamePhantoms

LEMMA BalanceInvoke ==
    ASSUME Typed, UnbornWaitsForNone, NEW c \in Clients, NEW j \in Jobs, Invoke(c, j)
    PROVE  Level
<1>1. /\ client[c] = "idle" /\ client' = [client EXCEPT ![c] = "signal"]
      /\ phase[j] = "unborn" /\ UNCHANGED <<pc, free_job_count>>
  BY DEF Invoke, threadVars
<1>2. NumAt(client', Clients, {"signal"}) = NumAt(client, Clients, {"signal"}) + 1
  <2> DEFINE V == {"signal"}
  <2>1. DiffersAt(client', client, Clients, c) /\ client[c] \notin V /\ client'[c] \in V
    BY <1>1 DEF DiffersAt, Typed, TypeOK
  <2> HIDE DEF V
  <2>2. NumAt(client', Clients, V) = NumAt(client, Clients, V) + 1
    BY ONLY <2>1, c \in Clients, ClientsAssumption, NumAtChanges
  <2> QED
    BY <2>2 DEF V
<1>3. NumAt(client, Clients, {"signal"}) \in Nat /\ NumAt(pc, Executors, Signals) \in Nat
  BY ExecutorsFinite, ClientsAssumption, NumAtType
<1>4. TakingOf(pc)' = TakingOf(pc) /\ SignallingOf(pc, client)' = SignallingOf(pc, client) + 1
  BY <1>1, <1>2, <1>3 DEF TakingOf, SignallingOf
<1>5. Asleep' => Asleep
  BY <1>1 DEF Asleep
<1>6. CASE /\ phase' = [phase EXCEPT ![j] = "live"]
           /\ deque' = [deque EXCEPT ![0] = EnqueueBack(deque[0], j)]
           /\ UNCHANGED waits
  <2>1. deque[0] \in Seq(Jobs) /\ 0 \in Executors
    BY ExecutorsNonempty DEF Typed, TypeOK
  <2>2. /\ EnqueueBack(deque[0], j) \in Seq(Jobs)
        /\ Len(EnqueueBack(deque[0], j)) = Len(deque[0]) + 1
    BY <2>1, AppendProperties DEF EnqueueBack
  <2>3. Phantoms' = Phantoms
    BY <1>1, <1>6, SamePhantoms DEF Typed, TypeOK
  <2> QED
    BY <1>1, <1>4, <1>5, <1>6, <2>1, <2>2, <2>3, QueueingStep
<1>7. ASSUME NEW last \in Roots, waits' = [waits EXCEPT ![j] = last],
             phase' = [phase EXCEPT ![j] = "pending"], UNCHANGED deque
      PROVE  Level
  <2>1. NumAt(waits', Jobs, Roots) = NumAt(waits, Jobs, Roots) + 1
    <3>1. DiffersAt(waits', waits, Jobs, j) /\ waits[j] \notin Roots /\ waits'[j] \in Roots
      BY <1>1, <1>7, JobsAssumption DEF DiffersAt, Typed, TypeOK, UnbornWaitsForNone
    <3> QED
      BY ONLY <3>1, j \in Jobs, JobsAssumption, NumAtChanges
  <2>2. NumAt(phase', Jobs, {"lost"}) = NumAt(phase, Jobs, {"lost"})
    <3> DEFINE V == {"lost"}
    <3>1. DiffersAt(phase', phase, Jobs, j) /\ phase[j] \notin V /\ phase'[j] \notin V
      BY <1>1, <1>7 DEF DiffersAt, Typed, TypeOK
    <3> HIDE DEF V
    <3>2. NumAt(phase', Jobs, V) = NumAt(phase, Jobs, V)
      BY ONLY <3>1, j \in Jobs, JobsAssumption, NumAtChanges
    <3> QED
      BY <3>2 DEF V
  <2>3. Phantoms' = Phantoms + 1
    <3>1. Typed'
      BY TypedStep DEF Next
    <3>2. Phantoms = PhantomsOf(waits, phase) /\ Phantoms' = PhantomsOf(waits', phase')
      <4>1. /\ {k \in Jobs : waits'[k] # NoJob} = Positions(waits', Jobs, Roots)
            /\ {k \in Jobs : phase'[k] = "lost"} = Positions(phase', Jobs, {"lost"})
        BY <3>1, JobsAssumption DEF Typed, TypeOK, Positions
      <4>2. Phantoms' = PhantomsOf(waits', phase')
        BY <4>1 DEF Phantoms, PhantomsOf, NumAt
      <4> QED
        BY <4>2, PhantomsCounted
    <3>3. NumAt(waits, Jobs, Roots) \in Nat /\ NumAt(phase, Jobs, {"lost"}) \in Nat
      BY JobsAssumption, NumAtType
    <3> QED
      BY <2>1, <2>2, <3>2, <3>3 DEF PhantomsOf
  <2> QED
    BY <1>1, <1>4, <1>5, <1>7, <2>3, PhantomStep
<1> QED
  BY <1>6, <1>7 DEF Invoke

LEMMA BalanceSignalInvoke ==
    ASSUME Typed, NEW c \in Clients, SignalInvoke(c)
    PROVE  Raised
<1>1. /\ client[c] = "signal" /\ client' = [client EXCEPT ![c] = "idle"]
      /\ pc' = Woken(pc) /\ free_job_count' = Inc(free_job_count)
      /\ UNCHANGED <<deque, phase, waits>>
  BY DEF SignalInvoke, jobVars, promiseVars
<1>2. NumAt(client', Clients, {"signal"}) = NumAt(client, Clients, {"signal"}) - 1
  <2> DEFINE v == {"signal"}
  <2>1. DiffersAt(client', client, Clients, c) /\ client[c] \in v /\ client'[c] \notin v
    BY <1>1 DEF DiffersAt, Typed, TypeOK
  <2> HIDE DEF v
  <2>2. NumAt(client', Clients, v) = NumAt(client, Clients, v) - 1
    BY ONLY <2>1, c \in Clients, ClientsAssumption, NumAtChanges
  <2> QED
    BY <2>2 DEF v
<1>3. NumAt(client, Clients, {"signal"}) \in Nat /\ NumAt(pc, Executors, Signals) \in Nat
  BY ExecutorsFinite, ClientsAssumption, NumAtType
<1>4. SignallingOf(pc, client') = SignallingOf(pc, client) - 1
  BY <1>2, <1>3 DEF SignallingOf
<1>5. pc \in [Executors -> PC]
  BY DEF Typed, TypeOK
<1> QED
  BY <1>1, <1>4, <1>5, SignallingStep, SamePhantoms

LEMMA BalanceSignalFork ==
    ASSUME Typed, NEW e \in Executors, SignalFork(e) \/ Announce(e)
    PROVE  Raised
<1> PICK label \in {"step", "release"} : pc' = Woken([pc EXCEPT ![e] = label])
  BY DEF SignalFork, Announce
<1> DEFINE p == [pc EXCEPT ![e] = label]
<1>1. /\ pc[e] \in Signals /\ pc' = Woken(p)
      /\ free_job_count' = Inc(free_job_count) /\ UNCHANGED <<deque, client, phase, waits>>
  BY DEF SignalFork, Announce, Signals, jobVars, promiseVars
<1>2. p \in [Executors -> PC] /\ DiffersAt(p, pc, Executors, e) /\ p[e] = label
  BY DEF Typed, TypeOK, PC, DiffersAt
<1> HIDE DEF p
<1>3. TakingOf(p) = TakingOf(pc)
  <2> DEFINE V == {"take"}
  <2>1. pc[e] \notin V /\ p[e] \notin V
    BY <1>1, <1>2 DEF Signals
  <2> HIDE DEF V
  <2>2. NumAt(p, Executors, V) = NumAt(pc, Executors, V)
    BY ONLY <1>2, <2>1, e \in Executors, ExecutorsFinite, NumAtChanges
  <2> QED
    BY <2>2 DEF V, TakingOf
<1>4. NumAt(p, Executors, Signals) = NumAt(pc, Executors, Signals) - 1
  <2>1. p[e] \notin Signals
    BY <1>2 DEF Signals
  <2> QED
    BY ONLY <1>1, <1>2, <2>1, e \in Executors, ExecutorsFinite, NumAtChanges
<1>5. NumAt(client, Clients, {"signal"}) \in Nat /\ NumAt(pc, Executors, Signals) \in Nat
  BY ExecutorsFinite, ClientsAssumption, NumAtType
<1>6. SignallingOf(p, client') = SignallingOf(pc, client) - 1
  BY <1>1, <1>4, <1>5 DEF SignallingOf
<1> QED
  BY <1>1, <1>2, <1>3, <1>6, SignallingStep, SamePhantoms

\* A pending job is queued, or lost.
LEMMA BalanceRelease ==
    ASSUME Typed, NEW e \in Executors, NEW k \in Roots, Release(e, k) \/ Lose(e, k)
    PROVE  Level
<1>1. /\ pc[e] = "release" /\ pc' = [pc EXCEPT ![e] = "announce"]
      /\ k \in Jobs /\ phase[k] = "pending"
      /\ UNCHANGED <<free_job_count, client, waits>>
  BY JobsAssumption DEF Release, Lose, AwaitsRootOf, Goto, promiseVars, dequeVars
<1>2. TakingOf(pc)' = TakingOf(pc) /\ SignallingOf(pc, client)' = SignallingOf(pc, client) + 1
  BY <1>1, ThreadMoves DEF PC, Signals
<1>3. Asleep' => Asleep
  BY <1>1 DEF Asleep, Typed, TypeOK
<1>4. CASE Release(e, k)
  <2> DEFINE f == job[k].executor
             q == EnqueueBack(deque[f], k)
  <2>1. f \in Executors
    BY <1>1 DEF Typed, TypeOK, JobRecord
  <2>2. deque[f] \in Seq(Jobs) /\ deque' = [deque EXCEPT ![f] = q]
    BY <1>4, <2>1 DEF Release, Typed, TypeOK
  <2>3. q \in Seq(Jobs) /\ Len(q) = Len(deque[f]) + 1
    BY <1>1, <2>2, AppendProperties DEF EnqueueBack
  <2>4. Phantoms' = Phantoms
    BY <1>1, <1>4, SamePhantoms DEF Release, Typed, TypeOK
  <2> HIDE DEF f, q
  <2> QED
    BY <1>1, <1>2, <1>3, <2>1, <2>2, <2>3, <2>4, QueueingStep
<1>5. CASE Lose(e, k)
  <2>1. phase' = [phase EXCEPT ![k] = "lost"] /\ UNCHANGED deque
    BY <1>5 DEF Lose, dequeVars
  <2>2. NumAt(phase', Jobs, {"lost"}) = NumAt(phase, Jobs, {"lost"}) + 1
    <3> DEFINE V == {"lost"}
    <3>1. DiffersAt(phase', phase, Jobs, k) /\ phase[k] \notin V /\ phase'[k] \in V
      BY <1>1, <2>1 DEF DiffersAt, Typed, TypeOK
    <3> HIDE DEF V
    <3>2. NumAt(phase', Jobs, V) = NumAt(phase, Jobs, V) + 1
      BY ONLY <1>1, <3>1, JobsAssumption, NumAtChanges
    <3> QED
      BY <3>2 DEF V
  <2>3. Phantoms' = Phantoms + 1
    <3>1. /\ {j \in Jobs : phase[j] = "lost"} = Positions(phase, Jobs, {"lost"})
          /\ {j \in Jobs : phase'[j] = "lost"} = Positions(phase', Jobs, {"lost"})
      BY DEF Positions
    <3>2. /\ Phantoms = Cardinality({j \in Jobs : waits[j] # NoJob}) + NumAt(phase, Jobs, {"lost"})
          /\ Phantoms' = Cardinality({j \in Jobs : waits[j] # NoJob}) + NumAt(phase', Jobs, {"lost"})
      BY <1>1, <3>1 DEF Phantoms, NumAt
    <3>3. Cardinality({j \in Jobs : waits[j] # NoJob}) \in Nat /\ NumAt(phase, Jobs, {"lost"}) \in Nat
      BY JobsAssumption, FS_Subset, FS_CardinalityType, NumAtType
    <3> QED
      BY <2>2, <3>2, <3>3
  <2> QED
    BY <1>1, <1>2, <1>3, <2>1, <2>3, PhantomStep
<1> QED
  BY <1>4, <1>5

LEMMA BalanceTake ==
    ASSUME Typed, NEW e \in Executors, Take(e)
    PROVE  Lowered
<1>1. /\ pc[e] = "take" /\ pc' = [pc EXCEPT ![e] = "run"]
      /\ free_job_count' = Dec(free_job_count) /\ UNCHANGED <<deque, client, phase, waits>>
  BY DEF Take, Goto, jobVars, promiseVars
<1>2. /\ TakingOf(pc)' = TakingOf(pc) - 1
      /\ SignallingOf(pc, client) + NumAt(client', Clients, {"signal"})
            = SignallingOf(pc, client)' + NumAt(client, Clients, {"signal"})
  BY <1>1, ThreadMoves DEF PC, Signals
<1>3. NumAt(client, Clients, {"signal"}) \in Nat /\ NumAt(pc', Executors, Signals) \in Nat
  BY ExecutorsFinite, ClientsAssumption, NumAtType
<1>4. SignallingOf(pc, client)' \in Nat
  BY <1>1, <1>3 DEF SignallingOf
<1>5. SignallingOf(pc, client)' = SignallingOf(pc, client)
  BY <1>1, <1>2, <1>3, <1>4, TakingSignalling
<1>6. Due' = Due - 1
  BY <1>1, <1>2, <1>5, QueueLengthsSame, QueueLengthsType, TakingSignalling, DueNext, DueType
<1>7. Asleep' => Asleep
  BY <1>1 DEF Asleep, Typed, TypeOK
<1> QED
  BY <1>1, <1>6, <1>7, SamePhantoms, DueType, PhantomsCounted DEF Balance, Lowered

\* Every step keeps the count and what it should be at the same distance.
LEMMA BalanceStep ==
    ASSUME Typed, Owned, CreatedInOrder, UnbornWaitsForNone, [Next]_vars
    PROVE  Level \/ Lowered \/ Raised
<1> USE DEF dequeVars, threadVars, jobVars, promiseVars, contextVars, Goto
<1>1. CASE \E e \in Executors : ExecutorStep(e) \/ SpuriousWakeup(e)
  <2> PICK e \in Executors : ExecutorStep(e) \/ SpuriousWakeup(e)
    BY <1>1
  <2>1. CASE \/ DequeueLocal(e)
             \/ \E victim \in Executors : Steal(e, victim)
    BY <2>1, BalanceDequeue
  <2>2. CASE EnqueueFork(e)
    BY <2>2, BalanceEnqueueFork
  <2>3. CASE SignalFork(e) \/ Announce(e)
    BY <2>3, BalanceSignalFork
  <2>4. CASE Take(e)
    BY <2>4, BalanceTake
  <2>5. CASE \/ SpuriousWakeup(e) \/ WaitForContext(e) \/ Start(e) \/ Sleep(e)
             \/ GoStealing(e) \/ Exit(e) \/ ExecuteSetup(e) \/ FailSetup(e)
             \/ BeginStep(e) \/ EndJob(e) \/ UndoFork(e)
             \/ (\E j \in Jobs, target \in Executors : Fork(e, j, target))
             \/ RefuseFork(e) \/ NotifyParent(e) \/ CompleteRoot(e) \/ DestroyRoot(e)
             \/ (\E r \in Result : EndStep(e, r) \/ MoveToNext(e, r))
    <3>1. /\ pc[e] \notin {"take"} \cup Signals
          /\ UNCHANGED <<deque, free_job_count, client, waits>>
      BY <2>5 DEF SpuriousWakeup, WaitForContext, Start, Sleep, GoStealing, Exit, ExecuteSetup,
         FailSetup, BeginStep, EndJob, UndoFork, Fork, RefuseFork, NotifyParent, CompleteRoot,
         DestroyRoot, EndStep, MoveToNext, Signals
    <3>2. \E label \in PC \ ({"take"} \cup Signals) :
             /\ label = "asleep" => free_job_count = 0
             /\ pc' = [pc EXCEPT ![e] = label]
      <4>1. CASE Sleep(e)
        BY <4>1 DEF Sleep, ShouldSleep, PC, Signals
      <4>2. CASE \/ SpuriousWakeup(e) \/ WaitForContext(e) \/ Start(e)
                 \/ GoStealing(e) \/ Exit(e) \/ ExecuteSetup(e) \/ FailSetup(e)
                 \/ BeginStep(e) \/ EndJob(e) \/ UndoFork(e)
        BY <4>2 DEF SpuriousWakeup, WaitForContext, Start, GoStealing, Exit, ExecuteSetup,
           FailSetup, BeginStep, EndJob, UndoFork, PC, Signals
      <4>3. CASE \/ \E j \in Jobs, target \in Executors : Fork(e, j, target)
                 \/ RefuseFork(e) \/ CompleteRoot(e) \/ DestroyRoot(e)
        BY <4>3 DEF Fork, RefuseFork, CompleteRoot, DestroyRoot, PC, Signals
      <4>4. CASE NotifyParent(e)
        BY <4>4 DEF NotifyParent, AfterLastChild, PC, Signals
      <4>5. CASE \E r \in Result : EndStep(e, r) \/ MoveToNext(e, r)
        BY <4>5 DEF EndStep, MoveToNext, PC, Signals
      <4> QED
        BY <2>5, <4>1, <4>2, <4>3, <4>4, <4>5
    <3>3. Phantoms' = Phantoms
      <4>1. CASE UNCHANGED phase
        BY <3>1, <4>1, SamePhantoms
      <4>2. CASE \E j \in Jobs, target \in Executors : Fork(e, j, target)
        BY <3>1, <4>2, SamePhantoms DEF Fork, Typed, TypeOK
      <4>3. CASE RefuseFork(e)
        BY <3>1, <4>3, LiveInHand, SamePhantoms DEF RefuseFork, Typed, TypeOK
      <4>4. CASE NotifyParent(e) \/ DestroyRoot(e)
        <5>1. pc[e] \in Holding /\ phase' = [phase EXCEPT ![current[e]] = "destroyed"]
          BY <4>4 DEF NotifyParent, DestroyRoot, Holding
        <5> QED
          BY <3>1, <5>1, LiveInHand, SamePhantoms DEF Typed, TypeOK
      <4> QED
        BY <2>5, <4>1, <4>2, <4>3, <4>4
           DEF SpuriousWakeup, WaitForContext, Start, Sleep, GoStealing, Exit, ExecuteSetup,
               FailSetup, BeginStep, EndJob, UndoFork, CompleteRoot, EndStep, MoveToNext
    <3> QED
      BY <3>1, <3>2, <3>3, PlainStep
  <2>6. CASE \E k \in Roots : Release(e, k) \/ Lose(e, k)
    BY <2>6, BalanceRelease
  <2> QED
    BY <2>1, <2>2, <2>3, <2>4, <2>5, <2>6 DEF ExecutorStep
<1>2. CASE \E c \in Clients : SignalInvoke(c) \/ \E j \in Jobs : Invoke(c, j)
  BY <1>2, BalanceSignalInvoke, BalanceInvoke
<1>3. CASE CreateExecutor
  <2>1. CASE pc' = [pc EXCEPT ![main_index] = "boot"]
    <3>1. main_index \in Executors /\ UNCHANGED <<deque, free_job_count, client, phase, waits>>
      BY <1>3, NumExecutorsAssumption DEF CreateExecutor, Typed, TypeOK, Executors
    <3>2. pc[main_index] = "unborn"
      BY <1>3, <3>1 DEF CreateExecutor, CreatedInOrder, Executors
    <3> QED
      BY <2>1, <3>1, <3>2, PlainStep, SamePhantoms DEF PC, Signals
  <2>2. CASE pc' = pc
    BY <1>3, <2>2, WakingStep, SamePhantoms DEF CreateExecutor
  <2> QED
    BY <1>3, <2>1, <2>2 DEF CreateExecutor
<1>4. CASE \/ OpenContext \/ StopExecutor \/ PassOver
           \/ JoinExecutor \/ DestroyExecutors \/ BeginDestroy \/ UNCHANGED vars
  BY <1>4, WakingStep, SamePhantoms
     DEF OpenContext, StopExecutor, PassOver, JoinExecutor, DestroyExecutors, BeginDestroy, vars
<1> QED
  BY <1>1, <1>2, <1>3, <1>4 DEF Next, ContextStep, Terminated
-----------------------------------------------------------------------------
(* The count of free jobs *)

(***************************************************************************)
(* The remainder of a division is awkward to reason about: the count and   *)
(* what it should be are some number of full turns of the counter apart.   *)
(***************************************************************************)
TurnsApart == \E k \in Int : Balance = (SizeMax + 1) * k + free_job_count

LEMMA TurnUp ==
    ASSUME NEW M \in Nat, NEW k \in Int, NEW n \in 0 .. M, NEW b \in Int, b = (M + 1) * k + n
    PROVE  \E k2 \in Int : b + 1 = (M + 1) * k2 + (IF n = M THEN 0 ELSE n + 1)
<1>1. CASE n = M
  <2>1. b + 1 = (M + 1) * (k + 1) + 0 /\ k + 1 \in Int
    BY <1>1
  <2>2. (IF n = M THEN 0 ELSE n + 1) = 0
    BY <1>1
  <2> QED
    BY ONLY <2>1, <2>2
<1>2. CASE n # M
  BY <1>2
<1> QED
  BY <1>1, <1>2

LEMMA TurnDown ==
    ASSUME NEW M \in Nat, NEW k \in Int, NEW n \in 0 .. M, NEW b \in Int, b = (M + 1) * k + n
    PROVE  \E k2 \in Int : b - 1 = (M + 1) * k2 + (IF n = 0 THEN M ELSE n - 1)
<1>1. CASE n = 0
  <2>1. b - 1 = (M + 1) * (k - 1) + M /\ k - 1 \in Int
    BY <1>1
  <2>2. (IF n = 0 THEN M ELSE n - 1) = M
    BY <1>1
  <2> QED
    BY ONLY <2>1, <2>2
<1>2. CASE n # 0
  BY <1>2
<1> QED
  BY <1>1, <1>2

LEMMA TurnsApartInit == Init => TurnsApart
<1> SUFFICES ASSUME Init PROVE TurnsApart
  OBVIOUS
<1>1. Typed
  BY TypedInit
<1>2. QueueLengths = 0
  <2>1. \A e \in Executors : Len(deque[e]) = 0
    BY EmptySeq DEF Init
  <2>2. deque \in [Executors -> Seq(Jobs)]
    BY <1>1 DEF Typed, TypeOK
  <2>3. PICK f : SumsUp(f, Lengths(deque), NumExecutors) /\ TotalLength(deque) = f[NumExecutors]
    BY <2>2, TotalIsSum
  <2>4. \A i \in 0 .. NumExecutors - 1 : Lengths(deque)[i] = 0
    BY <2>1, <2>2, TotalIsSum DEF Executors
  <2> DEFINE lengths == Lengths(deque)
  <2>5. SumsUp(f, lengths, NumExecutors) /\ \A i \in 0 .. NumExecutors - 1 : lengths[i] = 0
    BY <2>3, <2>4
  <2> HIDE DEF lengths
  <2>6. f[NumExecutors] = 0
    BY ONLY <2>5, NumExecutorsAssumption, SumsZero
  <2> QED
    BY <1>1, <2>3, <2>6, QueueLengthsType
<1>3. Positions(pc, Executors, {"take"}) = {} /\ Positions(pc, Executors, Signals) = {}
  BY DEF Init, Positions, Signals
<1>4. Positions(client, Clients, {"signal"}) = {}
  BY DEF Init, Positions
<1>5. TakingOf(pc) = 0 /\ SignallingOf(pc, client) = 0
  BY <1>3, <1>4, FS_EmptySet DEF TakingOf, SignallingOf, NumAt
<1>6. Phantoms = 0
  <2>1. {j \in Jobs : waits[j] # NoJob} = {} /\ {j \in Jobs : phase[j] = "lost"} = {}
    BY DEF Init
  <2> QED
    BY <2>1, FS_EmptySet DEF Phantoms
<1>7. Balance = 0 /\ free_job_count = 0
  BY <1>1, <1>2, <1>5, <1>6, DueType DEF Init, Balance
<1>8. 0 = (SizeMax + 1) * 0 + 0
  BY SizeMaxAssumption
<1> QED
  BY <1>7, <1>8 DEF TurnsApart

LEMMA TurnsApartStep ==
    Typed /\ Owned /\ CreatedInOrder /\ UnbornWaitsForNone /\ TurnsApart /\ [Next]_vars
      => TurnsApart'
<1> SUFFICES ASSUME Typed, Owned, CreatedInOrder, UnbornWaitsForNone, TurnsApart, [Next]_vars
             PROVE  TurnsApart'
  OBVIOUS
<1>1. SizeMax \in Nat /\ free_job_count \in 0 .. SizeMax /\ Balance \in Int
  BY SizeMaxAssumption, BalanceType DEF Typed, TypeOK
<1> PICK k \in Int : Balance = (SizeMax + 1) * k + free_job_count
  BY DEF TurnsApart
<1>2. CASE Level
  BY <1>2 DEF Level, TurnsApart
<1>3. CASE Lowered
  <2>1. \E k2 \in Int : Balance - 1 = (SizeMax + 1) * k2 + Dec(free_job_count)
    BY <1>1, TurnDown DEF Dec
  <2> QED
    BY <1>3, <2>1 DEF Lowered, TurnsApart
<1>4. CASE Raised
  <2>1. \E k2 \in Int : Balance + 1 = (SizeMax + 1) * k2 + Inc(free_job_count)
    BY <1>1, TurnUp DEF Inc
  <2> QED
    BY <1>4, <2>1 DEF Raised, TurnsApart
<1> QED
  BY <1>2, <1>3, <1>4, BalanceStep

(***************************************************************************)
(* The count of free jobs, which is changed outside the critical section   *)
(* in which the deque is (executor.c:63 and 120, context.c:256, 496 and    *)
(* 617), is exact but for the threads between the two and for one more     *)
(* with every job that had to wait, counted when it is invoked and when it *)
(* is released, and with every job that a release loses; and it wraps back *)
(* if it wrapped.                                                          *)
(***************************************************************************)
THEOREM FreeCountExact == Spec => []FreeCountConserved
<1> DEFINE Strong == /\ Typed /\ Owned /\ ForkedByHolder /\ CreatedInOrder /\ Promised
                     /\ UnbornWaitsForNone /\ TurnsApart
<1>1. Init => Strong
  BY TypedInit, OwnedInit, SideInit, TurnsApartInit
<1>2. Strong /\ [Next]_vars => Strong'
  BY TypedStep, OwnedStep, ForkedByHolderStep, CreatedStep, PromisedStep, UnbornWaitsStep,
     TurnsApartStep
<1>3. Strong => FreeCountConserved
  <2> SUFFICES ASSUME Strong PROVE FreeCountConserved
    OBVIOUS
  <2>1. PICK k \in Int : Balance = (SizeMax + 1) * k + free_job_count
    BY DEF TurnsApart
  <2>2. /\ SizeMax + 1 \in Nat \ {0} /\ Balance \in Int
        /\ free_job_count \in 0 .. (SizeMax + 1) - 1
    BY SizeMaxAssumption, BalanceType DEF Typed, TypeOK
  <2>3. Balance % (SizeMax + 1) = free_job_count
    BY <2>1, <2>2, RemainderIs
  <2> QED
    BY <2>3 DEF FreeCountConserved, Balance, Due
<1> QED
  BY <1>1, <1>2, <1>3, PTL DEF Spec
-----------------------------------------------------------------------------
(* No lost wakeup *)

\* The count can hold the jobs that exist, each of which occupies memory whose
\* size an ARMD_Size counts, and those it has counted in vain since the context
\* was created.
LiveJobs == {j \in Jobs : phase[j] = "live"}
JobsFit == Cardinality(LiveJobs) + Phantoms <= SizeMax

LEMMA DisjointUnion ==
    ASSUME NEW S, NEW T, NEW U, IsFiniteSet(U), S \subseteq U, T \subseteq U, S \cap T = {},
           NEW m \in Nat, NEW n \in Nat, m <= Cardinality(S), n <= Cardinality(T)
    PROVE  m + n <= Cardinality(S \cup T) /\ m + n <= Cardinality(U)
<1>1. IsFiniteSet(S) /\ IsFiniteSet(T)
  BY FS_Subset
<1>2. Cardinality(S) \in Nat /\ Cardinality(T) \in Nat
  BY <1>1, FS_CardinalityType
<1>3. Cardinality(S \cup T) = Cardinality(S) + Cardinality(T)
  <2>1. Cardinality(S \cup T) = Cardinality(S) + Cardinality(T) - Cardinality(S \cap T)
    BY <1>1, FS_Union
  <2>2. Cardinality(S \cap T) = 0
    BY FS_EmptySet
  <2> QED
    BY <1>2, <2>1, <2>2
<1>4. Cardinality(S \cup T) <= Cardinality(U) /\ Cardinality(U) \in Nat
  BY FS_Subset, FS_CardinalityType
<1> QED
  BY <1>2, <1>3, <1>4

\* A set that holds n things told apart by their numbers has at least n members.
LEMMA AtLeast ==
    ASSUME NEW n \in Nat, NEW s, NEW T, IsFiniteSet(T), \A i \in 1 .. n : s[i] \in T,
           \A i, k \in 1 .. n : s[i] = s[k] => i = k
    PROVE  n <= Cardinality(T)
<1> DEFINE f == [i \in 1 .. n |-> s[i]]
<1>1. f \in [1 .. n -> T] /\ \A i, k \in 1 .. n : f[i] = f[k] => i = k
  OBVIOUS
<1>2. IsFiniteSet(1 .. n) /\ Cardinality(1 .. n) = n
  BY FS_Interval
<1> HIDE DEF f
<1>3. f \in Injection(1 .. n, T)
  BY <1>1, Fun_IsInj
<1> QED
  BY <1>2, <1>3, FS_Injection

\* The jobs queued at the first i executors.
QueuedUpTo(i) == {j \in Jobs : \E e \in 0 .. i - 1 : \E n \in 1 .. Len(deque[e]) : deque[e][n] = j}
QueuedBy(e) == {j \in Jobs : \E n \in 1 .. Len(deque[e]) : deque[e][n] = j}

LEMMA QueuedBound ==
    ASSUME Typed, DequesDisjoint
    PROVE  QueueLengths <= Cardinality({j \in Jobs : Queued(j)})
<1>1. deque \in [Executors -> Seq(Jobs)]
  BY DEF Typed, TypeOK
<1>2. PICK f : SumsUp(f, Lengths(deque), NumExecutors) /\ TotalLength(deque) = f[NumExecutors]
  BY <1>1, TotalIsSum
<1>3. \A i \in 0 .. NumExecutors - 1 :
        Lengths(deque)[i] = Len(deque[i]) /\ Lengths(deque)[i] \in Nat
  BY <1>1, TotalIsSum
<1>4. \A i \in 0 .. NumExecutors : f[i] \in Nat
  BY <1>2, <1>3, NumExecutorsAssumption, SumsType
<1> DEFINE S == {i \in 0 .. NumExecutors : f[i] <= Cardinality(QueuedUpTo(i))}
<1>5. 0 \in S
  <2>1. QueuedUpTo(0) = {}
    BY DEF QueuedUpTo
  <2>2. f[0] = 0 /\ Cardinality({}) = 0
    BY <1>2, NumExecutorsAssumption, FS_EmptySet DEF SumsUp
  <2> QED
    BY <2>1, <2>2, NumExecutorsAssumption
<1>6. ASSUME NEW e \in 0 .. NumExecutors - 1, e \in S PROVE e + 1 \in S
  <2>1. e \in Executors
    BY DEF Executors
  <2>2. deque[e] \in Seq(Jobs) /\ Len(deque[e]) \in Nat
    BY <1>1, <2>1
  <2>3. f[e + 1] = f[e] + Len(deque[e])
    BY <1>2, <1>3, NumExecutorsAssumption DEF SumsUp
  <2>4. Len(deque[e]) <= Cardinality(QueuedBy(e))
    <3>1. \A i \in 1 .. Len(deque[e]) : deque[e][i] \in Jobs
      BY <2>2, ElementOfSeq
    <3>2. \A i \in 1 .. Len(deque[e]) : deque[e][i] \in QueuedBy(e)
      BY <3>1 DEF QueuedBy
    <3>3. \A i, k \in 1 .. Len(deque[e]) : deque[e][i] = deque[e][k] => i = k
      BY <2>1 DEF DequesDisjoint
    <3>4. IsFiniteSet(QueuedBy(e))
      BY JobsAssumption, FS_Subset DEF QueuedBy
    <3> QED
      BY <2>2, <3>2, <3>3, <3>4, AtLeast
  <2>5. QueuedUpTo(e) \cap QueuedBy(e) = {}
    <3> SUFFICES ASSUME NEW j \in Jobs, j \in QueuedUpTo(e), j \in QueuedBy(e) PROVE FALSE
      BY DEF QueuedBy
    <3>1. PICK g \in 0 .. e - 1 : \E n \in 1 .. Len(deque[g]) : deque[g][n] = j
      BY DEF QueuedUpTo
    <3>2. g \in Executors /\ g # e
      BY NumExecutorsAssumption DEF Executors
    <3> QED
      BY <2>1, <3>1, <3>2 DEF DequesDisjoint, QueuedBy
  <2>6. QueuedUpTo(e + 1) = QueuedUpTo(e) \cup QueuedBy(e)
    <3>1. 0 .. e = 0 .. e - 1 \cup {e}
      OBVIOUS
    <3>2. (e + 1) - 1 = e
      OBVIOUS
    <3> QED
      BY <3>1, <3>2 DEF QueuedUpTo, QueuedBy
  <2>7. QueuedUpTo(e) \subseteq Jobs /\ QueuedBy(e) \subseteq Jobs
    BY DEF QueuedUpTo, QueuedBy
  <2>8. f[e] \in Nat /\ f[e] <= Cardinality(QueuedUpTo(e))
    BY <1>4, <1>6
  <2>9. f[e] + Len(deque[e]) <= Cardinality(QueuedUpTo(e) \cup QueuedBy(e))
    BY <2>2, <2>4, <2>5, <2>7, <2>8, JobsAssumption, DisjointUnion
  <2>10. f[e + 1] <= Cardinality(QueuedUpTo(e + 1))
    BY <2>3, <2>6, <2>9
  <2> QED
    BY <2>10, NumExecutorsAssumption
<1>7. NumExecutors \in S
  <2> HIDE DEF S
  <2> QED
    BY <1>5, <1>6, NumExecutorsAssumption, InductionUpTo
<1>8. QueuedUpTo(NumExecutors) = {j \in Jobs : Queued(j)}
  BY DEF QueuedUpTo, Queued, Executors
<1> QED
  BY <1>2, <1>7, <1>8, QueueLengthsType

\* What is queued or taken but not yet counted as taken is a job.
LEMMA FreeJobsBound ==
    ASSUME Typed, Owned
    PROVE  QueueLengths + Taking <= Cardinality(LiveJobs)
<1> DEFINE Q == {j \in Jobs : Queued(j)}
           Thieves == {e \in Executors : pc[e] = "take"}
           T == {j \in Jobs : \E e \in Executors : current[e] = j /\ pc[e] = "take"}
           f == [e \in Thieves |-> current[e]]
<1>1. IsFiniteSet(LiveJobs) /\ IsFiniteSet(T)
  BY JobsAssumption, FS_Subset DEF LiveJobs
<1>2. Q \subseteq LiveJobs /\ T \subseteq LiveJobs
  BY PlacedLive DEF LiveJobs, Held
<1>3. Q \cap T = {}
  BY DEF Owned, QueuedAtRest, Held
<1>4. Taking <= Cardinality(T)
  <2>1. \A e \in Thieves : current[e] \in T
    BY HeldJob DEF Holding
  <2>2. \A d, e \in Thieves : current[d] = current[e] => d = e
    BY HeldJob DEF Owned, HandsDisjoint, Holding
  <2>3. f \in [Thieves -> T] /\ \A d, e \in Thieves : f[d] = f[e] => d = e
    BY <2>1, <2>2
  <2> HIDE DEF f, T
  <2>4. f \in Injection(Thieves, T)
    <3> HIDE DEF Thieves
    <3> QED
      BY <2>3, Fun_IsInj
  <2>5. Cardinality(Thieves) <= Cardinality(T)
    BY <1>1, <2>4, FS_Injection
  <2> QED
    BY <2>5 DEF Taking
<1>5. QueueLengths <= Cardinality(Q)
  BY QueuedBound DEF Owned
<1>6. QueueLengths \in Nat /\ Taking \in Nat
  BY QueueLengthsType, TakingSignalling
<1> HIDE DEF Q, T
<1> QED
  BY <1>1, <1>2, <1>3, <1>4, <1>5, <1>6, DisjointUnion

(***************************************************************************)
(* A thread goes to sleep at a count of zero, which is the right number    *)
(* unless the counter has made a full turn; and what makes the number grow *)
(* wakes all.                                                              *)
(***************************************************************************)
NothingForSleepers == Asleep => Balance <= 0

LEMMA NothingForSleepersStep ==
    Typed /\ Owned /\ CreatedInOrder /\ UnbornWaitsForNone /\ TurnsApart /\ NothingForSleepers
      /\ JobsFit /\ [Next]_vars => NothingForSleepers'
<1> SUFFICES ASSUME Typed, Owned, CreatedInOrder, UnbornWaitsForNone, TurnsApart,
                    NothingForSleepers, JobsFit, [Next]_vars
             PROVE  NothingForSleepers'
  OBVIOUS
<1>1. Balance \in Int
  BY BalanceType
<1>2. CASE Level
  <2>1. CASE Asleep \/ ~Asleep'
    BY <1>2, <2>1 DEF Level, NothingForSleepers
  <2>2. CASE free_job_count = 0
    <3>1. PICK k \in Int : Balance = (SizeMax + 1) * k
      <4> PICK k \in Int : Balance = (SizeMax + 1) * k + free_job_count
        BY DEF TurnsApart
      <4>1. (SizeMax + 1) * k \in Int
        BY SizeMaxAssumption
      <4> QED
        BY <2>2, <4>1
    <3>2. Balance <= SizeMax
      <4>1. Cardinality(LiveJobs) \in Nat
        BY JobsAssumption, FS_Subset, FS_CardinalityType DEF LiveJobs
      <4>2. QueueLengths \in Nat /\ Taking \in Nat /\ Signalling \in Nat
        BY QueueLengthsType, TakingSignalling
      <4>3. Phantoms \in Nat
        BY PhantomsCounted
      <4> QED
        BY <4>1, <4>2, <4>3, FreeJobsBound, SizeMaxAssumption DEF Balance, Due, JobsFit
    <3>3. ~(k >= 1)
      <4> SUFFICES ASSUME k >= 1 PROVE FALSE
        OBVIOUS
      <4>1. (SizeMax + 1) * k >= SizeMax + 1
        BY SizeMaxAssumption
      <4> QED
        BY <1>1, <3>1, <3>2, <4>1, SizeMaxAssumption
    <3>4. (SizeMax + 1) * k <= 0
      BY <3>3, SizeMaxAssumption
    <3> QED
      BY <1>2, <3>1, <3>4 DEF Level, NothingForSleepers
  <2> QED
    BY <1>2, <2>1, <2>2 DEF Level
<1>3. CASE Lowered
  BY <1>1, <1>3 DEF Lowered, NothingForSleepers
<1>4. CASE Raised
  BY <1>4 DEF Raised, NothingForSleepers
<1> QED
  BY <1>2, <1>3, <1>4, BalanceStep

(***************************************************************************)
(* No wakeup is lost (executor.c:79-83, context.c:256-257): while a thread *)
(* sleeps and a job is queued, whoever queued it has yet to signal.  This  *)
(* needs the jobs, and those the count has counted in vain, to fit in it,  *)
(* or a counter that has made a full turn would be taken for zero.         *)
(***************************************************************************)
THEOREM NoLostWakeup == Spec /\ []JobsFit => []NoSleepingOnWork
<1> DEFINE Strong == /\ Typed /\ Owned /\ ForkedByHolder /\ CreatedInOrder /\ Promised
                     /\ UnbornWaitsForNone /\ TurnsApart /\ NothingForSleepers
<1>1. Init => Strong
  <2>1. Init => NothingForSleepers
    BY DEF Init, NothingForSleepers, Asleep
  <2> QED
    BY <2>1, TypedInit, OwnedInit, SideInit, TurnsApartInit
<1>2. Strong /\ JobsFit /\ [Next]_vars => Strong'
  BY TypedStep, OwnedStep, ForkedByHolderStep, CreatedStep, PromisedStep, UnbornWaitsStep,
     TurnsApartStep, NothingForSleepersStep
<1>3. Strong => NoSleepingOnWork
  <2> SUFFICES ASSUME Strong, Asleep, NEW e \in Executors, deque[e] # <<>> PROVE Signalling > 0
    BY DEF NoSleepingOnWork, Asleep
  <2>1. Balance <= 0
    BY DEF NothingForSleepers
  <2>2. deque \in [Executors -> Seq(Jobs)]
    BY DEF Typed, TypeOK
  <2>3. Len(deque[e]) >= 1 /\ Len(deque[e]) <= QueueLengths
    BY <2>2, EmptySeq, TotalBounds, QueueLengthsType
  <2>4. Len(deque[e]) \in Nat /\ QueueLengths \in Nat /\ Taking \in Nat /\ Signalling \in Nat
    BY <2>2, QueueLengthsType, TakingSignalling
  <2>5. QueueLengths + Taking - Signalling <= 0
    <3>1. Phantoms \in Nat /\ Due \in Int /\ Due + Phantoms <= 0
      BY <2>1, PhantomsCounted, DueType DEF Balance
    <3> QED
      BY <3>1 DEF Due
  <2> QED
    BY ONLY <2>3, <2>4, <2>5
<1> HIDE DEF Strong
<1> QED
  BY <1>1, <1>2, <1>3, PTL DEF Spec
-----------------------------------------------------------------------------
(* What armd_context_destroy reports *)

\* Going from parent to parent one leaves any set of jobs: there are no cycles.
Rooted == \A S \in SUBSET Jobs : (\A j \in S : parent[j] \in S) => S = {}

\* A job that does not exist yet has forked nothing.
ParentsBorn == \A k \in Jobs : parent[k] # NoJob => phase[parent[k]] # "unborn"

\* Somebody waits for each job: its parent, or the promise of a root, which is
\* pending or being completed.
Awaited ==
    \A j \in Jobs :
        /\ phase[j] = "live" => IF j \in Roots THEN result[j] = "pending" \/ Completing(j)
                                               ELSE parent[j] # NoJob
        /\ phase[j] \in {"pending", "lost"} => j \in Roots /\ result[j] = "pending"

\* The executors before the one that is being stopped run no longer.
JoinedInOrder ==
    /\ main_pc = "up" => main_index = 0
    /\ main_pc \in {"stop", "join"} =>
         \A e \in Executors : e < main_index => pc[e] \in {"exited", "unborn"}

StatusLast == destroy_status # "none" => main_pc = "destroyed"

Destructible == Rooted /\ ParentsBorn /\ Awaited /\ StatusLast /\ DestroyStatusHonest

LEMMA JoinedStep == Typed /\ JoinedInOrder /\ [Next]_vars => JoinedInOrder'
<1> SUFFICES ASSUME Typed, JoinedInOrder, [Next]_vars PROVE JoinedInOrder'
  OBVIOUS
<1> USE DEF threadVars, contextVars
<1>1. ASSUME UNCHANGED <<main_pc, main_index>>,
             \A f \in Executors : pc[f] \in {"unborn", "exited"} => pc'[f] = pc[f]
      PROVE  JoinedInOrder'
  BY <1>1 DEF JoinedInOrder
<1>2. CASE \E e \in Executors : ExecutorStep(e) \/ SpuriousWakeup(e)
  BY <1>1, <1>2, RestingKept
<1>3. CASE \E c \in Clients : SignalInvoke(c) \/ \E j \in Jobs : Invoke(c, j)
  BY <1>1, <1>3 DEF SignalInvoke, Invoke, Woken
<1>4. CASE CreateExecutor
  BY <1>4 DEF CreateExecutor, JoinedInOrder, Executors
<1>5. CASE OpenContext
  BY <1>5 DEF OpenContext, JoinedInOrder
<1>6. CASE StopExecutor
  BY <1>6 DEF StopExecutor, JoinedInOrder, Woken
<1>7. CASE PassOver \/ JoinExecutor
  <2>1. /\ main_pc \in {"stop", "join"} /\ main_index' = main_index + 1 /\ main_pc' = "stop"
        /\ pc[main_index] \in {"exited", "unborn"} /\ pc' = pc
    BY <1>7 DEF PassOver, JoinExecutor
  <2> QED
    BY <2>1 DEF JoinedInOrder, Typed, TypeOK, Executors
<1>8. CASE BeginDestroy \/ DestroyExecutors \/ UNCHANGED vars
  BY <1>8 DEF BeginDestroy, DestroyExecutors, vars, JoinedInOrder, Executors
<1> QED
  BY <1>2, <1>3, <1>4, <1>5, <1>6, <1>7, <1>8 DEF Next, ContextStep, Terminated

\* Nobody leaves armd__context_complete_promise but at its end.
CompletionsKept ==
    \A f \in Executors :
        pc[f] \in Completes => pc'[f] \in Completes /\ current'[f] = current[f]

LEMMA CompletionsStay ==
    ASSUME Typed, CreatedInOrder, [Next]_vars, \A e \in Executors : ~DestroyRoot(e)
    PROVE  CompletionsKept
<1> USE DEF threadVars, Goto, Completes
<1>1. CASE \E e \in Executors : ExecutorStep(e) \/ SpuriousWakeup(e)
  <2> PICK e \in Executors : ExecutorStep(e) \/ SpuriousWakeup(e)
    BY <1>1
  <2>1. CASE SignalFork(e) \/ Announce(e)
    BY <2>1 DEF SignalFork, Announce, Woken, Typed, TypeOK, CompletionsKept
  <2>2. CASE \E k \in Roots : Release(e, k) \/ Lose(e, k)
    BY <2>2 DEF Release, Lose, Typed, TypeOK, CompletionsKept
  <2>3. CASE ~SignalFork(e) /\ ~Announce(e) /\ ~\E k \in Roots : Release(e, k) \/ Lose(e, k)
    <3>1. /\ pc[e] \notin Completes
          /\ \E label : pc' = [pc EXCEPT ![e] = label]
          /\ current' = current \/ \E j : current' = [current EXCEPT ![e] = j]
      BY <2>3 DEF ExecutorStep, SpuriousWakeup, WaitForContext, Start, DequeueLocal, Sleep,
         GoStealing, Steal, Take, Exit, ExecuteSetup, FailSetup, BeginStep, EndJob, Fork,
         EnqueueFork, RefuseFork, UndoFork, EndStep, MoveToNext, NotifyParent, CompleteRoot
    <3> QED
      BY <3>1 DEF Typed, TypeOK, CompletionsKept
  <2> QED
    BY <2>1, <2>2, <2>3
<1>2. CASE \E c \in Clients : SignalInvoke(c) \/ \E j \in Jobs : Invoke(c, j)
  BY <1>2 DEF SignalInvoke, Invoke, Woken, CompletionsKept
<1>3. CASE CreateExecutor
  <2>1. ASSUME pc' = [pc EXCEPT ![main_index] = "boot"] PROVE CompletionsKept
    <3>1. main_index \in Executors /\ pc[main_index] = "unborn" /\ UNCHANGED current
      BY <1>3, NumExecutorsAssumption DEF CreateExecutor, CreatedInOrder, Typed, TypeOK, Executors
    <3> QED
      BY <2>1, <3>1 DEF Typed, TypeOK, CompletionsKept
  <2> QED
    BY <1>3, <2>1 DEF CreateExecutor, CompletionsKept
<1>4. CASE \/ OpenContext \/ StopExecutor \/ PassOver
           \/ JoinExecutor \/ DestroyExecutors \/ BeginDestroy \/ UNCHANGED vars
  BY <1>4 DEF OpenContext, StopExecutor, PassOver, JoinExecutor, DestroyExecutors, BeginDestroy,
              vars, Woken, CompletionsKept
<1> QED
  BY <1>1, <1>2, <1>3, <1>4 DEF Next, ContextStep, Terminated

LEMMA CompletingKept ==
    ASSUME CompletionsKept, NEW j \in Jobs, Completing(j)
    PROVE  Completing(j)'
BY DEF CompletionsKept, Completing, Completes

LEMMA AllAwaitedByRoots ==
    ASSUME Typed, Owned, Rooted, Awaited,
           \A j \in Roots : result[j] # "pending" /\ ~Completing(j)
    PROVE  \A j \in Jobs : phase[j] \in {"unborn", "destroyed"}
<1>1. LiveJobs \in SUBSET Jobs
  BY DEF LiveJobs
<1>2. \A j \in LiveJobs : parent[j] \in LiveJobs
  BY DEF LiveJobs, Awaited, Owned, ParentsLive, Typed, TypeOK
<1>3. LiveJobs = {}
  BY <1>1, <1>2 DEF Rooted
<1>4. \A j \in Jobs : phase[j] \notin {"live", "pending", "lost"}
  BY <1>3 DEF LiveJobs, Awaited
<1> QED
  BY <1>4 DEF Typed, TypeOK

\* A step that neither creates a job nor ends one, nor reports.
LEMMA NoneCreated ==
    ASSUME Destructible, UNCHANGED <<parent, phase, result, destroy_status>>, CompletionsKept,
           main_pc = "destroyed" => main_pc' = "destroyed"
    PROVE  Destructible'
<1>1. Awaited'
  BY CompletingKept DEF Destructible, Awaited
<1> QED
  BY <1>1 DEF Destructible, Rooted, ParentsBorn, StatusLast, DestroyStatusHonest

\* A step that ends the job j.
LEMMA JobEnded ==
    ASSUME Typed, Destructible, NEW j \in Jobs, phase' = [phase EXCEPT ![j] = "destroyed"],
           \A k \in Jobs \ {j} : Completing(k) => Completing(k)',
           UNCHANGED <<parent, result, main_pc, destroy_status>>
    PROVE  Destructible'
<1>1. \A k \in Jobs : phase'[k] = IF k = j THEN "destroyed" ELSE phase[k]
  BY DEF Typed, TypeOK
<1>2. Rooted' /\ StatusLast'
  BY DEF Destructible, Rooted, StatusLast
<1>3. ParentsBorn'
  BY <1>1 DEF Destructible, ParentsBorn, Typed, TypeOK
<1>4. Awaited'
  BY <1>1 DEF Destructible, Awaited
<1>5. DestroyStatusHonest'
  BY <1>1 DEF Destructible, DestroyStatusHonest
<1> QED
  BY <1>2, <1>3, <1>4, <1>5 DEF Destructible

\* A step that takes a pending job out of its promise.
LEMMA JobReleased ==
    ASSUME Typed, Destructible, NEW k \in Jobs, NEW label, label \in {"live", "lost"},
           phase[k] = "pending", phase' = [phase EXCEPT ![k] = label], CompletionsKept,
           UNCHANGED <<parent, result, main_pc, destroy_status>>
    PROVE  Destructible'
<1>1. \A l \in Jobs : phase'[l] = IF l = k THEN label ELSE phase[l]
  BY DEF Typed, TypeOK
<1>2. Rooted' /\ StatusLast'
  BY DEF Destructible, Rooted, StatusLast
<1>3. ParentsBorn'
  BY <1>1 DEF Destructible, ParentsBorn, Typed, TypeOK
<1>4. Awaited'
  BY <1>1, CompletingKept DEF Destructible, Awaited
<1>5. DestroyStatusHonest'
  BY <1>1 DEF Destructible, DestroyStatusHonest
<1> QED
  BY <1>2, <1>3, <1>4, <1>5 DEF Destructible

LEMMA DestructibleComplete ==
    ASSUME Typed, Owned, Destructible, CompletionsKept, NEW e \in Executors, CompleteRoot(e)
    PROVE  Destructible'
<1> PICK j \in Jobs : current[e] = j
  BY HeldJob DEF CompleteRoot, Holding
<1>1. /\ pc[e] \in Holding /\ pc' = [pc EXCEPT ![e] = "release"]
      /\ \A k \in Jobs \ {j} : result'[k] = result[k]
      /\ UNCHANGED <<current, parent, phase, main_pc, destroy_status>>
  BY DEF CompleteRoot, Goto, Holding, contextVars, Typed, TypeOK
<1>2. phase[j] = "live"
  BY <1>1, LiveInHand
<1>3. Completing(j)'
  BY <1>1 DEF Typed, TypeOK, Completing
<1>4. Awaited'
  BY <1>1, <1>2, <1>3, CompletingKept DEF Destructible, Awaited
<1> QED
  BY <1>1, <1>4 DEF Destructible, Rooted, ParentsBorn, StatusLast, DestroyStatusHonest

LEMMA DestructibleFork ==
    ASSUME Typed, Owned, Destructible, CompletionsKept, NEW e \in Executors, NEW j \in Jobs,
           NEW target \in Executors, Fork(e, j, target)
    PROVE  Destructible'
<1> DEFINE p == current[e]
<1>1. /\ pc[e] = "step" /\ j \notin Roots /\ phase[j] = "unborn"
      /\ phase' = [phase EXCEPT ![j] = "live"] /\ parent' = [parent EXCEPT ![j] = p]
      /\ UNCHANGED <<result, main_pc, destroy_status>>
  BY DEF Fork, contextVars, promiseVars
<1>2. p \in Jobs /\ p # NoJob /\ phase[p] = "live"
  BY <1>1, HeldJob, PlacedLive DEF Holding, Held
<1> HIDE DEF p
<1>3. /\ phase'[j] = "live" /\ parent'[j] = p
      /\ \A k \in Jobs \ {j} : phase'[k] = phase[k] /\ parent'[k] = parent[k]
  BY <1>1 DEF Typed, TypeOK
<1>4. \A k \in Jobs : parent[k] # j
  BY <1>1, JobsAssumption DEF Destructible, ParentsBorn
<1>5. Rooted'
  <2> SUFFICES ASSUME NEW S \in SUBSET Jobs, \A k \in S : parent'[k] \in S PROVE S = {}
    BY DEF Rooted
  <2>1. \A k \in S \ {j} : parent[k] \in S \ {j}
    BY <1>3, <1>4
  <2>2. S \ {j} = {}
    BY <2>1 DEF Destructible, Rooted
  <2> QED
    BY <1>1, <1>2, <1>3, <2>2
<1>6. ParentsBorn'
  <2> SUFFICES ASSUME NEW k \in Jobs, parent'[k] # NoJob PROVE phase'[parent'[k]] # "unborn"
    BY DEF ParentsBorn
  <2>1. CASE k = j
    BY <1>1, <1>2, <1>3, <2>1
  <2>2. CASE k # j
    <3>1. parent[k] \in Jobs \ {j} /\ parent'[k] = parent[k]
      BY <1>3, <1>4, <2>2 DEF Typed, TypeOK
    <3> QED
      BY <1>3, <3>1, JobsAssumption DEF Destructible, ParentsBorn
  <2> QED
    BY <2>1, <2>2
<1>7. Awaited'
  BY <1>1, <1>2, <1>3, CompletingKept DEF Destructible, Awaited
<1>8. StatusLast' /\ DestroyStatusHonest'
  BY <1>1, <1>2 DEF Destructible, StatusLast, DestroyStatusHonest
<1> QED
  BY <1>5, <1>6, <1>7, <1>8 DEF Destructible

LEMMA DestructibleInvoke ==
    ASSUME Typed, Destructible, CompletionsKept, NEW c \in Clients, NEW j \in Jobs, Invoke(c, j)
    PROVE  Destructible'
<1> PICK label \in {"live", "pending"} : phase' = [phase EXCEPT ![j] = label]
  BY DEF Invoke
<1>1. /\ main_pc = "up" /\ j \in Roots /\ phase[j] = "unborn"
      /\ result' = [result EXCEPT ![j] = "pending"]
      /\ UNCHANGED <<parent, main_pc, destroy_status>>
  BY DEF Invoke, contextVars
<1>2. /\ phase'[j] = label /\ result'[j] = "pending"
      /\ \A k \in Jobs \ {j} : phase'[k] = phase[k] /\ result'[k] = result[k]
  BY <1>1 DEF Typed, TypeOK
<1>3. Rooted' /\ StatusLast'
  BY <1>1 DEF Destructible, Rooted, StatusLast
<1>4. ParentsBorn'
  BY <1>1, <1>2 DEF Destructible, ParentsBorn, Typed, TypeOK
<1>5. Awaited'
  BY <1>1, <1>2, CompletingKept DEF Destructible, Awaited
<1>6. DestroyStatusHonest'
  BY <1>1 DEF Destructible, StatusLast, DestroyStatusHonest
<1> QED
  BY <1>3, <1>4, <1>5, <1>6 DEF Destructible

LEMMA DestructibleStep ==
    Typed /\ Owned /\ CreatedInOrder /\ JoinedInOrder /\ Destructible /\ [Next]_vars => Destructible'
<1> SUFFICES ASSUME Typed, Owned, CreatedInOrder, JoinedInOrder, Destructible, [Next]_vars
             PROVE  Destructible'
  OBVIOUS
<1> USE DEF dequeVars, threadVars, jobVars, promiseVars, contextVars
<1>1. CASE \E e \in Executors : DestroyRoot(e)
  <2> PICK e \in Executors : DestroyRoot(e)
    BY <1>1
  <2> PICK j \in Jobs : current[e] = j
    BY HeldJob DEF DestroyRoot, Holding
  <2>1. /\ phase' = [phase EXCEPT ![j] = "destroyed"]
        /\ UNCHANGED <<parent, result, main_pc, destroy_status>>
        /\ \A f \in Executors \ {e} : pc'[f] = pc[f] /\ current'[f] = current[f]
    BY DEF DestroyRoot, Goto, Typed, TypeOK
  <2>2. \A k \in Jobs \ {j} : Completing(k) => Completing(k)'
    BY <2>1 DEF Completing
  <2> QED
    BY <2>1, <2>2, JobEnded
<1> SUFFICES ASSUME \A e \in Executors : ~DestroyRoot(e) PROVE Destructible'
  BY <1>1
<1>2. CompletionsKept
  BY CompletionsStay
<1>3. CASE \E e \in Executors : ExecutorStep(e) \/ SpuriousWakeup(e)
  <2> PICK e \in Executors : ExecutorStep(e) \/ SpuriousWakeup(e)
    BY <1>3
  <2>1. CASE \E j \in Jobs, target \in Executors : Fork(e, j, target)
    BY <1>2, <2>1, DestructibleFork
  <2>2. CASE RefuseFork(e) \/ NotifyParent(e)
    <3>1. PICK j \in Jobs : phase' = [phase EXCEPT ![j] = "destroyed"]
      BY <2>2 DEF RefuseFork, NotifyParent, Typed, HandsFull, Holding
    <3>2. UNCHANGED <<parent, result, main_pc, destroy_status>>
      BY <2>2 DEF RefuseFork, NotifyParent
    <3> QED
      BY <1>2, <3>1, <3>2, CompletingKept, JobEnded
  <2>3. CASE CompleteRoot(e)
    BY <1>2, <2>3, DestructibleComplete
  <2>4. CASE \E k \in Roots : Release(e, k) \/ Lose(e, k)
    <3>1. PICK k \in Jobs, label \in {"live", "lost"} :
             phase[k] = "pending" /\ phase' = [phase EXCEPT ![k] = label]
      BY <2>4, JobsAssumption DEF Release, Lose, AwaitsRootOf
    <3>2. UNCHANGED <<parent, result, main_pc, destroy_status>>
      BY <2>4 DEF Release, Lose
    <3> QED
      BY <1>2, <3>1, <3>2, JobReleased
  <2>5. CASE \/ SpuriousWakeup(e) \/ WaitForContext(e) \/ Start(e) \/ Sleep(e)
             \/ GoStealing(e) \/ Exit(e) \/ ExecuteSetup(e) \/ FailSetup(e)
             \/ BeginStep(e) \/ EndJob(e) \/ UndoFork(e) \/ DequeueLocal(e)
             \/ (\E victim \in Executors : Steal(e, victim)) \/ Take(e)
             \/ EnqueueFork(e) \/ SignalFork(e) \/ Announce(e)
             \/ (\E r \in Result : EndStep(e, r) \/ MoveToNext(e, r))
    <3>1. UNCHANGED <<parent, phase, result, destroy_status, main_pc>>
      BY <2>5 DEF SpuriousWakeup, WaitForContext, Start, Sleep, GoStealing, Exit, ExecuteSetup,
         FailSetup, BeginStep, EndJob, UndoFork, DequeueLocal, Steal, Take, EnqueueFork,
         SignalFork, Announce, EndStep, MoveToNext
    <3> QED
      BY <1>2, <3>1, NoneCreated
  <2> QED
    BY <2>1, <2>2, <2>3, <2>4, <2>5 DEF ExecutorStep
<1>4. CASE \E c \in Clients : SignalInvoke(c) \/ \E j \in Jobs : Invoke(c, j)
  BY <1>2, <1>4, NoneCreated, DestructibleInvoke DEF SignalInvoke
<1>5. CASE DestroyExecutors
  <2>1. Rooted' /\ ParentsBorn' /\ Awaited' /\ StatusLast'
    BY <1>2, <1>5, CompletingKept
       DEF DestroyExecutors, Destructible, Rooted, ParentsBorn, Awaited, StatusLast
  <2>2. DestroyStatusHonest'
    <3> SUFFICES ASSUME destroy_status' = "ok"
                 PROVE  \A j \in Jobs : phase'[j] \in {"unborn", "destroyed"}
      BY DEF DestroyStatusHonest
    <3>1. NothingLeft /\ UNCHANGED phase
      BY <1>5 DEF DestroyExecutors
    <3>2. \A e \in Executors : pc[e] \in {"exited", "unborn"}
      BY <1>5, NumExecutorsAssumption DEF DestroyExecutors, JoinedInOrder, Executors
    <3>3. \A j \in Roots : ~Completing(j)
      BY <3>2 DEF Completing
    <3> QED
      BY <3>1, <3>3, AllAwaitedByRoots DEF NothingLeft, Destructible
  <2> QED
    BY <2>1, <2>2 DEF Destructible
<1>6. CASE \/ CreateExecutor \/ OpenContext \/ StopExecutor \/ PassOver
           \/ JoinExecutor \/ BeginDestroy \/ UNCHANGED vars
  <2>1. /\ UNCHANGED <<parent, phase, result, destroy_status>>
        /\ main_pc = "destroyed" => main_pc' = "destroyed"
    BY <1>6 DEF CreateExecutor, OpenContext, StopExecutor, PassOver, JoinExecutor,
                BeginDestroy, vars
  <2> QED
    BY <1>2, <2>1, NoneCreated
<1> QED
  BY <1>3, <1>4, <1>5, <1>6 DEF Next, ContextStep, Terminated

LEMMA DestructibleInit == Init => Destructible
BY JobsAssumption
DEF Init, Destructible, Rooted, ParentsBorn, Awaited, StatusLast, DestroyStatusHonest

LEMMA JoinedInit == Init => JoinedInOrder
BY DEF Init, JoinedInOrder

(***************************************************************************)
(* armd_context_destroy (context.c:169) looks at the deques and the        *)
(* promises only; it is enough: when it reports success no job is left     *)
(* anywhere, not even one that waits for its children or for a promise,    *)
(* that a thread had in hand when it was stopped or that a release lost.   *)
(***************************************************************************)
THEOREM DestroyReportsHonestly == Spec => []DestroyStatusHonest
<1> DEFINE Strong == /\ Typed /\ Owned /\ ForkedByHolder /\ CreatedInOrder /\ Promised
                     /\ JoinedInOrder /\ Destructible
<1>1. Init => Strong
  BY TypedInit, OwnedInit, SideInit, JoinedInit, DestructibleInit
<1>2. Strong /\ [Next]_vars => Strong'
  BY TypedStep, OwnedStep, ForkedByHolderStep, CreatedStep, PromisedStep, JoinedStep,
     DestructibleStep
<1>3. Strong => DestroyStatusHonest
  BY DEF Destructible
<1> QED
  BY <1>1, <1>2, <1>3, PTL DEF Spec
=============================================================================
