--------------------- MODULE WorkStealingRecords_proofs ---------------------
(***************************************************************************)
(* Theorems about the records of jobs in WorkStealing: executor, frame and *)
(* counters, the assertions of job.c, and the way of errors from child to  *)
(* parent and to the promise of the root.                                  *)
(***************************************************************************)
EXTENDS WorkStealing_proofs

-----------------------------------------------------------------------------
(* What the steps that write job records do to the fields used here *)

SameFrame(k) ==
    /\ job'[k].continuation_frame = job[k].continuation_frame
    /\ job'[k].continuation_index = job[k].continuation_index
    /\ job'[k].setup_executed = job[k].setup_executed

SameExecutor(k) == job'[k].executor = job[k].executor

LEMMA StolenFields ==
    ASSUME Typed, NEW e \in Executors, NEW j \in Jobs, job' = Stolen(j, e)
    PROVE  /\ job'[j].executor = e
           /\ \A k \in Jobs : SameFrame(k)
           /\ \A k \in Jobs \ {j} : SameExecutor(k)
<1>1. job \in [Jobs -> JobRecord] /\ job[j] \in JobRecord
  BY DEF Typed, TypeOK
<1>2. job' = [job EXCEPT ![j] = [job[j] EXCEPT !.executor = e]]
  BY DEF Stolen
<1> QED
  BY <1>1, <1>2 DEF JobRecord, SameFrame, SameExecutor

LEMMA ExecuteSetupFields ==
    ASSUME Typed, NEW e \in Executors, ExecuteSetup(e), NEW j, j = current[e]
    PROVE  /\ job'[j].continuation_frame = job[j].continuation_frame
           /\ job'[j].continuation_index = job[j].continuation_index
           /\ job'[j].setup_executed = TRUE
           /\ \A k \in Jobs \ {j} : SameFrame(k)
           /\ \A k \in Jobs : SameExecutor(k)
<1> DEFINE has_error == job[j].has_error \/ job[j].dependency_has_error
           new == [job[j] EXCEPT !.setup_executed = TRUE, !.has_error = has_error]
<1>1. j \in Jobs /\ job \in [Jobs -> JobRecord] /\ job[j] \in JobRecord
  BY HeldJob DEF ExecuteSetup, Holding
<1>2. job' = [job EXCEPT ![j] = new]
  BY DEF ExecuteSetup
<1>3. has_error \in BOOLEAN
  OBVIOUS
<1> HIDE DEF has_error
<1>4. /\ new.continuation_frame = job[j].continuation_frame
      /\ new.continuation_index = job[j].continuation_index
      /\ new.setup_executed = TRUE
      /\ new.executor = job[j].executor
  BY <1>1, <1>3 DEF JobRecord
<1> HIDE DEF new
<1> QED
  BY <1>1, <1>2, <1>4 DEF SameFrame, SameExecutor

LEMMA FailSetupFields ==
    ASSUME Typed, NEW e \in Executors, FailSetup(e)
    PROVE  \A k \in Jobs : SameFrame(k) /\ SameExecutor(k)
<1> DEFINE j == current[e]
           new == [job[j] EXCEPT !.has_error = TRUE]
<1>1. j \in Jobs /\ job \in [Jobs -> JobRecord] /\ job[j] \in JobRecord
  BY HeldJob DEF FailSetup, Holding
<1>2. job' = [job EXCEPT ![j] = new]
  BY DEF FailSetup
<1> HIDE DEF j
<1>3. /\ new.continuation_frame = job[j].continuation_frame
      /\ new.continuation_index = job[j].continuation_index
      /\ new.setup_executed = job[j].setup_executed
      /\ new.executor = job[j].executor
  BY <1>1 DEF JobRecord
<1> HIDE DEF new
<1> QED
  BY <1>1, <1>2, <1>3 DEF SameFrame, SameExecutor

LEMMA ToldFields ==
    ASSUME Typed, NEW j \in Jobs, NEW r, job' = Told(j, r)
    PROVE  \A k \in Jobs : SameFrame(k) /\ SameExecutor(k)
<1> DEFINE dependency_has_error == job[j].dependency_has_error \/ result[r] = "error"
           new == [job[j] EXCEPT !.dependency_has_error = dependency_has_error]
<1>1. job \in [Jobs -> JobRecord] /\ job[j] \in JobRecord
  BY DEF Typed, TypeOK
<1>2. job' = [job EXCEPT ![j] = new]
  BY DEF Told
<1> HIDE DEF dependency_has_error
<1>3. /\ new.continuation_frame = job[j].continuation_frame
      /\ new.continuation_index = job[j].continuation_index
      /\ new.setup_executed = job[j].setup_executed
      /\ new.executor = job[j].executor
  BY <1>1 DEF JobRecord
<1> HIDE DEF new
<1> QED
  BY <1>1, <1>2, <1>3 DEF SameFrame, SameExecutor

LEMMA UndoForkFields ==
    ASSUME Typed, NEW e \in Executors, UndoFork(e)
    PROVE  \A k \in Jobs : SameFrame(k) /\ SameExecutor(k)
<1> DEFINE j == current[e]
           all == job[j].num_all_waiting_jobs - 1
           new == [job[j] EXCEPT !.num_all_waiting_jobs = all]
<1>1. j \in Jobs /\ job \in [Jobs -> JobRecord] /\ job[j] \in JobRecord
  BY HeldJob DEF UndoFork, Holding
<1>2. job' = [job EXCEPT ![j] = new]
  BY DEF UndoFork
<1> HIDE DEF j, all
<1>3. /\ new.continuation_frame = job[j].continuation_frame
      /\ new.continuation_index = job[j].continuation_index
      /\ new.setup_executed = job[j].setup_executed
      /\ new.executor = job[j].executor
  BY <1>1 DEF JobRecord
<1> HIDE DEF new
<1> QED
  BY <1>1, <1>2, <1>3 DEF SameFrame, SameExecutor

LEMMA BeginStepFields ==
    ASSUME Typed, NEW e \in Executors, BeginStep(e), NEW j, j = current[e]
    PROVE  /\ job'[j].continuation_frame = TRUE
           /\ job'[j].continuation_index = job[j].continuation_index
           /\ job'[j].setup_executed = job[j].setup_executed
           /\ \A k \in Jobs \ {j} : SameFrame(k)
           /\ \A k \in Jobs : SameExecutor(k)
<1> DEFINE share == OwnShare
           none == 0
           new == [job[j] EXCEPT !.parent_finished = FALSE,
                                 !.num_all_waiting_jobs = share,
                                 !.num_ended_waiting_jobs = none,
                                 !.continuation_frame = TRUE]
<1>1. j \in Jobs /\ job \in [Jobs -> JobRecord] /\ job[j] \in JobRecord
  BY HeldJob DEF BeginStep, Holding
<1>2. job' = [job EXCEPT ![j] = new]
  BY DEF BeginStep
<1> HIDE DEF share, none
<1>3. /\ new.continuation_frame = TRUE
      /\ new.continuation_index = job[j].continuation_index
      /\ new.setup_executed = job[j].setup_executed
      /\ new.executor = job[j].executor
  BY <1>1 DEF JobRecord
<1> HIDE DEF new
<1> QED
  BY <1>1, <1>2, <1>3 DEF SameFrame, SameExecutor

LEMMA ForkFields ==
    ASSUME Typed, NEW e \in Executors, NEW j \in Jobs, NEW target \in Executors,
           Fork(e, j, target), j # current[e]
    PROVE  /\ job'[j].executor = target
           /\ job'[j].continuation_frame = FALSE
           /\ job'[j].continuation_index = 0
           /\ job'[j].setup_executed = FALSE
           /\ \A k \in Jobs \ {j} : SameFrame(k) /\ SameExecutor(k)
<1> PICK garbage \in Garbage :
        job' = [job EXCEPT ![j] = NewJob(target, FALSE, garbage),
                           ![current[e]] = [@ EXCEPT !.num_all_waiting_jobs
                                                 = job[current[e]].num_all_waiting_jobs + 1]]
  BY DEF Fork
<1> DEFINE p == current[e]
           all == job[p].num_all_waiting_jobs + 1
           new == NewJob(target, FALSE, garbage)
           par == [job[p] EXCEPT !.num_all_waiting_jobs = all]
<1>1. p \in Jobs /\ job \in [Jobs -> JobRecord] /\ job[p] \in JobRecord /\ p # j
  BY HeldJob DEF Fork, Holding
<1>2. job' = [job EXCEPT ![j] = new, ![p] = par]
  BY <1>1
<1>3. /\ new.executor = target
      /\ new.continuation_frame = FALSE
      /\ new.continuation_index = 0
      /\ new.setup_executed = FALSE
  BY DEF NewJob
<1> HIDE DEF p, all, new
<1>4. /\ par.continuation_frame = job[p].continuation_frame
      /\ par.continuation_index = job[p].continuation_index
      /\ par.setup_executed = job[p].setup_executed
      /\ par.executor = job[p].executor
  BY <1>1 DEF JobRecord
<1> HIDE DEF par
<1>5. job'[j] = new /\ job'[p] = par /\ \A k \in Jobs \ {j, p} : job'[k] = job[k]
  BY <1>1, <1>2
<1> QED
  BY <1>3, <1>4, <1>5 DEF SameFrame, SameExecutor

LEMMA EndStepFields ==
    ASSUME Typed, NEW e \in Executors, NEW r \in Result, EndStep(e, r)
    PROVE  \A k \in Jobs : SameFrame(k) /\ SameExecutor(k)
<1> DEFINE j == current[e]
           has_error == job[j].has_error \/ r = "Error"
           ended == job[j].num_ended_waiting_jobs + 1
           new == [job[j] EXCEPT !.continuation_result = r,
                                 !.has_error = has_error,
                                 !.parent_finished = TRUE,
                                 !.num_ended_waiting_jobs = ended]
<1>1. j \in Jobs /\ job \in [Jobs -> JobRecord] /\ job[j] \in JobRecord
  BY HeldJob DEF EndStep, Holding
<1>2. job' = [job EXCEPT ![j] = new]
  BY DEF EndStep
<1>3. has_error \in BOOLEAN
  OBVIOUS
<1> HIDE DEF j, has_error, ended
<1>4. /\ new.continuation_frame = job[j].continuation_frame
      /\ new.continuation_index = job[j].continuation_index
      /\ new.setup_executed = job[j].setup_executed
      /\ new.executor = job[j].executor
  BY <1>1, <1>3 DEF JobRecord
<1> HIDE DEF new
<1> QED
  BY <1>1, <1>2, <1>4 DEF SameFrame, SameExecutor

LEMMA MoveToNextFields ==
    ASSUME Typed, NEW e \in Executors, NEW r \in Result, MoveToNext(e, r), NEW j, j = current[e]
    PROVE  /\ job'[j].continuation_frame <=> job[j].continuation_frame /\ r = "Repeat"
           /\ job'[j].continuation_index
                = IF r = "Ended" THEN job[j].continuation_index + 1
                                 ELSE job[j].continuation_index
           /\ job'[j].setup_executed = job[j].setup_executed
           /\ \A k \in Jobs \ {j} : SameFrame(k)
           /\ \A k \in Jobs : SameExecutor(k)
<1> DEFINE frame == job[j].continuation_frame /\ KeepsFrame(r)
           index == job[j].continuation_index + (IF r = "Ended" THEN 1 ELSE 0)
           new == [job[j] EXCEPT !.continuation_frame = frame, !.continuation_index = index]
<1>1. j \in Jobs /\ job \in [Jobs -> JobRecord] /\ job[j] \in JobRecord
  BY HeldJob DEF MoveToNext, Holding
<1>2. job' = [job EXCEPT ![j] = new]
  BY DEF MoveToNext
<1>3. frame \in BOOLEAN /\ (frame <=> job[j].continuation_frame /\ r = "Repeat")
  BY DEF KeepsFrame
<1>4. index = IF r = "Ended" THEN job[j].continuation_index + 1 ELSE job[j].continuation_index
  BY <1>1 DEF JobRecord
<1> HIDE DEF frame, index
<1>5. /\ new.continuation_frame = frame
      /\ new.continuation_index = index
      /\ new.setup_executed = job[j].setup_executed
      /\ new.executor = job[j].executor
  BY <1>1 DEF JobRecord
<1> HIDE DEF new
<1>6. job'[j] = new /\ \A k \in Jobs \ {j} : job'[k] = job[k]
  BY <1>1, <1>2
<1>7. \A k \in Jobs \ {j} : SameFrame(k)
  BY <1>6 DEF SameFrame
<1>8. \A k \in Jobs : SameExecutor(k)
  BY <1>5, <1>6 DEF SameExecutor
<1> QED
  BY <1>3, <1>4, <1>5, <1>6, <1>7, <1>8

LEMMA NotifyParentFields ==
    ASSUME Typed, NEW e \in Executors, NotifyParent(e), NEW p, p = parent[current[e]]
    PROVE  /\ p \in Jobs
           /\ \A k \in Jobs : SameFrame(k)
           /\ \A k \in Jobs \ {p} : SameExecutor(k)
           /\ current'[e] = p => job'[p].executor = e
           /\ current'[e] # p => SameExecutor(p)
<1> DEFINE j == current[e]
           ended == job[p].num_ended_waiting_jobs + 1
           enabled == JoinReady(job[p].parent_finished, job[p].num_all_waiting_jobs, ended)
           has_error == job[p].has_error \/ job[j].has_error
           executor == IF enabled THEN e ELSE job[p].executor
           new == [job[p] EXCEPT !.num_ended_waiting_jobs = ended,
                                 !.has_error = has_error,
                                 !.executor = executor]
<1>1. /\ j \in Jobs /\ p \in Jobs /\ p # NoJob
      /\ job \in [Jobs -> JobRecord] /\ job[p] \in JobRecord
      /\ current \in [Executors -> Jobs \cup {NoJob}]
  BY HeldJob DEF Typed, TypeOK, NotifyParent, Holding
<1>2. /\ job' = [job EXCEPT ![p] = new]
      /\ current' = [current EXCEPT ![e] = IF enabled THEN p ELSE NoJob]
  BY DEF NotifyParent
<1>3. has_error \in BOOLEAN
  OBVIOUS
<1>4. /\ enabled => executor = e
      /\ ~enabled => executor = job[p].executor
      /\ current'[e] = p <=> enabled
  BY <1>1, <1>2
<1> HIDE DEF j, ended, has_error, executor, enabled
<1>5. /\ new.continuation_frame = job[p].continuation_frame
      /\ new.continuation_index = job[p].continuation_index
      /\ new.setup_executed = job[p].setup_executed
      /\ new.executor = executor
  BY <1>1, <1>3 DEF JobRecord
<1> HIDE DEF new
<1>6. job'[p] = new /\ \A k \in Jobs \ {p} : job'[k] = job[k]
  BY <1>1, <1>2
<1> QED
  BY <1>1, <1>4, <1>5, <1>6 DEF SameFrame, SameExecutor

LEMMA InvokeFields ==
    ASSUME Typed, NEW c \in Clients, NEW j \in Jobs, Invoke(c, j)
    PROVE  /\ job'[j].executor = 0
           /\ job'[j].continuation_frame = FALSE
           /\ job'[j].continuation_index = 0
           /\ job'[j].setup_executed = FALSE
           /\ \A k \in Jobs \ {j} : SameFrame(k) /\ SameExecutor(k)
<1> PICK d \in DependencyErrors, g \in Garbage : job' = [job EXCEPT ![j] = NewJob(0, d, g)]
  BY DEF Invoke
<1> DEFINE new == NewJob(0, d, g)
<1>1. job' = [job EXCEPT ![j] = new] /\ job \in [Jobs -> JobRecord]
  BY DEF Typed, TypeOK
<1>2. /\ new.executor = 0
      /\ new.continuation_frame = FALSE
      /\ new.continuation_index = 0
      /\ new.setup_executed = FALSE
  BY DEF NewJob
<1> HIDE DEF new
<1> QED
  BY <1>1, <1>2 DEF SameFrame, SameExecutor

-----------------------------------------------------------------------------
(* Who executes a job *)

\* A queued job is recorded for the executor whose deque it is in.
QueuedAtOwner ==
    \A e \in Executors : \A i \in 1 .. Len(deque[e]) : job[deque[e][i]].executor = e

Recorded == QueuedAtOwner /\ OwnerRecorded

LEMMA HolderKept ==
    ASSUME Typed, Typed', Owned', Recorded, NEW e \in Executors, NEW x \in Jobs \cup {NoJob},
           \A k \in Jobs \ {x} : SameExecutor(k),
           x \in Jobs => current'[e] = x /\ job'[x].executor = e,
           \A f \in Executors :
              pc'[f] \in Holding =>
                 \/ pc[f] \in Holding /\ current'[f] = current[f]
                 \/ job'[current'[f]].executor = f
    PROVE  OwnerRecorded'
<1> SUFFICES ASSUME NEW f \in Executors, pc'[f] \in Holding
             PROVE  job'[current'[f]].executor = f
  BY DEF OwnerRecorded
<1>1. current'[f] \in Jobs
  BY DEF Typed, HandsFull
<1>2. CASE current'[f] = x
  <2>1. x # NoJob /\ current'[e] = x
    BY <1>1, <1>2, JobsAssumption
  <2>2. f = e
    BY <1>2, <2>1 DEF Owned, HandsDisjoint
  <2> QED
    BY <1>1, <1>2, <2>2
<1>3. CASE current'[f] # x
  BY <1>1, <1>3 DEF Recorded, OwnerRecorded, SameExecutor
<1> QED
  BY <1>2, <1>3

LEMMA QueueKept ==
    ASSUME Typed, Owned', Recorded, NEW x \in Jobs \cup {NoJob},
           \A k \in Jobs \ {x} : SameExecutor(k),
           x \in Jobs => Held(x)',
           \A f \in Executors : \A i \in 1 .. Len(deque'[f]) :
              deque'[f][i] \in Jobs
              /\ (deque'[f][i] # x => job[deque'[f][i]].executor = f)
    PROVE  QueuedAtOwner'
<1> SUFFICES ASSUME NEW f \in Executors, NEW i \in 1 .. Len(deque'[f])
             PROVE  job'[deque'[f][i]].executor = f
  BY DEF QueuedAtOwner
<1> PICK k \in Jobs : k = deque'[f][i]
  OBVIOUS
<1>1. Queued(k)'
  BY DEF Queued
<1>2. k # x
  BY <1>1, JobsAssumption DEF Owned, QueuedAtRest
<1> QED
  BY <1>1, <1>2 DEF SameExecutor

LEMMA RecordedStolen ==
    ASSUME Typed, Typed', Owned, Owned', Recorded, NEW e \in Executors, NEW victim \in Executors,
           Steal(e, victim)
    PROVE  Recorded'
<1>1. CASE deque[victim] = <<>>
  <2>1. /\ UNCHANGED <<deque, current, job>>
        /\ pc' = [pc EXCEPT ![e] = "idle"]
    BY <1>1 DEF Steal, Goto
  <2> QED
    BY <2>1 DEF Typed, TypeOK, Recorded, QueuedAtOwner, OwnerRecorded, Holding
<1>2. CASE deque[victim] # <<>>
  <2> DEFINE q == deque[victim]
  <2>0. q \in Seq(Jobs) /\ Back(q) \in Jobs
    BY <1>2, DequeBackType DEF Typed, TypeOK
  <2> PICK j \in Jobs : j = Back(q)
    BY <2>0
  <2>1. /\ current' = [current EXCEPT ![e] = j]
        /\ deque' = [deque EXCEPT ![victim] = WithoutBack(q)]
        /\ job' = Stolen(j, e)
        /\ pc' = [pc EXCEPT ![e] = "take"]
    BY <1>2 DEF Steal, Goto
  <2>3. current'[e] = j /\ Held(j)'
    BY <2>1 DEF Typed, TypeOK, Held
  <2>4. job'[j].executor = e /\ \A k \in Jobs \ {j} : SameExecutor(k)
    BY <2>1, StolenFields
  <2>5. OwnerRecorded'
    <3>1. \A f \in Executors :
              pc'[f] \in Holding =>
                 \/ pc[f] \in Holding /\ current'[f] = current[f]
                 \/ job'[current'[f]].executor = f
      BY <2>1, <2>3, <2>4 DEF Typed, TypeOK
    <3> QED
      BY <2>3, <2>4, <3>1, HolderKept
  <2>6. QueuedAtOwner'
    <3>1. ASSUME NEW f \in Executors, NEW i \in 1 .. Len(deque'[f])
          PROVE  deque'[f][i] \in Jobs /\ job[deque'[f][i]].executor = f
      <4>1. deque[f] \in Seq(Jobs) /\ deque'[f] \in Seq(Jobs)
        BY DEF Typed, TypeOK
      <4>2. CASE f = victim
        <5>1. Len(q) \in Nat \ {0} /\ deque'[f] = SubSeq(q, 1, Len(q) - 1)
          BY <1>2, <2>1, <2>0, <4>2, EmptySeq DEF Typed, TypeOK, WithoutBack
        <5>2. i \in 1 .. Len(q) /\ deque'[f][i] = q[i]
          BY <2>0, <3>1, <5>1
        <5> QED
          BY <4>1, <4>2, <5>2, ElementOfSeq DEF Recorded, QueuedAtOwner
      <4>3. CASE f # victim
        <5>1. deque'[f] = deque[f]
          BY <2>1, <4>3 DEF Typed, TypeOK
        <5> QED
          BY <3>1, <4>1, <5>1, ElementOfSeq DEF Recorded, QueuedAtOwner
      <4> QED
        BY <4>2, <4>3
    <3> QED
      BY <2>3, <2>4, <3>1, QueueKept
  <2> QED
    BY <2>5, <2>6 DEF Recorded
<1> QED
  BY <1>1, <1>2

LEMMA RecordedDequeued ==
    ASSUME Typed, Typed', Owned, Owned', Recorded, NEW e \in Executors, DequeueLocal(e)
    PROVE  Recorded'
<1>1. CASE deque[e] = <<>>
  <2>1. /\ UNCHANGED <<deque, current, job>>
        /\ pc' = [pc EXCEPT ![e] = "wait"]
    BY <1>1 DEF DequeueLocal, Goto, jobVars
  <2> QED
    BY <2>1 DEF Typed, TypeOK, Recorded, QueuedAtOwner, OwnerRecorded, Holding
<1>2. CASE deque[e] # <<>>
  <2> DEFINE q == deque[e]
  <2>1. /\ current' = [current EXCEPT ![e] = q[1]]
        /\ deque' = [deque EXCEPT ![e] = Tail(q)]
        /\ pc' = [pc EXCEPT ![e] = "take"]
        /\ UNCHANGED job
    BY <1>2 DEF DequeueLocal, Goto, jobVars, Front, WithoutFront
  <2>2. q \in Seq(Jobs) /\ Len(q) \in Nat \ {0}
    BY <1>2, EmptySeq DEF Typed, TypeOK
  <2>3. job[q[1]].executor = e
    BY <2>2 DEF Recorded, QueuedAtOwner
  <2>4. OwnerRecorded'
    BY <2>1, <2>3 DEF Typed, TypeOK, Recorded, OwnerRecorded
  <2>5. QueuedAtOwner'
    <3> SUFFICES ASSUME NEW f \in Executors, NEW i \in 1 .. Len(deque'[f])
                 PROVE  job[deque'[f][i]].executor = f
      BY <2>1 DEF QueuedAtOwner
    <3>1. CASE f = e
      <4>1. deque'[f] = Tail(q)
        BY <2>1, <3>1 DEF Typed, TypeOK
      <4>2. i + 1 \in 1 .. Len(q) /\ deque'[f][i] = q[i + 1]
        BY <2>2, <4>1
      <4> QED
        BY <3>1, <4>2 DEF Recorded, QueuedAtOwner
    <3>2. CASE f # e
      BY <2>1, <3>2 DEF Typed, TypeOK, Recorded, QueuedAtOwner
    <3> QED
      BY <3>1, <3>2
  <2> QED
    BY <2>4, <2>5 DEF Recorded
<1> QED
  BY <1>1, <1>2

\* The steps that leave the deques and every job's executor alone.
LEMMA RecordedQuiet ==
    ASSUME Typed, Typed', Recorded, UNCHANGED deque, \A k \in Jobs : SameExecutor(k),
           \A f \in Executors :
              pc'[f] \in Holding => pc[f] \in Holding /\ current'[f] = current[f]
    PROVE  Recorded'
<1>1. QueuedAtOwner'
  BY ElementOfSeq DEF Typed, TypeOK, Recorded, QueuedAtOwner, SameExecutor
<1>2. OwnerRecorded'
  BY DEF Typed, TypeOK, HandsFull, Recorded, OwnerRecorded, SameExecutor
<1> QED
  BY <1>1, <1>2 DEF Recorded

LEMMA RecordedFork ==
    ASSUME Typed, Typed', Owned, Recorded, NEW e \in Executors, NEW j \in Jobs,
           NEW target \in Executors, Fork(e, j, target)
    PROVE  Recorded'
<1>1. /\ phase[j] = "unborn"
      /\ pc[e] = "step"
      /\ pc' = [pc EXCEPT ![e] = "fork"]
      /\ UNCHANGED <<deque, current>>
  BY DEF Fork, Goto, dequeVars
<1>2. ~Queued(j) /\ ~Held(j)
  BY <1>1, PlacedLive
<1>3. \A k \in Jobs \ {j} : SameExecutor(k)
  BY <1>1, <1>2, ForkFields DEF Held
<1>4. QueuedAtOwner'
  <2> SUFFICES ASSUME NEW f \in Executors, NEW i \in 1 .. Len(deque[f])
               PROVE  job'[deque[f][i]].executor = f
    BY <1>1 DEF QueuedAtOwner
  <2>1. deque[f][i] \in Jobs \ {j}
    BY <1>2, ElementOfSeq DEF Typed, TypeOK, Queued
  <2> QED
    BY <1>3, <2>1 DEF Recorded, QueuedAtOwner, SameExecutor
<1>5. OwnerRecorded'
  <2> SUFFICES ASSUME NEW f \in Executors, pc'[f] \in Holding
               PROVE  job'[current[f]].executor = f
    BY <1>1 DEF OwnerRecorded
  <2>1. pc[f] \in Holding
    BY <1>1 DEF Typed, TypeOK, Holding
  <2>2. current[f] \in Jobs \ {j}
    BY <1>2, <2>1 DEF Typed, HandsFull, Held
  <2> QED
    BY <1>3, <2>1, <2>2 DEF Recorded, OwnerRecorded, SameExecutor
<1> QED
  BY <1>4, <1>5 DEF Recorded

\* A job put into a deque at either end, when it is recorded for it.
LEMMA RecordedEnqueued ==
    ASSUME Typed, QueuedAtOwner, NEW e \in Executors, NEW j \in Jobs, NEW q \in Seq(Jobs),
           q = EnqueueForward(deque[e], j) \/ q = EnqueueBack(deque[e], j),
           deque' = [deque EXCEPT ![e] = q],
           job'[j].executor = e,
           \A f \in Executors : \A i \in 1 .. Len(deque[f]) : SameExecutor(deque[f][i])
    PROVE  QueuedAtOwner'
<1> SUFFICES ASSUME NEW f \in Executors, NEW i \in 1 .. Len(deque'[f])
             PROVE  job'[deque'[f][i]].executor = f
  BY DEF QueuedAtOwner
<1> DEFINE p == deque[e]
<1>1. deque \in [Executors -> Seq(Jobs)] /\ p \in Seq(Jobs) /\ <<j>> \in Seq(Jobs)
  BY DEF Typed, TypeOK
<1>2. CASE f = e
  <2>1. deque'[f] = q
    BY <1>1, <1>2
  <2>2. CASE q = EnqueueForward(p, j)
    <3>1. q = <<j>> \o p
      BY <2>2 DEF EnqueueForward
    <3>2. i \in 1 .. Len(p) + 1
      BY <1>1, <2>1, <3>1
    <3>3. CASE i = 1
      BY <1>1, <1>2, <2>1, <3>1, <3>3
    <3>4. CASE i # 1
      <4>1. i - 1 \in 1 .. Len(p) /\ q[i] = p[i - 1]
        BY <1>1, <3>1, <3>2, <3>4
      <4> QED
        BY <1>2, <2>1, <4>1 DEF QueuedAtOwner, SameExecutor
    <3> QED
      BY <3>3, <3>4
  <2>3. CASE q = EnqueueBack(p, j)
    <3>1. q = Append(p, j)
      BY <2>3 DEF EnqueueBack
    <3>2. i \in 1 .. Len(p) + 1
      BY <1>1, <2>1, <3>1
    <3>3. CASE i = Len(p) + 1
      BY <1>1, <1>2, <2>1, <3>1, <3>3
    <3>4. CASE i # Len(p) + 1
      <4>1. i \in 1 .. Len(p) /\ q[i] = p[i]
        BY <1>1, <3>1, <3>2, <3>4
      <4> QED
        BY <1>2, <2>1, <4>1 DEF QueuedAtOwner, SameExecutor
    <3> QED
      BY <3>3, <3>4
  <2> QED
    BY <2>2, <2>3
<1>3. CASE f # e
  BY <1>1, <1>3 DEF QueuedAtOwner, SameExecutor
<1> QED
  BY <1>2, <1>3

LEMMA RecordedEnqueueFork ==
    ASSUME Typed, Typed', Recorded, NEW e \in Executors, EnqueueFork(e)
    PROVE  Recorded'
<1> DEFINE j == child[e]
           t == job[j].executor
           q == EnqueueForward(deque[t], j)
<1>1. /\ pc[e] = "fork"
      /\ pc' = [pc EXCEPT ![e] = "signal"]
      /\ deque' = [deque EXCEPT ![t] = q]
      /\ UNCHANGED <<current, job>>
  BY DEF EnqueueFork, Goto, jobVars
<1>2. j \in Jobs /\ t \in Executors
  BY <1>1 DEF Typed, TypeOK, HandsFull, JobRecord
<1>3. q \in Seq(Jobs)
  BY <1>2, DequeTypes DEF Typed, TypeOK
<1>4. QueuedAtOwner'
  BY <1>1, <1>2, <1>3, RecordedEnqueued DEF Recorded, SameExecutor
<1>5. OwnerRecorded'
  BY <1>1 DEF Typed, TypeOK, Recorded, OwnerRecorded, Holding
<1> QED
  BY <1>4, <1>5 DEF Recorded

LEMMA RecordedInvoke ==
    ASSUME Typed, Typed', Owned, Recorded, NEW c \in Clients, NEW j \in Jobs, Invoke(c, j)
    PROVE  Recorded'
<1> DEFINE q == EnqueueBack(deque[0], j)
<1>1. /\ phase[j] = "unborn"
      /\ deque' = [deque EXCEPT ![0] = q] \/ UNCHANGED deque
      /\ UNCHANGED <<pc, current>>
  BY DEF Invoke, threadVars
<1>2. job'[j].executor = 0 /\ \A k \in Jobs \ {j} : SameExecutor(k)
  BY InvokeFields
<1>3. ~Queued(j) /\ ~Held(j)
  BY <1>1, PlacedLive
<1>4. q \in Seq(Jobs)
  BY ExecutorsNonempty, DequeTypes DEF Typed, TypeOK
<1>5. QueuedAtOwner'
  <2>1. \A f \in Executors : \A i \in 1 .. Len(deque[f]) : SameExecutor(deque[f][i])
    BY <1>2, <1>3, ElementOfSeq DEF Typed, TypeOK, Queued
  <2>2. CASE deque' = [deque EXCEPT ![0] = q]
    BY <1>2, <1>4, <2>1, <2>2, ExecutorsNonempty, RecordedEnqueued DEF Recorded
  <2>3. CASE UNCHANGED deque
    BY <2>1, <2>3 DEF Recorded, QueuedAtOwner, SameExecutor
  <2> QED
    BY <1>1, <2>2, <2>3
<1>6. OwnerRecorded'
  <2> SUFFICES ASSUME NEW f \in Executors, pc[f] \in Holding
               PROVE  job'[current[f]].executor = f
    BY <1>1 DEF OwnerRecorded
  <2>1. current[f] \in Jobs \ {j}
    BY <1>3 DEF Typed, HandsFull, Held
  <2> QED
    BY <1>2, <2>1 DEF Recorded, OwnerRecorded, SameExecutor
<1> QED
  BY <1>5, <1>6 DEF Recorded

\* A job is queued where it was created to be queued, long before.
LEMMA RecordedRelease ==
    ASSUME Typed, Typed', Recorded, NEW e \in Executors, NEW k \in Roots,
           Release(e, k) \/ Lose(e, k)
    PROVE  Recorded'
<1>1. /\ k \in Jobs /\ pc[e] = "release"
      /\ pc' = [pc EXCEPT ![e] = "announce"]
      /\ job' = Told(k, current[e])
      /\ UNCHANGED current
  BY JobsAssumption DEF Release, Lose, AwaitsRootOf, Goto
<1>2. \A j \in Jobs : SameExecutor(j)
  BY <1>1, ToldFields
<1>3. \A f \in Executors : pc'[f] \in Holding => pc[f] \in Holding /\ current'[f] = current[f]
  BY <1>1 DEF Typed, TypeOK, Holding
<1>4. CASE Release(e, k)
  <2> PICK t \in Executors : t = job[k].executor
    BY <1>1 DEF Typed, TypeOK, JobRecord
  <2> DEFINE q == EnqueueBack(deque[t], k)
  <2>1. deque' = [deque EXCEPT ![t] = q]
    BY <1>4 DEF Release
  <2>2. q \in Seq(Jobs)
    BY <1>1, DequeTypes DEF Typed, TypeOK
  <2>3. job'[k].executor = t
    BY <1>1, <1>2 DEF SameExecutor
  <2>4. \A f \in Executors : \A i \in 1 .. Len(deque[f]) : SameExecutor(deque[f][i])
    BY <1>2, ElementOfSeq DEF Typed, TypeOK
  <2>5. QueuedAtOwner'
    BY <1>1, <2>1, <2>2, <2>3, <2>4, RecordedEnqueued DEF Recorded
  <2>6. OwnerRecorded'
    BY <1>1, <1>2, <1>3 DEF Typed, HandsFull, Recorded, OwnerRecorded, SameExecutor
  <2> QED
    BY <2>5, <2>6 DEF Recorded
<1>5. CASE Lose(e, k)
  BY <1>2, <1>3, <1>5, RecordedQuiet DEF Lose, dequeVars
<1> QED
  BY <1>4, <1>5

LEMMA RecordedNotifyParent ==
    ASSUME Typed, Typed', Owned, Owned', Recorded, NEW e \in Executors, NotifyParent(e)
    PROVE  Recorded'
<1>0. parent[current[e]] \in Jobs
  BY NotifyParentFields
<1> PICK p \in Jobs : p = parent[current[e]]
  BY <1>0
<1>1. /\ UNCHANGED deque
      /\ \A f \in Executors \ {e} : pc'[f] = pc[f] /\ current'[f] = current[f]
      /\ current'[e] \in {p, NoJob}
      /\ current'[e] = NoJob => pc'[e] = "idle"
      /\ p # NoJob
  <2> DEFINE enabled == JoinReady(job[p].parent_finished, job[p].num_all_waiting_jobs,
                                  job[p].num_ended_waiting_jobs + 1)
             label == IF enabled THEN AfterLastChild(pc[e]) ELSE "idle"
  <2>1. /\ current' = [current EXCEPT ![e] = IF enabled THEN p ELSE NoJob]
        /\ pc' = [pc EXCEPT ![e] = label]
        /\ UNCHANGED deque
        /\ p # NoJob
    BY DEF NotifyParent, Goto, dequeVars
  <2>2. ~enabled => label = "idle"
    OBVIOUS
  <2> HIDE DEF enabled, label
  <2> QED
    BY <2>1, <2>2 DEF Typed, TypeOK
<1>2. /\ \A k \in Jobs \ {p} : SameExecutor(k)
      /\ current'[e] = p => job'[p].executor = e
      /\ current'[e] # p => SameExecutor(p)
  BY NotifyParentFields
<1>3. CASE current'[e] = p
  <2>1. Held(p)' /\ job'[p].executor = e
    BY <1>2, <1>3 DEF Held
  <2>2. OwnerRecorded'
    <3>1. \A f \in Executors :
              pc'[f] \in Holding =>
                 \/ pc[f] \in Holding /\ current'[f] = current[f]
                 \/ job'[current'[f]].executor = f
      BY <1>1, <1>3, <2>1
    <3> QED
      BY <1>2, <1>3, <2>1, <3>1, HolderKept
  <2>3. QueuedAtOwner'
    <3>1. \A f \in Executors : \A i \in 1 .. Len(deque'[f]) :
              deque'[f][i] \in Jobs /\ job[deque'[f][i]].executor = f
      BY <1>1, ElementOfSeq DEF Typed, TypeOK, Recorded, QueuedAtOwner
    <3> QED
      BY <1>2, <2>1, <3>1, QueueKept
  <2> QED
    BY <2>2, <2>3 DEF Recorded
<1>4. CASE current'[e] # p
  <2>1. \A k \in Jobs : SameExecutor(k)
    BY <1>2, <1>4
  <2>2. \A f \in Executors :
            pc'[f] \in Holding => pc[f] \in Holding /\ current'[f] = current[f]
    BY <1>1, <1>4 DEF Holding
  <2> QED
    BY <1>1, <2>1, <2>2, RecordedQuiet
<1> QED
  BY <1>3, <1>4

LEMMA RecordedExecutorStep ==
    ASSUME Typed, Typed', Owned, Owned', Recorded, NEW e \in Executors, ExecutorStep(e)
    PROVE  Recorded'
<1> USE DEF Goto, dequeVars, jobVars, promiseVars
<1> DEFINE Same == \A k \in Jobs : SameExecutor(k)
           Kept == \A f \in Executors :
                      pc'[f] \in Holding => pc[f] \in Holding /\ current'[f] = current[f]
<1>1. UNCHANGED deque /\ Same /\ Kept => Recorded'
  BY RecordedQuiet
<1>2. job' = job => Same
  BY DEF SameExecutor
<1>3. ASSUME NEW label, pc' = [pc EXCEPT ![e] = label],
             UNCHANGED current \/ current' = [current EXCEPT ![e] = NoJob],
             label \in Holding => pc[e] \in Holding /\ UNCHANGED current
      PROVE  Kept
  BY <1>3 DEF Typed, TypeOK
<1>4. CASE \/ WaitForContext(e) \/ Start(e) \/ Sleep(e) \/ GoStealing(e)
           \/ Take(e) \/ Exit(e) \/ EndJob(e)
  <2> USE DEF WaitForContext, Start, Sleep, GoStealing, Take, Exit, EndJob
  <2>1. Kept
    BY <1>3, <1>4 DEF Holding
  <2> QED
    BY <1>1, <1>2, <1>4, <2>1
<1>5. CASE DequeueLocal(e)
  BY <1>5, RecordedDequeued
<1>6. CASE \E victim \in Executors : Steal(e, victim)
  BY <1>6, RecordedStolen
<1>7. CASE ExecuteSetup(e)
  <2> DEFINE label == IF job[current[e]].dependency_has_error THEN "reject" ELSE "run"
  <2>1. pc' = [pc EXCEPT ![e] = label] /\ pc[e] \in Holding /\ UNCHANGED <<deque, current>>
    BY <1>7 DEF ExecuteSetup, Holding
  <2> HIDE DEF label
  <2>2. Kept
    BY <1>3, <2>1
  <2> QED
    BY <1>1, <1>7, <2>1, <2>2, ExecuteSetupFields
<1>8. CASE FailSetup(e)
  <2>1. Kept
    BY <1>3, <1>8 DEF FailSetup, Holding
  <2> QED
    BY <1>1, <1>8, <2>1, FailSetupFields DEF FailSetup
<1>9. CASE BeginStep(e)
  <2>1. Kept
    BY <1>3, <1>9 DEF BeginStep, Holding
  <2> QED
    BY <1>1, <1>9, <2>1, BeginStepFields DEF BeginStep
<1>10. CASE \E j \in Jobs, target \in Executors : Fork(e, j, target)
  BY <1>10, RecordedFork
<1>11. CASE EnqueueFork(e)
  BY <1>11, RecordedEnqueueFork
<1>12. CASE RefuseFork(e)
  <2>1. Kept
    BY <1>3, <1>12 DEF RefuseFork, Holding
  <2> QED
    BY <1>1, <1>2, <1>12, <2>1 DEF RefuseFork
<1>13. CASE UndoFork(e)
  <2>1. Kept
    BY <1>3, <1>13 DEF UndoFork, Holding
  <2> QED
    BY <1>1, <1>13, <2>1, UndoForkFields DEF UndoFork
<1>14. CASE SignalFork(e)
  <2> DEFINE pcs == [pc EXCEPT ![e] = "step"]
  <2>1. pc[e] = "signal" /\ pc' = Woken(pcs) /\ UNCHANGED <<deque, current, job>>
    BY <1>14 DEF SignalFork
  <2>2. \A f \in Executors : pc'[f] = IF f = e THEN "step"
                                      ELSE IF pc[f] = "asleep" THEN "wait"
                                      ELSE IF pc[f] = "nap" THEN "boot" ELSE pc[f]
    BY <2>1 DEF Typed, TypeOK, Woken
  <2>3. Kept
    BY <2>1, <2>2 DEF Holding
  <2> QED
    BY <1>1, <1>2, <2>1, <2>3
<1>15. CASE \E r \in Result : EndStep(e, r)
  <2> PICK r \in Result : EndStep(e, r)
    BY <1>15
  <2>1. /\ pc[e] = "step"
        /\ UNCHANGED deque
        /\ \/ pc' = [pc EXCEPT ![e] = "next"] /\ UNCHANGED current
           \/ pc' = [pc EXCEPT ![e] = "idle"] /\ current' = [current EXCEPT ![e] = NoJob]
    BY DEF EndStep
  <2>2. Kept
    BY <1>3, <2>1 DEF Holding
  <2> QED
    BY <1>1, <2>1, <2>2, EndStepFields
<1>16. CASE \E r \in Result : MoveToNext(e, r)
  <2> PICK r \in Result : MoveToNext(e, r)
    BY <1>16
  <2> DEFINE label == IF r = "Error" THEN "abort" ELSE "run"
  <2>1. pc' = [pc EXCEPT ![e] = label] /\ pc[e] \in Holding /\ UNCHANGED <<deque, current>>
    BY DEF MoveToNext, Holding
  <2> HIDE DEF label
  <2>2. Kept
    BY <1>3, <2>1
  <2> QED
    BY <1>1, <2>1, <2>2, MoveToNextFields
<1>17. CASE NotifyParent(e)
  BY <1>17, RecordedNotifyParent
<1>18. CASE CompleteRoot(e)
  <2>1. Kept
    BY <1>3, <1>18 DEF CompleteRoot, Holding
  <2> QED
    BY <1>1, <1>2, <1>18, <2>1 DEF CompleteRoot
<1>19. CASE \E k \in Roots : Release(e, k) \/ Lose(e, k)
  BY <1>19, RecordedRelease
<1>20. CASE Announce(e)
  <2> DEFINE pcs == [pc EXCEPT ![e] = "release"]
  <2>1. pc[e] = "announce" /\ pc' = Woken(pcs) /\ UNCHANGED <<deque, current, job>>
    BY <1>20 DEF Announce
  <2>2. \A f \in Executors : pc'[f] = IF f = e THEN "release"
                                      ELSE IF pc[f] = "asleep" THEN "wait"
                                      ELSE IF pc[f] = "nap" THEN "boot" ELSE pc[f]
    BY <2>1 DEF Typed, TypeOK, Woken
  <2>3. Kept
    BY <2>1, <2>2 DEF Holding
  <2> QED
    BY <1>1, <1>2, <2>1, <2>3
<1>21. CASE DestroyRoot(e)
  <2>1. Kept
    BY <1>3, <1>21 DEF DestroyRoot, Holding
  <2> QED
    BY <1>1, <1>2, <1>21, <2>1 DEF DestroyRoot
<1> QED
  BY <1>4, <1>5, <1>6, <1>7, <1>8, <1>9, <1>10, <1>11, <1>12, <1>13, <1>14, <1>15,
     <1>16, <1>17, <1>18, <1>19, <1>20, <1>21 DEF ExecutorStep

\* The steps that are no executor's, but for armd_invoke, and stuttering.
LEMMA OtherSteps ==
    ASSUME Typed, Typed',
           \/ \E e \in Executors : SpuriousWakeup(e)
           \/ \E c \in Clients : SignalInvoke(c)
           \/ ContextStep \/ BeginDestroy \/ Terminated \/ UNCHANGED vars
    PROVE  /\ UNCHANGED <<deque, current, child, phase, parent, job, result>>
           /\ \A f \in Executors : /\ pc'[f] \in Holding => pc[f] = pc'[f]
                                   /\ pc'[f] = pc[f] \/ pc'[f] \in {"boot", "wait"}
<1> USE DEF dequeVars, jobVars, promiseVars, contextVars, threadVars, Goto, Typed, TypeOK
<1>1. CASE \E e \in Executors : SpuriousWakeup(e)
  BY <1>1 DEF SpuriousWakeup, Holding
<1>2. CASE \E c \in Clients : SignalInvoke(c)
  <2>1. pc' = Woken(pc) /\ UNCHANGED <<deque, current, child, phase, parent, job, result>>
    BY <1>2 DEF SignalInvoke
  <2> QED
    BY <2>1 DEF Woken, Holding
<1>3. CASE CreateExecutor
  BY <1>3 DEF CreateExecutor, Holding
<1>4. CASE OpenContext \/ StopExecutor
  <2>1. pc' = Woken(pc) /\ UNCHANGED <<deque, current, child, phase, parent, job, result>>
    BY <1>4 DEF OpenContext, StopExecutor
  <2> QED
    BY <2>1 DEF Woken, Holding
<1>5. CASE PassOver \/ JoinExecutor \/ DestroyExecutors \/ BeginDestroy \/ Terminated
           \/ UNCHANGED vars
  BY <1>5 DEF PassOver, JoinExecutor, DestroyExecutors, BeginDestroy, Terminated, vars
<1> QED
  BY <1>1, <1>2, <1>3, <1>4, <1>5 DEF ContextStep

LEMMA RecordedStep ==
    ASSUME Typed, Typed', Owned, Owned', Recorded, [Next]_vars
    PROVE  Recorded'
<1>1. CASE \E e \in Executors : ExecutorStep(e)
  BY <1>1, RecordedExecutorStep
<1>2. CASE \E c \in Clients, j \in Jobs : Invoke(c, j)
  BY <1>2, RecordedInvoke
<1>3. CASE \/ \E e \in Executors : SpuriousWakeup(e)
           \/ \E c \in Clients : SignalInvoke(c)
           \/ ContextStep \/ BeginDestroy \/ Terminated \/ UNCHANGED vars
  <2>1. /\ UNCHANGED <<deque, current, job>>
        /\ \A f \in Executors : pc'[f] \in Holding => pc[f] = pc'[f]
    BY <1>3, OtherSteps
  <2> QED
    BY <2>1, RecordedQuiet DEF SameExecutor
<1> QED
  BY <1>1, <1>2, <1>3 DEF Next

LEMMA RecordedInit == Init => Recorded
<1> SUFFICES ASSUME Init PROVE Recorded
  OBVIOUS
<1>1. \A e \in Executors : Len(deque[e]) = 0
  BY EmptySeq DEF Init
<1> QED
  BY <1>1 DEF Init, Recorded, QueuedAtOwner, OwnerRecorded, Holding

(***************************************************************************)
(* The executor a job is recorded for is the thread that has it in hand:   *)
(* whoever takes a job from the own deque finds its name there, and who    *)
(* steals or resumes one writes it (executor.c:113, job.c:133, 196-227).   *)
(***************************************************************************)
THEOREM HolderIsRecorded == Spec => []OwnerRecorded
<1>1. Typed /\ Owned /\ Recorded /\ [Next]_vars /\ Typed' /\ Owned' => Recorded'
  BY RecordedStep
<1>2. Recorded => OwnerRecorded
  BY DEF Recorded
<1> QED
  BY <1>1, <1>2, RecordedInit, AlwaysOwned, PTL DEF Spec

-----------------------------------------------------------------------------
(* Frames and the assertions of job.c *)

\* The record of any job: a frame belongs to a continuation under way.
RecordSound(j) ==
    /\ job[j].continuation_index <= NumContinuations(j)
    /\ job[j].continuation_frame => /\ job[j].continuation_index < NumContinuations(j)
                                    /\ job[j].setup_executed
    /\ ~job[j].setup_executed => job[j].continuation_index = 0
    /\ phase[j] = "destroyed" => ~job[j].continuation_frame
    /\ phase[j] # "live" => job[j].num_ended_waiting_jobs <= job[j].num_all_waiting_jobs
    /\ phase[j] = "pending" => parent[j] = NoJob

UnderWay == InStep \cup {"next"}
Ending == {"finish", "abort", "reject", "release", "announce"}

\* What a thread knows of the frames of its job and of the child it forks.
ThreadSound(e) ==
    /\ pc[e] \in UnderWay => job[current[e]].continuation_frame
    /\ pc[e] \in Ending => ~job[current[e]].continuation_frame
    /\ pc[e] = "fork" => ~job[child[e]].continuation_frame

\* Whoever has live children is in the middle of a continuation.
ParentsUnderWay ==
    \A k \in Jobs : phase[k] = "live" /\ parent[k] # NoJob =>
                       job[parent[k]].continuation_frame

(***************************************************************************)
(* FramesReleased and AssertionsHold are not inductive: that a parent its  *)
(* last child resumes still has its frame, and that an ended job has none, *)
(* follows from what the records and the threads say of the frames at any  *)
(* time.                                                                   *)
(***************************************************************************)
Framed ==
    /\ \A j \in Jobs : RecordSound(j)
    /\ \A e \in Executors : ThreadSound(e)
    /\ ParentsUnderWay

LEMMA NumContinuationsType == \A j \in Jobs : NumContinuations(j) \in Nat
BY ProcedureAssumption DEF NumContinuations

\* The thread f is where it was, as far as frames are concerned.
SamePlace(f) ==
    /\ pc'[f] \in UnderWay => pc[f] \in UnderWay /\ current'[f] = current[f]
    /\ pc'[f] \in Ending => pc[f] \in Ending /\ current'[f] = current[f]
    /\ pc'[f] = "fork" => pc[f] = "fork" /\ child'[f] = child[f]

\* The steps that change no frame, no index and no setup flag.
LEMMA FramedKept ==
    ASSUME Typed, Typed', Framed,
           \A k \in Jobs : SameFrame(k), UNCHANGED parent,
           \A k \in Jobs : phase'[k] = "pending" => phase[k] = "pending",
           \A k \in Jobs : phase'[k] = "live" => phase[k] \in {"live", "pending"},
           \A k \in Jobs : phase'[k] = "destroyed" => \/ phase[k] = "destroyed"
                                                      \/ ~job[k].continuation_frame,
           \A k \in Jobs : phase'[k] # "live" =>
                job'[k].num_ended_waiting_jobs <= job'[k].num_all_waiting_jobs,
           \A f \in Executors : SamePlace(f) \/ ThreadSound(f)'
    PROVE  Framed'
<1>1. \A k \in Jobs : RecordSound(k)'
  BY DEF Framed, RecordSound, SameFrame, NumContinuations
<1>2. \A f \in Executors : ThreadSound(f)'
  <2> SUFFICES ASSUME NEW f \in Executors, SamePlace(f) PROVE ThreadSound(f)'
    OBVIOUS
  <2>1. pc'[f] \in UnderWay \cup Ending => current'[f] \in Jobs
    BY DEF Typed, HandsFull, Holding, UnderWay, InStep, Ending
  <2>2. pc'[f] = "fork" => child'[f] \in Jobs
    BY DEF Typed, HandsFull
  <2> QED
    BY <2>1, <2>2 DEF Framed, ThreadSound, SamePlace, SameFrame
<1>3. ParentsUnderWay'
  <2> SUFFICES ASSUME NEW k \in Jobs, phase[k] = "live", parent[k] # NoJob
               PROVE  job'[parent[k]].continuation_frame
    BY DEF ParentsUnderWay, Framed, RecordSound
  <2>1. parent[k] \in Jobs
    BY DEF Typed, TypeOK
  <2>2. job[parent[k]].continuation_frame
    BY DEF Framed, ParentsUnderWay
  <2> QED
    BY <2>1, <2>2 DEF SameFrame
<1> QED
  BY <1>1, <1>2, <1>3 DEF Framed

\* The join counters of jobs that are not alive stay as they are.
LEMMA CountersKept ==
    ASSUME Framed, \A k \in Jobs : phase[k] # "live" => SameJoin(k),
           \A k \in Jobs : phase'[k] = phase[k]
    PROVE  \A k \in Jobs : phase'[k] # "live" =>
                job'[k].num_ended_waiting_jobs <= job'[k].num_all_waiting_jobs
BY DEF Framed, RecordSound, SameJoin

\* The steps of a thread that write the frame, the index or the setup flag of
\* the job in its hands and of no other.
LEMMA FramedOwn ==
    ASSUME Typed, Typed', Owned, Framed, NEW e \in Executors, NEW j \in Jobs,
           current[e] = j, pc[e] # "fork", UNCHANGED <<current, child, phase, parent>>,
           \A k \in Jobs \ {j} : SameFrame(k),
           \A k \in Jobs : phase[k] # "live" => SameJoin(k),
           \A f \in Executors \ {e} : pc'[f] = pc[f],
           RecordSound(j)', ThreadSound(e)',
           LiveChildren(j) = {} \/ job'[j].continuation_frame
    PROVE  Framed'
<1>1. \A k \in Jobs : RecordSound(k)'
  BY CountersKept DEF Framed, RecordSound, SameFrame, NumContinuations
<1>2. \A f \in Executors : ThreadSound(f)'
  <2> SUFFICES ASSUME NEW f \in Executors, f # e PROVE ThreadSound(f)'
    OBVIOUS
  <2>1. pc[f] \in UnderWay \cup Ending => current[f] \in Jobs \ {j}
    BY JobsAssumption DEF Typed, HandsFull, Holding, UnderWay, InStep, Ending,
                          Owned, HandsDisjoint
  <2>2. pc[f] = "fork" => child[f] \in Jobs \ {j}
    BY DEF Typed, HandsFull, Owned, ForkedAtRest, Held
  <2> QED
    BY <2>1, <2>2 DEF Framed, ThreadSound, SameFrame
<1>3. ParentsUnderWay'
  <2> SUFFICES ASSUME NEW k \in Jobs, phase[k] = "live", parent[k] # NoJob
               PROVE  job'[parent[k]].continuation_frame
    BY DEF ParentsUnderWay
  <2>1. parent[k] \in Jobs /\ job[parent[k]].continuation_frame
    BY DEF Typed, TypeOK, Framed, ParentsUnderWay
  <2>2. CASE parent[k] = j
    BY <2>2 DEF LiveChildren
  <2>3. CASE parent[k] # j
    BY <2>1, <2>3 DEF SameFrame
  <2> QED
    BY <2>2, <2>3
<1> QED
  BY <1>1, <1>2, <1>3 DEF Framed

LEMMA FramedExecuteSetup ==
    ASSUME Typed, Typed', Owned, ChildrenEndFirst, Framed, NEW e \in Executors, ExecuteSetup(e)
    PROVE  Framed'
<1>1. current[e] \in Jobs
  BY HeldJob DEF ExecuteSetup, Holding
<1> PICK j \in Jobs : j = current[e]
  BY <1>1
<1> DEFINE label == IF job[j].dependency_has_error THEN "reject" ELSE "run"
<1>2. /\ pc[e] = "run"
      /\ ~job[j].setup_executed
      /\ pc' = [pc EXCEPT ![e] = label]
      /\ label \in {"reject", "run"}
      /\ UNCHANGED <<current, child, phase, parent>>
  BY DEF ExecuteSetup, Goto
<1> HIDE DEF label
<1>3. LiveChildren(j) = {}
  BY <1>2 DEF ChildrenEndFirst
<1>4. /\ job'[j].continuation_frame = job[j].continuation_frame
      /\ job'[j].continuation_index = job[j].continuation_index
      /\ job'[j].setup_executed = TRUE
      /\ \A k \in Jobs \ {j} : SameFrame(k)
  BY ExecuteSetupFields
<1>5. \A k \in Jobs : SameJoin(k)
  BY ExecuteSetupEffect
<1>6. RecordSound(j)'
  BY <1>2, <1>4, <1>5 DEF Framed, RecordSound, SameJoin, NumContinuations
<1>7. ThreadSound(e)'
  <2>1. pc'[e] \in {"reject", "run"} /\ ~job[j].continuation_frame
    BY <1>2 DEF Typed, TypeOK, Framed, RecordSound
  <2> QED
    BY <1>2, <1>4, <2>1 DEF ThreadSound, UnderWay, InStep, Ending
<1> QED
  BY <1>2, <1>3, <1>4, <1>5, <1>6, <1>7, FramedOwn DEF Typed, TypeOK

LEMMA FramedBeginStep ==
    ASSUME Typed, Typed', Owned, Framed, NEW e \in Executors, BeginStep(e)
    PROVE  Framed'
<1>1. current[e] \in Jobs
  BY HeldJob DEF BeginStep, Holding
<1> PICK j \in Jobs : j = current[e]
  BY <1>1
<1>2. /\ pc[e] = "run"
      /\ job[j].setup_executed
      /\ job[j].continuation_index # NumContinuations(j)
      /\ pc' = [pc EXCEPT ![e] = "step"]
      /\ UNCHANGED <<current, child, phase, parent>>
  BY DEF BeginStep, Goto
<1>3. /\ job'[j].continuation_frame = TRUE
      /\ job'[j].continuation_index = job[j].continuation_index
      /\ job'[j].setup_executed = job[j].setup_executed
      /\ \A k \in Jobs \ {j} : SameFrame(k)
  BY BeginStepFields
<1>4. phase[j] = "live"
  BY <1>2, PlacedLive DEF Held
<1>5. \A k \in Jobs : phase[k] # "live" => SameJoin(k)
  BY <1>4, BeginStepEffect
<1>6. RecordSound(j)'
  <2>1. /\ job[j].continuation_index \in Nat
        /\ NumContinuations(j) \in Nat
        /\ job[j].continuation_index <= NumContinuations(j)
    BY NumContinuationsType DEF Typed, TypeOK, JobRecord, Framed, RecordSound
  <2> QED
    BY <1>2, <1>3, <1>4, <2>1 DEF RecordSound, NumContinuations
<1>7. ThreadSound(e)'
  BY <1>2, <1>3 DEF Typed, TypeOK, ThreadSound, Ending
<1> QED
  BY <1>2, <1>3, <1>5, <1>6, <1>7, FramedOwn DEF Typed, TypeOK

LEMMA FramedMoveToNext ==
    ASSUME Typed, Typed', Owned, ChildrenEndFirst, Framed, NEW e \in Executors,
           NEW r \in Result, MoveToNext(e, r)
    PROVE  Framed'
<1>1. current[e] \in Jobs
  BY HeldJob DEF MoveToNext, Holding
<1> PICK j \in Jobs : j = current[e]
  BY <1>1
<1> DEFINE label == IF r = "Error" THEN "abort" ELSE "run"
<1>2. /\ pc[e] = "next"
      /\ pc' = [pc EXCEPT ![e] = label]
      /\ label \in {"abort", "run"}
      /\ label = "abort" => r = "Error"
      /\ UNCHANGED <<current, child, phase, parent>>
  BY DEF MoveToNext, Goto
<1> HIDE DEF label
<1>3. LiveChildren(j) = {}
  BY <1>2 DEF ChildrenEndFirst
<1>4. /\ job'[j].continuation_frame <=> job[j].continuation_frame /\ r = "Repeat"
      /\ job'[j].continuation_index = IF r = "Ended" THEN job[j].continuation_index + 1
                                                     ELSE job[j].continuation_index
      /\ job'[j].setup_executed = job[j].setup_executed
      /\ \A k \in Jobs \ {j} : SameFrame(k)
  BY MoveToNextFields
<1>5. \A k \in Jobs : SameJoin(k)
  BY MoveToNextEffect
<1>6. RecordSound(j)'
  <2>1. /\ job[j].continuation_index \in Nat
        /\ NumContinuations(j) \in Nat
        /\ job[j].continuation_index < NumContinuations(j)
        /\ job[j].setup_executed
    BY <1>2, NumContinuationsType
    DEF Typed, TypeOK, JobRecord, Framed, ThreadSound, UnderWay, RecordSound
  <2>2. phase[j] = "live"
    BY <1>2, PlacedLive DEF Held
  <2> QED
    BY <1>2, <1>4, <2>1, <2>2 DEF RecordSound, NumContinuations
<1>7. ThreadSound(e)'
  <2>1. pc'[e] = label
    BY <1>2 DEF Typed, TypeOK
  <2> QED
    BY <1>2, <1>4, <2>1 DEF ThreadSound, UnderWay, InStep, Ending
<1> QED
  BY <1>2, <1>3, <1>4, <1>5, <1>6, <1>7, FramedOwn DEF Typed, TypeOK

\* A job that is created, by a fork or by armd_invoke.
LEMMA FramedCreated ==
    ASSUME Typed, Typed', Owned, Framed, NEW j \in Jobs, NEW p \in Jobs \cup {NoJob},
           phase[j] = "unborn", NEW label \in {"live", "pending"},
           phase' = [phase EXCEPT ![j] = label],
           label = "pending" => p = NoJob,
           parent' = [parent EXCEPT ![j] = p],
           p # NoJob => p # j /\ job[p].continuation_frame,
           job'[j].continuation_frame = FALSE,
           job'[j].continuation_index = 0,
           job'[j].setup_executed = FALSE,
           job'[j].num_ended_waiting_jobs = 0,
           job'[j].num_all_waiting_jobs = 0,
           \A k \in Jobs \ {j} : SameFrame(k),
           \A k \in Jobs \ {j} : phase[k] # "live" => SameJoin(k),
           UNCHANGED current,
           \A f \in Executors : pc'[f] \in UnderWay \cup Ending =>
                                   \/ pc[f] = pc'[f]
                                   \/ pc[f] \in UnderWay /\ pc'[f] \in UnderWay,
           \A f \in Executors : pc'[f] = "fork" =>
                                   \/ child'[f] = j
                                   \/ pc[f] = "fork" /\ child'[f] = child[f]
    PROVE  Framed'
<1>1. \A k \in Jobs : RecordSound(k)'
  <2> SUFFICES ASSUME NEW k \in Jobs PROVE RecordSound(k)'
    OBVIOUS
  <2>1. CASE k = j
    BY <2>1, NumContinuationsType DEF Typed, TypeOK, RecordSound, NumContinuations
  <2>2. CASE k # j
    <3>1. /\ phase'[k] = phase[k] /\ parent'[k] = parent[k]
          /\ SameFrame(k) /\ (phase[k] # "live" => SameJoin(k))
      BY <2>2 DEF Typed, TypeOK
    <3> QED
      BY <3>1 DEF Framed, RecordSound, NumContinuations, SameFrame, SameJoin
  <2> QED
    BY <2>1, <2>2
<1>2. \A f \in Executors : ThreadSound(f)'
  <2> SUFFICES ASSUME NEW f \in Executors PROVE ThreadSound(f)'
    OBVIOUS
  <2>0. ~Held(j) /\ ~Forking(j)
    BY PlacedLive
  <2>1. pc'[f] \in UnderWay \cup Ending => current[f] \in Jobs \ {j}
    BY <2>0 DEF Typed, HandsFull, Holding, UnderWay, InStep, Ending, Held
  <2>2. pc[f] = "fork" => child[f] \in Jobs \ {j}
    BY <2>0 DEF Typed, HandsFull, Forking
  <2>3. pc'[f] \in UnderWay => job'[current[f]].continuation_frame
    BY <2>1 DEF Framed, ThreadSound, SameFrame, UnderWay, InStep
  <2>4. pc'[f] \in Ending => ~job'[current[f]].continuation_frame
    BY <2>1 DEF Framed, ThreadSound, SameFrame, UnderWay, InStep, Ending
  <2>5. pc'[f] = "fork" => ~job'[child'[f]].continuation_frame
    BY <2>2 DEF Framed, ThreadSound, SameFrame
  <2> QED
    BY <2>3, <2>4, <2>5 DEF ThreadSound
<1>3. ParentsUnderWay'
  <2> SUFFICES ASSUME NEW k \in Jobs, phase'[k] = "live", parent'[k] # NoJob
               PROVE  job'[parent'[k]].continuation_frame
    BY DEF ParentsUnderWay
  <2>1. CASE k = j
    BY <2>1 DEF Typed, TypeOK, SameFrame
  <2>2. CASE k # j
    <3>1. phase[k] = "live" /\ parent'[k] = parent[k] /\ parent[k] \in Jobs
      BY <2>2 DEF Typed, TypeOK
    <3>2. parent[k] # j
      BY <3>1, JobsAssumption DEF Owned, ParentsLive
    <3> QED
      BY <3>1, <3>2 DEF Framed, ParentsUnderWay, SameFrame
  <2> QED
    BY <2>1, <2>2
<1> QED
  BY <1>1, <1>2, <1>3 DEF Framed

LEMMA FramedFork ==
    ASSUME Typed, Typed', Owned, Framed, NEW e \in Executors, NEW j \in Jobs,
           NEW target \in Executors, Fork(e, j, target)
    PROVE  Framed'
<1>1. current[e] \in Jobs
  BY HeldJob DEF Fork, Holding
<1> PICK p \in Jobs : p = current[e]
  BY <1>1
<1>2. /\ pc[e] = "step"
      /\ phase[j] = "unborn"
      /\ phase' = [phase EXCEPT ![j] = "live"]
      /\ parent' = [parent EXCEPT ![j] = p]
      /\ child' = [child EXCEPT ![e] = j]
      /\ pc' = [pc EXCEPT ![e] = "fork"]
      /\ UNCHANGED current
  BY DEF Fork, Goto
<1>3. phase[p] = "live" /\ p # j
  BY <1>2, PlacedLive DEF Held
<1>4. /\ job'[j].continuation_frame = FALSE
      /\ job'[j].continuation_index = 0
      /\ job'[j].setup_executed = FALSE
      /\ \A k \in Jobs \ {j} : SameFrame(k)
  BY <1>3, ForkFields
<1>5. /\ \A k \in Jobs \ {j} : phase[k] # "live" => SameJoin(k)
      /\ job'[j].num_ended_waiting_jobs = 0
      /\ job'[j].num_all_waiting_jobs = 0
  BY <1>3, ForkEffect
<1>6. job[p].continuation_frame
  BY <1>2 DEF Framed, ThreadSound, UnderWay, InStep
<1>0. \A f \in Executors : /\ pc'[f] = IF f = e THEN "fork" ELSE pc[f]
                           /\ child'[f] = IF f = e THEN j ELSE child[f]
  BY <1>2 DEF Typed, TypeOK
<1>7. \A f \in Executors : pc'[f] \in UnderWay \cup Ending =>
                               \/ pc[f] = pc'[f]
                               \/ pc[f] \in UnderWay /\ pc'[f] \in UnderWay
  BY <1>0, <1>2 DEF UnderWay, InStep
<1>8. \A f \in Executors : pc'[f] = "fork" =>
                               \/ child'[f] = j
                               \/ pc[f] = "fork" /\ child'[f] = child[f]
  BY <1>0
<1> QED
  BY <1>2, <1>3, <1>4, <1>5, <1>6, <1>7, <1>8, FramedCreated

LEMMA FramedInvoke ==
    ASSUME Typed, Typed', Owned, Framed, NEW c \in Clients, NEW j \in Jobs, Invoke(c, j)
    PROVE  Framed'
<1>1. /\ phase[j] = "unborn"
      /\ \E label \in {"live", "pending"} : phase' = [phase EXCEPT ![j] = label]
      /\ UNCHANGED <<pc, current, child, parent>>
  BY DEF Invoke, threadVars
<1> PICK label \in {"live", "pending"} : phase' = [phase EXCEPT ![j] = label]
  BY <1>1
<1>2. parent' = [parent EXCEPT ![j] = NoJob]
  BY <1>1 DEF Typed, TypeOK, Owned, UnbornOrphan
<1>3. /\ job'[j].continuation_frame = FALSE
      /\ job'[j].continuation_index = 0
      /\ job'[j].setup_executed = FALSE
      /\ \A k \in Jobs \ {j} : SameFrame(k)
  BY InvokeFields
<1>4. /\ \A k \in Jobs \ {j} : SameJoin(k)
      /\ job'[j].num_ended_waiting_jobs = 0
      /\ job'[j].num_all_waiting_jobs = 0
  BY InvokeEffect
<1>5. \A f \in Executors : pc'[f] = pc[f] /\ child'[f] = child[f]
  BY <1>1
<1>6. NoJob \in Jobs \cup {NoJob}
  OBVIOUS
<1> QED
  BY <1>1, <1>2, <1>3, <1>4, <1>5, <1>6, FramedCreated

\* A pending job is released or lost.
LEMMA FramedRelease ==
    ASSUME Typed, Typed', Framed, NEW e \in Executors, NEW k \in Roots,
           Release(e, k) \/ Lose(e, k)
    PROVE  Framed'
<1>1. /\ k \in Jobs /\ phase[k] = "pending" /\ pc[e] = "release"
      /\ pc' = [pc EXCEPT ![e] = "announce"]
      /\ job' = Told(k, current[e])
      /\ \E label \in {"live", "lost"} : phase' = [phase EXCEPT ![k] = label]
      /\ UNCHANGED <<current, child, parent>>
  BY JobsAssumption DEF Release, Lose, AwaitsRootOf, Goto
<1> PICK label \in {"live", "lost"} : phase' = [phase EXCEPT ![k] = label]
  BY <1>1
<1>2. \A j \in Jobs : phase'[j] = IF j = k THEN label ELSE phase[j]
  BY <1>1 DEF Typed, TypeOK
<1>3. \A j \in Jobs : SameFrame(j) /\ SameJoin(j)
  BY <1>1, ToldFields, ToldEffect
<1>4. \A j \in Jobs : phase'[j] # "live" =>
          job'[j].num_ended_waiting_jobs <= job'[j].num_all_waiting_jobs
  <2> SUFFICES ASSUME NEW j \in Jobs, phase'[j] # "live"
               PROVE  job'[j].num_ended_waiting_jobs <= job'[j].num_all_waiting_jobs
    OBVIOUS
  <2>1. phase[j] # "live"
    BY <1>1, <1>2
  <2> QED
    BY <1>3, <2>1 DEF Framed, RecordSound, SameJoin
<1>5. \A f \in Executors : SamePlace(f)
  BY <1>1 DEF Typed, TypeOK, SamePlace, UnderWay, InStep, Ending
<1>6. \A j \in Jobs : /\ phase'[j] = "pending" => phase[j] = "pending"
                      /\ phase'[j] = "live" => phase[j] \in {"live", "pending"}
                      /\ phase'[j] = "destroyed" => phase[j] = "destroyed"
  BY <1>1, <1>2
<1> QED
  BY <1>1, <1>3, <1>4, <1>5, <1>6, FramedKept

LEMMA FramedNotifyParent ==
    ASSUME Typed, Typed', Owned, Framed, NEW e \in Executors, NotifyParent(e)
    PROVE  Framed'
<1>0. parent[current[e]] \in Jobs /\ current[e] \in Jobs
  BY NotifyParentFields, HeldJob DEF NotifyParent, Holding
<1> PICK j \in Jobs, p \in Jobs : j = current[e] /\ p = parent[j]
  BY <1>0
<1> DEFINE enabled == JoinReady(job[p].parent_finished, job[p].num_all_waiting_jobs,
                                job[p].num_ended_waiting_jobs + 1)
           label == IF enabled THEN AfterLastChild(pc[e]) ELSE "idle"
<1>1. /\ pc[e] \in Ending
      /\ current' = [current EXCEPT ![e] = IF enabled THEN p ELSE NoJob]
      /\ pc' = [pc EXCEPT ![e] = label]
      /\ phase' = [phase EXCEPT ![j] = "destroyed"]
      /\ UNCHANGED <<child, parent>>
      /\ p # NoJob
  BY DEF NotifyParent, Goto, Ending
<1>2. label \in {"idle", "run", "next"} /\ (label = "next" => enabled)
  BY DEF AfterLastChild
<1> HIDE DEF enabled, label
<1>3. AtRest(j) /\ phase[p] = "live" /\ p # j
  <2>1. AtRest(j)
    BY <1>1 DEF Owned, HeldAsProgrammed, StateAt, Ending, InStep
  <2>2. phase[p] = "live"
    BY <1>1, <2>1 DEF AtRest, Owned, ParentsLive
  <2>3. j \in LiveChildren(p)
    BY <2>1 DEF AtRest, LiveChildren
  <2>4. LiveChildren(j) = {}
    BY <2>1, NumChildrenType DEF AtRest
  <2> QED
    BY <2>1, <2>2, <2>3, <2>4
<1>4. \A k \in Jobs : SameFrame(k)
  BY NotifyParentFields
<1>5. \A k \in Jobs \ {p} : SameJoin(k)
  BY NotifyParentEffect
<1>6. \A f \in Executors : SamePlace(f) \/ ThreadSound(f)'
  <2> SUFFICES ASSUME NEW f \in Executors PROVE SamePlace(f) \/ ThreadSound(f)'
    OBVIOUS
  <2>1. CASE f # e
    BY <1>1, <2>1 DEF Typed, TypeOK, SamePlace
  <2>2. CASE f = e
    <3>1. pc'[e] = label
      BY <1>1 DEF Typed, TypeOK
    <3>2. job[p].continuation_frame
      BY <1>1, <1>3 DEF AtRest, Framed, ParentsUnderWay
    <3>3. pc'[e] = "next" => current'[e] = p
      BY <1>1, <1>2, <3>1 DEF Typed, TypeOK
    <3> QED
      BY <1>2, <1>4, <2>2, <3>1, <3>2, <3>3
      DEF ThreadSound, UnderWay, InStep, Ending, SameFrame
  <2> QED
    BY <2>1, <2>2
<1>7. ~job[j].continuation_frame
  BY <1>1 DEF Framed, ThreadSound
<1>8. \A k \in Jobs : phase'[k] # "live" =>
          job'[k].num_ended_waiting_jobs <= job'[k].num_all_waiting_jobs
  <2> SUFFICES ASSUME NEW k \in Jobs, phase'[k] # "live"
               PROVE  job'[k].num_ended_waiting_jobs <= job'[k].num_all_waiting_jobs
    OBVIOUS
  <2>1. SameJoin(k)
    BY <1>1, <1>3, <1>5 DEF Typed, TypeOK
  <2>2. job[k].num_ended_waiting_jobs <= job[k].num_all_waiting_jobs
    <3>1. job[k].num_ended_waiting_jobs \in Nat
      BY DEF Typed, TypeOK, JobRecord
    <3>2. CASE k = j
      BY <1>3, <3>1, <3>2 DEF AtRest
    <3>3. CASE k # j
      BY <1>1, <3>3 DEF Typed, TypeOK, Framed, RecordSound
    <3> QED
      BY <3>2, <3>3
  <2> QED
    BY <2>1, <2>2 DEF SameJoin
<1> QED
  BY <1>1, <1>4, <1>6, <1>7, <1>8, FramedKept DEF Typed, TypeOK

LEMMA FramedRefuseFork ==
    ASSUME Typed, Typed', Owned, Framed, NEW e \in Executors, RefuseFork(e)
    PROVE  Framed'
<1>1. child[e] \in Jobs
  BY DEF Typed, HandsFull, RefuseFork
<1> PICK j \in Jobs : j = child[e]
  BY <1>1
<1>2. /\ pc[e] = "fork"
      /\ pc' = [pc EXCEPT ![e] = "undo"]
      /\ child' = [child EXCEPT ![e] = NoJob]
      /\ phase' = [phase EXCEPT ![j] = "destroyed"]
      /\ UNCHANGED <<current, parent, job>>
  BY DEF RefuseFork, Goto
<1>3. ~job[j].continuation_frame
  BY <1>2 DEF Framed, ThreadSound
<1>4. \A f \in Executors : SamePlace(f) \/ ThreadSound(f)'
  BY <1>2 DEF Typed, TypeOK, SamePlace, UnderWay, InStep, Ending
<1>5. job[j].num_ended_waiting_jobs <= job[j].num_all_waiting_jobs
  BY <1>2 DEF Owned, ForkedAtRest, AtRest, Typed, TypeOK, JobRecord
<1>6. \A k \in Jobs : SameFrame(k)
  BY <1>2 DEF SameFrame
<1>7. \A k \in Jobs : phase'[k] # "live" =>
          job'[k].num_ended_waiting_jobs <= job'[k].num_all_waiting_jobs
  BY <1>2, <1>5 DEF Typed, TypeOK, Framed, RecordSound
<1> QED
  BY <1>2, <1>3, <1>4, <1>6, <1>7, FramedKept DEF Typed, TypeOK

LEMMA FramedDestroyRoot ==
    ASSUME Typed, Typed', Owned, Framed, NEW e \in Executors, DestroyRoot(e)
    PROVE  Framed'
<1>1. current[e] \in Jobs
  BY HeldJob DEF DestroyRoot, Holding
<1> PICK j \in Jobs : j = current[e]
  BY <1>1
<1>2. /\ pc[e] \in Ending
      /\ pc' = [pc EXCEPT ![e] = "idle"]
      /\ current' = [current EXCEPT ![e] = NoJob]
      /\ phase' = [phase EXCEPT ![j] = "destroyed"]
      /\ UNCHANGED <<child, parent, job>>
  BY DEF DestroyRoot, Goto, Ending
<1>3. ~job[j].continuation_frame
  BY <1>2 DEF Framed, ThreadSound
<1>4. \A f \in Executors : SamePlace(f) \/ ThreadSound(f)'
  BY <1>2 DEF Typed, TypeOK, SamePlace, UnderWay, InStep, Ending
<1>5. job[j].num_ended_waiting_jobs <= job[j].num_all_waiting_jobs
  <2>1. AtRest(j)
    BY <1>2 DEF Owned, HeldAsProgrammed, StateAt, Ending, InStep
  <2> QED
    BY <2>1 DEF AtRest, Typed, TypeOK, JobRecord
<1>6. \A k \in Jobs : SameFrame(k)
  BY <1>2 DEF SameFrame
<1>7. \A k \in Jobs : phase'[k] # "live" =>
          job'[k].num_ended_waiting_jobs <= job'[k].num_all_waiting_jobs
  BY <1>2, <1>5 DEF Typed, TypeOK, Framed, RecordSound
<1> QED
  BY <1>2, <1>3, <1>4, <1>6, <1>7, FramedKept DEF Typed, TypeOK

LEMMA FramedExecutorStep ==
    ASSUME Typed, Typed', Owned, Owned', ChildrenEndFirst, Framed,
           NEW e \in Executors, ExecutorStep(e)
    PROVE  Framed'
<1> USE DEF Goto, dequeVars, jobVars, promiseVars
<1> DEFINE Frames == \A k \in Jobs : SameFrame(k)
           Counters == \A k \in Jobs : phase[k] # "live" => SameJoin(k)
           Places == \A f \in Executors : SamePlace(f) \/ ThreadSound(f)'
<1>1. UNCHANGED <<phase, parent>> /\ Frames /\ Counters /\ Places => Framed'
  BY FramedKept, CountersKept
<1>2. job' = job => Frames /\ Counters
  BY DEF SameFrame, SameJoin
<1>3. ASSUME NEW label, pc' = [pc EXCEPT ![e] = label],
             \A f \in Executors \ {e} : current'[f] = current[f] /\ child'[f] = child[f],
             label \notin Ending \cup {"fork"},
             label \in UnderWay => pc[e] \in UnderWay /\ UNCHANGED current
      PROVE  Places
  BY <1>3 DEF Typed, TypeOK, SamePlace
<1>4. pc[e] \in Holding => current[e] \in Jobs /\ phase[current[e]] = "live"
  BY HeldJob, PlacedLive DEF Held
<1>5. CASE \/ WaitForContext(e) \/ Start(e) \/ Sleep(e) \/ GoStealing(e)
           \/ Take(e) \/ Exit(e)
  <2> USE DEF WaitForContext, Start, Sleep, GoStealing, Take, Exit
  <2>1. Places
    BY <1>3, <1>5 DEF UnderWay, InStep, Ending
  <2> QED
    BY <1>1, <1>2, <1>5, <2>1
<1>6. CASE DequeueLocal(e)
  <2>1. \/ pc' = [pc EXCEPT ![e] = "wait"] /\ UNCHANGED current
        \/ /\ pc' = [pc EXCEPT ![e] = "take"]
           /\ current' = [current EXCEPT ![e] = Front(deque[e])]
    BY <1>6 DEF DequeueLocal
  <2>2. UNCHANGED <<child, phase, parent, job>>
    BY <1>6 DEF DequeueLocal
  <2>3. Places
    BY <1>3, <2>1, <2>2 DEF UnderWay, InStep, Ending, Typed, TypeOK
  <2> QED
    BY <1>1, <1>2, <2>2, <2>3
<1>7. CASE \E victim \in Executors : Steal(e, victim)
  <2> PICK victim \in Executors : Steal(e, victim)
    BY <1>7
  <2>1. UNCHANGED <<child, phase, parent>>
    BY DEF Steal
  <2>2. CASE deque[victim] = <<>>
    <3>1. UNCHANGED <<current, job>> /\ pc' = [pc EXCEPT ![e] = "idle"]
      BY <2>2 DEF Steal
    <3>2. Places
      BY <1>3, <2>1, <3>1 DEF UnderWay, InStep, Ending
    <3> QED
      BY <1>1, <1>2, <2>1, <3>1, <3>2
  <2>3. CASE deque[victim] # <<>>
    <3>1. Back(deque[victim]) \in Jobs
      BY <2>3, DequeBackType DEF Typed, TypeOK
    <3> PICK j \in Jobs : j = Back(deque[victim])
      BY <3>1
    <3>2. /\ current' = [current EXCEPT ![e] = j]
          /\ pc' = [pc EXCEPT ![e] = "take"]
          /\ job' = Stolen(j, e)
      BY <2>3 DEF Steal
    <3>3. Places
      BY <1>3, <2>1, <3>2 DEF UnderWay, InStep, Ending, Typed, TypeOK
    <3> QED
      BY <1>1, <2>1, <3>2, <3>3, StolenFields, StolenEffect
  <2> QED
    BY <2>2, <2>3
<1>8. CASE ExecuteSetup(e)
  BY <1>8, FramedExecuteSetup
<1>9. CASE FailSetup(e)
  <2>1. /\ pc[e] = "run" /\ ~job[current[e]].setup_executed
        /\ pc' = [pc EXCEPT ![e] = "reject"]
        /\ UNCHANGED <<current, child, phase, parent>>
    BY <1>9 DEF FailSetup
  <2>2. Frames
    BY <1>9, FailSetupFields
  <2>3. ~job'[current[e]].continuation_frame
    BY <1>4, <2>1, <2>2 DEF Holding, Framed, RecordSound, SameFrame
  <2>4. Places
    <3> SUFFICES ASSUME NEW f \in Executors PROVE SamePlace(f) \/ ThreadSound(f)'
      OBVIOUS
    <3>1. CASE f = e
      BY <2>1, <2>3, <3>1 DEF Typed, TypeOK, ThreadSound, UnderWay, InStep
    <3>2. CASE f # e
      BY <2>1, <3>2 DEF Typed, TypeOK, SamePlace
    <3> QED
      BY <3>1, <3>2
  <2> QED
    BY <1>1, <1>9, <2>1, <2>2, <2>4, FailSetupEffect
<1>10. CASE BeginStep(e)
  BY <1>10, FramedBeginStep
<1>11. CASE EndJob(e)
  <2>1. /\ pc[e] = "run"
        /\ job[current[e]].continuation_index = NumContinuations(current[e])
        /\ pc' = [pc EXCEPT ![e] = "finish"]
        /\ UNCHANGED <<current, child, phase, parent, job>>
    BY <1>11 DEF EndJob
  <2>2. ~job[current[e]].continuation_frame
    BY <1>4, <2>1, NumContinuationsType DEF Holding, Framed, RecordSound
  <2>3. Places
    <3> SUFFICES ASSUME NEW f \in Executors PROVE SamePlace(f) \/ ThreadSound(f)'
      OBVIOUS
    <3>1. CASE f = e
      BY <2>1, <2>2, <3>1 DEF Typed, TypeOK, ThreadSound, UnderWay, InStep
    <3>2. CASE f # e
      BY <2>1, <3>2 DEF Typed, TypeOK, SamePlace
    <3> QED
      BY <3>1, <3>2
  <2> QED
    BY <1>1, <1>2, <2>1, <2>3
<1>12. CASE \E j \in Jobs, target \in Executors : Fork(e, j, target)
  BY <1>12, FramedFork
<1>13. CASE EnqueueFork(e)
  <2>1. /\ pc[e] = "fork"
        /\ pc' = [pc EXCEPT ![e] = "signal"]
        /\ child' = [child EXCEPT ![e] = NoJob]
        /\ UNCHANGED <<current, phase, parent, job>>
    BY <1>13 DEF EnqueueFork
  <2>2. Places
    BY <1>3, <2>1 DEF Typed, TypeOK, UnderWay, InStep, Ending
  <2> QED
    BY <1>1, <1>2, <2>1, <2>2
<1>14. CASE RefuseFork(e)
  BY <1>14, FramedRefuseFork
<1>15. CASE UndoFork(e)
  <2>1. /\ pc[e] = "undo"
        /\ pc' = [pc EXCEPT ![e] = "step"]
        /\ UNCHANGED <<current, child, phase, parent>>
    BY <1>15 DEF UndoFork
  <2>2. Counters
    BY <1>4, <1>15, <2>1, UndoForkEffect DEF Holding
  <2>3. Places
    BY <1>3, <2>1 DEF UnderWay, InStep, Ending
  <2> QED
    BY <1>1, <1>15, <2>1, <2>2, <2>3, UndoForkFields
<1>16. CASE SignalFork(e)
  <2> DEFINE pcs == [pc EXCEPT ![e] = "step"]
  <2>1. pc[e] = "signal" /\ pc' = Woken(pcs) /\ UNCHANGED <<current, child, phase, parent, job>>
    BY <1>16 DEF SignalFork
  <2>2. \A f \in Executors : pc'[f] = IF f = e THEN "step"
                                      ELSE IF pc[f] = "asleep" THEN "wait"
                                      ELSE IF pc[f] = "nap" THEN "boot" ELSE pc[f]
    BY <2>1 DEF Typed, TypeOK, Woken
  <2>3. Places
    BY <2>1, <2>2 DEF SamePlace, UnderWay, InStep, Ending
  <2> QED
    BY <1>1, <1>2, <2>1, <2>3
<1>17. CASE \E r \in Result : EndStep(e, r)
  <2> PICK r \in Result : EndStep(e, r)
    BY <1>17
  <2>1. /\ pc[e] = "step"
        /\ UNCHANGED <<child, phase, parent>>
        /\ \/ pc' = [pc EXCEPT ![e] = "next"] /\ UNCHANGED current
           \/ pc' = [pc EXCEPT ![e] = "idle"] /\ current' = [current EXCEPT ![e] = NoJob]
    BY DEF EndStep
  <2>2. Counters
    BY <1>4, <2>1, EndStepEffect DEF Holding
  <2>3. Places
    BY <1>3, <2>1 DEF Typed, TypeOK, UnderWay, InStep, Ending
  <2> QED
    BY <1>1, <2>1, <2>2, <2>3, EndStepFields
<1>18. CASE \E r \in Result : MoveToNext(e, r)
  BY <1>18, FramedMoveToNext
<1>19. CASE NotifyParent(e)
  BY <1>19, FramedNotifyParent
<1>20. CASE CompleteRoot(e)
  <2>1. /\ pc[e] \in Ending
        /\ pc' = [pc EXCEPT ![e] = "release"]
        /\ UNCHANGED <<current, child, phase, parent, job>>
    BY <1>20 DEF CompleteRoot, Ending
  <2>2. Places
    BY <2>1 DEF Typed, TypeOK, SamePlace, UnderWay, InStep, Ending
  <2> QED
    BY <1>1, <1>2, <2>1, <2>2
<1>21. CASE \E k \in Roots : Release(e, k) \/ Lose(e, k)
  BY <1>21, FramedRelease
<1>22. CASE Announce(e)
  <2> DEFINE pcs == [pc EXCEPT ![e] = "release"]
  <2>1. pc[e] = "announce" /\ pc' = Woken(pcs) /\ UNCHANGED <<current, child, phase, parent, job>>
    BY <1>22 DEF Announce
  <2>2. \A f \in Executors : pc'[f] = IF f = e THEN "release"
                                      ELSE IF pc[f] = "asleep" THEN "wait"
                                      ELSE IF pc[f] = "nap" THEN "boot" ELSE pc[f]
    BY <2>1 DEF Typed, TypeOK, Woken
  <2>3. Places
    BY <2>1, <2>2 DEF SamePlace, UnderWay, InStep, Ending
  <2> QED
    BY <1>1, <1>2, <2>1, <2>3
<1>23. CASE DestroyRoot(e)
  BY <1>23, FramedDestroyRoot
<1> QED
  BY <1>5, <1>6, <1>7, <1>8, <1>9, <1>10, <1>11, <1>12, <1>13, <1>14, <1>15, <1>16,
     <1>17, <1>18, <1>19, <1>20, <1>21, <1>22, <1>23 DEF ExecutorStep

LEMMA FramedStep ==
    ASSUME Typed, Typed', Owned, Owned', ChildrenEndFirst, Framed, [Next]_vars
    PROVE  Framed'
<1>1. CASE \E e \in Executors : ExecutorStep(e)
  BY <1>1, FramedExecutorStep
<1>2. CASE \E c \in Clients, j \in Jobs : Invoke(c, j)
  BY <1>2, FramedInvoke
<1>3. CASE \/ \E e \in Executors : SpuriousWakeup(e)
           \/ \E c \in Clients : SignalInvoke(c)
           \/ ContextStep \/ BeginDestroy \/ Terminated \/ UNCHANGED vars
  <2>1. /\ UNCHANGED <<current, child, phase, parent, job>>
        /\ \A f \in Executors : pc'[f] \in Holding => pc[f] = pc'[f]
    BY <1>3, OtherSteps
  <2>2. \A f \in Executors : SamePlace(f)
    BY <2>1 DEF SamePlace, UnderWay, InStep, Ending, Holding
  <2>3. \A k \in Jobs : SameFrame(k) /\ SameJoin(k)
    BY <2>1 DEF SameFrame, SameJoin
  <2> QED
    BY <2>1, <2>2, <2>3, FramedKept, CountersKept
<1> QED
  BY <1>1, <1>2, <1>3 DEF Next

LEMMA FramedInit == Init => Framed
<1> SUFFICES ASSUME Init PROVE Framed
  OBVIOUS
<1>1. \A j \in Jobs : RecordSound(j)
  BY NumContinuationsType DEF Init, NewJob, RecordSound, NumContinuations
<1>2. \A e \in Executors : ThreadSound(e)
  BY DEF Init, ThreadSound, UnderWay, InStep, Ending
<1> QED
  BY <1>1, <1>2 DEF Init, Framed, ParentsUnderWay

LEMMA AlwaysFramed == Spec => []Framed
<1>1. Typed /\ Owned /\ ChildrenEndFirst /\ Framed /\ [Next]_vars /\ Typed' /\ Owned' => Framed'
  BY FramedStep
<1> QED
  BY <1>1, FramedInit, AlwaysOwned, ChildrenEndBeforeParents, PTL DEF Spec

(***************************************************************************)
(* The frame of a continuation is given back before the job ends, whether  *)
(* it ends well, after an error or with a failed setup (job.c:95-104).     *)
(***************************************************************************)
THEOREM NoFrameLeftBehind == Spec => []FramesReleased
<1>1. Framed => FramesReleased
  BY DEF Framed, RecordSound, FramesReleased
<1> QED
  BY <1>1, AlwaysFramed, PTL

(***************************************************************************)
(* No assertion of job.c about counters, indices and frames can fail       *)
(* (job.c:96, 124, 149, 188, 189 and 225), also where a fork is undone or  *)
(* a child that never began resumes its parent.                            *)
(***************************************************************************)
THEOREM NoAssertionFails == Spec => []AssertionsHold
<1>1. ASSUME Typed, Owned, Framed PROVE AssertionsHold
  <2>1. ASSUME NEW j \in Jobs
        PROVE  job[j].num_ended_waiting_jobs <= job[j].num_all_waiting_jobs
    <3>1. /\ job[j].num_ended_waiting_jobs \in Nat
          /\ NumChildren[j] \in Nat
      BY <1>1, NumChildrenType DEF Typed, TypeOK, JobRecord
    <3>2. CASE phase[j] # "live"
      BY <1>1, <3>2 DEF Framed, RecordSound
    <3>3. CASE phase[j] = "live"
      <4>1. AtRest(j) \/ Busy(j) \/ Overcounted(j) \/ Waiting(j)
        BY <1>1, <3>3 DEF Owned, QueuedAtRest, ForkedAtRest, HeldAsProgrammed, StateAt,
                          ElsewhereWaiting, Held, Forking
      <4> QED
        BY <3>1, <4>1 DEF AtRest, Busy, Overcounted, Waiting
    <3> QED
      BY <3>2, <3>3
  <2>2. ASSUME NEW e \in Executors, pc[e] = "run"
        PROVE  LET j == current[e] IN
               /\ job[j].setup_executed \/ job[j].continuation_index = 0
               /\ job[j].continuation_index <= NumContinuations(j)
               /\ job[j].num_all_waiting_jobs <= job[j].num_ended_waiting_jobs
    <3>1. current[e] \in Jobs
      BY <1>1, <2>2, HeldJob DEF Holding
    <3>2. AtRest(current[e])
      BY <1>1, <2>2, <3>1 DEF Owned, HeldAsProgrammed, StateAt, InStep
    <3>3. job[current[e]].num_ended_waiting_jobs \in Nat
      BY <1>1, <3>1 DEF Typed, TypeOK, JobRecord
    <3> QED
      BY <1>1, <3>1, <3>2, <3>3 DEF Framed, RecordSound, AtRest
  <2>3. ASSUME NEW e \in Executors, pc[e] = "next"
        PROVE  job[current[e]].continuation_frame
    BY <1>1, <2>3 DEF Framed, ThreadSound, UnderWay
  <2> QED
    BY <2>1, <2>2, <2>3 DEF AssertionsHold
<1> QED
  BY <1>1, AlwaysOwned, AlwaysFramed, PTL

-----------------------------------------------------------------------------
(***************************************************************************)
(* Where errors come from and where they go: no error of a job is lost on  *)
(* the way to its root, none is invented, and a continuation is run again  *)
(* only for a reason.                                                      *)
(***************************************************************************)

-----------------------------------------------------------------------------
(* What the steps that write job records do to the fields used here *)

SameErrors(k) ==
    /\ job'[k].has_error = job[k].has_error
    /\ job'[k].continuation_result = job[k].continuation_result
    /\ job'[k].dependency_has_error = job[k].dependency_has_error

LEMMA StolenErrors ==
    ASSUME Typed, NEW e \in Executors, NEW j \in Jobs, job' = Stolen(j, e)
    PROVE  \A k \in Jobs : SameErrors(k)
<1>1. job \in [Jobs -> JobRecord] /\ job[j] \in JobRecord
  BY DEF Typed, TypeOK
<1>2. job' = [job EXCEPT ![j] = [job[j] EXCEPT !.executor = e]]
  BY DEF Stolen
<1> QED
  BY <1>1, <1>2 DEF JobRecord, SameErrors

LEMMA ExecuteSetupErrors ==
    ASSUME Typed, NEW e \in Executors, ExecuteSetup(e), NEW j, j = current[e]
    PROVE  /\ job'[j].has_error <=> job[j].has_error \/ job[j].dependency_has_error
           /\ job'[j].continuation_result = job[j].continuation_result
           /\ job'[j].dependency_has_error = job[j].dependency_has_error
           /\ \A k \in Jobs \ {j} : SameErrors(k)
<1> DEFINE has_error == job[j].has_error \/ job[j].dependency_has_error
           new == [job[j] EXCEPT !.setup_executed = TRUE, !.has_error = has_error]
<1>1. j \in Jobs /\ job \in [Jobs -> JobRecord] /\ job[j] \in JobRecord
  BY HeldJob DEF ExecuteSetup, Holding
<1>2. job' = [job EXCEPT ![j] = new]
  BY DEF ExecuteSetup
<1>3. /\ has_error \in BOOLEAN
      /\ has_error <=> job[j].has_error \/ job[j].dependency_has_error
  OBVIOUS
<1> HIDE DEF has_error
<1>4. /\ new.has_error = has_error
      /\ new.continuation_result = job[j].continuation_result
      /\ new.dependency_has_error = job[j].dependency_has_error
  BY <1>1, <1>3 DEF JobRecord
<1> HIDE DEF new
<1>5. job'[j] = new /\ \A k \in Jobs \ {j} : job'[k] = job[k]
  BY <1>1, <1>2
<1> QED
  BY <1>3, <1>4, <1>5 DEF SameErrors

LEMMA FailSetupErrors ==
    ASSUME Typed, NEW e \in Executors, FailSetup(e), NEW j, j = current[e]
    PROVE  /\ job'[j].has_error = TRUE
           /\ job'[j].continuation_result = job[j].continuation_result
           /\ job'[j].dependency_has_error = job[j].dependency_has_error
           /\ \A k \in Jobs \ {j} : SameErrors(k)
<1> DEFINE new == [job[j] EXCEPT !.has_error = TRUE]
<1>1. j \in Jobs /\ job \in [Jobs -> JobRecord] /\ job[j] \in JobRecord
  BY HeldJob DEF FailSetup, Holding
<1>2. job' = [job EXCEPT ![j] = new]
  BY DEF FailSetup
<1>3. /\ new.has_error = TRUE
      /\ new.continuation_result = job[j].continuation_result
      /\ new.dependency_has_error = job[j].dependency_has_error
  BY <1>1 DEF JobRecord
<1> HIDE DEF new
<1>4. job'[j] = new /\ \A k \in Jobs \ {j} : job'[k] = job[k]
  BY <1>1, <1>2
<1> QED
  BY <1>3, <1>4 DEF SameErrors

LEMMA ToldErrors ==
    ASSUME Typed, NEW j \in Jobs, NEW r, job' = Told(j, r)
    PROVE  /\ job'[j].has_error = job[j].has_error
           /\ job'[j].continuation_result = job[j].continuation_result
           /\ job[j].dependency_has_error => job'[j].dependency_has_error
           /\ \A k \in Jobs \ {j} : SameErrors(k)
<1> DEFINE dependency_has_error == job[j].dependency_has_error \/ result[r] = "error"
           new == [job[j] EXCEPT !.dependency_has_error = dependency_has_error]
<1>1. job \in [Jobs -> JobRecord] /\ job[j] \in JobRecord
  BY DEF Typed, TypeOK
<1>2. job' = [job EXCEPT ![j] = new]
  BY DEF Told
<1>3. job[j].dependency_has_error => dependency_has_error
  OBVIOUS
<1> HIDE DEF dependency_has_error
<1>4. /\ new.has_error = job[j].has_error
      /\ new.continuation_result = job[j].continuation_result
      /\ new.dependency_has_error = dependency_has_error
  BY <1>1 DEF JobRecord
<1> HIDE DEF new
<1>5. job'[j] = new /\ \A k \in Jobs \ {j} : job'[k] = job[k]
  BY <1>1, <1>2
<1> QED
  BY <1>3, <1>4, <1>5 DEF SameErrors

LEMMA BeginStepErrors ==
    ASSUME Typed, NEW e \in Executors, BeginStep(e)
    PROVE  \A k \in Jobs : SameErrors(k)
<1> DEFINE j == current[e]
           share == OwnShare
           none == 0
           new == [job[j] EXCEPT !.parent_finished = FALSE,
                                 !.num_all_waiting_jobs = share,
                                 !.num_ended_waiting_jobs = none,
                                 !.continuation_frame = TRUE]
<1>1. j \in Jobs /\ job \in [Jobs -> JobRecord] /\ job[j] \in JobRecord
  BY HeldJob DEF BeginStep, Holding
<1>2. job' = [job EXCEPT ![j] = new]
  BY DEF BeginStep
<1> HIDE DEF j, share, none
<1>3. /\ new.has_error = job[j].has_error
      /\ new.continuation_result = job[j].continuation_result
      /\ new.dependency_has_error = job[j].dependency_has_error
  BY <1>1 DEF JobRecord
<1> HIDE DEF new
<1> QED
  BY <1>1, <1>2, <1>3 DEF SameErrors

LEMMA UndoForkErrors ==
    ASSUME Typed, NEW e \in Executors, UndoFork(e)
    PROVE  \A k \in Jobs : SameErrors(k)
<1> DEFINE j == current[e]
           all == job[j].num_all_waiting_jobs - 1
           new == [job[j] EXCEPT !.num_all_waiting_jobs = all]
<1>1. j \in Jobs /\ job \in [Jobs -> JobRecord] /\ job[j] \in JobRecord
  BY HeldJob DEF UndoFork, Holding
<1>2. job' = [job EXCEPT ![j] = new]
  BY DEF UndoFork
<1> HIDE DEF j, all
<1>3. /\ new.has_error = job[j].has_error
      /\ new.continuation_result = job[j].continuation_result
      /\ new.dependency_has_error = job[j].dependency_has_error
  BY <1>1 DEF JobRecord
<1> HIDE DEF new
<1> QED
  BY <1>1, <1>2, <1>3 DEF SameErrors

LEMMA ForkErrors ==
    ASSUME Typed, NEW e \in Executors, NEW j \in Jobs, NEW target \in Executors,
           Fork(e, j, target), j # current[e]
    PROVE  /\ job'[j].has_error = FALSE
           /\ job'[j].dependency_has_error = FALSE
           /\ \A k \in Jobs \ {j} : SameErrors(k)
<1> PICK garbage \in Garbage :
        job' = [job EXCEPT ![j] = NewJob(target, FALSE, garbage),
                           ![current[e]] = [@ EXCEPT !.num_all_waiting_jobs
                                                 = job[current[e]].num_all_waiting_jobs + 1]]
  BY DEF Fork
<1> DEFINE p == current[e]
           all == job[p].num_all_waiting_jobs + 1
           new == NewJob(target, FALSE, garbage)
           par == [job[p] EXCEPT !.num_all_waiting_jobs = all]
<1>1. p \in Jobs /\ job \in [Jobs -> JobRecord] /\ job[p] \in JobRecord /\ p # j
  BY HeldJob DEF Fork, Holding
<1>2. job' = [job EXCEPT ![j] = new, ![p] = par]
  BY <1>1
<1>3. new.has_error = FALSE /\ new.dependency_has_error = FALSE
  BY DEF NewJob, Garbage
<1> HIDE DEF p, all, new
<1>4. /\ par.has_error = job[p].has_error
      /\ par.continuation_result = job[p].continuation_result
      /\ par.dependency_has_error = job[p].dependency_has_error
  BY <1>1 DEF JobRecord
<1> HIDE DEF par
<1>5. job'[j] = new /\ job'[p] = par /\ \A k \in Jobs \ {j, p} : job'[k] = job[k]
  BY <1>1, <1>2
<1> QED
  BY <1>3, <1>4, <1>5 DEF SameErrors

LEMMA EndStepErrors ==
    ASSUME Typed, NEW e \in Executors, NEW r \in Result, EndStep(e, r), NEW j, j = current[e]
    PROVE  /\ job'[j].has_error <=> job[j].has_error \/ r = "Error"
           /\ job'[j].continuation_result = r
           /\ job'[j].dependency_has_error = job[j].dependency_has_error
           /\ \A k \in Jobs \ {j} : SameErrors(k)
<1> DEFINE has_error == job[j].has_error \/ r = "Error"
           ended == job[j].num_ended_waiting_jobs + 1
           new == [job[j] EXCEPT !.continuation_result = r,
                                 !.has_error = has_error,
                                 !.parent_finished = TRUE,
                                 !.num_ended_waiting_jobs = ended]
<1>1. j \in Jobs /\ job \in [Jobs -> JobRecord] /\ job[j] \in JobRecord
  BY HeldJob DEF EndStep, Holding
<1>2. job' = [job EXCEPT ![j] = new]
  BY DEF EndStep
<1>3. has_error \in BOOLEAN /\ (has_error <=> job[j].has_error \/ r = "Error")
  OBVIOUS
<1> HIDE DEF has_error, ended
<1>4. /\ new.has_error = has_error
      /\ new.continuation_result = r
      /\ new.dependency_has_error = job[j].dependency_has_error
  BY <1>1, <1>3 DEF JobRecord
<1> HIDE DEF new
<1>5. job'[j] = new /\ \A k \in Jobs \ {j} : job'[k] = job[k]
  BY <1>1, <1>2
<1> QED
  BY <1>3, <1>4, <1>5 DEF SameErrors

LEMMA MoveToNextErrors ==
    ASSUME Typed, NEW e \in Executors, NEW r \in Result, MoveToNext(e, r)
    PROVE  \A k \in Jobs : SameErrors(k)
<1> DEFINE j == current[e]
           frame == job[j].continuation_frame /\ KeepsFrame(r)
           index == job[j].continuation_index + (IF r = "Ended" THEN 1 ELSE 0)
           new == [job[j] EXCEPT !.continuation_frame = frame, !.continuation_index = index]
<1>1. j \in Jobs /\ job \in [Jobs -> JobRecord] /\ job[j] \in JobRecord
  BY HeldJob DEF MoveToNext, Holding
<1>2. job' = [job EXCEPT ![j] = new]
  BY DEF MoveToNext
<1> HIDE DEF j, frame, index
<1>3. /\ new.has_error = job[j].has_error
      /\ new.continuation_result = job[j].continuation_result
      /\ new.dependency_has_error = job[j].dependency_has_error
  BY <1>1 DEF JobRecord
<1> HIDE DEF new
<1> QED
  BY <1>1, <1>2, <1>3 DEF SameErrors

LEMMA NotifyParentErrors ==
    ASSUME Typed, NEW e \in Executors, NotifyParent(e),
           NEW j, j = current[e], NEW p, p = parent[j]
    PROVE  /\ job'[p].has_error <=> job[p].has_error \/ job[j].has_error
           /\ job'[p].continuation_result = job[p].continuation_result
           /\ job'[p].dependency_has_error = job[p].dependency_has_error
           /\ \A k \in Jobs \ {p} : SameErrors(k)
<1> DEFINE ended == job[p].num_ended_waiting_jobs + 1
           enabled == JoinReady(job[p].parent_finished, job[p].num_all_waiting_jobs, ended)
           has_error == job[p].has_error \/ job[j].has_error
           executor == IF enabled THEN e ELSE job[p].executor
           new == [job[p] EXCEPT !.num_ended_waiting_jobs = ended,
                                 !.has_error = has_error,
                                 !.executor = executor]
<1>1. p \in Jobs /\ job \in [Jobs -> JobRecord] /\ job[p] \in JobRecord
  BY NotifyParentFields DEF Typed, TypeOK
<1>2. job' = [job EXCEPT ![p] = new]
  BY DEF NotifyParent
<1>3. has_error \in BOOLEAN /\ (has_error <=> job[p].has_error \/ job[j].has_error)
  OBVIOUS
<1> HIDE DEF ended, has_error, executor, enabled
<1>4. /\ new.has_error = has_error
      /\ new.continuation_result = job[p].continuation_result
      /\ new.dependency_has_error = job[p].dependency_has_error
  BY <1>1, <1>3 DEF JobRecord
<1> HIDE DEF new
<1>5. job'[p] = new /\ \A k \in Jobs \ {p} : job'[k] = job[k]
  BY <1>1, <1>2
<1> QED
  BY <1>3, <1>4, <1>5 DEF SameErrors

LEMMA InvokeErrors ==
    ASSUME Typed, NEW c \in Clients, NEW j \in Jobs, Invoke(c, j)
    PROVE  /\ job'[j].has_error = FALSE
           /\ \A k \in Jobs \ {j} : SameErrors(k)
<1> PICK d \in DependencyErrors, g \in Garbage : job' = [job EXCEPT ![j] = NewJob(0, d, g)]
  BY DEF Invoke
<1> DEFINE new == NewJob(0, d, g)
<1>1. job' = [job EXCEPT ![j] = new] /\ job \in [Jobs -> JobRecord]
  BY DEF Typed, TypeOK
<1>2. new.has_error = FALSE
  BY DEF NewJob, Garbage
<1> HIDE DEF new
<1> QED
  BY <1>1, <1>2 DEF SameErrors

-----------------------------------------------------------------------------
(* The inductive invariant *)

\* A reason for the error of j that nothing can take away any more.
LastingCause(j) ==
    \/ job[j].dependency_has_error
    \/ HasTrap(j)
    \/ \E k \in Jobs : parent[k] = j /\ phase[k] = "destroyed" /\ job[k].has_error

\* A reason to run the continuation again that j was in the middle of.
ReasonToRepeat(j) ==
    \/ job[j].continuation_result = "Repeat"
    \/ job[j].has_error /\ "Repeat" \in ContinuationOf(j).traps
    \/ \E k \in Jobs : parent[k] = j /\ Rejected(k)

\* Nothing of j has been executed.
Fresh(j) == ~job[j].has_error /\ ~job[j].setup_executed

ErrorArrives(j) ==
    phase[j] = "destroyed" /\ job[j].has_error =>
        IF parent[j] = NoJob THEN result[j] = "error" \/ HasTrap(j)
                             ELSE job[parent[j]].has_error

\* What the record of a job says of its errors, wherever the job is.
ErrorSound(j) ==
    /\ result[j] = "error" => phase[j] # "unborn" /\ job[j].has_error
    /\ phase[j] = "pending" => Fresh(j)
    /\ parent[j] # NoJob => ~job[j].dependency_has_error
    /\ phase[j] # "unborn" /\ job[j].has_error =>
          LastingCause(j) \/ ~job[j].setup_executed \/ LastStepFailed(j)
    /\ job[j].parent_finished /\ job[j].continuation_result = "Error" => job[j].has_error
    /\ job[j].num_all_waiting_jobs # 0 => job[j].parent_finished \/ Stepping(j)
    /\ parent[j] # NoJob => phase[parent[j]] # "unborn"
    /\ ErrorArrives(j)

\* What the thread e knows of the errors of the job j it has in hand.
KnownBy(e, j) ==
    /\ pc[e] = "take" => Fresh(j)
    /\ pc[e] = "run" =>
          /\ job[j].has_error => /\ job[j].setup_executed
                                 /\ job[j].continuation_frame \/ HasTrap(j)
          /\ job[j].continuation_frame => ReasonToRepeat(j)
    /\ pc[e] \in {"run"} \cup InStep /\ job[j].has_error => LastingCause(j)
    /\ pc[e] = "next" => job[j].parent_finished
    /\ pc[e] \in {"abort", "reject"} => job[j].has_error
    /\ pc[e] = "reject" => ~job[j].setup_executed \/ job[j].dependency_has_error
    /\ pc[e] = "finish" /\ job[j].has_error => HasTrap(j)
    /\ pc[e] \in Completes /\ job[j].has_error => result[j] = "error" \/ HasTrap(j)

ThreadKnows(e) ==
    \A j \in Jobs : /\ current[e] = j => KnownBy(e, j)
                    /\ child[e] = j => Fresh(j)

QueuedFresh == \A j \in Jobs : Queued(j) => Fresh(j)

(***************************************************************************)
(* That an error arrives at the root, and that it had a cause, is not      *)
(* inductive: the thread that ends a job does not look at what happened to *)
(* it earlier.  So each place a job can be in has what was done with its   *)
(* errors so far.                                                          *)
(***************************************************************************)
Traced ==
    /\ \A j \in Jobs : ErrorSound(j)
    /\ \A e \in Executors : ThreadKnows(e)
    /\ QueuedFresh

-----------------------------------------------------------------------------
(* What a step leaves as it was *)

\* A step changes the past of no job.
PastKept ==
    \A k \in Jobs :
        phase[k] # "unborn" =>
            /\ phase'[k] # "unborn"
            /\ phase[k] = "destroyed" => phase'[k] = "destroyed"
            /\ parent'[k] = parent[k]
            /\ job[k].has_error => job'[k].has_error
            /\ job[k].dependency_has_error => job'[k].dependency_has_error
            /\ phase[k] = "destroyed" => job'[k].setup_executed = job[k].setup_executed

SameJob(k) ==
    /\ SameErrors(k) /\ SameFrame(k) /\ SameJoin(k)
    /\ phase'[k] = phase[k] /\ parent'[k] = parent[k] /\ result'[k] = result[k]

SameThread(f) == pc'[f] = pc[f] /\ current'[f] = current[f] /\ child'[f] = child[f]

LEMMA CauseKept ==
    ASSUME PastKept, NEW j \in Jobs, phase[j] # "unborn", LastingCause(j)
    PROVE  LastingCause(j)'
<1>1. CASE job[j].dependency_has_error \/ HasTrap(j)
  BY <1>1 DEF PastKept, LastingCause, HasTrap, NumContinuations
<1>2. CASE \E k \in Jobs : parent[k] = j /\ phase[k] = "destroyed" /\ job[k].has_error
  <2> PICK k \in Jobs : parent[k] = j /\ phase[k] = "destroyed" /\ job[k].has_error
    BY <1>2
  <2>1. parent'[k] = j /\ phase'[k] = "destroyed" /\ job'[k].has_error
    BY DEF PastKept
  <2> QED
    BY <2>1 DEF LastingCause
<1> QED
  BY <1>1, <1>2 DEF LastingCause

LEMMA ReasonKept ==
    ASSUME PastKept, NEW j \in Jobs, SameErrors(j), SameFrame(j), ReasonToRepeat(j)
    PROVE  ReasonToRepeat(j)'
<1>1. CASE \/ job[j].continuation_result = "Repeat"
           \/ job[j].has_error /\ "Repeat" \in ContinuationOf(j).traps
  BY <1>1 DEF ReasonToRepeat, SameErrors, SameFrame, ContinuationOf
<1>2. CASE \E k \in Jobs : parent[k] = j /\ Rejected(k)
  <2> PICK k \in Jobs : parent[k] = j /\ Rejected(k)
    BY <1>2
  <2>1. parent'[k] = j /\ Rejected(k)'
    BY DEF PastKept, Rejected
  <2> QED
    BY <2>1 DEF ReasonToRepeat
<1> QED
  BY <1>1, <1>2 DEF ReasonToRepeat

\* The record of a job that a step does not touch.
LEMMA SoundKept ==
    ASSUME Typed, PastKept, NEW j \in Jobs, ErrorSound(j), SameJob(j),
           Stepping(j) => Stepping(j)'
    PROVE  ErrorSound(j)'
<1>1. /\ result'[j] = "error" => phase'[j] # "unborn" /\ job'[j].has_error
      /\ phase'[j] = "pending" => Fresh(j)'
      /\ parent'[j] # NoJob => ~job'[j].dependency_has_error
  BY DEF ErrorSound, SameJob, SameErrors, SameFrame, Fresh
<1>2. phase'[j] # "unborn" /\ job'[j].has_error =>
          LastingCause(j)' \/ ~job'[j].setup_executed \/ LastStepFailed(j)'
  BY CauseKept DEF ErrorSound, SameJob, SameErrors, SameFrame, SameJoin, LastStepFailed
<1>3. job'[j].parent_finished /\ job'[j].continuation_result = "Error" => job'[j].has_error
  BY DEF ErrorSound, SameJob, SameErrors, SameJoin
<1>4. job'[j].num_all_waiting_jobs # 0 => job'[j].parent_finished \/ Stepping(j)'
  BY DEF ErrorSound, SameJob, SameJoin
<1>5. parent'[j] # NoJob => phase'[parent'[j]] # "unborn"
  <2>1. parent[j] # NoJob => parent[j] \in Jobs
    BY DEF Typed, TypeOK
  <2> QED
    BY <2>1 DEF ErrorSound, SameJob, PastKept
<1>6. ErrorArrives(j)'
  <2> SUFFICES ASSUME phase'[j] = "destroyed", job'[j].has_error
               PROVE  IF parent'[j] = NoJob THEN result'[j] = "error" \/ HasTrap(j)
                                            ELSE job'[parent'[j]].has_error
    BY DEF ErrorArrives, HasTrap, NumContinuations
  <2>1. parent[j] # NoJob => parent[j] \in Jobs /\ phase[parent[j]] # "unborn"
    BY DEF Typed, TypeOK, ErrorSound
  <2>2. IF parent[j] = NoJob THEN result[j] = "error" \/ HasTrap(j)
                             ELSE job[parent[j]].has_error
    BY DEF ErrorSound, ErrorArrives, SameJob, SameErrors
  <2> QED
    BY <2>1, <2>2 DEF SameJob, PastKept
<1> QED
  BY <1>1, <1>2, <1>3, <1>4, <1>5, <1>6 DEF ErrorSound

LEMMA KnowledgeKept ==
    ASSUME Typed, Typed', Owned, PastKept, NEW e \in Executors, ThreadKnows(e), SameThread(e),
           \A j \in Jobs : current[e] = j \/ child[e] = j =>
                              /\ SameErrors(j) /\ SameFrame(j) /\ SameJoin(j)
                              /\ result'[j] = result[j]
    PROVE  ThreadKnows(e)'
<1> SUFFICES ASSUME NEW j \in Jobs
             PROVE  /\ current'[e] = j => KnownBy(e, j)'
                    /\ child'[e] = j => Fresh(j)'
  BY DEF ThreadKnows
<1>1. ASSUME current'[e] = j PROVE KnownBy(e, j)'
  <2>1. phase[j] = "live" /\ KnownBy(e, j) /\ pc'[e] = pc[e]
    BY <1>1, PlacedLive DEF Held, ThreadKnows, SameThread
  <2>2. SameErrors(j) /\ SameFrame(j) /\ SameJoin(j) /\ result'[j] = result[j]
    BY <1>1 DEF SameThread
  <2>3. /\ LastingCause(j) => LastingCause(j)'
        /\ ReasonToRepeat(j) => ReasonToRepeat(j)'
    BY <2>1, <2>2, CauseKept, ReasonKept
  <2> QED
    BY <2>1, <2>2, <2>3
    DEF KnownBy, Fresh, SameErrors, SameFrame, SameJoin, HasTrap, NumContinuations
<1>2. ASSUME child'[e] = j PROVE Fresh(j)'
  BY <1>2 DEF ThreadKnows, SameThread, Fresh, SameErrors, SameFrame
<1> QED
  BY <1>1, <1>2

(***************************************************************************)
(* A step touches the jobs of X; the others, and the threads that have     *)
(* none of X in hand, are as they were.                                    *)
(***************************************************************************)
LEMMA TracedKept ==
    ASSUME Typed, Typed', Owned, Traced, PastKept, NEW X \in SUBSET Jobs,
           \A k \in Jobs \ X : SameJob(k) /\ (Stepping(k) => Stepping(k)'),
           \A k \in X : ErrorSound(k)',
           \A k \in Jobs : Queued(k)' => (Queued(k) /\ k \notin X) \/ Fresh(k)',
           \A f \in Executors :
              \/ ThreadKnows(f)'
              \/ SameThread(f) /\ current[f] \notin X /\ child[f] \notin X
    PROVE  Traced'
<1>1. \A k \in Jobs : ErrorSound(k)'
  BY SoundKept DEF Traced
<1>2. QueuedFresh'
  <2> SUFFICES ASSUME NEW k \in Jobs, Queued(k), k \notin X PROVE Fresh(k)'
    BY DEF QueuedFresh
  <2> QED
    BY DEF Traced, QueuedFresh, Fresh, SameJob, SameErrors, SameFrame
<1>3. \A f \in Executors : ThreadKnows(f)'
  <2> SUFFICES ASSUME NEW f \in Executors, SameThread(f), current[f] \notin X, child[f] \notin X
               PROVE  ThreadKnows(f)'
    OBVIOUS
  <2> QED
    BY KnowledgeKept DEF Traced, SameJob
<1> QED
  BY <1>1, <1>2, <1>3 DEF Traced

-----------------------------------------------------------------------------
(* The steps of a thread on its own job *)

LEMMA OneHand ==
    ASSUME Typed, Owned, NEW e \in Executors, NEW j \in Jobs, current[e] = j
    PROVE  /\ phase[j] = "live"
           /\ ~Queued(j)
           /\ \A f \in Executors : child[f] # j
           /\ \A f \in Executors \ {e} : current[f] # j
BY PlacedLive, JobsAssumption DEF Owned, QueuedAtRest, ForkedAtRest, HandsDisjoint, Held

LEMMA TracedOwn ==
    ASSUME Typed, Typed', Owned, Traced, NEW e \in Executors, NEW j \in Jobs, current[e] = j,
           UNCHANGED <<deque, child, phase, parent, result>>,
           \A f \in Executors \ {e} : pc'[f] = pc[f] /\ current'[f] = current[f],
           \/ current'[e] = NoJob
           \/ current'[e] = j /\ KnownBy(e, j)',
           pc[e] # "fork",
           \A k \in Jobs \ {j} : SameErrors(k) /\ SameFrame(k) /\ SameJoin(k),
           job[j].has_error => job'[j].has_error,
           job'[j].dependency_has_error = job[j].dependency_has_error,
           ErrorSound(j)'
    PROVE  Traced'
<1> DEFINE X == {j}
<1>1. PastKept
  BY OneHand DEF PastKept, SameErrors, SameFrame
<1>2. ASSUME NEW k \in Jobs \ X
      PROVE  SameJob(k) /\ (Stepping(k) => Stepping(k)')
  BY <1>2 DEF SameJob, Stepping
<1>3. \A k \in Jobs : Queued(k)' => (Queued(k) /\ k \notin X) \/ Fresh(k)'
  BY OneHand DEF Queued
<1>4. ASSUME NEW f \in Executors
      PROVE  \/ ThreadKnows(f)'
             \/ SameThread(f) /\ current[f] \notin X /\ child[f] \notin X
  <2>1. CASE f = e
    BY <2>1, EmptyHanded, JobsAssumption DEF ThreadKnows
  <2>2. CASE f # e
    BY <2>2, OneHand DEF SameThread
  <2> QED
    BY <2>1, <2>2
<1> QED
  BY <1>1, <1>2, <1>3, <1>4, TracedKept

\* The steps that touch no job.
LEMMA TracedQuiet ==
    ASSUME Typed, Typed', Owned, Traced,
           UNCHANGED <<current, child, phase, parent, result, job>>,
           \A k \in Jobs : Queued(k)' => Queued(k),
           \A f \in Executors :
              \/ pc'[f] = pc[f]
              \/ /\ pc[f] \in InStep => pc'[f] \in InStep
                 /\ \A j \in Jobs : current[f] = j => KnownBy(f, j)'
    PROVE  Traced'
<1> PICK X \in SUBSET Jobs : X = {}
  OBVIOUS
<1>1. PastKept
  BY DEF PastKept
<1>2. ASSUME NEW k \in Jobs \ X
      PROVE  SameJob(k) /\ (Stepping(k) => Stepping(k)')
  BY <1>2 DEF SameJob, SameErrors, SameFrame, SameJoin, Stepping
<1>3. ASSUME NEW f \in Executors
      PROVE  \/ ThreadKnows(f)'
             \/ SameThread(f) /\ current[f] \notin X /\ child[f] \notin X
  <2>1. \A j \in Jobs : child[f] = j => Fresh(j)'
    BY DEF Traced, ThreadKnows, Fresh
  <2> QED
    BY <2>1 DEF ThreadKnows, SameThread
<1>4. \A k \in Jobs : Queued(k)' => (Queued(k) /\ k \notin X) \/ Fresh(k)'
  OBVIOUS
<1> QED
  BY <1>1, <1>2, <1>3, <1>4, TracedKept

LEMMA TracedExecuteSetup ==
    ASSUME Typed, Typed', Owned, Framed, Traced, NEW e \in Executors, ExecuteSetup(e)
    PROVE  Traced'
<1>1. current[e] \in Jobs
  BY HeldJob DEF ExecuteSetup, Holding
<1> PICK j \in Jobs : j = current[e]
  BY <1>1
<1> DEFINE label == IF job[j].dependency_has_error THEN "reject" ELSE "run"
<1>2. /\ pc[e] = "run"
      /\ ~job[j].setup_executed
      /\ pc' = [pc EXCEPT ![e] = label]
      /\ label \in {"reject", "run"}
      /\ label = "reject" <=> job[j].dependency_has_error
      /\ UNCHANGED <<deque, current, child, phase, parent, result>>
  BY DEF ExecuteSetup, Goto, dequeVars, promiseVars
<1> HIDE DEF label
<1>3. /\ job'[j].has_error <=> job[j].has_error \/ job[j].dependency_has_error
      /\ job'[j].continuation_result = job[j].continuation_result
      /\ job'[j].dependency_has_error = job[j].dependency_has_error
      /\ \A k \in Jobs \ {j} : SameErrors(k)
  BY ExecuteSetupErrors
<1>4. /\ job'[j].continuation_frame = job[j].continuation_frame
      /\ \A k \in Jobs \ {j} : SameFrame(k)
      /\ \A k \in Jobs : SameJoin(k)
  BY ExecuteSetupFields, ExecuteSetupEffect
<1>5. ~job[j].has_error /\ ~job[j].continuation_frame
  BY <1>2 DEF Traced, ThreadKnows, KnownBy, Framed, RecordSound
<1>6. KnownBy(e, j)'
  <2>1. pc'[e] = label
    BY <1>2 DEF Typed, TypeOK
  <2> QED
    BY <1>2, <1>3, <1>4, <1>5, <2>1 DEF KnownBy, InStep, Completes
<1>7. ErrorSound(j)'
  <2>1. phase[j] = "live" /\ ErrorSound(j)
    BY OneHand DEF Traced
  <2>2. job'[j].has_error => LastingCause(j)'
    BY <1>3, <1>5 DEF LastingCause
  <2>3. parent[j] # NoJob => phase'[parent[j]] # "unborn"
    BY <1>2, <2>1 DEF ErrorSound
  <2>4. Stepping(j) => Stepping(j)'
    BY <1>2, OneHand DEF Stepping, InStep
  <2> QED
    BY <1>2, <1>3, <1>4, <2>1, <2>2, <2>3, <2>4 DEF ErrorSound, ErrorArrives, SameJoin
<1> QED
  BY <1>2, <1>3, <1>4, <1>6, <1>7, TracedOwn DEF Typed, TypeOK

LEMMA TracedFailSetup ==
    ASSUME Typed, Typed', Owned, Framed, Traced, NEW e \in Executors, FailSetup(e)
    PROVE  Traced'
<1>1. current[e] \in Jobs
  BY HeldJob DEF FailSetup, Holding
<1> PICK j \in Jobs : j = current[e]
  BY <1>1
<1>2. /\ pc[e] = "run"
      /\ ~job[j].setup_executed
      /\ pc' = [pc EXCEPT ![e] = "reject"]
      /\ UNCHANGED <<deque, current, child, phase, parent, result>>
  BY DEF FailSetup, Goto, dequeVars, promiseVars
<1>3. /\ job'[j].has_error = TRUE
      /\ job'[j].continuation_result = job[j].continuation_result
      /\ job'[j].dependency_has_error = job[j].dependency_has_error
      /\ \A k \in Jobs \ {j} : SameErrors(k)
  BY FailSetupErrors
<1>4. /\ job'[j].setup_executed = job[j].setup_executed
      /\ \A k \in Jobs : SameFrame(k)
      /\ \A k \in Jobs : SameJoin(k)
  BY FailSetupFields, FailSetupEffect DEF SameFrame
<1>5. KnownBy(e, j)'
  BY <1>2, <1>3, <1>4 DEF KnownBy, InStep, Completes, Typed, TypeOK
<1>6. ErrorSound(j)'
  <2>1. phase[j] = "live" /\ ErrorSound(j)
    BY OneHand DEF Traced
  <2>2. parent[j] # NoJob => phase'[parent[j]] # "unborn"
    BY <1>2, <2>1 DEF ErrorSound
  <2>3. Stepping(j) => Stepping(j)'
    BY <1>2, OneHand DEF Stepping, InStep
  <2> QED
    BY <1>2, <1>3, <1>4, <2>1, <2>2, <2>3 DEF ErrorSound, ErrorArrives, SameJoin
<1> QED
  BY <1>2, <1>3, <1>4, <1>5, <1>6, TracedOwn DEF Typed, TypeOK

LEMMA TracedBeginStep ==
    ASSUME Typed, Typed', Owned, Traced, NEW e \in Executors, BeginStep(e)
    PROVE  Traced'
<1>1. current[e] \in Jobs
  BY HeldJob DEF BeginStep, Holding
<1> PICK j \in Jobs : j = current[e]
  BY <1>1
<1>2. /\ pc[e] = "run"
      /\ pc' = [pc EXCEPT ![e] = "step"]
      /\ UNCHANGED <<deque, current, child, phase, parent, result>>
  BY DEF BeginStep, Goto, dequeVars, promiseVars
<1>3. \A k \in Jobs : SameErrors(k)
  BY BeginStepErrors
<1>4. /\ \A k \in Jobs \ {j} : SameFrame(k) /\ SameJoin(k)
      /\ job'[j].parent_finished = FALSE
  BY BeginStepFields, BeginStepEffect
<1>5. job[j].has_error => LastingCause(j)
  BY <1>2 DEF Traced, ThreadKnows, KnownBy
<1>6. LastingCause(j) => LastingCause(j)'
  <2>1. PastKept
    BY <1>2, <1>3, <1>4, OneHand DEF PastKept, SameErrors, SameFrame
  <2> QED
    BY <2>1, OneHand, CauseKept
<1>7. KnownBy(e, j)'
  BY <1>2, <1>3, <1>5, <1>6 DEF KnownBy, SameErrors, Completes, Typed, TypeOK
<1>8. ErrorSound(j)'
  <2>1. phase[j] = "live" /\ ErrorSound(j)
    BY OneHand DEF Traced
  <2>2. parent[j] # NoJob => phase'[parent[j]] # "unborn"
    BY <1>2, <2>1 DEF ErrorSound
  <2>3. Stepping(j)'
    BY <1>2 DEF Stepping, InStep, Typed, TypeOK
  <2> QED
    BY <1>2, <1>3, <1>4, <1>5, <1>6, <2>1, <2>2, <2>3
    DEF ErrorSound, ErrorArrives, SameErrors
<1> QED
  BY <1>2, <1>3, <1>4, <1>7, <1>8, TracedOwn DEF Typed, TypeOK, SameErrors

LEMMA TracedUndoFork ==
    ASSUME Typed, Typed', Owned, Traced, NEW e \in Executors, UndoFork(e)
    PROVE  Traced'
<1>1. current[e] \in Jobs
  BY HeldJob DEF UndoFork, Holding
<1> PICK j \in Jobs : j = current[e]
  BY <1>1
<1>2. /\ pc[e] = "undo"
      /\ pc' = [pc EXCEPT ![e] = "step"]
      /\ UNCHANGED <<deque, current, child, phase, parent, result>>
  BY DEF UndoFork, Goto, dequeVars, promiseVars
<1>3. \A k \in Jobs : SameErrors(k) /\ SameFrame(k)
  BY UndoForkErrors, UndoForkFields
<1>4. /\ \A k \in Jobs \ {j} : SameJoin(k)
      /\ job'[j].parent_finished = job[j].parent_finished
  BY UndoForkEffect
<1>5. job[j].has_error => LastingCause(j)
  BY <1>2 DEF Traced, ThreadKnows, KnownBy, InStep
<1>6. LastingCause(j) => LastingCause(j)'
  <2>1. PastKept
    BY <1>2, <1>3 DEF PastKept, SameErrors, SameFrame
  <2> QED
    BY <2>1, OneHand, CauseKept
<1>7. KnownBy(e, j)'
  BY <1>2, <1>3, <1>5, <1>6 DEF KnownBy, SameErrors, Completes, Typed, TypeOK
<1>8. ErrorSound(j)'
  <2>1. phase[j] = "live" /\ ErrorSound(j)
    BY OneHand DEF Traced
  <2>2. parent[j] # NoJob => phase'[parent[j]] # "unborn"
    BY <1>2, <2>1 DEF ErrorSound
  <2>3. Stepping(j)'
    BY <1>2 DEF Stepping, InStep, Typed, TypeOK
  <2> QED
    BY <1>2, <1>3, <1>4, <1>5, <1>6, <2>1, <2>2, <2>3
    DEF ErrorSound, ErrorArrives, SameErrors
<1> QED
  BY <1>2, <1>3, <1>4, <1>7, <1>8, TracedOwn DEF Typed, TypeOK, SameErrors

LEMMA TracedEndStep ==
    ASSUME Typed, Typed', Owned, Framed, Traced, NEW e \in Executors, NEW r \in Result,
           EndStep(e, r)
    PROVE  Traced'
<1>1. current[e] \in Jobs
  BY HeldJob DEF EndStep, Holding
<1> PICK j \in Jobs : j = current[e]
  BY <1>1
<1>2. /\ pc[e] = "step"
      /\ UNCHANGED <<deque, child, phase, parent, result>>
      /\ \/ pc' = [pc EXCEPT ![e] = "next"] /\ UNCHANGED current
         \/ pc' = [pc EXCEPT ![e] = "idle"] /\ current' = [current EXCEPT ![e] = NoJob]
  BY DEF EndStep, Goto, dequeVars, promiseVars
<1>3. /\ job'[j].has_error <=> job[j].has_error \/ r = "Error"
      /\ job'[j].continuation_result = r
      /\ job'[j].dependency_has_error = job[j].dependency_has_error
      /\ \A k \in Jobs \ {j} : SameErrors(k)
  BY EndStepErrors
<1>4. /\ \A k \in Jobs : SameFrame(k)
      /\ \A k \in Jobs \ {j} : SameJoin(k)
      /\ job'[j].parent_finished = TRUE
      /\ job'[j].num_all_waiting_jobs = job[j].num_all_waiting_jobs
  BY EndStepFields, EndStepEffect
<1>5. job[j].has_error => LastingCause(j)'
  <2>1. LastingCause(j) => LastingCause(j)'
    <3>1. PastKept
      BY <1>2, <1>3, <1>4, OneHand DEF PastKept, SameErrors, SameFrame
    <3> QED
      BY <3>1, OneHand, CauseKept
  <2> QED
    BY <1>2, <2>1 DEF Traced, ThreadKnows, KnownBy, InStep
<1>6. KnownBy(e, j)' \/ current'[e] = NoJob
  BY <1>2, <1>4 DEF KnownBy, InStep, Completes, Typed, TypeOK
<1>7. ErrorSound(j)'
  <2>1. phase[j] = "live" /\ ErrorSound(j)
    BY OneHand DEF Traced
  <2>2. parent[j] # NoJob => phase'[parent[j]] # "unborn"
    BY <1>2, <2>1 DEF ErrorSound
  <2>3. job[j].num_all_waiting_jobs # 0
    <3>1. Busy(j)
      BY <1>2 DEF Owned, HeldAsProgrammed, StateAt, InStep
    <3>2. job[j].num_ended_waiting_jobs \in Nat
      BY DEF Typed, TypeOK, JobRecord
    <3> QED
      BY <3>1, <3>2, NumChildrenType DEF Busy
  <2> QED
    BY <1>2, <1>3, <1>4, <1>5, <2>1, <2>2, <2>3 DEF ErrorSound, ErrorArrives, LastStepFailed
<1>8. /\ \A f \in Executors \ {e} : pc'[f] = pc[f] /\ current'[f] = current[f]
      /\ current'[e] \in {j, NoJob}
  BY <1>2 DEF Typed, TypeOK
<1> QED
  BY <1>2, <1>3, <1>4, <1>6, <1>7, <1>8, TracedOwn

LEMMA TracedMoveToNext ==
    ASSUME Typed, Typed', Owned, Framed, Traced, NEW e \in Executors, NEW r \in Result,
           MoveToNext(e, r)
    PROVE  Traced'
<1>1. current[e] \in Jobs
  BY HeldJob DEF MoveToNext, Holding
<1> PICK j \in Jobs : j = current[e]
  BY <1>1
<1> DEFINE label == IF r = "Error" THEN "abort" ELSE "run"
<1>2. /\ pc[e] = "next"
      /\ r \in Outcomes(j)
      /\ pc' = [pc EXCEPT ![e] = label]
      /\ label \in {"abort", "run"}
      /\ label = "abort" <=> r = "Error"
      /\ UNCHANGED <<deque, current, child, phase, parent, result>>
  BY DEF MoveToNext, Goto, dequeVars, promiseVars
<1> HIDE DEF label
<1>3. \A k \in Jobs : SameErrors(k)
  BY MoveToNextErrors
<1>4. /\ job'[j].continuation_frame <=> job[j].continuation_frame /\ r = "Repeat"
      /\ job'[j].setup_executed = job[j].setup_executed
      /\ r # "Ended" => job'[j].continuation_index = job[j].continuation_index
      /\ \A k \in Jobs \ {j} : SameFrame(k)
      /\ \A k \in Jobs : SameJoin(k)
  BY MoveToNextFields, MoveToNextEffect
<1>5. job[j].setup_executed /\ job[j].continuation_index < NumContinuations(j)
  BY <1>2 DEF Framed, ThreadSound, UnderWay, RecordSound
<1>6. job[j].has_error /\ r # "Error" => HasTrap(j)
  <2> SUFFICES ASSUME job[j].has_error, r # "Error" PROVE HasTrap(j)
    OBVIOUS
  <2> DEFINE i == job[j].continuation_index + 1
  <2>1. i \in 1 .. NumContinuations(j)
    <3>1. job[j].continuation_index \in Nat
      BY DEF Typed, TypeOK, JobRecord
    <3>2. NumContinuations(j) \in Nat
      BY NumContinuationsType
    <3> QED
      BY <1>5, <3>1, <3>2
  <2>2. r \in Procedure[j][i].traps
    BY <1>2 DEF Outcomes, ContinuationOf
  <2> QED
    BY <2>1, <2>2 DEF HasTrap
<1>7. ~job[j].has_error => r = job[j].continuation_result /\ r # "Error"
  <2>1. job[j].parent_finished
    BY <1>2 DEF Traced, ThreadKnows, KnownBy
  <2>2. job[j].continuation_result = "Error" => job[j].has_error
    BY <2>1 DEF Traced, ErrorSound
  <2> QED
    BY <1>2, <2>2 DEF Outcomes
<1>8. KnownBy(e, j)'
  <2>1. pc'[e] = label
    BY <1>2 DEF Typed, TypeOK
  <2>2. HasTrap(j) => HasTrap(j)' /\ LastingCause(j)'
    BY DEF LastingCause, HasTrap, NumContinuations
  <2>3. r = "Repeat" => ReasonToRepeat(j)'
    <3> SUFFICES ASSUME r = "Repeat"
                 PROVE  \/ job'[j].continuation_result = "Repeat"
                        \/ job'[j].has_error /\ "Repeat" \in ContinuationOf(j)'.traps
      BY DEF ReasonToRepeat
    <3>1. ContinuationOf(j)' = ContinuationOf(j)
      BY <1>4 DEF ContinuationOf
    <3> QED
      BY <1>2, <1>3, <1>7, <3>1 DEF Outcomes, SameErrors
  <2> QED
    BY <1>2, <1>3, <1>4, <1>5, <1>6, <1>7, <2>1, <2>2, <2>3
    DEF KnownBy, InStep, Completes, SameErrors
<1>9. ErrorSound(j)'
  <2>1. phase[j] = "live" /\ ErrorSound(j)
    BY OneHand DEF Traced
  <2>2. parent[j] # NoJob => phase'[parent[j]] # "unborn"
    BY <1>2, <2>1 DEF ErrorSound
  <2>3. LastingCause(j) => LastingCause(j)'
    <3>1. PastKept
      BY <1>2, <1>3, <1>4 DEF PastKept, SameErrors, SameFrame
    <3> QED
      BY <3>1, OneHand, CauseKept
  <2>4. Stepping(j) => Stepping(j)'
    BY <1>2, OneHand DEF Stepping, InStep
  <2> QED
    BY <1>2, <1>3, <1>4, <2>1, <2>2, <2>3, <2>4
    DEF ErrorSound, ErrorArrives, LastStepFailed, SameErrors, SameJoin
<1> QED
  BY <1>2, <1>3, <1>4, <1>8, <1>9, TracedOwn DEF Typed, TypeOK, SameErrors

-----------------------------------------------------------------------------
(* The steps that move, create or destroy a job *)

LEMMA TracedTaken ==
    ASSUME Typed, Typed', Owned, Traced, NEW e \in Executors, NEW j \in Jobs, Queued(j),
           pc[e] \in {"idle", "steal"},
           pc' = [pc EXCEPT ![e] = "take"],
           current' = [current EXCEPT ![e] = j],
           UNCHANGED <<child, phase, parent, result>>,
           \A k \in Jobs : Queued(k)' => Queued(k),
           \A k \in Jobs : SameErrors(k) /\ SameFrame(k) /\ SameJoin(k)
    PROVE  Traced'
<1> PICK X \in SUBSET Jobs : X = {}
  OBVIOUS
<1>1. PastKept
  BY DEF PastKept, SameErrors, SameFrame
<1>2. current[e] = NoJob /\ child[e] = NoJob
  BY EmptyHanded
<1>3. ASSUME NEW k \in Jobs \ X
      PROVE  SameJob(k) /\ (Stepping(k) => Stepping(k)')
  BY <1>2, <1>3, JobsAssumption DEF Typed, TypeOK, SameJob, Stepping
<1>4. Fresh(j)'
  BY DEF Traced, QueuedFresh, Fresh, SameErrors, SameFrame
<1>5. ASSUME NEW f \in Executors
      PROVE  \/ ThreadKnows(f)'
             \/ SameThread(f) /\ current[f] \notin X /\ child[f] \notin X
  <2>1. CASE f = e
    <3>1. pc'[f] = "take" /\ current'[f] = j /\ child'[f] = NoJob
      BY <1>2, <2>1 DEF Typed, TypeOK
    <3>2. KnownBy(f, j)'
      BY <1>4, <3>1 DEF KnownBy, InStep, Completes
    <3> QED
      BY <3>1, <3>2, JobsAssumption DEF ThreadKnows
  <2>2. CASE f # e
    BY <2>2 DEF Typed, TypeOK, SameThread
  <2> QED
    BY <2>1, <2>2
<1>6. \A k \in Jobs : Queued(k)' => (Queued(k) /\ k \notin X) \/ Fresh(k)'
  OBVIOUS
<1> QED
  BY <1>1, <1>3, <1>5, <1>6, TracedKept

LEMMA TracedDequeueLocal ==
    ASSUME Typed, Typed', Owned, Traced, NEW e \in Executors, DequeueLocal(e)
    PROVE  Traced'
<1>1. pc[e] = "idle" /\ UNCHANGED <<child, phase, parent, job, result>>
  BY DEF DequeueLocal, jobVars, promiseVars
<1>2. CASE deque[e] = <<>>
  <2>1. pc' = [pc EXCEPT ![e] = "wait"] /\ UNCHANGED <<deque, current>>
    BY <1>2 DEF DequeueLocal, Goto
  <2>2. ASSUME NEW f \in Executors
        PROVE  \/ pc'[f] = pc[f]
               \/ /\ pc[f] \in InStep => pc'[f] \in InStep
                  /\ \A j \in Jobs : current[f] = j => KnownBy(f, j)'
    BY <1>1, <2>1 DEF Typed, TypeOK, InStep, Completes, KnownBy
  <2> QED
    BY <1>1, <2>1, <2>2, TracedQuiet DEF Queued
<1>3. CASE deque[e] # <<>>
  <2>1. /\ pc' = [pc EXCEPT ![e] = "take"]
        /\ current' = [current EXCEPT ![e] = Front(deque[e])]
        /\ deque' = [deque EXCEPT ![e] = WithoutFront(deque[e])]
    BY <1>3 DEF DequeueLocal, Goto
  <2>2. /\ Front(deque[e]) \in Jobs
        /\ Queued(Front(deque[e]))
        /\ \A k \in Jobs : Queued(k)' => Queued(k)
    BY <1>3, <2>1, FrontDequeued DEF Owned
  <2> PICK j \in Jobs : j = Front(deque[e])
    BY <2>2
  <2>3. Queued(j)
    BY <2>2
  <2>4. \A k \in Jobs : SameErrors(k) /\ SameFrame(k) /\ SameJoin(k)
    BY <1>1 DEF SameErrors, SameFrame, SameJoin
  <2> QED
    BY <1>1, <2>1, <2>2, <2>3, <2>4, TracedTaken
<1> QED
  BY <1>2, <1>3

LEMMA TracedSteal ==
    ASSUME Typed, Typed', Owned, Traced, NEW e \in Executors, NEW victim \in Executors,
           Steal(e, victim)
    PROVE  Traced'
<1>1. pc[e] = "steal" /\ UNCHANGED <<child, phase, parent, result>>
  BY DEF Steal, promiseVars
<1>2. CASE deque[victim] = <<>>
  <2>1. pc' = [pc EXCEPT ![e] = "idle"] /\ UNCHANGED <<deque, current, job>>
    BY <1>2 DEF Steal, Goto
  <2>2. ASSUME NEW f \in Executors
        PROVE  \/ pc'[f] = pc[f]
               \/ /\ pc[f] \in InStep => pc'[f] \in InStep
                  /\ \A j \in Jobs : current[f] = j => KnownBy(f, j)'
    BY <1>1, <2>1 DEF Typed, TypeOK, InStep, Completes, KnownBy
  <2> QED
    BY <1>1, <2>1, <2>2, TracedQuiet DEF Queued
<1>3. CASE deque[victim] # <<>>
  <2>1. /\ pc' = [pc EXCEPT ![e] = "take"]
        /\ current' = [current EXCEPT ![e] = Back(deque[victim])]
        /\ deque' = [deque EXCEPT ![victim] = WithoutBack(deque[victim])]
        /\ job' = Stolen(Back(deque[victim]), e)
    BY <1>3 DEF Steal, Goto
  <2>2. /\ Back(deque[victim]) \in Jobs
        /\ Queued(Back(deque[victim]))
        /\ \A k \in Jobs : Queued(k)' => Queued(k)
    BY <1>3, <2>1, BackDequeued DEF Owned
  <2> PICK j \in Jobs : j = Back(deque[victim])
    BY <2>2
  <2>3. Queued(j) /\ job' = Stolen(j, e)
    BY <2>1, <2>2
  <2>4. \A k \in Jobs : SameErrors(k) /\ SameFrame(k) /\ SameJoin(k)
    BY <2>3, StolenErrors, StolenFields, StolenEffect
  <2> QED
    BY <1>1, <2>1, <2>2, <2>3, <2>4, TracedTaken
<1> QED
  BY <1>2, <1>3

LEMMA TracedFork ==
    ASSUME Typed, Typed', Owned, Traced, NEW e \in Executors, NEW j \in Jobs,
           NEW target \in Executors, Fork(e, j, target)
    PROVE  Traced'
<1>0. current[e] \in Jobs
  BY HeldJob DEF Fork, Holding
<1> PICK p \in Jobs : p = current[e]
  BY <1>0
<1>1. /\ pc[e] = "step"
      /\ phase[j] = "unborn"
      /\ phase' = [phase EXCEPT ![j] = "live"]
      /\ parent' = [parent EXCEPT ![j] = p]
      /\ child' = [child EXCEPT ![e] = j]
      /\ pc' = [pc EXCEPT ![e] = "fork"]
      /\ UNCHANGED <<deque, current, result>>
  BY DEF Fork, Goto, dequeVars, promiseVars
<1>2. phase[p] = "live" /\ p # j /\ ~Queued(j) /\ ~Held(j) /\ ~Forking(j)
  BY <1>1, OneHand, PlacedLive
<1>3. /\ job'[j].has_error = FALSE
      /\ job'[j].setup_executed = FALSE
      /\ job'[j].dependency_has_error = FALSE
      /\ job'[j].parent_finished = FALSE
      /\ job'[j].num_all_waiting_jobs = 0
  BY <1>2, ForkErrors, ForkFields, ForkEffect
<1>4. /\ \A k \in Jobs \ {j} : SameErrors(k) /\ SameFrame(k)
      /\ \A k \in Jobs \ {j, p} : SameJoin(k)
      /\ job'[p].parent_finished = job[p].parent_finished
  BY <1>2, ForkErrors, ForkFields, ForkEffect
<1> DEFINE X == {j, p}
<1>5. PastKept
  BY <1>1, <1>4 DEF PastKept, SameErrors, SameFrame, Typed, TypeOK
<1>6. \A f \in Executors : /\ pc'[f] = IF f = e THEN "fork" ELSE pc[f]
                           /\ child'[f] = IF f = e THEN j ELSE child[f]
  BY <1>1 DEF Typed, TypeOK
<1>7. ASSUME NEW k \in Jobs \ X
      PROVE  SameJob(k) /\ (Stepping(k) => Stepping(k)')
  BY <1>1, <1>4, <1>6, <1>7 DEF Typed, TypeOK, SameJob, Stepping, InStep
<1>8. job[p].has_error => LastingCause(p)'
  BY <1>1, <1>2, <1>5, CauseKept DEF Traced, ThreadKnows, KnownBy, InStep
<1>9. ErrorSound(j)'
  <2>1. phase'[j] = "live" /\ parent'[j] = p /\ phase'[p] = "live"
    BY <1>1, <1>2 DEF Typed, TypeOK
  <2>2. result[j] # "error"
    BY <1>1 DEF Traced, ErrorSound
  <2> QED
    BY <1>1, <1>3, <2>1, <2>2 DEF ErrorSound, ErrorArrives
<1>10. ErrorSound(p)'
  <2>1. phase'[p] = "live" /\ parent'[p] = parent[p] /\ ErrorSound(p)
    BY <1>1, <1>2 DEF Typed, TypeOK, Traced
  <2>2. parent[p] # NoJob => phase'[parent[p]] # "unborn"
    BY <1>1, <2>1 DEF ErrorSound, Typed, TypeOK
  <2>3. Stepping(p)'
    BY <1>1, <1>6 DEF Stepping, InStep
  <2> QED
    BY <1>1, <1>2, <1>4, <1>8, <2>1, <2>2, <2>3 DEF ErrorSound, ErrorArrives, SameErrors
<1>11. Fresh(j)'
  BY <1>3 DEF Fresh
<1>12. ASSUME NEW f \in Executors
       PROVE  \/ ThreadKnows(f)'
              \/ SameThread(f) /\ current[f] \notin X /\ child[f] \notin X
  <2>1. CASE f = e
    <3>1. KnownBy(e, p)'
      BY <1>2, <1>4, <1>6, <1>8 DEF KnownBy, Completes, SameErrors
    <3>2. \A k \in Jobs : current'[e] = k => k = p
      BY <1>1
    <3>3. \A k \in Jobs : child'[e] = k => k = j
      BY <1>6
    <3>4. ThreadKnows(e)'
      BY <1>11, <3>1, <3>2, <3>3 DEF ThreadKnows
    <3> QED
      BY <2>1, <3>4
  <2>2. CASE f # e
    BY <1>1, <1>2, <1>6, <2>2, OneHand DEF SameThread, Held, Forking
  <2> QED
    BY <2>1, <2>2
<1>13. \A k \in Jobs : Queued(k)' => (Queued(k) /\ k \notin X) \/ Fresh(k)'
  BY <1>1, <1>2, OneHand DEF Queued
<1> QED
  BY <1>5, <1>7, <1>9, <1>10, <1>12, <1>13, TracedKept

LEMMA TracedInvoke ==
    ASSUME Typed, Typed', Owned, Traced, NEW c \in Clients, NEW j \in Jobs, Invoke(c, j)
    PROVE  Traced'
<1>1. /\ phase[j] = "unborn"
      /\ \E label \in {"live", "pending"} : phase' = [phase EXCEPT ![j] = label]
      /\ result' = [result EXCEPT ![j] = "pending"]
      /\ \/ deque' = [deque EXCEPT ![0] = EnqueueBack(deque[0], j)]
         \/ UNCHANGED deque
      /\ UNCHANGED <<pc, current, child, parent>>
  BY DEF Invoke, threadVars
<1> PICK label \in {"live", "pending"} : phase' = [phase EXCEPT ![j] = label]
  BY <1>1
<1>2. ~Queued(j) /\ ~Held(j) /\ ~Forking(j)
  BY <1>1, PlacedLive
<1>3. /\ job'[j].has_error = FALSE
      /\ job'[j].setup_executed = FALSE
      /\ job'[j].parent_finished = FALSE
      /\ job'[j].num_all_waiting_jobs = 0
      /\ \A k \in Jobs \ {j} : SameErrors(k) /\ SameFrame(k) /\ SameJoin(k)
  BY InvokeErrors, InvokeFields, InvokeEffect
<1> DEFINE X == {j}
<1>4. PastKept
  BY <1>1, <1>3 DEF PastKept, SameErrors, SameFrame, Typed, TypeOK
<1>5. ASSUME NEW k \in Jobs \ X
      PROVE  SameJob(k) /\ (Stepping(k) => Stepping(k)')
  BY <1>1, <1>3, <1>5 DEF Typed, TypeOK, SameJob, Stepping
<1>7. Fresh(j)'
  BY <1>3 DEF Fresh
<1>6. ErrorSound(j)'
  <2>1. phase'[j] = label /\ result'[j] = "pending"
    BY <1>1 DEF Typed, TypeOK
  <2>2. parent[j] = NoJob
    BY <1>1 DEF Owned, UnbornOrphan
  <2> QED
    BY <1>1, <1>3, <2>1, <2>2, <1>7 DEF ErrorSound, ErrorArrives
<1>8. \A k \in Jobs : Queued(k)' => Queued(k) \/ k = j
  <2>1. CASE deque' = [deque EXCEPT ![0] = EnqueueBack(deque[0], j)]
    BY <1>2, <2>1, BackEnqueued, ExecutorsNonempty DEF Owned
  <2>2. CASE UNCHANGED deque
    BY <2>2 DEF Queued
  <2> QED
    BY <1>1, <2>1, <2>2
<1>9. \A f \in Executors : SameThread(f) /\ current[f] \notin X /\ child[f] \notin X
  BY <1>1, <1>2 DEF SameThread, Held, Forking
<1>10. \A k \in Jobs : Queued(k)' => (Queued(k) /\ k \notin X) \/ Fresh(k)'
  BY <1>2, <1>7, <1>8
<1> QED
  BY <1>4, <1>5, <1>6, <1>9, <1>10, TracedKept

LEMMA TracedEnqueueFork ==
    ASSUME Typed, Typed', Owned, Traced, NEW e \in Executors, EnqueueFork(e)
    PROVE  Traced'
<1>0. child[e] \in Jobs
  BY DEF EnqueueFork, Typed, HandsFull
<1> PICK j \in Jobs : j = child[e]
  BY <1>0
<1>1. job[j].executor \in Executors
  BY DEF Typed, TypeOK, JobRecord
<1> PICK t \in Executors : t = job[j].executor
  BY <1>1
<1>2. /\ pc[e] = "fork"
      /\ pc' = [pc EXCEPT ![e] = "signal"]
      /\ child' = [child EXCEPT ![e] = NoJob]
      /\ deque' = [deque EXCEPT ![t] = EnqueueForward(deque[t], j)]
      /\ UNCHANGED <<current, phase, parent, job, result>>
  BY DEF EnqueueFork, Goto, jobVars, promiseVars
<1>3. ~Queued(j)
  BY JobsAssumption DEF Owned, QueuedAtRest, Forking
<1>4. Fresh(j)'
  BY <1>2 DEF Traced, ThreadKnows, Fresh
<1>5. \A k \in Jobs : Queued(k)' => Queued(k) \/ k = j
  BY <1>2, <1>3, FrontEnqueued DEF Owned
<1> PICK X \in SUBSET Jobs : X = {}
  OBVIOUS
<1>6. PastKept
  BY <1>2 DEF PastKept
<1>7. \A f \in Executors : /\ pc'[f] = IF f = e THEN "signal" ELSE pc[f]
                           /\ child'[f] = IF f = e THEN NoJob ELSE child[f]
  BY <1>2 DEF Typed, TypeOK
<1>8. ASSUME NEW k \in Jobs \ X
      PROVE  SameJob(k) /\ (Stepping(k) => Stepping(k)')
  BY <1>2, <1>7, <1>8 DEF SameJob, SameErrors, SameFrame, SameJoin, Stepping, InStep
<1>9. ASSUME NEW f \in Executors
      PROVE  \/ ThreadKnows(f)'
             \/ SameThread(f) /\ current[f] \notin X /\ child[f] \notin X
  <2>1. CASE f = e
    <3>1. ASSUME NEW k \in Jobs, current[e] = k PROVE KnownBy(e, k)'
      <4>1. job[k].has_error => LastingCause(k)
        BY <1>2, <3>1 DEF Traced, ThreadKnows, KnownBy, InStep
      <4>2. LastingCause(k) => LastingCause(k)'
        BY <1>6, <3>1, OneHand, CauseKept
      <4> QED
        BY <1>2, <1>7, <4>1, <4>2 DEF KnownBy, Completes
    <3> QED
      BY <1>2, <1>7, <2>1, <3>1, JobsAssumption DEF ThreadKnows
  <2>2. CASE f # e
    BY <1>2, <1>7, <2>2 DEF SameThread
  <2> QED
    BY <2>1, <2>2
<1>10. \A k \in Jobs : Queued(k)' => (Queued(k) /\ k \notin X) \/ Fresh(k)'
  BY <1>4, <1>5
<1> QED
  BY <1>6, <1>8, <1>9, <1>10, TracedKept

LEMMA TracedRefuseFork ==
    ASSUME Typed, Typed', Owned, Traced, NEW e \in Executors, RefuseFork(e)
    PROVE  Traced'
<1>0. child[e] \in Jobs
  BY DEF RefuseFork, Typed, HandsFull
<1> PICK j \in Jobs : j = child[e]
  BY <1>0
<1>1. /\ pc[e] = "fork"
      /\ pc' = [pc EXCEPT ![e] = "undo"]
      /\ child' = [child EXCEPT ![e] = NoJob]
      /\ phase' = [phase EXCEPT ![j] = "destroyed"]
      /\ UNCHANGED <<deque, current, parent, job, result>>
  BY DEF RefuseFork, Goto, dequeVars, promiseVars
<1>2. /\ phase[j] = "live" /\ ~Held(j) /\ ~Queued(j)
      /\ \A f \in Executors \ {e} : child[f] # j
  BY JobsAssumption
  DEF Owned, ForkedAtRest, AtRest, QueuedAtRest, HandsDisjoint, Forking
<1>3. \A f \in Executors : /\ pc'[f] = IF f = e THEN "undo" ELSE pc[f]
                           /\ child'[f] = IF f = e THEN NoJob ELSE child[f]
  BY <1>1 DEF Typed, TypeOK
<1> DEFINE X == {j}
<1>4. PastKept
  BY <1>1 DEF PastKept, Typed, TypeOK
<1>5. ASSUME NEW k \in Jobs \ X
      PROVE  SameJob(k) /\ (Stepping(k) => Stepping(k)')
  BY <1>1, <1>3, <1>5
  DEF Typed, TypeOK, SameJob, SameErrors, SameFrame, SameJoin, Stepping, InStep
<1>6. ErrorSound(j)'
  <2>1. ~job[j].has_error
    BY DEF Traced, ThreadKnows, Fresh
  <2>2. result[j] # "error" /\ ErrorSound(j)
    BY <1>2, <2>1 DEF Traced, ErrorSound
  <2>3. ~Stepping(j)
    BY <1>2 DEF Stepping, Held
  <2>4. parent[j] # NoJob => phase'[parent[j]] # "unborn"
    <3>1. parent[j] # NoJob => parent[j] \in Jobs
      BY DEF Typed, TypeOK
    <3> QED
      BY <1>4, <2>2, <3>1 DEF ErrorSound, PastKept
  <2>5. phase'[j] = "destroyed"
    BY <1>1 DEF Typed, TypeOK
  <2> QED
    BY <1>1, <2>1, <2>2, <2>3, <2>4, <2>5 DEF ErrorSound, ErrorArrives
<1>7. ASSUME NEW f \in Executors
      PROVE  \/ ThreadKnows(f)'
             \/ SameThread(f) /\ current[f] \notin X /\ child[f] \notin X
  <2>1. CASE f = e
    <3>1. ASSUME NEW k \in Jobs, current[e] = k PROVE KnownBy(e, k)'
      <4>1. job[k].has_error => LastingCause(k)
        BY <1>1, <3>1 DEF Traced, ThreadKnows, KnownBy, InStep
      <4>2. LastingCause(k) => LastingCause(k)'
        BY <1>4, <3>1, OneHand, CauseKept
      <4> QED
        BY <1>1, <1>3, <4>1, <4>2 DEF KnownBy, Completes
    <3> QED
      BY <1>1, <1>3, <2>1, <3>1, JobsAssumption DEF ThreadKnows
  <2>2. CASE f # e
    BY <1>1, <1>2, <1>3, <2>2 DEF SameThread, Held
  <2> QED
    BY <2>1, <2>2
<1>8. \A k \in Jobs : Queued(k)' => (Queued(k) /\ k \notin X) \/ Fresh(k)'
  BY <1>1, <1>2 DEF Queued
<1> QED
  BY <1>4, <1>5, <1>6, <1>7, <1>8, TracedKept

LEMMA TracedCompleteRoot ==
    ASSUME Typed, Typed', Owned, Traced, NEW e \in Executors, CompleteRoot(e)
    PROVE  Traced'
<1>0. current[e] \in Jobs
  BY HeldJob DEF CompleteRoot, Holding
<1> PICK j \in Jobs : j = current[e]
  BY <1>0
<1> DEFINE outcome == IF pc[e] = "finish" THEN "ok" ELSE "error"
<1>1. /\ pc[e] \in {"finish", "abort", "reject"}
      /\ pc' = [pc EXCEPT ![e] = "release"]
      /\ result' = [result EXCEPT ![j] = outcome]
      /\ outcome = "error" <=> pc[e] # "finish"
      /\ UNCHANGED <<deque, current, child, phase, parent, job>>
  BY DEF CompleteRoot, Goto, dequeVars
<1> HIDE DEF outcome
<1>2. \A f \in Executors : pc'[f] = IF f = e THEN "release" ELSE pc[f]
  BY <1>1 DEF Typed, TypeOK
<1> DEFINE X == {j}
<1>3. PastKept
  BY <1>1 DEF PastKept
<1>4. ASSUME NEW k \in Jobs \ X
      PROVE  SameJob(k) /\ (Stepping(k) => Stepping(k)')
  BY <1>1, <1>2, <1>4, OneHand
  DEF Typed, TypeOK, SameJob, SameErrors, SameFrame, SameJoin, Stepping, InStep
<1>5. phase[j] = "live" /\ ErrorSound(j) /\ KnownBy(e, j)
  BY OneHand DEF Traced, ThreadKnows
<1>6. result'[j] = outcome /\ phase'[j] = "live"
  BY <1>1, <1>5 DEF Typed, TypeOK
<1>7. /\ outcome = "error" => job[j].has_error
      /\ job[j].has_error => outcome = "error" \/ HasTrap(j)
  BY <1>1, <1>5 DEF KnownBy
<1>8. ErrorSound(j)'
  <2>1. ~Stepping(j)
    BY <1>1, OneHand DEF Stepping, InStep
  <2>2. LastingCause(j) => LastingCause(j)'
    BY <1>3, <1>5, CauseKept
  <2> QED
    BY <1>1, <1>5, <1>6, <1>7, <2>1, <2>2 DEF ErrorSound, ErrorArrives, LastStepFailed
<1>9. ThreadKnows(e)'
  <2>1. child'[e] = NoJob
    BY <1>1, EmptyHanded
  <2>2. KnownBy(e, j)'
    BY <1>1, <1>2, <1>6, <1>7 DEF KnownBy, InStep, Completes, HasTrap, NumContinuations
  <2> QED
    BY <1>1, <2>1, <2>2, JobsAssumption DEF ThreadKnows
<1>10. ASSUME NEW f \in Executors
       PROVE  \/ ThreadKnows(f)'
              \/ SameThread(f) /\ current[f] \notin X /\ child[f] \notin X
  <2>1. CASE f = e
    BY <1>9, <2>1
  <2>2. CASE f # e
    BY <1>1, <1>2, <2>2, OneHand DEF SameThread
  <2> QED
    BY <2>1, <2>2
<1>11. \A k \in Jobs : Queued(k)' => (Queued(k) /\ k \notin X) \/ Fresh(k)'
  BY <1>1, OneHand DEF Queued
<1> QED
  BY <1>3, <1>4, <1>8, <1>10, <1>11, TracedKept

\* A pending job is told of the error and released or lost.
LEMMA TracedRelease ==
    ASSUME Typed, Typed', Owned, Framed, Traced, NEW e \in Executors, NEW k \in Roots,
           Release(e, k) \/ Lose(e, k)
    PROVE  Traced'
<1>1. /\ k \in Jobs /\ phase[k] = "pending" /\ pc[e] = "release"
      /\ pc' = [pc EXCEPT ![e] = "announce"]
      /\ job' = Told(k, current[e])
      /\ \E label \in {"live", "lost"} : phase' = [phase EXCEPT ![k] = label]
      /\ UNCHANGED <<current, child, parent, result>>
  BY JobsAssumption DEF Release, Lose, AwaitsRootOf, Goto, promiseVars
<1> PICK label \in {"live", "lost"} : phase' = [phase EXCEPT ![k] = label]
  BY <1>1
<1>2. ~Queued(k) /\ ~Held(k) /\ ~Forking(k)
  BY <1>1, PlacedLive
<1>3. /\ job'[k].has_error = job[k].has_error
      /\ job'[k].continuation_result = job[k].continuation_result
      /\ job[k].dependency_has_error => job'[k].dependency_has_error
      /\ \A j \in Jobs \ {k} : SameErrors(j)
      /\ \A j \in Jobs : SameFrame(j) /\ SameJoin(j)
  BY <1>1, ToldErrors, ToldFields, ToldEffect
<1>4. /\ \A j \in Jobs : phase'[j] = IF j = k THEN label ELSE phase[j]
      /\ \A f \in Executors : pc'[f] = IF f = e THEN "announce" ELSE pc[f]
  BY <1>1 DEF Typed, TypeOK
<1> DEFINE X == {k}
<1>5. PastKept
  BY <1>1, <1>3, <1>4 DEF PastKept, SameErrors, SameFrame
<1>6. ASSUME NEW j \in Jobs \ X
      PROVE  SameJob(j) /\ (Stepping(j) => Stepping(j)')
  BY <1>1, <1>3, <1>4, <1>6 DEF SameJob, Stepping, InStep
<1>7. Fresh(k) /\ Fresh(k)'
  BY <1>1, <1>3 DEF Traced, ErrorSound, Fresh, SameFrame
<1>8. ErrorSound(k)'
  <2>1. ErrorSound(k) /\ parent[k] = NoJob
    BY <1>1 DEF Traced, Framed, RecordSound
  <2>2. ~Stepping(k)
    BY <1>2 DEF Stepping, Held
  <2>3. phase'[k] = label
    BY <1>1, <1>4
  <2> QED
    BY <1>1, <1>3, <1>7, <2>1, <2>2, <2>3 DEF ErrorSound, ErrorArrives, Fresh, SameJoin
<1>9. \A j \in Jobs : Queued(j)' => Queued(j) \/ j = k
  <2>1. CASE Release(e, k)
    <3> PICK t \in Executors : t = job[k].executor
      BY <1>1 DEF Typed, TypeOK, JobRecord
    <3>1. deque' = [deque EXCEPT ![t] = EnqueueBack(deque[t], k)]
      BY <2>1 DEF Release
    <3> QED
      BY <1>1, <1>2, <3>1, BackEnqueued DEF Owned
  <2>2. CASE Lose(e, k)
    BY <2>2 DEF Lose, dequeVars, Queued
  <2> QED
    BY <2>1, <2>2
<1>10. ThreadKnows(e)'
  <2>1. child'[e] = NoJob
    BY <1>1, EmptyHanded
  <2>2. ASSUME NEW j \in Jobs, current[e] = j PROVE KnownBy(e, j)'
    <3>1. j # k /\ KnownBy(e, j) /\ pc'[e] = "announce" /\ SameErrors(j)
      BY <1>2, <1>3, <1>4, <2>2 DEF Held, Traced, ThreadKnows
    <3> QED
      BY <1>1, <3>1 DEF KnownBy, InStep, Completes, SameErrors, HasTrap, NumContinuations
  <2> QED
    BY <1>1, <2>1, <2>2, JobsAssumption DEF ThreadKnows
<1>11. ASSUME NEW f \in Executors
       PROVE  \/ ThreadKnows(f)'
              \/ SameThread(f) /\ current[f] \notin X /\ child[f] \notin X
  <2>1. CASE f = e
    BY <1>10, <2>1
  <2>2. CASE f # e
    BY <1>1, <1>2, <1>4, <2>2 DEF SameThread, Held, Forking
  <2> QED
    BY <2>1, <2>2
<1>12. \A j \in Jobs : Queued(j)' => (Queued(j) /\ j \notin X) \/ Fresh(j)'
  BY <1>7, <1>9
<1> QED
  BY <1>1, <1>5, <1>6, <1>8, <1>11, <1>12, TracedKept

LEMMA TracedDestroyRoot ==
    ASSUME Typed, Typed', Owned, Promised, Traced, NEW e \in Executors, DestroyRoot(e)
    PROVE  Traced'
<1>0. current[e] \in Jobs
  BY HeldJob DEF DestroyRoot, Holding
<1> PICK j \in Jobs : j = current[e]
  BY <1>0
<1>1. /\ pc[e] = "release"
      /\ parent[j] = NoJob
      /\ pc' = [pc EXCEPT ![e] = "idle"]
      /\ current' = [current EXCEPT ![e] = NoJob]
      /\ phase' = [phase EXCEPT ![j] = "destroyed"]
      /\ UNCHANGED <<deque, child, parent, job, result>>
  BY DEF DestroyRoot, Goto, dequeVars, promiseVars, Promised, CompletesForRoot, Completes
<1>2. \A f \in Executors : /\ pc'[f] = IF f = e THEN "idle" ELSE pc[f]
                           /\ current'[f] = IF f = e THEN NoJob ELSE current[f]
  BY <1>1 DEF Typed, TypeOK
<1> DEFINE X == {j}
<1>3. phase[j] = "live" /\ ErrorSound(j) /\ KnownBy(e, j)
  BY OneHand DEF Traced, ThreadKnows
<1>4. PastKept
  BY <1>1, <1>3 DEF PastKept, Typed, TypeOK
<1>5. ASSUME NEW k \in Jobs \ X
      PROVE  SameJob(k) /\ (Stepping(k) => Stepping(k)')
  BY <1>1, <1>2, <1>5
  DEF Typed, TypeOK, SameJob, SameErrors, SameFrame, SameJoin, Stepping
<1>6. ErrorSound(j)'
  <2>1. phase'[j] = "destroyed"
    BY <1>1 DEF Typed, TypeOK
  <2>2. ~Stepping(j)
    BY <1>1, OneHand DEF Stepping, InStep
  <2>3. LastingCause(j) => LastingCause(j)'
    BY <1>3, <1>4, CauseKept
  <2>4. job[j].has_error => result[j] = "error" \/ HasTrap(j)
    BY <1>1, <1>3 DEF KnownBy, Completes
  <2> QED
    BY <1>1, <1>3, <2>1, <2>2, <2>3, <2>4
    DEF ErrorSound, ErrorArrives, LastStepFailed, HasTrap, NumContinuations
<1>7. ASSUME NEW f \in Executors
      PROVE  \/ ThreadKnows(f)'
             \/ SameThread(f) /\ current[f] \notin X /\ child[f] \notin X
  <2>1. CASE f = e
    <3>1. child'[e] = NoJob
      BY <1>1, EmptyHanded
    <3> QED
      BY <1>2, <2>1, <3>1, JobsAssumption DEF ThreadKnows
  <2>2. CASE f # e
    BY <1>1, <1>2, <2>2, OneHand DEF SameThread
  <2> QED
    BY <2>1, <2>2
<1>8. \A k \in Jobs : Queued(k)' => (Queued(k) /\ k \notin X) \/ Fresh(k)'
  BY <1>1, OneHand DEF Queued
<1> QED
  BY <1>4, <1>5, <1>6, <1>7, <1>8, TracedKept

LEMMA TracedNotifyParent ==
    ASSUME Typed, Typed', Owned, Framed, Traced, NEW e \in Executors, NotifyParent(e)
    PROVE  Traced'
<1>0. parent[current[e]] \in Jobs /\ current[e] \in Jobs
  BY NotifyParentFields, HeldJob DEF NotifyParent, Holding
<1> PICK j \in Jobs, p \in Jobs : j = current[e] /\ p = parent[j]
  BY <1>0
<1> DEFINE enabled == JoinReady(job[p].parent_finished, job[p].num_all_waiting_jobs,
                                job[p].num_ended_waiting_jobs + 1)
           label == IF enabled THEN AfterLastChild(pc[e]) ELSE "idle"
           heir == IF enabled THEN p ELSE NoJob
<1>1. /\ pc[e] \in Ending
      /\ pc' = [pc EXCEPT ![e] = label]
      /\ current' = [current EXCEPT ![e] = heir]
      /\ phase' = [phase EXCEPT ![j] = "destroyed"]
      /\ UNCHANGED <<deque, child, parent, result>>
  BY DEF NotifyParent, Goto, Ending, dequeVars, promiseVars
<1>2. /\ heir = p => \/ label = "run" /\ pc[e] = "reject"
                     \/ label = "next" /\ job[p].parent_finished
      /\ heir = NoJob => label = "idle"
      /\ heir \in {p, NoJob}
      /\ label \notin InStep
  BY <1>0, JobsAssumption DEF JoinReady, AfterLastChild, InStep
<1> HIDE DEF enabled, label, heir
<1>3. /\ AtRest(j) /\ phase[j] = "live" /\ phase[p] = "live" /\ p # j
      /\ NumChildren[p] # 0
  <2>1. AtRest(j)
    BY <1>1 DEF Owned, HeldAsProgrammed, StateAt, Ending, InStep
  <2>2. phase[p] = "live"
    BY <2>1, JobsAssumption DEF AtRest, Owned, ParentsLive
  <2>3. j \in LiveChildren(p)
    BY <2>1 DEF AtRest, LiveChildren
  <2>4. LiveChildren(j) = {} /\ NumChildren[p] # 0
    BY <2>1, <2>3, NumChildrenType DEF AtRest
  <2> QED
    BY <2>1, <2>2, <2>3, <2>4 DEF AtRest
<1>4. /\ job'[p].has_error <=> job[p].has_error \/ job[j].has_error
      /\ job'[p].continuation_result = job[p].continuation_result
      /\ job'[p].dependency_has_error = job[p].dependency_has_error
      /\ \A k \in Jobs \ {p} : SameErrors(k)
  BY NotifyParentErrors
<1>5. /\ \A k \in Jobs : SameFrame(k)
      /\ \A k \in Jobs \ {p} : SameJoin(k)
      /\ job'[p].parent_finished = job[p].parent_finished
      /\ job'[p].num_all_waiting_jobs = job[p].num_all_waiting_jobs
  BY NotifyParentFields, NotifyParentEffect
<1> DEFINE X == {j, p}
<1>6. PastKept
  <2> SUFFICES ASSUME NEW k \in Jobs, phase[k] # "unborn"
               PROVE  /\ phase'[k] # "unborn"
                      /\ phase[k] = "destroyed" => phase'[k] = "destroyed"
                      /\ parent'[k] = parent[k]
                      /\ job[k].has_error => job'[k].has_error
                      /\ job[k].dependency_has_error => job'[k].dependency_has_error
                      /\ job'[k].setup_executed = job[k].setup_executed
    BY DEF PastKept
  <2>1. CASE k = p
    BY <1>1, <1>3, <1>4, <1>5, <2>1 DEF SameFrame, Typed, TypeOK
  <2>2. CASE k # p
    BY <1>1, <1>4, <1>5, <2>2 DEF SameErrors, SameFrame, Typed, TypeOK
  <2> QED
    BY <2>1, <2>2
<1>7. \A f \in Executors : /\ pc'[f] = IF f = e THEN label ELSE pc[f]
                           /\ current'[f] = IF f = e THEN heir ELSE current[f]
  BY <1>1 DEF Typed, TypeOK
<1>8. \A k \in Jobs \ {j} : Stepping(k) => Stepping(k)'
  BY <1>7 DEF Stepping
<1>9. ASSUME NEW k \in Jobs \ X
      PROVE  SameJob(k) /\ (Stepping(k) => Stepping(k)')
  BY <1>1, <1>4, <1>5, <1>8, <1>9 DEF Typed, TypeOK, SameJob
<1>10. phase'[j] = "destroyed" /\ phase'[p] = "live"
  BY <1>1, <1>3 DEF Typed, TypeOK
<1>11. job[j].has_error => LastingCause(p)'
  <2>1. parent'[j] = p /\ (job'[j].has_error <=> job[j].has_error)
    BY <1>1, <1>3, <1>4 DEF SameErrors
  <2> QED
    BY <1>10, <2>1 DEF LastingCause
<1>12. ErrorSound(j)'
  <2>1. ErrorSound(j) /\ SameErrors(j) /\ SameFrame(j) /\ SameJoin(j)
    BY <1>3, <1>4, <1>5 DEF Traced
  <2>2. ~Stepping(j)
    BY <1>1, OneHand DEF Stepping, InStep, Ending
  <2>3. LastingCause(j) => LastingCause(j)'
    BY <1>3, <1>6, CauseKept
  <2>5. parent[j] # NoJob /\ phase'[parent[j]] # "unborn"
    BY <1>10, JobsAssumption
  <2> QED
    BY <1>1, <1>3, <1>4, <1>10, <2>1, <2>2, <2>3, <2>5
    DEF ErrorSound, ErrorArrives, LastStepFailed, SameErrors, SameFrame, SameJoin
<1>13. ErrorSound(p)'
  <2>1. ErrorSound(p) /\ SameFrame(p)
    BY <1>5 DEF Traced
  <2>2. LastingCause(p) => LastingCause(p)'
    BY <1>3, <1>6, CauseKept
  <2>4. parent[p] # NoJob => phase'[parent[p]] # "unborn"
    BY <1>6, <2>1 DEF ErrorSound, PastKept, Typed, TypeOK
  <2>5. Stepping(p) => Stepping(p)'
    BY <1>3, <1>8
  <2> QED
    BY <1>1, <1>3, <1>4, <1>5, <1>10, <1>11, <2>1, <2>2, <2>4, <2>5, SMTT(30)
    DEF ErrorSound, ErrorArrives, LastStepFailed, SameFrame
<1>14. ThreadKnows(e)'
  <2>1. child'[e] = NoJob
    BY <1>1, EmptyHanded DEF Ending
  <2>2. ASSUME heir = p PROVE KnownBy(e, p)'
    <3>1. job'[p].continuation_frame /\ job'[p].setup_executed
      <4>1. job[p].continuation_frame
        BY <1>3, JobsAssumption DEF Framed, ParentsUnderWay
      <4> QED
        BY <1>5, <4>1 DEF Framed, RecordSound, SameFrame
    <3>2. ASSUME pc[e] = "reject"
          PROVE  job[j].has_error /\ ReasonToRepeat(p)'
      <4>1. job[j].has_error /\ ~job[j].setup_executed
        BY <3>2, JobsAssumption DEF Traced, ThreadKnows, KnownBy, ErrorSound
      <4>2. parent'[j] = p /\ job'[j].has_error /\ ~job'[j].setup_executed
        BY <1>1, <1>3, <1>4, <1>5, <4>1 DEF SameErrors, SameFrame
      <4> QED
        BY <1>10, <4>1, <4>2 DEF ReasonToRepeat, Rejected
    <3> QED
      BY <1>2, <1>4, <1>5, <1>7, <1>11, <2>2, <3>1, <3>2 DEF KnownBy, InStep, Completes
  <2>3. \A k \in Jobs : current'[e] = k => heir = p /\ k = p
    BY <1>2, <1>7, JobsAssumption
  <2> QED
    BY <2>1, <2>2, <2>3, JobsAssumption DEF ThreadKnows
<1>15. ASSUME NEW f \in Executors
       PROVE  \/ ThreadKnows(f)'
              \/ SameThread(f) /\ current[f] \notin X /\ child[f] \notin X
  <2>1. CASE f = e
    BY <1>14, <2>1
  <2>2. CASE f # e
    <3>1. current[f] # j /\ child[f] # j /\ SameThread(f)
      BY <1>1, <1>7, <2>2, OneHand DEF SameThread
    <3>2. child[f] # p
      BY <1>3 DEF Owned, ForkedAtRest, AtRest
    <3>3. CASE current[f] = p
      <4>1. pc[f] \in InStep
        BY <1>3, <3>3 DEF Owned, HeldAsProgrammed, StateAt, AtRest, InStep
      <4>2. job[p].has_error => LastingCause(p)'
        BY <1>3, <1>6, <3>3, <4>1, CauseKept DEF Traced, ThreadKnows, KnownBy
      <4>3. KnownBy(f, p)'
        BY <1>4, <1>11, <3>1, <4>1, <4>2 DEF KnownBy, InStep, Completes, SameThread
      <4>4. \A k \in Jobs : child[f] = k => Fresh(k)'
        <5>1. \A k \in Jobs : child[f] = k => k # p /\ Fresh(k)
          BY <3>2 DEF Traced, ThreadKnows
        <5> QED
          BY <1>4, <1>5, <5>1 DEF Fresh, SameErrors, SameFrame
      <4>5. current'[f] = p /\ child'[f] = child[f]
        BY <3>1, <3>3 DEF SameThread
      <4> QED
        BY <4>3, <4>4, <4>5 DEF ThreadKnows
    <3> QED
      BY <3>1, <3>2, <3>3
  <2> QED
    BY <2>1, <2>2
<1>16. \A k \in Jobs : Queued(k)' => (Queued(k) /\ k \notin X) \/ Fresh(k)'
  BY <1>1, <1>3, OneHand DEF Queued, Owned, QueuedAtRest, AtRest
<1> QED
  BY <1>6, <1>9, <1>12, <1>13, <1>15, <1>16, TracedKept

-----------------------------------------------------------------------------
(* Every step *)

LEMMA TracedExecutorStep ==
    ASSUME Typed, Typed', Owned, Promised, Framed, Traced, NEW e \in Executors, ExecutorStep(e)
    PROVE  Traced'
<1> USE DEF Goto, dequeVars, jobVars, promiseVars
<1> DEFINE Quiet == /\ UNCHANGED <<current, child, phase, parent, result, job>>
                    /\ \A k \in Jobs : Queued(k)' => Queued(k)
           Known == \A f \in Executors :
                       \/ pc'[f] = pc[f]
                       \/ /\ pc[f] \in InStep => pc'[f] \in InStep
                          /\ \A j \in Jobs : current[f] = j => KnownBy(f, j)'
<1>1. Quiet /\ Known => Traced'
  BY TracedQuiet
<1>2. UNCHANGED <<deque, current, child, phase, parent, result, job>> => Quiet
  BY DEF Queued
<1>3. CASE WaitForContext(e) \/ Start(e) \/ Sleep(e) \/ GoStealing(e) \/ Exit(e)
  <2>1. /\ UNCHANGED <<deque, current, child, phase, parent, result, job>>
        /\ pc[e] \notin InStep
        /\ \E label \in {"nap", "idle", "asleep", "steal", "exited"} :
              pc' = [pc EXCEPT ![e] = label]
    BY <1>3 DEF WaitForContext, Start, Sleep, GoStealing, Exit, InStep
  <2>2. Known
    BY <2>1 DEF Typed, TypeOK, KnownBy, InStep, Completes
  <2> QED
    BY <1>1, <1>2, <2>1, <2>2
<1>4. CASE Take(e)
  <2>1. /\ UNCHANGED <<deque, current, child, phase, parent, result, job>>
        /\ pc[e] = "take"
        /\ pc' = [pc EXCEPT ![e] = "run"]
    BY <1>4 DEF Take
  <2>2. \A j \in Jobs : current[e] = j => Fresh(j) /\ ~job[j].continuation_frame
    BY <2>1 DEF Traced, ThreadKnows, KnownBy, Fresh, Framed, RecordSound
  <2>3. Known
    BY <2>1, <2>2 DEF Typed, TypeOK, KnownBy, InStep, Completes, Fresh
  <2> QED
    BY <1>1, <1>2, <2>1, <2>3
<1>5. CASE DequeueLocal(e)
  BY <1>5, TracedDequeueLocal
<1>6. CASE \E victim \in Executors : Steal(e, victim)
  BY <1>6, TracedSteal
<1>7. CASE ExecuteSetup(e)
  BY <1>7, TracedExecuteSetup
<1>8. CASE FailSetup(e)
  BY <1>8, TracedFailSetup
<1>9. CASE BeginStep(e)
  BY <1>9, TracedBeginStep
<1>10. CASE EndJob(e)
  <2>1. /\ UNCHANGED <<deque, current, child, phase, parent, result, job>>
        /\ pc[e] = "run"
        /\ job[current[e]].continuation_index = NumContinuations(current[e])
        /\ pc' = [pc EXCEPT ![e] = "finish"]
    BY <1>10 DEF EndJob
  <2>2. ASSUME NEW j \in Jobs, current[e] = j, job[j].has_error PROVE HasTrap(j)
    <3>1. ~job[j].continuation_frame
      BY <2>1, <2>2, NumContinuationsType DEF Framed, RecordSound
    <3> QED
      BY <2>1, <2>2, <3>1 DEF Traced, ThreadKnows, KnownBy
  <2>3. \A j \in Jobs : current[e] = j => KnownBy(e, j)'
    BY <2>1, <2>2 DEF Typed, TypeOK, KnownBy, InStep, Completes, HasTrap, NumContinuations
  <2>4. Known
    BY <2>1, <2>3 DEF Typed, TypeOK, InStep
  <2> QED
    BY <1>1, <1>2, <2>1, <2>4
<1>11. CASE \E j \in Jobs, target \in Executors : Fork(e, j, target)
  BY <1>11, TracedFork
<1>12. CASE EnqueueFork(e)
  BY <1>12, TracedEnqueueFork
<1>13. CASE RefuseFork(e)
  BY <1>13, TracedRefuseFork
<1>14. CASE UndoFork(e)
  BY <1>14, TracedUndoFork
<1>15. CASE SignalFork(e)
  <2> DEFINE pcs == [pc EXCEPT ![e] = "step"]
  <2>1. /\ pc[e] = "signal" /\ pc' = Woken(pcs)
        /\ UNCHANGED <<deque, current, child, phase, parent, result, job>>
    BY <1>15 DEF SignalFork
  <2>2. \A f \in Executors : pc'[f] = IF f = e THEN "step"
                                      ELSE IF pc[f] = "asleep" THEN "wait"
                                      ELSE IF pc[f] = "nap" THEN "boot" ELSE pc[f]
    BY <2>1 DEF Typed, TypeOK, Woken
  <2>3. \A j \in Jobs : current[e] = j => (job[j].has_error => LastingCause(j))
    BY <2>1 DEF Traced, ThreadKnows, KnownBy, InStep
  <2>4. \A j \in Jobs : LastingCause(j) => LastingCause(j)'
    BY <2>1 DEF LastingCause, HasTrap, NumContinuations
  <2>5. ASSUME NEW f \in Executors
        PROVE  \/ pc'[f] = pc[f]
               \/ /\ pc[f] \in InStep => pc'[f] \in InStep
                  /\ \A j \in Jobs : current[f] = j => KnownBy(f, j)'
    <3>1. CASE f = e
      BY <2>1, <2>2, <2>3, <2>4, <3>1 DEF KnownBy, InStep, Completes
    <3>2. CASE f # e
      BY <2>2, <3>2 DEF KnownBy, InStep, Completes
    <3> QED
      BY <3>1, <3>2
  <2> QED
    BY <1>1, <1>2, <2>1, <2>5
<1>16. CASE \E r \in Result : EndStep(e, r)
  BY <1>16, TracedEndStep
<1>17. CASE \E r \in Result : MoveToNext(e, r)
  BY <1>17, TracedMoveToNext
<1>18. CASE NotifyParent(e)
  BY <1>18, TracedNotifyParent
<1>19. CASE CompleteRoot(e)
  BY <1>19, TracedCompleteRoot
<1>20. CASE \E k \in Roots : Release(e, k) \/ Lose(e, k)
  BY <1>20, TracedRelease
<1>21. CASE Announce(e)
  <2> DEFINE pcs == [pc EXCEPT ![e] = "release"]
  <2>1. /\ pc[e] = "announce" /\ pc' = Woken(pcs)
        /\ UNCHANGED <<deque, current, child, phase, parent, result, job>>
    BY <1>21 DEF Announce
  <2>2. \A f \in Executors : pc'[f] = IF f = e THEN "release"
                                      ELSE IF pc[f] = "asleep" THEN "wait"
                                      ELSE IF pc[f] = "nap" THEN "boot" ELSE pc[f]
    BY <2>1 DEF Typed, TypeOK, Woken
  <2>3. \A j \in Jobs : current[e] = j => (job[j].has_error => result[j] = "error" \/ HasTrap(j))
    BY <2>1 DEF Traced, ThreadKnows, KnownBy, Completes
  <2>4. ASSUME NEW f \in Executors
        PROVE  \/ pc'[f] = pc[f]
               \/ /\ pc[f] \in InStep => pc'[f] \in InStep
                  /\ \A j \in Jobs : current[f] = j => KnownBy(f, j)'
    <3>1. CASE f = e
      BY <2>1, <2>2, <2>3, <3>1 DEF KnownBy, InStep, Completes, HasTrap, NumContinuations
    <3>2. CASE f # e
      BY <2>2, <3>2 DEF KnownBy, InStep, Completes
    <3> QED
      BY <3>1, <3>2
  <2> QED
    BY <1>1, <1>2, <2>1, <2>4
<1>22. CASE DestroyRoot(e)
  BY <1>22, TracedDestroyRoot
<1> QED
  BY <1>3, <1>4, <1>5, <1>6, <1>7, <1>8, <1>9, <1>10, <1>11, <1>12, <1>13, <1>14, <1>15,
     <1>16, <1>17, <1>18, <1>19, <1>20, <1>21, <1>22 DEF ExecutorStep

LEMMA TracedStep ==
    ASSUME Typed, Typed', Owned, Owned', Promised, Framed, Traced, [Next]_vars
    PROVE  Traced'
<1>1. CASE \E e \in Executors : ExecutorStep(e)
  BY <1>1, TracedExecutorStep
<1>2. CASE \E c \in Clients, j \in Jobs : Invoke(c, j)
  BY <1>2, TracedInvoke
<1>3. CASE \/ \E e \in Executors : SpuriousWakeup(e)
           \/ \E c \in Clients : SignalInvoke(c)
           \/ ContextStep \/ BeginDestroy \/ Terminated \/ UNCHANGED vars
  <2>1. /\ UNCHANGED <<deque, current, child, phase, parent, job, result>>
        /\ \A f \in Executors : pc'[f] = pc[f] \/ pc'[f] \in {"boot", "wait"}
    BY <1>3, OtherSteps
  <2>2. ASSUME NEW f \in Executors, pc'[f] \in {"boot", "wait"}
        PROVE  \A j \in Jobs : current[f] # j
    BY <2>1, <2>2, JobsAssumption DEF Owned, HeldAsProgrammed, Holding
  <2>3. ASSUME NEW f \in Executors, pc'[f] # pc[f]
        PROVE  /\ pc[f] \in InStep => pc'[f] \in InStep
               /\ \A j \in Jobs : current[f] = j => KnownBy(f, j)'
    <3>1. \A j \in Jobs : current[f] # j
      BY <2>1, <2>2, <2>3
    <3>2. pc[f] \notin InStep
      BY <3>1 DEF Typed, HandsFull, Holding, InStep
    <3> QED
      BY <3>1, <3>2
  <2> QED
    BY <2>1, <2>3, TracedQuiet DEF Queued
<1> QED
  BY <1>1, <1>2, <1>3 DEF Next

LEMMA TracedInit == Init => Traced
<1> SUFFICES ASSUME Init PROVE Traced
  OBVIOUS
<1>1. \A j \in Jobs : ~job[j].has_error /\ ~job[j].parent_finished
                      /\ job[j].num_all_waiting_jobs = 0
  BY DEF Init, NewJob
<1>2. \A j \in Jobs : ErrorSound(j)
  BY <1>1 DEF Init, ErrorSound, ErrorArrives
<1>3. \A e \in Executors : ThreadKnows(e)
  BY JobsAssumption DEF Init, ThreadKnows
<1>4. QueuedFresh
  BY EmptySeq DEF Init, QueuedFresh, Queued
<1> QED
  BY <1>2, <1>3, <1>4 DEF Traced

LEMMA AlwaysTraced == Spec => []Traced
<1>1. Typed /\ Owned /\ Promised /\ Framed /\ Traced /\ [Next]_vars /\ Typed' /\ Owned' => Traced'
  BY TracedStep
<1> QED
  BY <1>1, TracedInit, AlwaysOwned, AlwaysFramed, PTL DEF Spec

-----------------------------------------------------------------------------
(* The theorems *)

(***************************************************************************)
(* A job that failed hands its error to its parent, and a root that failed *)
(* to its promise unless a trap was there to recover, on whatever path the *)
(* job ended: after its last continuation, on an error, on a failed setup  *)
(* (job.c:126-128, executor.c:188-239).                                    *)
(***************************************************************************)
THEOREM NoErrorIsSwallowed == Spec => []ErrorsReachRoot
<1>1. ASSUME Typed, Owned, Traced PROVE ErrorsReachRoot
  <2> SUFFICES ASSUME NEW j \in Jobs, phase[j] = "destroyed",
                      job[j].has_error \/ LastStepFailed(j)
               PROVE  IF parent[j] = NoJob THEN result[j] = "error" \/ HasTrap(j)
                                           ELSE job[parent[j]].has_error
    BY DEF ErrorsReachRoot
  <2>1. ErrorSound(j) /\ ~Stepping(j)
    BY <1>1, PlacedLive DEF Traced, Stepping, Held
  <2>2. job[j].has_error
    BY <2>1 DEF ErrorSound, LastStepFailed
  <2> QED
    BY <2>1, <2>2 DEF ErrorSound, ErrorArrives
<1> QED
  BY <1>1, AlwaysOwned, AlwaysTraced, PTL

(***************************************************************************)
(* A job that ended in error had a reason: a dependency, its setup, its    *)
(* own last step, a trap, or a child that failed (job.c:126-128,           *)
(* executor.c:188-239).                                                    *)
(***************************************************************************)
THEOREM NoErrorIsInvented == Spec => []ErrorsHaveCause
<1>1. Traced => ErrorsHaveCause
  BY DEF Traced, ErrorSound, LastingCause, ErrorsHaveCause
<1> QED
  BY <1>1, AlwaysTraced, PTL

(***************************************************************************)
(* A step that has ended runs again only when it or its trap asked for it, *)
(* or when a job it forked ended for want of a frame, after which its last *)
(* child's thread passes over move_to_next.  A child that ends in any      *)
(* other way never makes it run again (executor.c:188-239, 267-274).       *)
(***************************************************************************)
THEOREM NoStepRepeatedByMistake == Spec => []RepeatedForReason
<1>1. ASSUME Typed, Traced PROVE RepeatedForReason
  <2> SUFFICES ASSUME NEW e \in Executors, pc[e] = "run", job[current[e]].continuation_frame
               PROVE  ReasonToRepeat(current[e])
    BY DEF RepeatedForReason, ReasonToRepeat
  <2>1. current[e] \in Jobs
    BY <1>1, HeldJob DEF Holding
  <2> QED
    BY <1>1, <2>1 DEF Traced, ThreadKnows, KnownBy
<1> QED
  BY <1>1, AlwaysOwned, AlwaysTraced, PTL
=============================================================================
