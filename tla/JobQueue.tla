------------------------------ MODULE JobQueue ------------------------------
(***************************************************************************)
(* What a deque of jobs promises: the jobs that were put in come out at    *)
(* either end in the order in which they are queued, each once.  An        *)
(* operation may fail for want of memory, and then changes nothing.        *)
(***************************************************************************)
EXTENDS JobSequence

CONSTANTS
    Elements,    \* what can be queued
    Nothing      \* NULL

VARIABLES
    queue,       \* the sequence, empty when there is no deque
    alive,       \* whether there is a deque
    answer       \* what the last operation returned

vars == <<queue, alive, answer>>

Answer(status, element) == [status |-> status, element |-> element]
Failed == Answer(-1, Nothing)
Done == Answer(0, Nothing)

Init ==
    /\ queue = <<>>
    /\ alive = FALSE
    /\ answer = Done

Create ==
    /\ ~alive
    /\ alive' \in BOOLEAN
    /\ answer' = IF alive' THEN Done ELSE Failed
    /\ UNCHANGED queue

Destroy ==
    /\ alive
    /\ alive' = FALSE
    /\ queue' = <<>>
    /\ answer' = IF queue = <<>> THEN Done ELSE Failed

EnqueueAtFront(j) ==
    /\ alive
    /\ \/ queue' = EnqueueForward(queue, j) /\ answer' = Done
       \/ UNCHANGED queue /\ answer' = Failed
    /\ UNCHANGED alive

EnqueueAtBack(j) ==
    /\ alive
    /\ \/ queue' = EnqueueBack(queue, j) /\ answer' = Done
       \/ UNCHANGED queue /\ answer' = Failed
    /\ UNCHANGED alive

DequeueAtFront ==
    /\ alive
    /\ IF queue = <<>>
         THEN UNCHANGED queue /\ answer' = Failed
         ELSE queue' = WithoutFront(queue) /\ answer' = Answer(0, Front(queue))
    /\ UNCHANGED alive

DequeueAtBack ==
    /\ alive
    /\ IF queue = <<>>
         THEN UNCHANGED queue /\ answer' = Failed
         ELSE queue' = WithoutBack(queue) /\ answer' = Answer(0, Back(queue))
    /\ UNCHANGED alive

Next ==
    \/ Create
    \/ Destroy
    \/ \E j \in Elements : EnqueueAtFront(j) \/ EnqueueAtBack(j)
    \/ DequeueAtFront
    \/ DequeueAtBack

Spec == Init /\ [][Next]_vars
=============================================================================
