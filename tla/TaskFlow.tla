------------------------------ MODULE TaskFlow ------------------------------
(***************************************************************************)
(* What the promises of libaramid are for: the task flow model of its      *)
(* README.  Tasks are submitted with the tasks they depend on; a task      *)
(* starts after they have ended and fails if one of them failed; who       *)
(* awaits a task is told its result.  There are no handles, locks,         *)
(* reference counts or threads here.                                       *)
(***************************************************************************)
EXTENDS Naturals

CONSTANT Tasks

VARIABLES
    task,    \* per task, its state, and at the end its result
    after,   \* per task, the tasks it depends on
    told     \* per task, the result its awaiter has been told

vars == <<task, after, told>>

Ended(t) == task[t] \in {"Success", "Error"}

Init ==
    /\ task = [t \in Tasks |-> "none"]
    /\ after = [t \in Tasks |-> {}]
    /\ told = [t \in Tasks |-> "NotFinished"]

Submit(t, deps) ==
    /\ task[t] = "none"
    /\ \A d \in deps : task[d] # "none"
    /\ task' = [task EXCEPT ![t] = "submitted"]
    /\ after' = [after EXCEPT ![t] = deps]
    /\ UNCHANGED told

Start(t) ==
    /\ task[t] = "submitted"
    /\ \A d \in after[t] : Ended(d)
    /\ task' = [task EXCEPT ![t] = "started"]
    /\ UNCHANGED <<after, told>>

End(t, result) ==
    /\ task[t] = "started"
    /\ (\E d \in after[t] : task[d] = "Error") => result = "Error"
    /\ task' = [task EXCEPT ![t] = result]
    /\ UNCHANGED <<after, told>>

Tell(t) ==
    /\ Ended(t)
    /\ told[t] = "NotFinished"
    /\ told' = [told EXCEPT ![t] = task[t]]
    /\ UNCHANGED <<task, after>>

Run(t) == Start(t) \/ \E result \in {"Success", "Error"} : End(t, result)

Next == \E t \in Tasks :
    \/ \E deps \in SUBSET Tasks : Submit(t, deps)
    \/ Run(t)
    \/ Tell(t)

Spec == Init /\ [][Next]_vars

\* Whatever is submitted is run, once the tasks it depends on have ended.
FairSpec == Spec /\ \A t \in Tasks : WF_vars(Run(t))
=============================================================================
