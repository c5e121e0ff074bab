--------------------------- MODULE MCWorkStealing ---------------------------
(* Small instances of WorkStealing for TLC. *)
EXTENDS WorkStealing, TLC

CONSTANTS r1, r2, a, b, c1, c2

Succeeds == [results |-> {"Ended"}, traps |-> {"Error"}]
MayFail  == [results |-> {"Ended", "Error"}, traps |-> {"Error"}]
MayLoop  == [results |-> {"Ended", "Error", "Repeat"}, traps |-> {"Error"}]
Trapped  == [results |-> {"Ended", "Error"}, traps |-> {"Ended", "Error"}]

\* Two roots with forked jobs, of which any may fork another.
Nested == (r1 :> <<MayFail>>) @@ (r2 :> <<Succeeds>>)
            @@ (a :> <<Succeeds>>) @@ (b :> <<Succeeds>>)

\* The forked jobs are interchangeable, and so are the clients; used in the run
\* that checks invariants only.
JobSymmetry == Permutations({a, b}) \cup Permutations(Clients)

\* One root with two continuations, the first of which may be repeated.
Errors == (r1 :> <<MayLoop, Succeeds>>) @@ (a :> <<>>) @@ (b :> <<Trapped>>)

\* A root and a forked job that both have a trap in their first continuation.
Traps == (r1 :> <<Trapped, Succeeds>>) @@ (a :> <<Trapped>>)

=============================================================================
