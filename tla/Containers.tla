----------------------------- MODULE Containers -----------------------------
(***************************************************************************)
(* The two containers of a context, in one memory region: the table of its *)
(* promises and the deque of an executor (context.c:72, executor.c:355).   *)
(***************************************************************************)
EXTENDS Deque, HashTable

vars == <<deque, deque_answer, table, table_answer, blocks>>

Init ==
    /\ DequeInit
    /\ TableInit
    /\ blocks = 0

Next ==
    \/ DequeNext /\ UNCHANGED tableVars
    \/ TableNext /\ UNCHANGED dequeVars

Spec == Init /\ [][Next]_vars

-----------------------------------------------------------------------------

(***************************************************************************)
(* The region holds what the containers own and nothing else: no node and  *)
(* no buffer is leaked or freed twice by growing, by rehashing, by a       *)
(* failed insertion or by a destruction that finds entries.  The table's   *)
(* share follows its own count, which must therefore agree with its nodes. *)
(***************************************************************************)
BlocksOwned == blocks = DequeBlocks + TableBlocks
=============================================================================
