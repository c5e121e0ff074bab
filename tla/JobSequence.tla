----------------------------- MODULE JobSequence -----------------------------
(***************************************************************************)
(* A deque of jobs as everybody but deque.c sees it: a sequence, the       *)
(* forward end first, and the four operations on its two ends.             *)
(***************************************************************************)
EXTENDS Integers, Sequences

EnqueueForward(q, j) == <<j>> \o q
EnqueueBack(q, j) == Append(q, j)
Front(q) == Head(q)
WithoutFront(q) == Tail(q)
Back(q) == q[Len(q)]

\* Mutant: a stolen job stays in its deque.
WithoutBackForgotten(q) == q

WithoutBack(q) == SubSeq(q, 1, Len(q) - 1)
=============================================================================
