-------------------------- MODULE MCPromiseManager --------------------------
(* Small instances of PromiseManager for TLC. *)
EXTENDS PromiseManager

CONSTANTS c1, c2, w1, w2

\* A good dependency before one that may be unknown, gone or detached.
Refused == {<<>>, <<1>>, <<1, 2>>, <<2, 1>>}

\* A chain.
Chain == {<<>>, <<1>>, <<2>>}

\* No dependency, a repeated one, and two behind the ignored handle 0.
Joins == {<<>>, <<1, 1>>, <<0, 1, 2>>}

Single == {<<>>}

\* A repeated dependency before an unknown one.
Repeated == {<<>>, <<1, 1, 2>>}
=============================================================================
