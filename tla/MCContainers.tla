---------------------------- MODULE MCContainers ----------------------------
(* A small instance of Containers for TLC. *)
EXTENDS Containers, TLC

CONSTANTS a, b, p, q

\* 1 and 22 share a chain of tables of size 3 and 7, and 4 shares it in the
\* first only.
Handles == {1, 4, 22}

\* Bound: the containers share nothing but the region, so one is exercised at a
\* time.
OneAtATime == ~(Alive /\ TableAlive)
=============================================================================
