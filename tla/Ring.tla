-------------------------------- MODULE Ring --------------------------------
(***************************************************************************)
(* The doubly linked ring with a sentinel in which a memory region keeps   *)
(* its blocks (memory_region.c) and a logger its messages (logger.c).  The *)
(* nodes are blocks of memory.                                             *)
(***************************************************************************)
EXTENDS Integers, SequencesExt

CONSTANTS
    NumBlocks,    \* bound: how many blocks the allocator has
    NoBlock       \* NULL

ASSUME RingAssumption ==
    /\ NumBlocks \in Nat \ {0}
    /\ NoBlock \notin 0 .. NumBlocks - 1

Blocks == 0 .. NumBlocks - 1

NoLinks == [next |-> [b \in Blocks |-> NoBlock], prev |-> [b \in Blocks |-> NoBlock]]

\* A ring of its sentinel alone.
NewRing(sentinel) ==
    [next |-> [NoLinks.next EXCEPT ![sentinel] = sentinel],
     prev |-> [NoLinks.prev EXCEPT ![sentinel] = sentinel]]

\* Mutant: the node that was first keeps pointing back at the sentinel.
InsertedOneWay(ring, sentinel, b) ==
    [next |-> [ring.next EXCEPT ![sentinel] = b, ![b] = ring.next[sentinel]],
     prev |-> [ring.prev EXCEPT ![b] = sentinel]]

\* b becomes the node after the sentinel.
Inserted(ring, sentinel, b) ==
    LET next == ring.next[sentinel] IN
    [next |-> [ring.next EXCEPT ![sentinel] = b, ![b] = next],
     prev |-> [ring.prev EXCEPT ![next] = b, ![b] = sentinel]]

Unlinked(ring, b) ==
    LET next == ring.next[b]
        prev == ring.prev[b] IN
    [next |-> [ring.next EXCEPT ![prev] = next, ![b] = NoBlock],
     prev |-> [ring.prev EXCEPT ![next] = prev, ![b] = NoBlock]]

\* The nodes that a walk along `link' meets before it is back at the sentinel.
Walk(link, sentinel) ==
    LET Step(path, i) == IF Last(path) \in {sentinel, NoBlock} THEN path
                         ELSE Append(path, link[Last(path)])
    IN  FoldLeftDomain(Step, <<link[sentinel]>>, [i \in 1 .. NumBlocks |-> i])

Nodes(ring, sentinel) == Front(Walk(ring.next, sentinel))

\* One cycle, the same in both directions, through the given nodes.
IsRing(ring, sentinel, nodes) ==
    /\ Last(Walk(ring.next, sentinel)) = sentinel
    /\ Last(Walk(ring.prev, sentinel)) = sentinel
    /\ Nodes(ring, sentinel) = Reverse(Front(Walk(ring.prev, sentinel)))
    /\ ToSet(Nodes(ring, sentinel)) = nodes
    /\ Len(Nodes(ring, sentinel)) = Cardinality(nodes)
=============================================================================
