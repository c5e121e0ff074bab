---------------------------- MODULE MemoryRegion ----------------------------
(***************************************************************************)
(* A memory region (lib/src/memory_region.c): every block that is handed   *)
(* out has a header in a ring, so that armd_memory_region_destroy can free *)
(* what is left and say how much that was.  The ring is changed under the  *)
(* region's spinlock; what surrounds the critical section touches only the *)
(* block itself, so that each call is atomic.                              *)
(***************************************************************************)
EXTENDS Ring

\* What a block of memory holds, and Free for one that malloc may hand out.
Free == [kind |-> "free", to |-> NoBlock, id |-> 0]
Holding(kind, to, id) == [kind |-> kind, to |-> to, id |-> id]
Kinds == {"free", "sentinel", "logger", "ring", "node", "element", "message"}
Content == [kind : Kinds, to : Blocks \cup {NoBlock}, id : Nat]

\* The sentinel of a region is its first block; no region, no sentinel.
Sentinel == 0
NoMemory == [heap |-> [b \in Blocks |-> Free], ring |-> NoLinks]
RegionAlive(m) == m.heap[Sentinel].kind = "sentinel"

\* armd_memory_region_create.
NewRegion == [heap |-> [NoMemory.heap EXCEPT ![Sentinel] = Holding("sentinel", NoBlock, 0)],
              ring |-> NewRing(Sentinel)]

\* The block malloc hands out: any free one does, this is the first.
Fresh(m) == CHOOSE b \in Blocks :
                /\ m.heap[b] = Free
                /\ \A c \in Blocks : m.heap[c] = Free => b <= c

\* armd_memory_region_allocate, of a block that is then filled with content.
Allocated(m, content) ==
    LET b == Fresh(m) IN
    [heap |-> [m.heap EXCEPT ![b] = content], ring |-> Inserted(m.ring, Sentinel, b)]

\* armd_memory_region_free.
Freed(m, b) == [heap |-> [m.heap EXCEPT ![b] = Free], ring |-> Unlinked(m.ring, b)]

\* What armd_memory_region_destroy returns.
NonFreedCount(m) == Len(Nodes(m.ring, Sentinel))

InUse(m) == {b \in Blocks : m.heap[b] # Free}
=============================================================================
