------------------------------- MODULE Region -------------------------------
(***************************************************************************)
(* A memory region as the containers of libaramid use it: how many blocks  *)
(* of it are in use.  MemoryRegion models what a region is made of.        *)
(***************************************************************************)
EXTENDS Integers

VARIABLE blocks

\* armd_memory_region_allocate and armd_memory_region_free, n calls of each.
Allocate(n) == blocks' = blocks + n
Free(n) == blocks' = blocks - n
NoAllocation == UNCHANGED blocks
=============================================================================
