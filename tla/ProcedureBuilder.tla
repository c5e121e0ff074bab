-------------------------- MODULE ProcedureBuilder --------------------------
(***************************************************************************)
(* Procedures: the builder that collects continuations of the three kinds  *)
(* the library offers, and the procedure that is made of it (lib/src/      *)
(* procedure_builder.c, procedure.c and the constants of single.c,         *)
(* sequential_for.c and parallel_for.c).  One thread builds, so that every *)
(* call is one action.  Blocks are those of the memory allocator, which    *)
(* returns them cleared, as the default allocator does.                    *)
(***************************************************************************)
EXTENDS SequencesExt, Region

CONSTANTS
    InitialBufferSize,    \* initial_size of armd_procedure_builder_create
    MaxContinuations      \* bound: how many continuations are asked for, the
                          \* one call that may fail included

ASSUME ProcedureBuilderAssumption ==
    /\ InitialBufferSize \in Nat \ {0}
    /\ MaxContinuations \in Nat

VARIABLES
    builder,      \* the ARMD_ProcedureBuilder, or NoBuilder
    procedure,    \* the ARMD_Procedure, or NoProcedure
    requested,    \* what the application asked for successfully
    lost          \* the blocks that failed calls have leaked

buildVars == <<builder, procedure, requested, lost, blocks>>

Kinds == {"single", "sequential_for", "parallel_for"}

\* A slot of a buffer holds a continuation, here its kind, or nothing yet.
EmptySlot == "none"

NoBuilder == [num_continuations |-> 0, continuation_buffer |-> <<>>,
              setup_func |-> FALSE, unwind_func |-> FALSE]
NoProcedure == [continuations |-> <<>>, num_continuations |-> 0,
                setup_func |-> FALSE, unwind_func |-> FALSE]
NothingRequested == [continuations |-> <<>>, setup |-> FALSE, unwind |-> FALSE]

Building == builder # NoBuilder
Built == Len(procedure.continuations) > 0

BufferSize == Len(builder.continuation_buffer)

-----------------------------------------------------------------------------
(* Blocks *)

\* A procedure is itself, its constants and its buffer; a builder likewise.
ProcedureParts == 3

\* Mutant: the procedure of the children is not destroyed.
OuterConstantsBlocks(kind) == IF kind = EmptySlot THEN 0 ELSE 1

\* What the constants of a continuation take: with a parallel_for comes the
\* procedure of its children, of one continuation.
ConstantsBlocks(kind) ==
    CASE kind = EmptySlot -> 0
      [] kind = "parallel_for" -> 1 + ProcedureParts + 1
      [] OTHER -> 1

SumOver(f(_), s) == FoldLeft(LAMBDA sum, x : sum + f(x), 0, s)

\* What the destroyers of the continuations free.
DestroyedBlocks(continuations) == SumOver(ConstantsBlocks, continuations)

\* What was allocated for them.
AllocatedBlocks(kind) == IF kind = "parallel_for" THEN 5 ELSE 1

-----------------------------------------------------------------------------
(* Building *)

BuilderInit ==
    /\ builder = NoBuilder
    /\ procedure = NoProcedure
    /\ requested = NothingRequested
    /\ lost = 0
    /\ blocks = 0

\* armd_procedure_builder_create; if an allocation fails the others are undone.
CreateBuilder ==
    /\ ~Building
    /\ ~Built
    /\ \/ /\ builder' = [NoBuilder EXCEPT
                !.continuation_buffer = [i \in 1 .. InitialBufferSize |-> EmptySlot]]
          /\ Allocate(ProcedureParts)
       \/ UNCHANGED builder /\ NoAllocation
    /\ requested' = NothingRequested
    /\ UNCHANGED <<procedure, lost>>

IsBufferFull(b) == b.num_continuations >= Len(b.continuation_buffer)

\* Mutant: the last continuation is not copied.
ExpandedShort(b) ==
    [i \in 1 .. 2 * Len(b.continuation_buffer) |->
        IF i < b.num_continuations THEN b.continuation_buffer[i] ELSE EmptySlot]

\* expand_buffer
ExpandedBuffer(b) ==
    [i \in 1 .. 2 * Len(b.continuation_buffer) |->
        IF i <= b.num_continuations THEN b.continuation_buffer[i] ELSE EmptySlot]

Roomy(b) == IF IsBufferFull(b) THEN ExpandedBuffer(b) ELSE b.continuation_buffer

\* armd_then_single, armd_then_sequential_for and armd_then_parallel_for: the
\* constants are allocated, then armd_then adds the continuation.  When the
\* buffer cannot be expanded the constants are not given back.  Bound: that
\* happens once.  The code checks none of the allocations before armd_then:
\* they succeed here, those of the children's procedure too.
Then(kind) ==
    /\ Building
    /\ Len(requested.continuations) + (IF lost = 0 THEN 0 ELSE 1) < MaxContinuations
    /\ Allocate(AllocatedBlocks(kind))
    /\ \/ /\ builder' = [builder EXCEPT
                !.continuation_buffer = [Roomy(builder) EXCEPT
                                            ![builder.num_continuations + 1] = kind],
                !.num_continuations = @ + 1]
          /\ requested' = [requested EXCEPT !.continuations = Append(@, kind)]
          /\ UNCHANGED lost
       \/ /\ IsBufferFull(builder)
          /\ lost = 0
          /\ lost' = AllocatedBlocks(kind)
          /\ UNCHANGED <<builder, requested>>
    /\ UNCHANGED procedure

\* armd_setup, which refuses a second function.
Setup ==
    /\ Building
    /\ ~builder.setup_func
    /\ builder' = [builder EXCEPT !.setup_func = TRUE]
    /\ requested' = [requested EXCEPT !.setup = TRUE]
    /\ NoAllocation
    /\ UNCHANGED <<procedure, lost>>

\* armd_unwind, which refuses a second function.
Unwind ==
    /\ Building
    /\ ~builder.unwind_func
    /\ builder' = [builder EXCEPT !.unwind_func = TRUE]
    /\ requested' = [requested EXCEPT !.unwind = TRUE]
    /\ NoAllocation
    /\ UNCHANGED <<procedure, lost>>

\* armd_procedure_builder_destroy
DestroyBuilder ==
    /\ Building
    /\ builder' = NoBuilder
    /\ requested' = NothingRequested
    /\ Free(ProcedureParts
              + DestroyedBlocks(SubSeq(builder.continuation_buffer, 1, builder.num_continuations)))
    /\ UNCHANGED <<procedure, lost>>

\* armd_procedure_builder_build_and_destroy: the procedure takes over what the
\* builder has, except setup_func.  If it cannot be allocated this is DestroyBuilder.
Build ==
    /\ Building
    /\ procedure' = [continuations |-> builder.continuation_buffer,
                     num_continuations |-> builder.num_continuations,
                     setup_func |-> FALSE,
                     unwind_func |-> builder.unwind_func]
    /\ builder' = NoBuilder
    /\ NoAllocation
    /\ UNCHANGED <<requested, lost>>

\* armd_procedure_destroy
DestroyProcedure ==
    /\ Built
    /\ procedure' = NoProcedure
    /\ requested' = NothingRequested
    /\ Free(ProcedureParts
              + DestroyedBlocks(SubSeq(procedure.continuations, 1, procedure.num_continuations)))
    /\ UNCHANGED <<builder, lost>>

BuilderNext ==
    \/ CreateBuilder
    \/ \E kind \in Kinds : Then(kind)
    \/ Setup
    \/ Unwind
    \/ DestroyBuilder
    \/ Build

-----------------------------------------------------------------------------
(* Properties *)

(***************************************************************************)
(* A procedure consists of the continuations that were asked for, in that  *)
(* order, and of the unwind function, however often the buffer has grown   *)
(* and whatever calls have failed in between.                              *)
(***************************************************************************)
BuiltAsRequested ==
    Built => /\ SubSeq(procedure.continuations, 1, procedure.num_continuations)
                  = requested.continuations
             /\ procedure.unwind_func = requested.unwind

(***************************************************************************)
(* Everything that is allocated while building is freed with the builder   *)
(* or with the procedure, the children's procedure included, but for the   *)
(* constants of an armd_then_... that found no memory for a larger buffer, *)
(* which are lost (single.c:54, sequential_for.c:90, parallel_for.c:193).  *)
(***************************************************************************)
BlocksReturned == (~Building /\ ~Built) => blocks = lost

(***************************************************************************)
(* The setup function that was asked for is part of the procedure: "Adds   *)
(* the unwind callback to the procedure", aramid.h says of armd_setup, by  *)
(* which it means this one.                                                *)
(***************************************************************************)
SetupKept == Built => procedure.setup_func = requested.setup
=============================================================================
