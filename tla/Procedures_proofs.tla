-------------------------- MODULE Procedures_proofs --------------------------
(***************************************************************************)
(* Theorems about ProcedureBuilder and Procedures: what a builder collects *)
(* is what the procedure consists of and gives back, and a job runs each   *)
(* loop completely or fails, for any number of continuations, executors    *)
(* and iterations.                                                         *)
(***************************************************************************)
EXTENDS Procedures, InductionLemmas, SequenceTheorems

-----------------------------------------------------------------------------
(* The builder *)

Slots == Kinds \cup {EmptySlot}

BuilderType == [num_continuations : Nat, continuation_buffer : Seq(Slots),
                setup_func : BOOLEAN, unwind_func : BOOLEAN]
ProcedureType == [continuations : Seq(Slots), num_continuations : Nat,
                  setup_func : BOOLEAN, unwind_func : BOOLEAN]
RequestType == [continuations : Seq(Kinds), setup : BOOLEAN, unwind : BOOLEAN]

BuilderTyped ==
    /\ builder \in BuilderType
    /\ procedure \in ProcedureType
    /\ requested \in RequestType
    /\ lost \in Nat
    /\ blocks \in Int

\* The first n slots hold what was requested.
Holds(slots, n, kinds) ==
    /\ n = Len(kinds)
    /\ n <= Len(slots)
    /\ n <= MaxContinuations
    /\ \A i \in 1 .. n : slots[i] = kinds[i]

(***************************************************************************)
(* BuiltAsRequested is not inductive: that the buffer has the              *)
(* continuations is known of the builder before it is of the procedure.    *)
(***************************************************************************)
BuilderSound ==
    /\ Building => /\ ~Built
                   /\ Len(builder.continuation_buffer) > 0
                   /\ Holds(builder.continuation_buffer, builder.num_continuations,
                            requested.continuations)
                   /\ builder.unwind_func <=> requested.unwind
    /\ Built => /\ Holds(procedure.continuations, procedure.num_continuations,
                         requested.continuations)
                /\ procedure.unwind_func <=> requested.unwind
    /\ procedure.setup_func = FALSE

BuilderInv == BuilderTyped /\ BuilderSound

\* What is allocated, lost blocks included.
BlocksCounted ==
    blocks = IF Building \/ Built
               THEN lost + (ProcedureParts + DestroyedBlocks(requested.continuations))
               ELSE lost

LEMMA ConstantsHave ==
    /\ NoBuilder \in BuilderType /\ NoProcedure \in ProcedureType
    /\ NothingRequested \in RequestType
    /\ Len(NoProcedure.continuations) = 0
    /\ Len(NoBuilder.continuation_buffer) = 0
    /\ NothingRequested.continuations = <<>> /\ Len(NothingRequested.continuations) = 0
    /\ NothingRequested.unwind = FALSE
    /\ NoProcedure.setup_func = FALSE
<1>1. <<>> \in Seq(Slots) /\ <<>> \in Seq(Kinds) /\ Len(<<>>) = 0
  BY EmptySeq
<1> QED
  BY <1>1 DEF NoBuilder, NoProcedure, NothingRequested, BuilderType, ProcedureType, RequestType

LEMMA BuilderInvInit == Init => BuilderInv
<1> SUFFICES ASSUME Init PROVE BuilderInv
  OBVIOUS
<1>1. /\ builder = NoBuilder /\ procedure = NoProcedure /\ requested = NothingRequested
      /\ lost = 0 /\ blocks = 0
  BY DEF Init, BuilderInit
<1>2. BuilderTyped
  <2>1. builder \in BuilderType /\ procedure \in ProcedureType /\ requested \in RequestType
    BY <1>1, ConstantsHave
  <2>2. lost \in Nat
    BY <1>1
  <2>3. blocks \in Int
    BY <1>1
  <2> QED
    BY <2>1, <2>2, <2>3 DEF BuilderTyped
<1>3. ~Building /\ ~Built
  BY <1>1, ConstantsHave DEF Building, Built
<1> QED
  BY <1>1, <1>2, <1>3, ConstantsHave DEF BuilderInv, BuilderSound

\* The buffer a continuation is added to has room for it and nothing else changed.
LEMMA RoomyBuffer ==
    ASSUME BuilderInv, Building
    PROVE  /\ Roomy(builder) \in Seq(Slots)
           /\ builder.num_continuations + 1 \in 1 .. Len(Roomy(builder))
           /\ \A i \in 1 .. builder.num_continuations :
                 Roomy(builder)[i] = builder.continuation_buffer[i]
<1> DEFINE s == builder.continuation_buffer
           n == builder.num_continuations
<1>1. s \in Seq(Slots) /\ Len(s) \in Nat \ {0} /\ n \in Nat /\ n <= Len(s)
  BY DEF BuilderInv, BuilderTyped, BuilderType, ProcedureType, RequestType, BuilderSound, Holds
<1>2. CASE ~IsBufferFull(builder)
  BY <1>1, <1>2 DEF Roomy, IsBufferFull
<1>3. CASE IsBufferFull(builder)
  <2> DEFINE t == [i \in 1 .. 2 * Len(s) |-> IF i <= n THEN s[i] ELSE EmptySlot]
  <2>1. \A i \in 1 .. 2 * Len(s) : (IF i <= n THEN s[i] ELSE EmptySlot) \in Slots
    BY <1>1, ElementOfSeq DEF Slots
  <2>2. t \in [1 .. 2 * Len(s) -> Slots]
    BY <2>1
  <2>3. t \in Seq(Slots) /\ Len(t) = 2 * Len(s)
    BY <1>1, <2>2, SeqDef
  <2>4. Roomy(builder) = t
    BY <1>3 DEF Roomy, ExpandedBuffer
  <2> QED
    BY <1>1, <2>3, <2>4
<1> QED
  BY <1>2, <1>3

LEMMA BuilderThen ==
    ASSUME BuilderInv, NEW kind \in Kinds, Then(kind)
    PROVE  BuilderInv'
<1> DEFINE s == Roomy(builder)
           n == builder.num_continuations
           t == [s EXCEPT ![n + 1] = kind]
           r == Append(requested.continuations, kind)
<1>1. /\ s \in Seq(Slots) /\ n \in Nat /\ n + 1 \in 1 .. Len(s) /\ Len(s) \in Nat
      /\ \A i \in 1 .. n : s[i] = builder.continuation_buffer[i]
  BY RoomyBuffer DEF Then, BuilderInv, BuilderTyped, BuilderType
<1>2. /\ Building /\ ~Built /\ UNCHANGED procedure
      /\ Len(requested.continuations) < MaxContinuations
      /\ lost' \in Nat /\ blocks' \in Int
  <2>1. AllocatedBlocks(kind) \in Nat /\ blocks \in Int /\ lost \in Nat
    BY DEF AllocatedBlocks, BuilderInv, BuilderTyped
  <2>2. /\ blocks' = blocks + AllocatedBlocks(kind)
        /\ lost' = lost \/ lost' = AllocatedBlocks(kind)
    BY DEF Then, Allocate
  <2>3. Building /\ UNCHANGED procedure /\ Len(requested.continuations) < MaxContinuations
    <3>1. Building /\ UNCHANGED procedure
      BY DEF Then
    <3>2. Len(requested.continuations) + (IF lost = 0 THEN 0 ELSE 1) < MaxContinuations
      BY DEF Then
    <3>3. Len(requested.continuations) \in Nat
      BY LenProperties DEF BuilderInv, BuilderTyped, RequestType
    <3>4. MaxContinuations \in Nat
      BY ProcedureBuilderAssumption
    <3>5. Len(requested.continuations) < MaxContinuations
      <4> DEFINE l == Len(requested.continuations)
                 f == IF lost = 0 THEN 0 ELSE 1
      <4>1. f \in Nat /\ l \in Nat /\ l + f < MaxContinuations
        BY <3>2, <3>3
      <4> HIDE DEF l, f
      <4>2. l < MaxContinuations
        BY <3>4, <4>1
      <4> QED
        BY <4>2 DEF l
    <3> QED
      BY <3>1, <3>5
  <2>4. lost' \in Nat
    BY ONLY <2>1, <2>2
  <2>5. blocks' \in Int
    BY ONLY <2>1, <2>2
  <2>6. ~Built
    BY <2>3 DEF BuilderInv, BuilderSound
  <2> QED
    BY <2>3, <2>4, <2>5, <2>6
<1>3. CASE UNCHANGED <<builder, requested>>
  BY <1>2, <1>3 DEF BuilderInv, BuilderTyped, BuilderSound, Building, Built
<1>4. CASE /\ builder' = [builder EXCEPT !.continuation_buffer = t, !.num_continuations = n + 1]
           /\ requested' = [requested EXCEPT !.continuations = r]
  <2>1. t \in Seq(Slots) /\ Len(t) = Len(s) /\ t[n + 1] = kind /\ \A i \in 1 .. n : t[i] = s[i]
    <3>1. kind \in Slots /\ s \in [1 .. Len(s) -> Slots]
      BY <1>1, LenProperties DEF Slots
    <3>2. t \in [1 .. Len(s) -> Slots]
      BY <1>1, <3>1
    <3>3. t \in Seq(Slots) /\ Len(t) = Len(s)
      BY <1>1, <3>2, SeqDef
    <3> QED
      BY <1>1, <3>1, <3>3
  <2>2. requested.continuations \in Seq(Kinds) /\ Len(requested.continuations) = n
    BY <1>2 DEF BuilderInv, BuilderTyped, BuilderType, RequestType, BuilderSound, Holds
  <2>3. /\ r \in Seq(Kinds) /\ Len(r) = n + 1 /\ r[n + 1] = kind
        /\ \A i \in 1 .. n : r[i] = requested.continuations[i]
    BY <2>2, AppendProperties
  <2>4. \A i \in 1 .. n : s[i] = requested.continuations[i]
    BY <1>1, <1>2 DEF BuilderInv, BuilderSound, Holds
  <2>5. Holds(t, n + 1, r)
    <3>1. \A i \in 1 .. n + 1 : i \in 1 .. n \/ i = n + 1
      BY <1>1
    <3>2. n + 1 <= MaxContinuations
      BY <1>1, <1>2, <2>2, ProcedureBuilderAssumption
    <3> HIDE DEF t, r, s, n
    <3>3. \A i \in 1 .. n + 1 : t[i] = r[i]
      BY <2>1, <2>3, <2>4, <3>1
    <3> QED
      BY <1>1, <2>1, <2>3, <3>2, <3>3 DEF Holds
  <2> HIDE DEF t, r, s
  <2>6. /\ builder'.continuation_buffer = t /\ builder'.num_continuations = n + 1
        /\ builder'.unwind_func = builder.unwind_func
        /\ requested'.continuations = r /\ requested'.unwind = requested.unwind
    BY <1>4 DEF BuilderInv, BuilderTyped, BuilderType, ProcedureType, RequestType
  <2>7. BuilderTyped'
    <3> DEFINE m == n + 1
    <3>1. m \in Nat
      BY <1>1
    <3> HIDE DEF m
    <3>2. builder' = [builder EXCEPT !.continuation_buffer = t, !.num_continuations = m]
      BY <1>4 DEF m
    <3> QED
      BY <1>2, <1>4, <2>1, <2>3, <3>1, <3>2
         DEF BuilderInv, BuilderTyped, BuilderType, ProcedureType, RequestType
  <2>8. Len(t) > 0
    BY <1>1, <2>1
  <2>9. builder.unwind_func <=> requested.unwind
    BY <1>2 DEF BuilderInv, BuilderSound
  <2>10. ~Built'
    BY <1>2 DEF Built
  <2>11. procedure'.setup_func = FALSE
    BY <1>2 DEF BuilderInv, BuilderSound
  <2> QED
    BY <1>2, <2>5, <2>6, <2>7, <2>8, <2>9, <2>10, <2>11 DEF BuilderInv, BuilderSound
<1> QED
  BY <1>3, <1>4 DEF Then

-----------------------------------------------------------------------------
(* Blocks *)

\* h adds up what the destroyers of the first elements of s free.
AddsUp(h, s) == h[0] = 0 /\ \A i \in 1 .. Len(s) : h[i] = h[i - 1] + ConstantsBlocks(s[i])

LEMMA ConstantsBlocksType ==
    \A kind \in Kinds :
        ConstantsBlocks(kind) \in Nat /\ ConstantsBlocks(kind) = AllocatedBlocks(kind)
  BY DEF Kinds, ConstantsBlocks, AllocatedBlocks, ProcedureParts, EmptySlot

\* The recursive function of the fold exists, and adds up one by one.
LEMMA DestroyedAddsUp ==
    ASSUME NEW s \in Seq(Kinds)
    PROVE  \E h : h[Len(s)] = DestroyedBlocks(s) /\ AddsUp(h, s)
<1> DEFINE n == Len(s)
           f[d \in SUBSET DOMAIN s] ==
               IF d = {} THEN 0 ELSE f[d \ {Max(d)}] + ConstantsBlocks(s[Max(d)])
<1>1. DestroyedBlocks(s) = f[DOMAIN s]
  BY DEF DestroyedBlocks, SumOver, FoldLeft, MapThenFoldSet
<1>2. n \in Nat /\ DOMAIN s = 1 .. n /\ \A i \in 1 .. n : ConstantsBlocks(s[i]) \in Int
  BY LenProperties, ElementOfSeq, ConstantsBlocksType
<1>3. f = [d \in SUBSET DOMAIN s |->
              IF d = {} THEN 0 ELSE f[d \ {Max(d)}] + ConstantsBlocks(s[Max(d)])]
  <2> DEFINE st == [p \in (1 .. n) \X Int |-> p[2] + ConstantsBlocks(s[p[1]])]
  <2>1. st \in [(1 .. n) \X Int -> Int]
    BY <1>2
  <2>2. PICK g \in [SUBSET (1 .. n) -> Int] : FoldsOver(g, n, 0, st)
    <3> DEFINE B == Int
    <3>1. st \in [(1 .. n) \X B -> B] /\ 0 \in B /\ n \in Nat
      BY <1>2, <2>1
    <3> HIDE DEF st, B
    <3>2. \E g \in [SUBSET (1 .. n) -> B] : FoldsOver(g, n, 0, st)
      BY <3>1, FoldExists
    <3> QED
      BY <3>2 DEF B
  <2>3. \A d \in SUBSET (1 .. n) : d # {} =>
            st[<<Max(d), g[d \ {Max(d)}]>>] = g[d \ {Max(d)}] + ConstantsBlocks(s[Max(d)])
    <3>1. \A d \in SUBSET (1 .. n) : d # {} => Max(d) \in 1 .. n
      BY <1>2, MaxOfNumbers
    <3> QED
      BY <3>1
  <2>4. g = [d \in SUBSET (1 .. n) |->
                IF d = {} THEN 0 ELSE g[d \ {Max(d)}] + ConstantsBlocks(s[Max(d)])]
    BY <2>2, <2>3 DEF FoldsOver
  <2>5. g = [d \in SUBSET DOMAIN s |->
                IF d = {} THEN 0 ELSE g[d \ {Max(d)}] + ConstantsBlocks(s[Max(d)])]
    BY <1>2, <2>4
  <2> QED
    BY <2>5
<1> HIDE DEF f
<1> DEFINE A == {f[d] : d \in SUBSET (1 .. n)}
           st == [p \in (1 .. n) \X A |-> p[2] + ConstantsBlocks(s[p[1]])]
<1>4. f \in [SUBSET (1 .. n) -> A]
  BY <1>2, <1>3
<1>5. \A d \in SUBSET (1 .. n) : d # {} =>
          st[<<Max(d), f[d \ {Max(d)}]>>] = f[d \ {Max(d)}] + ConstantsBlocks(s[Max(d)])
  <2>1. \A d \in SUBSET (1 .. n) : d # {} => Max(d) \in 1 .. n
    BY <1>2, MaxOfNumbers
  <2> QED
    BY <2>1
<1>6. FoldsOver(f, n, 0, st)
  BY <1>2, <1>3, <1>5 DEF FoldsOver
<1>7. PICK h \in [0 .. n -> A] : h[n] = f[1 .. n] /\ StepsUpTo(h, n, 0, st)
  <2> HIDE DEF st, A
  <2> QED
    BY <1>2, <1>4, <1>6, FoldSteps
<1>8. AddsUp(h, s)
  <2>1. h[0] = 0 /\ \A i \in 1 .. n : h[i] = st[<<i, h[i - 1]>>]
    BY <1>7 DEF StepsUpTo
  <2>2. \A i \in 1 .. n : st[<<i, h[i - 1]>>] = h[i - 1] + ConstantsBlocks(s[i])
    <3>1. \A i \in 1 .. n : h[i - 1] \in A
      BY <1>2
    <3> QED
      BY <3>1
  <2> QED
    BY <2>1, <2>2 DEF AddsUp
<1> QED
  BY <1>1, <1>2, <1>7, <1>8

LEMMA DestroyedNothing == DestroyedBlocks(<<>>) = 0
<1>1. <<>> \in Seq(Kinds) /\ Len(<<>>) = 0
  BY EmptySeq
<1> QED
  BY <1>1, DestroyedAddsUp DEF AddsUp

LEMMA DestroyedType ==
    ASSUME NEW s \in Seq(Kinds)
    PROVE  DestroyedBlocks(s) \in Int
<1>1. PICK h : h[Len(s)] = DestroyedBlocks(s) /\ AddsUp(h, s)
  BY DestroyedAddsUp
<1>2. Len(s) \in Nat /\ \A i \in 1 .. Len(s) : ConstantsBlocks(s[i]) \in Nat
  BY LenProperties, ElementOfSeq, ConstantsBlocksType
<1> DEFINE S == {i \in 0 .. Len(s) : h[i] \in Int}
<1>3. 0 \in S /\ \A i \in 0 .. Len(s) - 1 : i \in S => i + 1 \in S
  <2>1. 0 \in S
    BY <1>1, <1>2 DEF AddsUp
  <2>2. ASSUME NEW i \in 0 .. Len(s) - 1, i \in S PROVE i + 1 \in S
    <3>1. h[i + 1] = h[(i + 1) - 1] + ConstantsBlocks(s[i + 1])
      BY <1>1, <1>2 DEF AddsUp
    <3>2. (i + 1) - 1 = i /\ ConstantsBlocks(s[i + 1]) \in Nat
      BY <1>2
    <3> QED
      BY <1>2, <2>2, <3>1, <3>2
  <2> QED
    BY <2>1, <2>2
<1> HIDE DEF S
<1>4. \A i \in 0 .. Len(s) : i \in S
  BY <1>2, <1>3, InductionUpTo
<1> QED
  BY <1>1, <1>2, <1>4 DEF S

\* What a further continuation adds.
LEMMA DestroyedOneMore ==
    ASSUME NEW s \in Seq(Kinds), NEW kind \in Kinds
    PROVE  DestroyedBlocks(Append(s, kind)) = DestroyedBlocks(s) + AllocatedBlocks(kind)
<1> DEFINE t == Append(s, kind)
           n == Len(s)
<1>1. /\ t \in Seq(Kinds) /\ Len(t) = n + 1 /\ t[n + 1] = kind /\ n \in Nat
      /\ \A i \in 1 .. n : t[i] = s[i]
  BY AppendProperties, LenProperties
<1> HIDE DEF t
<1>2. PICK h : h[n] = DestroyedBlocks(s) /\ AddsUp(h, s)
  BY DestroyedAddsUp
<1>3. PICK g : g[n + 1] = DestroyedBlocks(t) /\ AddsUp(g, t)
  <2>1. \E g : g[Len(t)] = DestroyedBlocks(t) /\ AddsUp(g, t)
    BY <1>1, DestroyedAddsUp
  <2> QED
    BY <1>1, <2>1
<1> DEFINE S == {i \in 0 .. n : g[i] = h[i]}
<1>4. 0 \in S /\ \A i \in 0 .. n - 1 : i \in S => i + 1 \in S
  <2>1. 0 \in S
    BY <1>1, <1>2, <1>3 DEF AddsUp
  <2>2. ASSUME NEW i \in 0 .. n - 1, i \in S PROVE i + 1 \in S
    <3>1. h[i + 1] = h[(i + 1) - 1] + ConstantsBlocks(s[i + 1])
      BY <1>1, <1>2 DEF AddsUp
    <3>2. g[i + 1] = g[(i + 1) - 1] + ConstantsBlocks(t[i + 1])
      BY <1>1, <1>3 DEF AddsUp
    <3>3. (i + 1) - 1 = i /\ t[i + 1] = s[i + 1]
      BY <1>1
    <3> QED
      BY <1>1, <2>2, <3>1, <3>2, <3>3
  <2> QED
    BY <2>1, <2>2
<1> HIDE DEF S
<1>5. g[n] = h[n]
  <2>1. \A i \in 0 .. n : i \in S
    BY <1>1, <1>4, InductionUpTo
  <2> QED
    BY <1>1, <2>1 DEF S
<1>6. g[n + 1] = g[(n + 1) - 1] + ConstantsBlocks(t[n + 1]) /\ (n + 1) - 1 = n
  BY <1>1, <1>3 DEF AddsUp
<1> QED
  BY <1>1, <1>2, <1>3, <1>5, <1>6, ConstantsBlocksType DEF t

-----------------------------------------------------------------------------
(* The steps of the builder *)

\* What was requested is what the slots that are in use hold.
LEMMA HeldIsSubSeq ==
    ASSUME NEW slots \in Seq(Slots), NEW kinds \in Seq(Kinds), NEW n, Holds(slots, n, kinds)
    PROVE  SubSeq(slots, 1, n) = kinds
<1>1. n \in Nat /\ n = Len(kinds) /\ \A i \in 1 .. n : slots[i] = kinds[i]
  BY LenProperties DEF Holds
<1>2. \A i \in 1 .. n : slots[i] \in Kinds
  BY <1>1, ElementOfSeq
<1>3. /\ SubSeq(slots, 1, n) \in Seq(Kinds)
      /\ Len(SubSeq(slots, 1, n)) = IF 1 <= n THEN n - 1 + 1 ELSE 0
      /\ \A i \in 1 .. n - 1 + 1 : SubSeq(slots, 1, n)[i] = slots[1 + i - 1]
  BY <1>1, <1>2, SubSeqProperties
<1>4. Len(SubSeq(slots, 1, n)) = n /\ \A i \in 1 .. n : SubSeq(slots, 1, n)[i] = kinds[i]
  BY <1>1, <1>3
<1> QED
  BY <1>1, <1>3, <1>4, SeqEqual

LEMMA BuilderHolds ==
    ASSUME BuilderInv, Building
    PROVE  SubSeq(builder.continuation_buffer, 1, builder.num_continuations)
             = requested.continuations
<1>1. /\ builder.continuation_buffer \in Seq(Slots)
      /\ requested.continuations \in Seq(Kinds)
      /\ Holds(builder.continuation_buffer, builder.num_continuations, requested.continuations)
  BY DEF BuilderInv, BuilderTyped, BuilderSound, BuilderType, RequestType
<1> QED
  BY <1>1, HeldIsSubSeq

LEMMA ProcedureHolds ==
    ASSUME BuilderInv, Built
    PROVE  SubSeq(procedure.continuations, 1, procedure.num_continuations)
             = requested.continuations
<1>1. /\ procedure.continuations \in Seq(Slots)
      /\ requested.continuations \in Seq(Kinds)
      /\ Holds(procedure.continuations, procedure.num_continuations, requested.continuations)
  BY DEF BuilderInv, BuilderTyped, BuilderSound, ProcedureType, RequestType
<1> QED
  BY <1>1, HeldIsSubSeq

LEMMA BuilderCreate ==
    ASSUME BuilderInv, CreateBuilder
    PROVE  BuilderInv' /\ (BlocksCounted => BlocksCounted')
<1> DEFINE t == [i \in 1 .. InitialBufferSize |-> EmptySlot]
<1>1. /\ ~Building /\ ~Built /\ ~Built' /\ procedure' = procedure /\ lost' = lost
      /\ requested' = NothingRequested
  BY DEF CreateBuilder, Built
<1>2. t \in Seq(Slots) /\ Len(t) = InitialBufferSize /\ Len(t) > 0
  <2>1. t \in [1 .. InitialBufferSize -> Slots]
    BY DEF Slots
  <2> QED
    BY <2>1, ProcedureBuilderAssumption, SeqDef
<1> HIDE DEF t
<1>3. requested'.continuations = <<>> /\ DestroyedBlocks(requested'.continuations) = 0
  BY <1>1, ConstantsHave, DestroyedNothing
<1>4. blocks \in Int
  BY DEF BuilderInv, BuilderTyped
<1>5. procedure'.setup_func = FALSE
  BY <1>1 DEF BuilderInv, BuilderSound
<1>6. CASE builder' = [NoBuilder EXCEPT !.continuation_buffer = t] /\ Allocate(ProcedureParts)
  <2>1. /\ builder'.continuation_buffer = t /\ builder'.num_continuations = 0
        /\ builder'.unwind_func = FALSE /\ builder' \in BuilderType
    BY <1>2, <1>6 DEF NoBuilder, BuilderType
  <2>2. blocks' = blocks + 3 /\ blocks' \in Int
    BY <1>4, <1>6 DEF Allocate, ProcedureParts
  <2>3. BuilderTyped'
    BY <1>1, <2>1, <2>2, ConstantsHave DEF BuilderInv, BuilderTyped
  <2>4. Holds(t, 0, NothingRequested.continuations)
    BY <1>2, ConstantsHave, ProcedureBuilderAssumption DEF Holds
  <2>5. BuilderSound'
    BY <1>1, <1>2, <1>5, <2>1, <2>4, ConstantsHave DEF BuilderSound
  <2>6. Building'
    BY <1>2, <2>1, ConstantsHave DEF Building
  <2>7. ASSUME BlocksCounted PROVE blocks' = lost' + (ProcedureParts + 0)
    BY <1>1, <1>4, <2>2, <2>7 DEF BlocksCounted, ProcedureParts, BuilderInv, BuilderTyped
  <2> QED
    BY <1>3, <2>3, <2>5, <2>6, <2>7 DEF BuilderInv, BlocksCounted
<1>7. CASE UNCHANGED <<builder, blocks>>
  <2>1. BuilderTyped'
    BY <1>1, <1>7, ConstantsHave DEF BuilderInv, BuilderTyped
  <2>2. ~Building'
    BY <1>1, <1>7 DEF Building
  <2> QED
    BY <1>1, <1>7, <2>1, <2>2 DEF BuilderInv, BuilderSound, BlocksCounted
<1> QED
  BY <1>6, <1>7 DEF CreateBuilder, NoAllocation, t

LEMMA BlocksThen ==
    ASSUME BuilderInv, BlocksCounted, NEW kind \in Kinds, Then(kind)
    PROVE  BlocksCounted'
<1>1. Building /\ blocks \in Int /\ requested.continuations \in Seq(Kinds)
  BY DEF Then, BuilderInv, BuilderTyped, RequestType
<1>2. blocks' = blocks + AllocatedBlocks(kind)
  BY DEF Then, Allocate
<1>3. CASE /\ lost = 0 /\ lost' = AllocatedBlocks(kind)
           /\ UNCHANGED <<builder, requested>>
  <2>1. Building'
    BY <1>1, <1>3 DEF Building
  <2>2. AllocatedBlocks(kind) \in Int /\ ProcedureParts \in Int
    BY DEF AllocatedBlocks, ProcedureParts
  <2>3. DestroyedBlocks(requested.continuations) \in Int
    BY <1>1, DestroyedType
  <2>4. blocks = 0 + (ProcedureParts + DestroyedBlocks(requested.continuations))
    BY <1>1, <1>3 DEF BlocksCounted
  <2>5. blocks' = lost' + (ProcedureParts + DestroyedBlocks(requested.continuations))
    BY ONLY <1>2, <1>3, <2>2, <2>3, <2>4
  <2> QED
    BY <1>3, <2>1, <2>5 DEF BlocksCounted
<1>4. CASE /\ lost' = lost
           /\ requested' = [requested EXCEPT !.continuations = Append(@, kind)]
           /\ builder'.num_continuations = builder.num_continuations + 1
  <2>1. requested'.continuations = Append(requested.continuations, kind)
    BY <1>4 DEF BuilderInv, BuilderTyped, RequestType
  <2>2. Building'
    <3>1. builder.num_continuations \in Nat
      BY DEF BuilderInv, BuilderTyped, BuilderType
    <3> QED
      BY <1>4, <3>1 DEF Building, NoBuilder
  <2>3. DestroyedBlocks(requested'.continuations)
          = DestroyedBlocks(requested.continuations) + AllocatedBlocks(kind)
    BY <1>1, <2>1, DestroyedOneMore
  <2>4. DestroyedBlocks(requested.continuations) \in Int
    BY <1>1, DestroyedType
  <2>5. AllocatedBlocks(kind) \in Int /\ ProcedureParts \in Int
    BY DEF AllocatedBlocks, ProcedureParts
  <2>6. blocks' = lost' + (ProcedureParts + DestroyedBlocks(requested'.continuations))
    <3>1. blocks = lost + (ProcedureParts + DestroyedBlocks(requested.continuations))
      BY <1>1 DEF BlocksCounted
    <3>2. lost \in Int /\ lost' = lost
      BY <1>4 DEF BuilderInv, BuilderTyped
    <3> QED
      BY ONLY <1>2, <2>3, <2>4, <2>5, <3>1, <3>2
  <2> QED
    BY <2>2, <2>6 DEF BlocksCounted
<1> QED
  <2>1. builder.num_continuations + 1 =
          [builder EXCEPT !.continuation_buffer =
                 [Roomy(builder) EXCEPT ![builder.num_continuations + 1] = kind],
               !.num_continuations = @ + 1].num_continuations
    BY DEF BuilderInv, BuilderTyped, BuilderType
  <2> QED
    BY <1>3, <1>4, <2>1 DEF Then

\* Only the functions of the builder and of the request change.
LEMMA BuilderFunctions ==
    ASSUME BuilderInv, Setup \/ Unwind
    PROVE  BuilderInv' /\ (BlocksCounted => BlocksCounted')
<1>1. Building /\ UNCHANGED <<procedure, lost, blocks>>
  BY DEF Setup, Unwind, NoAllocation
<1>2. /\ builder' \in BuilderType /\ requested' \in RequestType
      /\ builder'.num_continuations = builder.num_continuations
      /\ builder'.continuation_buffer = builder.continuation_buffer
      /\ requested'.continuations = requested.continuations
  BY DEF Setup, Unwind, BuilderInv, BuilderTyped, BuilderType, RequestType
<1>3. builder'.unwind_func <=> requested'.unwind
  <2>1. CASE Setup
    <3>1. builder'.unwind_func = builder.unwind_func /\ requested'.unwind = requested.unwind
      BY <2>1 DEF Setup, BuilderInv, BuilderTyped, BuilderType, RequestType
    <3> QED
      BY <1>1, <3>1 DEF BuilderInv, BuilderSound
  <2>2. CASE Unwind
    BY <2>2 DEF Unwind, BuilderInv, BuilderTyped, BuilderType, RequestType
  <2> QED
    BY <2>1, <2>2
<1>4. BuilderTyped'
  BY <1>1, <1>2 DEF BuilderInv, BuilderTyped
<1>5. ~Built' /\ Len(builder.continuation_buffer) > 0
  BY <1>1 DEF BuilderInv, BuilderSound, Built
<1>6. BuilderSound'
  BY <1>1, <1>2, <1>3, <1>5 DEF BuilderInv, BuilderSound
<1>7. Building'
  BY <1>2, <1>5, ConstantsHave DEF Building
<1> QED
  BY <1>1, <1>2, <1>4, <1>6, <1>7 DEF BuilderInv, BlocksCounted

LEMMA BuilderDestroy ==
    ASSUME BuilderInv, DestroyBuilder
    PROVE  BuilderInv' /\ (BlocksCounted => BlocksCounted')
<1>1. /\ Building /\ builder' = NoBuilder /\ requested' = NothingRequested
      /\ UNCHANGED <<procedure, lost>>
      /\ blocks' = blocks - (ProcedureParts + DestroyedBlocks(
             SubSeq(builder.continuation_buffer, 1, builder.num_continuations)))
  BY DEF DestroyBuilder, Free
<1>2. ~Building' /\ ~Built'
  BY <1>1 DEF Building, Built, BuilderInv, BuilderSound
<1>3. blocks' = blocks - (ProcedureParts + DestroyedBlocks(requested.continuations))
  BY <1>1, BuilderHolds
<1>4. DestroyedBlocks(requested.continuations) \in Int /\ blocks \in Int /\ ProcedureParts \in Int
  BY DestroyedType DEF BuilderInv, BuilderTyped, RequestType, ProcedureParts
<1>5. blocks' \in Int
  BY ONLY <1>3, <1>4
<1>6. BuilderTyped'
  BY <1>1, <1>5, ConstantsHave DEF BuilderInv, BuilderTyped
<1>7. ASSUME BlocksCounted PROVE blocks' = lost'
  <2>1. blocks = lost + (ProcedureParts + DestroyedBlocks(requested.continuations))
    BY <1>1, <1>7 DEF BlocksCounted
  <2>2. lost \in Int /\ lost' = lost
    BY <1>1 DEF BuilderInv, BuilderTyped
  <2> QED
    BY ONLY <1>3, <1>4, <2>1, <2>2
<1> QED
  BY <1>1, <1>2, <1>6, <1>7, ConstantsHave DEF BuilderInv, BuilderSound, BlocksCounted

LEMMA BuilderBuild ==
    ASSUME BuilderInv, Build
    PROVE  BuilderInv' /\ (BlocksCounted => BlocksCounted')
<1>1. /\ Building /\ builder' = NoBuilder /\ UNCHANGED <<requested, lost, blocks>>
      /\ procedure'.continuations = builder.continuation_buffer
      /\ procedure'.num_continuations = builder.num_continuations
      /\ procedure'.unwind_func = builder.unwind_func
      /\ procedure'.setup_func = FALSE
      /\ procedure' \in ProcedureType
  BY DEF Build, NoAllocation, BuilderInv, BuilderTyped, BuilderType, ProcedureType
<1>2. ~Building' /\ Built'
  BY <1>1 DEF Building, Built, BuilderInv, BuilderSound
<1>3. BuilderTyped'
  BY <1>1, ConstantsHave DEF BuilderInv, BuilderTyped
<1>4. BuilderSound'
  BY <1>1, <1>2 DEF BuilderInv, BuilderSound
<1> QED
  BY <1>1, <1>2, <1>3, <1>4 DEF BuilderInv, BlocksCounted

LEMMA ProcedureDestroy ==
    ASSUME BuilderInv, DestroyProcedure
    PROVE  BuilderInv' /\ (BlocksCounted => BlocksCounted')
<1>1. /\ Built /\ procedure' = NoProcedure /\ requested' = NothingRequested
      /\ UNCHANGED <<builder, lost>>
      /\ blocks' = blocks - (ProcedureParts + DestroyedBlocks(
             SubSeq(procedure.continuations, 1, procedure.num_continuations)))
  BY DEF DestroyProcedure, Free
<1>2. ~Building' /\ ~Built'
  BY <1>1, ConstantsHave DEF Building, Built, BuilderInv, BuilderSound
<1>3. blocks' = blocks - (ProcedureParts + DestroyedBlocks(requested.continuations))
  BY <1>1, ProcedureHolds
<1>4. DestroyedBlocks(requested.continuations) \in Int /\ blocks \in Int /\ ProcedureParts \in Int
  BY DestroyedType DEF BuilderInv, BuilderTyped, RequestType, ProcedureParts
<1>5. blocks' \in Int
  BY ONLY <1>3, <1>4
<1>6. BuilderTyped'
  BY <1>1, <1>5, ConstantsHave DEF BuilderInv, BuilderTyped
<1>7. ASSUME BlocksCounted PROVE blocks' = lost'
  <2>1. blocks = lost + (ProcedureParts + DestroyedBlocks(requested.continuations))
    BY <1>1, <1>7 DEF BlocksCounted
  <2>2. lost \in Int /\ lost' = lost
    BY <1>1 DEF BuilderInv, BuilderTyped
  <2> QED
    BY ONLY <1>3, <1>4, <2>1, <2>2
<1> QED
  BY <1>1, <1>2, <1>6, <1>7, ConstantsHave DEF BuilderInv, BuilderSound, BlocksCounted

LEMMA BuilderInvNext ==
    BuilderInv /\ [Next]_vars => BuilderInv' /\ (BlocksCounted => BlocksCounted')
<1> SUFFICES ASSUME BuilderInv, [Next]_vars
             PROVE  BuilderInv' /\ (BlocksCounted => BlocksCounted')
  OBVIOUS
<1>1. CASE UNCHANGED buildVars
  BY <1>1 DEF buildVars, BuilderInv, BuilderTyped, BuilderSound, BlocksCounted, Building, Built
<1>2. CASE BuilderNext
  BY <1>2, BuilderCreate, BuilderThen, BlocksThen, BuilderFunctions, BuilderDestroy, BuilderBuild
     DEF BuilderNext
<1>3. CASE Destroy
  BY <1>3, ProcedureDestroy DEF Destroy
<1>4. InvokeProcedure \/ JobStep \/ (\E e \in Executors : ChildStep(e)) => UNCHANGED buildVars
  BY DEF InvokeProcedure, JobStep, ChildStep, ExecuteSetup, StepSingle, StepSequentialFor,
         StepParallelFor, StepParallelForAgain, ForkChild, EndForks, MoveToNext, EndJob,
         RejectChild, Fetch, RunChild
<1> QED
  BY <1>1, <1>2, <1>3, <1>4 DEF Next, vars

LEMMA AlwaysBuilderInv == Spec => [](BuilderInv /\ BlocksCounted)
<1>1. Init => BuilderInv /\ BlocksCounted
  <2>1. Init => ~Building /\ ~Built /\ lost = 0 /\ blocks = 0
    BY ConstantsHave DEF Init, BuilderInit, Building, Built
  <2> QED
    BY <2>1, BuilderInvInit DEF BlocksCounted
<1> QED
  BY <1>1, BuilderInvNext, PTL DEF Spec

(***************************************************************************)
(* A procedure consists of what was asked for, in that order, and has the  *)
(* unwind function if there was one, for every initial size of the buffer  *)
(* and every number of continuations (procedure_builder.c:8-36, 143-198).  *)
(***************************************************************************)
THEOREM ProceduresAreAsRequested == Spec => []BuiltAsRequested
<1>1. BuilderInv => BuiltAsRequested
  <2> SUFFICES ASSUME BuilderInv, Built PROVE BuiltAsRequested
    BY DEF BuiltAsRequested
  <2>1. procedure.unwind_func <=> requested.unwind
    BY DEF BuilderInv, BuilderSound
  <2>2. procedure.unwind_func = requested.unwind
    BY <2>1 DEF BuilderInv, BuilderTyped, ProcedureType, RequestType
  <2> QED
    BY <2>2, ProcedureHolds DEF BuiltAsRequested
<1> QED
  BY <1>1, AlwaysBuilderInv, PTL

(***************************************************************************)
(* What is left allocated when neither builder nor procedure exists is     *)
(* what the failed calls have leaked.  The blocks of the continuations are *)
(* a sum over the request; that a call adds what it allocates to it is by  *)
(* induction over the fold.                                                *)
(***************************************************************************)
THEOREM BuildersReturnBlocks == Spec => []BlocksReturned
<1>1. BlocksCounted => BlocksReturned
  BY DEF BlocksCounted, BlocksReturned
<1> QED
  BY <1>1, AlwaysBuilderInv, PTL

-----------------------------------------------------------------------------
(* The run of a procedure *)

Indexes == 0 .. MaxCount

FrameType == [is_first_time : BOOLEAN, count : Indexes, index : Nat]
JobType == [pc : {"none", "setup", "step", "fork", "join", "abort", "reject", "ok", "failed"},
            continuation_index : Nat \ {0}, frame : FrameType,
            result : {"Ended", "Error", "Repeat"}, dependency_has_error : BOOLEAN,
            has_error : BOOLEAN, unfit : BOOLEAN, next_executor : SUBSET Executors]
ChildType == [pc : {"none", "setup", "fetch", "body"}, index : Nat]

RunTyped ==
    /\ job \in JobType
    /\ child \in [Executors -> ChildType]
    /\ count \in [Continuations -> Indexes]
    /\ forked \in [Continuations -> Nat]
    /\ executed \in [Continuations -> [Indexes -> 0 .. 2]]
    /\ body_failed \in BOOLEAN
    /\ unwound \in Nat

Here == job.continuation_index

\* A body has run once for each index in S, and for no other.
Ran(ran, S) == \A n \in Indexes : ran[n] = IF n \in S THEN 1 ELSE 0

\* The indexes a continuation is to run its body for.
ToRun(k) == IF procedure.continuations[k] = "single" THEN {0} ELSE 0 .. count[k] - 1

\* A continuation that is not begun, and one that has ended well.
Fresh(k) == Ran(executed[k], {}) /\ forked[k] = 0
Over(k) == \/ Ran(executed[k], ToRun(k))
           \/ Fresh(k) /\ procedure.continuations[k] = "parallel_for"

NoChildren == \A e \in Executors : child[e].pc = "none"

HasBody(e, n) == child[e].pc = "body" /\ child[e].index = n

\* The indexes whose bodies the children have run or run now.
Done == {n \in Indexes : /\ n < job.frame.index /\ n < job.frame.count
                         /\ \A e \in Executors : ~HasBody(e, n)}

SequentiallyRan ==
    /\ job.frame.count = count[Here]
    /\ ~job.frame.is_first_time
    /\ job.frame.index > 0
    /\ Ran(executed[Here], {n \in 0 .. job.frame.count - 1 : n < job.frame.index})

(***************************************************************************)
(* The children share the counter of the frame.  Every index below it and  *)
(* below the count has been run or is in the hands of exactly one child;   *)
(* and if there have been children and no error, there still are or the    *)
(* counter has reached the count.                                          *)
(***************************************************************************)
ParallelyRan ==
    /\ job.frame.count = count[Here]
    /\ ~job.frame.is_first_time
    /\ \A e \in Executors : child[e].pc = "body" =>
          child[e].index < job.frame.index /\ child[e].index < job.frame.count
    /\ \A d \in Executors : \A e \in Executors :
          child[d].pc = "body" /\ HasBody(e, child[d].index) => d = e
    /\ Ran(executed[Here], Done)
    /\ forked[Here] = 0 => NoChildren /\ job.frame.index = 0
    /\ forked[Here] # 0 /\ ~job.has_error => ~NoChildren \/ job.frame.index >= job.frame.count
    /\ \A e \in job.next_executor : child[e].pc = "none"

AtRest ==
    /\ NoChildren
    /\ \A k \in Continuations : Fresh(k)
    /\ ~body_failed
    /\ unwound = 0

AtSetup ==
    /\ NoChildren
    /\ ~job.has_error /\ ~job.unfit /\ ~body_failed
    /\ Here = 1
    /\ job.frame = NewFrame
    /\ \A k \in Continuations : Fresh(k)

\* The last case: a child without a frame has resumed its parent.
AtStep ==
    /\ NoChildren
    /\ \/ ~job.has_error /\ Here = procedure.num_continuations + 1
       \/ ~job.has_error /\ job.frame = NewFrame /\ Fresh(Here)
       \/ /\ ~job.has_error /\ Kind = "sequential_for"
          /\ SequentiallyRan /\ job.frame.index < job.frame.count
       \/ /\ job.has_error /\ Here <= procedure.num_continuations
          /\ Kind = "parallel_for" /\ ParallelyRan

AtFork == Here <= procedure.num_continuations /\ Kind = "parallel_for" /\ ParallelyRan

AtJoin ==
    /\ Here <= procedure.num_continuations
    /\ job.result = "Error" => job.has_error
    /\ \/ /\ Kind = "single" /\ NoChildren /\ job.result # "Repeat"
          /\ Ran(executed[Here], {0})
       \/ /\ Kind = "sequential_for" /\ NoChildren /\ SequentiallyRan
          /\ job.result = "Ended" => job.frame.index >= job.frame.count
          /\ job.result = "Repeat" => job.frame.index < job.frame.count
       \/ /\ Kind = "parallel_for" /\ ParallelyRan
          /\ job.result = "Ended"

AtFailure ==
    /\ job.has_error
    /\ NoChildren
    /\ Here \in Continuations => \E S \in SUBSET ToRun(Here) : Ran(executed[Here], S)

AtSuccess ==
    /\ Here = procedure.num_continuations + 1
    /\ ~job.has_error
    /\ NoChildren

\* Why the job is to fail, once its setup has looked at the dependencies.
Cause == \/ body_failed
         \/ job.unfit
         \/ job.pc # "setup" /\ job.dependency_has_error

\* After a failed dependency nothing is run.
Unmet == job.dependency_has_error => /\ job.pc \in {"setup", "reject", "failed"}
                                     /\ \A k \in Continuations : Fresh(k)

\* The continuations before the current one are over, those behind it not begun.
InTurn ==
    /\ Built
    /\ Here <= procedure.num_continuations + 1
    /\ Cause <=> job.has_error
    /\ Unmet
    /\ \A k \in Continuations : (k < Here => Over(k)) /\ (k > Here => Fresh(k))

Current ==
    /\ job.pc = "none" => AtRest
    /\ job.pc = "setup" => AtSetup
    /\ job.pc = "step" => AtStep
    /\ job.pc = "fork" => AtFork
    /\ job.pc = "join" => AtJoin
    /\ job.pc \in {"abort", "reject", "failed"} => AtFailure
    /\ job.pc = "ok" => AtSuccess

RunInv ==
    /\ RunTyped
    /\ job.pc # "none" => InTurn
    /\ Current
    /\ UnwoundOnce

-----------------------------------------------------------------------------
(* What the steps have in common *)

\* The current continuation is one of the procedure's.
LEMMA HereIs ==
    ASSUME BuilderInv, RunInv, job.pc # "none", Here <= procedure.num_continuations
    PROVE  /\ Here \in Continuations /\ Built
           /\ procedure.num_continuations \in Nat
           /\ Kind \in Kinds
<1>1. Built /\ Here \in Nat \ {0}
  BY DEF RunInv, InTurn, RunTyped, JobType, Here
<1>2. /\ Holds(procedure.continuations, procedure.num_continuations, requested.continuations)
      /\ requested.continuations \in Seq(Kinds) /\ procedure.num_continuations \in Nat
  BY <1>1 DEF BuilderInv, BuilderTyped, BuilderSound, ProcedureType, RequestType
<1>3. /\ Here \in 1 .. Len(requested.continuations)
      /\ procedure.num_continuations <= MaxContinuations
      /\ Kind = requested.continuations[Here]
  BY <1>1, <1>2 DEF Holds, Kind, Here
<1>4. Kind \in Kinds
  BY <1>2, <1>3, ElementOfSeq
<1> QED
  BY <1>1, <1>2, <1>3, <1>4, ProcedureBuilderAssumption DEF Continuations

\* The continuations but the current one are left alone.
OthersStay ==
    \A k \in Continuations : k # Here =>
        executed'[k] = executed[k] /\ count'[k] = count[k] /\ forked'[k] = forked[k]

\* While the job runs its dependencies are met; the causes of its errors are
\* those of bodies and frames.
Running == {"step", "fork", "join", "abort"}

LEMMA CauseIs ==
    ASSUME RunInv, job.pc \in Running
    PROVE  /\ ~job.dependency_has_error
           /\ job.has_error <=> body_failed \/ job.unfit
<1>1. InTurn
  BY DEF RunInv, Running
<1> QED
  BY <1>1 DEF InTurn, Unmet, Cause, Running

LEMMA StillCaused ==
    ASSUME RunInv, job.pc \in Running, job'.dependency_has_error = job.dependency_has_error,
           job'.has_error <=> body_failed' \/ job'.unfit
    PROVE  (Cause <=> job.has_error)' /\ Unmet'
  BY CauseIs DEF Cause, Unmet

LEMMA StillInTurn ==
    ASSUME RunInv, InTurn, OthersStay, UNCHANGED procedure, Here' = Here,
           (Cause <=> job.has_error)', Unmet'
    PROVE  InTurn'
<1>1. Here \in Nat
  BY DEF RunInv, RunTyped, JobType, Here
<1>2. ASSUME NEW k \in Continuations
      PROVE  (k < Here => Over(k)') /\ (k > Here => Fresh(k)')
  <2>1. k \in Nat
    BY <1>2, ProcedureBuilderAssumption DEF Continuations
  <2>2. CASE k # Here
    <3>1. executed'[k] = executed[k] /\ count'[k] = count[k] /\ forked'[k] = forked[k]
      BY <2>2 DEF OthersStay
    <3>2. Fresh(k)' <=> Fresh(k)
      BY <3>1 DEF Fresh, Ran
    <3>3. Over(k)' <=> Over(k)
      BY <3>1, <3>2 DEF Over, ToRun, Ran
    <3> QED
      BY <3>2, <3>3 DEF InTurn
  <2> QED
    BY <1>1, <2>1, <2>2
<1>3. Built'
  BY DEF InTurn, Built
<1> QED
  BY <1>2, <1>3 DEF InTurn

\* What has to be shown of a step within the life of the job.
LEMMA RunInvFrom ==
    ASSUME RunInv, job.pc \notin {"none", "ok", "failed"}, RunTyped', InTurn', Current',
           job'.pc \notin {"none", "ok", "failed"}, unwound' = unwound
    PROVE  RunInv'
<1>1. unwound = 0
  BY DEF RunInv, UnwoundOnce
<1>2. UnwoundOnce'
  BY <1>1 DEF UnwoundOnce
<1> QED
  BY <1>2 DEF RunInv

\* A body is called for an index it has not been called for.
LEMMA BodyRuns ==
    ASSUME RunTyped, NEW i \in Continuations, i = Here,
           NEW index \in Indexes, NEW failed \in BOOLEAN,
           NEW S, Ran(executed[i], S), index \notin S, RunBody(index, failed)
    PROVE  /\ executed' \in [Continuations -> [Indexes -> 0 .. 2]]
           /\ Ran(executed'[i], S \cup {index})
           /\ \A k \in Continuations : k # i => executed'[k] = executed[k]
           /\ body_failed' \in BOOLEAN /\ (body_failed' <=> body_failed \/ failed)
<1>1. executed \in [Continuations -> [Indexes -> 0 .. 2]] /\ body_failed \in BOOLEAN
  BY DEF RunTyped
<1>2. executed' = [executed EXCEPT ![i][index] = Twice(executed[i][index])]
  BY DEF RunBody, Here
<1>3. Twice(executed[i][index]) = 1 /\ 1 \in 0 .. 2
  BY DEF Ran, Twice
<1>4. executed'[i] = [executed[i] EXCEPT ![index] = 1]
  BY <1>1, <1>2, <1>3
<1>5. executed' \in [Continuations -> [Indexes -> 0 .. 2]]
  BY <1>1, <1>2, <1>3
<1>6. \A n \in Indexes : executed'[i][n] = IF n = index THEN 1 ELSE executed[i][n]
  BY <1>1, <1>4
<1>7. Ran(executed'[i], S \cup {index})
  BY <1>6 DEF Ran
<1>8. body_failed' \in BOOLEAN /\ (body_failed' <=> body_failed \/ failed)
  BY <1>1, Zenon DEF RunBody
<1> QED
  BY <1>1, <1>2, <1>5, <1>7, <1>8

LEMMA ReturnsTo ==
    ASSUME job \in JobType, NEW frame \in FrameType, NEW result \in {"Ended", "Error", "Repeat"},
           Returns(frame, result)
    PROVE  /\ job' \in JobType /\ job'.pc = "join" /\ job'.frame = frame /\ job'.result = result
           /\ job'.has_error <=> job.has_error \/ result = "Error"
           /\ job'.dependency_has_error = job.dependency_has_error /\ job'.unfit = job.unfit
           /\ Here' = Here /\ job'.next_executor = job.next_executor
<1> DEFINE err == job.has_error \/ result = "Error"
<1>1. err \in BOOLEAN
  OBVIOUS
<1>2. job' = [job EXCEPT !.pc = "join", !.frame = frame, !.result = result, !.has_error = err]
  BY DEF Returns
<1> HIDE DEF err
<1>3. job' \in JobType
  BY <1>1, <1>2 DEF JobType
<1>4. /\ job'.pc = "join" /\ job'.frame = frame /\ job'.result = result
      /\ job'.has_error = err
      /\ job'.dependency_has_error = job.dependency_has_error /\ job'.unfit = job.unfit
      /\ Here' = Here /\ job'.next_executor = job.next_executor
  BY <1>2 DEF JobType, Here
<1> QED
  BY <1>3, <1>4 DEF err

-----------------------------------------------------------------------------
(* The steps of the job *)

NoRun ==
    /\ job = NoJob
    /\ child = [e \in Executors |-> NoChild]
    /\ count = [i \in Continuations |-> 0]
    /\ forked = [i \in Continuations |-> 0]
    /\ executed = [i \in Continuations |-> [n \in 0 .. MaxCount |-> 0]]
    /\ body_failed = FALSE
    /\ unwound = 0

\* The invariant holds before the procedure is run.
LEMMA AtRestIs == NoRun => RunInv
<1> SUFFICES ASSUME NoRun PROVE RunInv
  OBVIOUS
<1> USE DEF NoRun
<1>1. 0 \in Indexes /\ Indexes \subseteq Nat
  BY ProceduresAssumption DEF Indexes
<1>2. NoJob \in JobType /\ NoChild \in ChildType /\ NoJob.pc = "none" /\ NoChild.pc = "none"
  <2>1. NewFrame \in FrameType
    BY <1>1 DEF NewFrame, FrameType
  <2> QED
    BY <2>1 DEF NoJob, NoChild, JobType, ChildType
<1>3. body_failed \in BOOLEAN
  OBVIOUS
<1>4. executed \in [Continuations -> [Indexes -> 0 .. 2]]
  BY DEF Indexes
<1>5. /\ count \in [Continuations -> Indexes] /\ forked \in [Continuations -> Nat]
      /\ unwound \in Nat /\ child \in [Executors -> ChildType] /\ job \in JobType
  BY <1>1, <1>2
<1>6. RunTyped
  BY <1>3, <1>4, <1>5 DEF RunTyped
<1>7. AtRest
  BY <1>2 DEF AtRest, NoChildren, Fresh, Ran, Indexes
<1> QED
  BY <1>2, <1>6, <1>7 DEF RunInv, Current, UnwoundOnce

LEMMA RunInvInit == Init => RunInv
  BY AtRestIs DEF Init, NoRun

\* The builder only works while there is no procedure, hence no job.
LEMMA RunInvBuilder ==
    ASSUME BuilderInv, RunInv, BuilderNext, UNCHANGED runVars
    PROVE  RunInv'
<1>1. ~Built
  BY DEF BuilderInv, BuilderSound, BuilderNext, CreateBuilder, Then, Setup, Unwind,
         DestroyBuilder, Build
<1>2. job.pc = "none"
  BY <1>1 DEF RunInv, InTurn
<1>3. RunTyped'
  BY DEF RunInv, RunTyped, runVars
<1>4. AtRest'
  BY <1>2 DEF RunInv, Current, AtRest, NoChildren, Fresh, runVars
<1>5. unwound' = 0 /\ job'.pc = "none"
  BY <1>2 DEF RunInv, Current, AtRest, runVars
<1> QED
  BY <1>3, <1>4, <1>5 DEF RunInv, Current, UnwoundOnce

LEMMA RunInvInvoke ==
    ASSUME BuilderInv, RunInv, InvokeProcedure
    PROVE  RunInv'
<1>1. /\ Built /\ job.pc = "none"
      /\ UNCHANGED <<procedure, requested, child, count, forked, executed, body_failed, unwound>>
  BY DEF InvokeProcedure, buildVars
<1>2. PICK d \in BOOLEAN :
         job' = [NoJob EXCEPT !.pc = "setup", !.dependency_has_error = d]
  BY DEF InvokeProcedure
<1>3. AtRest
  BY <1>1 DEF RunInv, Current
<1>4. /\ job' \in JobType /\ job'.pc = "setup" /\ Here' = 1 /\ job'.frame = NewFrame
      /\ job'.has_error = FALSE /\ job'.unfit = FALSE
  <2>1. NewFrame \in FrameType
    BY ProceduresAssumption DEF NewFrame, FrameType, Indexes
  <2>2. /\ NoJob \in JobType /\ NoJob.continuation_index = 1 /\ NoJob.frame = NewFrame
        /\ NoJob.has_error = FALSE /\ NoJob.unfit = FALSE
    BY <2>1 DEF NoJob, JobType
  <2> QED
    BY <1>2, <2>2 DEF JobType, Here
<1>5. RunTyped'
  BY <1>1, <1>4 DEF RunInv, RunTyped
<1>6. procedure.num_continuations \in Nat
  BY DEF BuilderInv, BuilderTyped, ProcedureType
<1>7. \A k \in Continuations : Fresh(k)' /\ k >= 1
  BY <1>1, <1>3 DEF AtRest, Fresh, Continuations
<1>8. InTurn'
  <2>1. (Cause <=> job.has_error)'
    BY <1>1, <1>3, <1>4 DEF AtRest, Cause
  <2>2. Unmet'
    BY <1>4, <1>7 DEF Unmet
  <2>3. \A k \in Continuations : (k < Here' => Over(k)') /\ (k > Here' => Fresh(k)')
    BY <1>4, <1>7 DEF Continuations
  <2>4. Built'
    BY <1>1 DEF Built
  <2> QED
    BY <1>1, <1>4, <1>6, <2>1, <2>2, <2>3, <2>4 DEF InTurn
<1>9. AtSetup'
  BY <1>1, <1>3, <1>4, <1>7 DEF AtRest, AtSetup, NoChildren
<1>10. unwound' = 0
  BY <1>1, <1>3 DEF AtRest
<1> QED
  BY <1>4, <1>5, <1>8, <1>9, <1>10 DEF RunInv, Current, UnwoundOnce

LEMMA RunInvSetup ==
    ASSUME BuilderInv, RunInv, ExecuteSetup
    PROVE  RunInv'
<1>1. /\ job.pc = "setup"
      /\ UNCHANGED <<procedure, requested, child, count, forked, executed, body_failed, unwound>>
  BY DEF ExecuteSetup, buildVars
<1>2. PICK unfit \in BOOLEAN :
         job' = [job EXCEPT !.pc = IF unfit \/ job.dependency_has_error THEN "reject" ELSE "step",
                            !.has_error = unfit \/ job.dependency_has_error,
                            !.unfit = unfit]
  <2>1. Unfit \subseteq BOOLEAN /\ SetupResults = {job.dependency_has_error}
    BY DEF Unfit, SetupResults, BuilderInv, BuilderSound
  <2> QED
    BY <2>1 DEF ExecuteSetup
<1>3. RunTyped /\ InTurn /\ AtSetup /\ job \in JobType /\ unwound = 0
  BY <1>1 DEF RunInv, Current, RunTyped, UnwoundOnce
<1> DEFINE err == unfit \/ job.dependency_has_error
           pc == IF err THEN "reject" ELSE "step"
<1>4. err \in BOOLEAN /\ pc \in {"reject", "step"} /\ (pc = "reject" <=> err)
  OBVIOUS
<1>5. job' = [job EXCEPT !.pc = pc, !.has_error = err, !.unfit = unfit]
  BY <1>2
<1>6. err <=> unfit \/ job.dependency_has_error
  OBVIOUS
<1> HIDE DEF err, pc
<1>7. /\ job' \in JobType /\ job'.pc = pc /\ job'.has_error = err /\ job'.unfit = unfit
      /\ job'.dependency_has_error = job.dependency_has_error
      /\ job'.frame = job.frame /\ Here' = Here
  BY <1>3, <1>4, <1>5 DEF JobType, Here
<1>8. RunTyped'
  BY <1>1, <1>3, <1>7 DEF RunTyped
<1>9. NoChildren' /\ \A k \in Continuations : Fresh(k)'
  BY <1>1, <1>3 DEF AtSetup, NoChildren, Fresh, Ran
<1>10. InTurn'
  <2>1. OthersStay
    BY <1>1 DEF OthersStay
  <2>2. (Cause <=> job.has_error)'
    BY <1>1, <1>3, <1>4, <1>6, <1>7 DEF Cause, AtSetup
  <2>3. Unmet'
    BY <1>4, <1>6, <1>7, <1>9 DEF Unmet
  <2> QED
    BY <1>1, <1>3, <1>7, <2>1, <2>2, <2>3, StillInTurn
<1>11. CASE err
  <2>1. ASSUME Here' \in Continuations
        PROVE  \E S \in SUBSET ToRun(Here)' : Ran(executed[Here], S)'
    <3>1. Fresh(Here)'
      BY <1>9, <2>1 DEF Fresh
    <3> QED
      BY <3>1 DEF Fresh
  <2>2. AtFailure'
    BY <1>7, <1>9, <1>11, <2>1 DEF AtFailure
  <2> QED
    BY <1>1, <1>3, <1>4, <1>7, <1>8, <1>10, <1>11, <2>2, RunInvFrom DEF Current
<1>12. CASE ~err
  <2>1. procedure.num_continuations \in Nat /\ procedure.num_continuations <= MaxContinuations
    BY <1>3, LenProperties
       DEF InTurn, BuilderInv, BuilderTyped, BuilderSound, Holds, ProcedureType, RequestType
  <2>2. 1 = procedure.num_continuations + 1 \/ 1 \in Continuations
    BY <2>1, ProcedureBuilderAssumption DEF Continuations
  <2>3. Here' = 1 /\ job'.frame = NewFrame /\ ~job'.has_error
    BY <1>3, <1>7, <1>12 DEF AtSetup
  <2>4. ASSUME 1 \in Continuations PROVE Fresh(Here)'
    BY <1>9, <2>3, <2>4 DEF Fresh
  <2>5. AtStep'
    BY <1>1, <1>9, <2>2, <2>3, <2>4 DEF AtStep
  <2> QED
    BY <1>1, <1>3, <1>4, <1>7, <1>8, <1>10, <1>12, <2>5, RunInvFrom DEF Current
<1> QED
  BY <1>11, <1>12

LEMMA RunInvSingle ==
    ASSUME BuilderInv, RunInv, StepSingle
    PROVE  RunInv'
<1>1. /\ job.pc = "step" /\ Here <= procedure.num_continuations /\ Kind = "single"
      /\ UNCHANGED <<procedure, requested, child, count, forked, unwound>>
  BY DEF StepSingle, InStep, buildVars, Here
<1>2. PICK failed \in BOOLEAN : RunBody(0, failed) /\ Returns(job.frame, Outcome(failed, "Ended"))
  BY DEF StepSingle
<1>3. RunTyped /\ InTurn /\ AtStep /\ job \in JobType
  BY <1>1 DEF RunInv, Current, RunTyped
<1>4. Here \in Continuations /\ Built /\ procedure.num_continuations \in Nat /\ Here \in Nat
  BY <1>1, HereIs, ProcedureBuilderAssumption DEF Continuations
<1>5. job.frame = NewFrame /\ Fresh(Here)
  BY <1>1, <1>3, <1>4 DEF AtStep
<1>6. /\ executed' \in [Continuations -> [Indexes -> 0 .. 2]]
      /\ Ran(executed'[Here], {} \cup {0})
      /\ \A k \in Continuations : k # Here => executed'[k] = executed[k]
      /\ body_failed' \in BOOLEAN /\ (body_failed' <=> body_failed \/ failed)
  <2>1. 0 \in Indexes /\ 0 \notin {} /\ Ran(executed[Here], {})
    BY <1>5, ProceduresAssumption DEF Indexes, Fresh
  <2> QED
    BY <1>2, <1>3, <1>4, <2>1, BodyRuns
<1>7. /\ job' \in JobType /\ job'.pc = "join" /\ job'.result = Outcome(failed, "Ended")
      /\ job'.has_error <=> job.has_error \/ Outcome(failed, "Ended") = "Error"
      /\ job'.dependency_has_error = job.dependency_has_error /\ job'.unfit = job.unfit
      /\ Here' = Here
  <2>1. job.frame \in FrameType
    BY <1>3 DEF JobType
  <2>2. Outcome(failed, "Ended") \in {"Ended", "Error", "Repeat"}
    BY DEF Outcome
  <2> QED
    BY <1>2, <1>3, <2>1, <2>2, ReturnsTo
<1>8. RunTyped'
  BY <1>1, <1>3, <1>6, <1>7 DEF RunTyped
<1>9. Outcome(failed, "Ended") = (IF failed THEN "Error" ELSE "Ended")
  BY DEF Outcome
<1>10. InTurn'
  <2>1. OthersStay
    BY <1>1, <1>6 DEF OthersStay
  <2>2. (Cause <=> job.has_error)' /\ Unmet'
    BY <1>1, <1>3, <1>6, <1>7, <1>9, CauseIs, StillCaused DEF Running
  <2> QED
    BY <1>1, <1>3, <1>7, <2>1, <2>2, StillInTurn
<1>11. AtJoin'
  <2>1. Kind' = "single" /\ NoChildren'
    BY <1>1, <1>3, <1>7 DEF Kind, Here, AtStep, NoChildren
  <2>2. Ran(executed'[Here], {0})
    BY <1>6
  <2> QED
    BY <1>1, <1>7, <1>9, <2>1, <2>2 DEF AtJoin
<1> QED
  BY <1>1, <1>7, <1>8, <1>10, <1>11, RunInvFrom DEF Current

LEMMA RunInvSequential ==
    ASSUME BuilderInv, RunInv, StepSequentialFor
    PROVE  RunInv'
<1>1. /\ job.pc = "step" /\ Here <= procedure.num_continuations /\ Kind = "sequential_for"
      /\ UNCHANGED <<procedure, requested, child, forked, unwound>>
  BY DEF StepSequentialFor, InStep, buildVars, Here
<1> DEFINE index == job.frame.index
<1>2. PICK n \in IF job.frame.is_first_time THEN 0 .. MaxCount ELSE {job.frame.count} :
         /\ count' = [count EXCEPT ![Here] = n]
         /\ IF PastLast(index, n)
              THEN /\ NoBody
                   /\ Returns([is_first_time |-> FALSE, count |-> n, index |-> index + 1], "Ended")
              ELSE \E failed \in BOOLEAN :
                      /\ RunBody(index, failed)
                      /\ Returns([is_first_time |-> FALSE, count |-> n, index |-> index + 1],
                                 Outcome(failed, AfterBody(index, n)))
  BY DEF StepSequentialFor, Here
<1> DEFINE frame == [is_first_time |-> FALSE, count |-> n, index |-> index + 1]
           S == {m \in 0 .. n - 1 : m < index}
<1>3. RunTyped /\ InTurn /\ AtStep /\ job \in JobType
  BY <1>1 DEF RunInv, Current, RunTyped
<1>4. Here \in Continuations /\ Built /\ procedure.num_continuations \in Nat /\ Here \in Nat
  BY <1>1, HereIs, ProcedureBuilderAssumption DEF Continuations
<1>5. /\ n \in Indexes /\ index \in Nat /\ Ran(executed[Here], S)
      /\ index >= n => index = 0 /\ n = 0
  <2>1. CASE job.frame = NewFrame /\ Fresh(Here)
    <3>1. index = 0 /\ job.frame.is_first_time = TRUE
      BY <2>1 DEF NewFrame
    <3>2. n \in Indexes /\ n \in Nat
      BY <3>1, ProceduresAssumption DEF Indexes
    <3>3. S = {}
      BY <3>1
    <3> HIDE DEF S, index
    <3> QED
      BY <2>1, <3>1, <3>2, <3>3 DEF Fresh
  <2>2. CASE SequentiallyRan /\ job.frame.index < job.frame.count
    <3>2. n = job.frame.count /\ index = job.frame.index
      BY <2>2 DEF SequentiallyRan
    <3>3. n \in Indexes /\ index \in Nat /\ n \in Nat
      BY <1>3, <3>2, ProceduresAssumption DEF JobType, FrameType, Indexes
    <3>4. Ran(executed[Here], S)
      BY <2>2, <3>2 DEF SequentiallyRan
    <3> QED
      BY <2>2, <3>2, <3>3, <3>4
  <2> QED
    BY <1>1, <1>3, <1>4, <2>1, <2>2 DEF AtStep
<1>6. n \in Nat /\ Indexes \subseteq Nat
  BY <1>5, ProceduresAssumption DEF Indexes
<1>7. frame \in FrameType
  BY <1>5, <1>6 DEF FrameType
<1>8. /\ count' \in [Continuations -> Indexes] /\ count'[Here] = n
      /\ \A k \in Continuations : k # Here => count'[k] = count[k]
  BY <1>2, <1>3, <1>4, <1>5 DEF RunTyped
<1>9. /\ frame.count = n /\ frame.index = index + 1 /\ frame.is_first_time = FALSE
  OBVIOUS
<1> HIDE DEF frame
<1>10. CASE PastLast(index, n)
  <2>1. NoBody /\ Returns(frame, "Ended") /\ index = 0 /\ n = 0
    BY <1>2, <1>5, <1>6, <1>10 DEF PastLast, frame
  <2>2. /\ job' \in JobType /\ job'.pc = "join" /\ job'.frame = frame /\ job'.result = "Ended"
        /\ job'.has_error <=> job.has_error
        /\ job'.dependency_has_error = job.dependency_has_error /\ job'.unfit = job.unfit
        /\ Here' = Here
    BY <1>3, <1>7, <2>1, ReturnsTo
  <2>3. RunTyped'
    BY <1>1, <1>3, <1>8, <2>1, <2>2 DEF RunTyped, NoBody
  <2>4. InTurn'
    <3>1. OthersStay
      BY <1>1, <1>8, <2>1 DEF OthersStay, NoBody
    <3>2. (Cause <=> job.has_error)' /\ Unmet'
      BY <1>1, <1>3, <2>1, <2>2, CauseIs, StillCaused DEF Running, NoBody
    <3> QED
      BY <1>1, <1>3, <2>2, <3>1, <3>2, StillInTurn
  <2>5. Ran(executed'[Here], {m \in 0 .. n - 1 : m < index + 1})
    <3>1. S = {m \in 0 .. n - 1 : m < index + 1}
      BY <2>1
    <3> QED
      BY <1>5, <2>1, <3>1 DEF NoBody
  <2>6. SequentiallyRan'
    <3>1. index + 1 > 0
      BY <1>5
    <3> HIDE DEF index
    <3> QED
      BY <1>8, <1>9, <2>2, <2>5, <3>1 DEF SequentiallyRan
  <2>7. Kind' = "sequential_for" /\ NoChildren'
    BY <1>1, <1>3, <2>2 DEF Kind, Here, AtStep, NoChildren
  <2>8. AtJoin'
    BY <1>1, <1>9, <2>1, <2>2, <2>6, <2>7 DEF AtJoin
  <2> QED
    BY <1>1, <2>2, <2>3, <2>4, <2>8, RunInvFrom DEF Current
<1>11. CASE ~PastLast(index, n)
  <2>1. PICK failed \in BOOLEAN : /\ RunBody(index, failed)
                                  /\ Returns(frame, Outcome(failed, AfterBody(index, n)))
    BY <1>2, <1>11 DEF frame
  <2> DEFINE result == Outcome(failed, AfterBody(index, n))
  <2>2. index < n /\ index \in Indexes /\ index \notin S
    BY <1>5, <1>6, <1>11, ProceduresAssumption DEF PastLast, Indexes
  <2>3. /\ executed' \in [Continuations -> [Indexes -> 0 .. 2]]
        /\ Ran(executed'[Here], S \cup {index})
        /\ \A k \in Continuations : k # Here => executed'[k] = executed[k]
        /\ body_failed' \in BOOLEAN /\ (body_failed' <=> body_failed \/ failed)
    <3> HIDE DEF S, index
    <3> QED
      BY <1>3, <1>4, <1>5, <2>1, <2>2, BodyRuns
  <2>4. result \in {"Ended", "Error", "Repeat"}
    BY DEF Outcome, AfterBody
  <2>5. /\ result = "Error" <=> failed
        /\ result = "Ended" => index + 1 >= n
        /\ result = "Repeat" => index + 1 < n
    BY <1>5, <1>6, <2>2 DEF Outcome, AfterBody
  <2> HIDE DEF result
  <2>6. /\ job' \in JobType /\ job'.pc = "join" /\ job'.frame = frame /\ job'.result = result
        /\ job'.has_error <=> job.has_error \/ result = "Error"
        /\ job'.dependency_has_error = job.dependency_has_error /\ job'.unfit = job.unfit
        /\ Here' = Here
    BY <1>3, <1>7, <2>1, <2>4, ReturnsTo DEF result
  <2>7. RunTyped'
    BY <1>1, <1>3, <1>8, <2>3, <2>6 DEF RunTyped
  <2>8. InTurn'
    <3>1. OthersStay
      BY <1>1, <1>8, <2>3 DEF OthersStay
    <3>2. (Cause <=> job.has_error)' /\ Unmet'
      BY <1>1, <1>3, <2>3, <2>5, <2>6, CauseIs, StillCaused DEF Running
    <3> QED
      BY <1>1, <1>3, <2>6, <3>1, <3>2, StillInTurn
  <2>9. Ran(executed'[Here], {m \in 0 .. n - 1 : m < index + 1})
    <3>1. S \cup {index} = {m \in 0 .. n - 1 : m < index + 1}
      BY <1>5, <1>6, <2>2
    <3> HIDE DEF S
    <3> QED
      BY <2>3, <3>1
  <2>10. SequentiallyRan'
    <3>1. index + 1 > 0
      BY <1>5
    <3> HIDE DEF index
    <3> QED
      BY <1>8, <1>9, <2>6, <2>9, <3>1 DEF SequentiallyRan
  <2>11. Kind' = "sequential_for" /\ NoChildren'
    BY <1>1, <1>3, <2>6 DEF Kind, Here, AtStep, NoChildren
  <2>12. AtJoin'
    BY <1>1, <1>9, <2>5, <2>6, <2>10, <2>11 DEF AtJoin
  <2> QED
    BY <1>1, <2>6, <2>7, <2>8, <2>12, RunInvFrom DEF Current
<1> QED
  BY <1>10, <1>11

LEMMA RunInvParallel ==
    ASSUME BuilderInv, RunInv, StepParallelFor
    PROVE  RunInv'
<1>1. /\ job.pc = "step" /\ Here <= procedure.num_continuations /\ Kind = "parallel_for"
      /\ UNCHANGED <<procedure, requested, child, forked, unwound, executed, body_failed>>
      /\ job.frame.is_first_time
  BY DEF StepParallelFor, InStep, buildVars, Here, NoBody
<1>2. PICK n \in 0 .. MaxCount :
         /\ count' = [count EXCEPT ![Here] = n]
         /\ job' = [job EXCEPT !.pc = "fork", !.next_executor = Executors,
                               !.frame = [is_first_time |-> FALSE, count |-> n, index |-> 0]]
  BY DEF StepParallelFor, Here
<1> DEFINE frame == [is_first_time |-> FALSE, count |-> n, index |-> 0]
<1>3. RunTyped /\ InTurn /\ AtStep /\ job \in JobType
  BY <1>1 DEF RunInv, Current, RunTyped
<1>4. Here \in Continuations /\ Built /\ procedure.num_continuations \in Nat /\ Here \in Nat
  BY <1>1, HereIs, ProcedureBuilderAssumption DEF Continuations
<1>5. Fresh(Here) /\ NoChildren
  BY <1>1, <1>3, <1>4 DEF AtStep, ParallelyRan
<1>6. /\ n \in Indexes /\ frame \in FrameType /\ frame.count = n /\ frame.index = 0
      /\ frame.is_first_time = FALSE
  BY ProceduresAssumption DEF Indexes, FrameType
<1>7. /\ count' \in [Continuations -> Indexes] /\ count'[Here] = n
      /\ \A k \in Continuations : k # Here => count'[k] = count[k]
  BY <1>2, <1>3, <1>4, <1>6 DEF RunTyped
<1> HIDE DEF frame
<1>8. /\ job' \in JobType /\ job'.pc = "fork" /\ job'.frame = frame /\ Here' = Here
      /\ job'.has_error = job.has_error
      /\ job'.dependency_has_error = job.dependency_has_error /\ job'.unfit = job.unfit
  <2>1. job' = [job EXCEPT !.pc = "fork", !.next_executor = Executors, !.frame = frame]
    BY <1>2 DEF frame
  <2> QED
    BY <1>3, <1>6, <2>1 DEF JobType, Here
<1>9. RunTyped'
  BY <1>1, <1>3, <1>7, <1>8 DEF RunTyped
<1>10. InTurn'
  <2>1. OthersStay
    BY <1>1, <1>7 DEF OthersStay
  <2>2. (Cause <=> job.has_error)' /\ Unmet'
    BY <1>1, <1>3, <1>8, CauseIs, StillCaused DEF Running
  <2> QED
    BY <1>1, <1>3, <1>8, <2>1, <2>2, StillInTurn
<1>11. ParallelyRan'
  <2>1. NoChildren'
    BY <1>1, <1>5 DEF NoChildren
  <2>2. Done' = {}
    BY <1>6, <1>8, ProceduresAssumption DEF Done, Indexes
  <2>3. Ran(executed'[Here], Done')
    BY <1>1, <1>5, <2>2 DEF Fresh
  <2>4. job'.next_executor \subseteq Executors
    BY <1>8 DEF JobType
  <2>5. forked'[Here] = 0
    BY <1>1, <1>5 DEF Fresh
  <2> QED
    BY <1>6, <1>7, <1>8, <2>1, <2>3, <2>4, <2>5 DEF ParallelyRan, NoChildren, HasBody
<1>12. AtFork'
  BY <1>1, <1>8, <1>11 DEF AtFork, Kind, Here
<1> QED
  BY <1>1, <1>8, <1>9, <1>10, <1>12, RunInvFrom DEF Current

\* A parallel_for that is executed again does nothing.
LEMMA RunInvAgain ==
    ASSUME BuilderInv, RunInv, StepParallelForAgain
    PROVE  RunInv'
<1>1. /\ job.pc = "step" /\ Here <= procedure.num_continuations /\ Kind = "parallel_for"
      /\ ~job.frame.is_first_time /\ Returns(job.frame, "Ended")
      /\ UNCHANGED <<procedure, requested, child, count, forked, unwound, executed, body_failed>>
  BY DEF StepParallelForAgain, InStep, buildVars, Here, NoBody
<1>2. RunTyped /\ InTurn /\ AtStep /\ job \in JobType /\ job.frame \in FrameType
  BY <1>1 DEF RunInv, Current, RunTyped, JobType
<1>3. Here \in Continuations /\ procedure.num_continuations \in Nat /\ Here \in Nat
  BY <1>1, HereIs, ProcedureBuilderAssumption DEF Continuations
<1>4. ParallelyRan /\ NoChildren
  BY <1>1, <1>2, <1>3 DEF AtStep, NewFrame
<1>5. /\ job' \in JobType /\ job'.pc = "join" /\ job'.frame = job.frame /\ job'.result = "Ended"
      /\ job'.has_error <=> job.has_error
      /\ job'.dependency_has_error = job.dependency_has_error /\ job'.unfit = job.unfit
      /\ Here' = Here /\ job'.next_executor = job.next_executor
  BY <1>1, <1>2, ReturnsTo
<1>6. RunTyped'
  BY <1>1, <1>2, <1>5 DEF RunTyped
<1>7. InTurn'
  <2>1. OthersStay
    BY <1>1 DEF OthersStay
  <2>2. (Cause <=> job.has_error)' /\ Unmet'
    BY <1>1, <1>5, CauseIs, StillCaused DEF Running
  <2> QED
    BY <1>1, <1>2, <1>5, <2>1, <2>2, StillInTurn
<1>8. ParallelyRan'
  <2>1. Done' = Done
    BY <1>1, <1>5 DEF Done, HasBody
  <2>2. NoChildren' <=> NoChildren
    BY <1>1 DEF NoChildren
  <2> QED
    BY <1>1, <1>4, <1>5, <2>1, <2>2 DEF ParallelyRan, HasBody
<1>9. AtJoin'
  BY <1>1, <1>5, <1>8 DEF AtJoin, Kind, Here
<1> QED
  BY <1>1, <1>5, <1>6, <1>7, <1>9, RunInvFrom DEF Current

LEMMA RunInvFork ==
    ASSUME BuilderInv, RunInv, NEW e \in Executors, ForkChild(e)
    PROVE  RunInv'
<1>1. /\ job.pc = "fork" /\ e \in job.next_executor
      /\ job' = [job EXCEPT !.next_executor = @ \ {e}]
      /\ UNCHANGED <<procedure, requested, count, unwound, executed, body_failed>>
  BY DEF ForkChild, buildVars, NoBody
<1>2. RunTyped /\ InTurn /\ AtFork /\ job \in JobType
  BY <1>1 DEF RunInv, Current, RunTyped
<1>3. Here \in Continuations /\ Built /\ Here \in Nat
  BY <1>1, <1>2, HereIs, ProcedureBuilderAssumption DEF Continuations, AtFork
<1>4. /\ job' \in JobType /\ job'.pc = "fork" /\ job'.frame = job.frame /\ Here' = Here
      /\ job'.has_error = job.has_error /\ job'.next_executor = job.next_executor \ {e}
      /\ job'.dependency_has_error = job.dependency_has_error /\ job'.unfit = job.unfit
  BY <1>1, <1>2 DEF JobType, Here
<1>5. /\ child \in [Executors -> ChildType] /\ forked \in [Continuations -> Nat]
      /\ child[e].pc = "none"
  BY <1>1, <1>2 DEF RunTyped, AtFork, ParallelyRan
<1>6. /\ child' \in [Executors -> ChildType] /\ forked' \in [Continuations -> Nat]
      /\ \A d \in Executors : \A n : HasBody(d, n)' <=> HasBody(d, n)
      /\ \A d \in Executors : child'[d].index = child[d].index
      /\ \A d \in Executors : d # e => child'[d] = child[d]
      /\ \A d \in Executors : child'[d].pc = "body" <=> child[d].pc = "body"
      /\ \A k \in Continuations : k # Here => forked'[k] = forked[k]
      /\ \/ forked'[Here] # 0 /\ child'[e].pc # "none"
         \/ forked' = forked /\ child' = child
  <2>1. CASE /\ child' = [child EXCEPT ![e].pc = "setup"]
             /\ forked' = [forked EXCEPT ![Here] = @ + 1]
    <3>1. child'[e].pc = "setup" /\ child'[e].index = child[e].index /\ child'[e] \in ChildType
      BY <1>5, <2>1 DEF ChildType
    <3>2. \A d \in Executors : d # e => child'[d] = child[d]
      BY <1>5, <2>1
    <3>3. child' \in [Executors -> ChildType]
      BY <1>5, <2>1, <3>1, <3>2
    <3>4. /\ forked' \in [Continuations -> Nat] /\ forked'[Here] # 0
          /\ \A k \in Continuations : k # Here => forked'[k] = forked[k]
      BY <1>3, <1>5, <2>1
    <3>5. \A d \in Executors : /\ child'[d].index = child[d].index
                               /\ child'[d].pc = "body" <=> child[d].pc = "body"
      <4> TAKE d \in Executors
      <4>1. CASE d = e
        BY <1>5, <3>1, <4>1
      <4>2. CASE d # e
        BY <3>2, <4>2
      <4> QED
        BY <4>1, <4>2
    <3> QED
      BY <3>1, <3>2, <3>3, <3>4, <3>5 DEF HasBody
  <2>2. CASE UNCHANGED <<child, forked>>
    BY <1>5, <2>2 DEF HasBody
  <2> QED
    BY <2>1, <2>2 DEF ForkChild, Here
<1>7. RunTyped'
  BY <1>1, <1>2, <1>4, <1>6 DEF RunTyped
<1>8. InTurn'
  <2>1. OthersStay
    BY <1>1, <1>6 DEF OthersStay
  <2>2. (Cause <=> job.has_error)' /\ Unmet'
    BY <1>1, <1>2, <1>4, CauseIs, StillCaused DEF Running
  <2> QED
    BY <1>1, <1>2, <1>4, <2>1, <2>2, StillInTurn
<1>9. ParallelyRan'
  <2>1. ParallelyRan
    BY <1>2 DEF AtFork
  <2>2. Done' = Done
    BY <1>4, <1>6 DEF Done
  <2>3. /\ job'.frame.count = count'[Here'] /\ ~job'.frame.is_first_time
        /\ Ran(executed'[Here'], Done')
    BY <1>1, <1>4, <2>1, <2>2 DEF ParallelyRan
  <2>4. \A d \in Executors : child'[d].pc = "body" =>
            child'[d].index < job'.frame.index /\ child'[d].index < job'.frame.count
    BY <1>4, <1>6, <2>1 DEF ParallelyRan
  <2>5. \A c \in Executors : \A d \in Executors :
            child'[c].pc = "body" /\ HasBody(d, child[c].index)' => c = d
    BY <1>6, <2>1 DEF ParallelyRan
  <2>6. forked'[Here'] = 0 => NoChildren' /\ job'.frame.index = 0
    BY <1>4, <1>6, <2>1 DEF ParallelyRan, NoChildren
  <2>7. forked'[Here'] # 0 /\ ~job'.has_error =>
            ~NoChildren' \/ job'.frame.index >= job'.frame.count
    BY <1>4, <1>6, <2>1 DEF ParallelyRan, NoChildren
  <2>8. \A d \in job'.next_executor : child'[d].pc = "none"
    BY <1>2, <1>4, <1>6, <2>1 DEF ParallelyRan, JobType
  <2> QED
    BY <2>3, <2>4, <2>5, <2>6, <2>7, <2>8 DEF ParallelyRan
<1>10. AtFork'
  BY <1>1, <1>2, <1>4, <1>9 DEF AtFork, Kind, Here
<1> QED
  BY <1>1, <1>4, <1>7, <1>8, <1>10, RunInvFrom DEF Current

LEMMA RunInvEndForks ==
    ASSUME BuilderInv, RunInv, EndForks
    PROVE  RunInv'
<1>1. /\ job.pc = "fork" /\ Returns(job.frame, "Ended")
      /\ UNCHANGED <<procedure, requested, child, count, forked, unwound, executed, body_failed>>
  BY DEF EndForks, buildVars, NoBody
<1>2. RunTyped /\ InTurn /\ AtFork /\ job \in JobType /\ job.frame \in FrameType
  BY <1>1 DEF RunInv, Current, RunTyped, JobType
<1>3. /\ job' \in JobType /\ job'.pc = "join" /\ job'.frame = job.frame /\ job'.result = "Ended"
      /\ job'.has_error <=> job.has_error
      /\ job'.dependency_has_error = job.dependency_has_error /\ job'.unfit = job.unfit
      /\ Here' = Here /\ job'.next_executor = job.next_executor
  BY <1>1, <1>2, ReturnsTo
<1>4. RunTyped'
  BY <1>1, <1>2, <1>3 DEF RunTyped
<1>5. InTurn'
  <2>1. OthersStay
    BY <1>1 DEF OthersStay
  <2>2. (Cause <=> job.has_error)' /\ Unmet'
    BY <1>1, <1>2, <1>3, CauseIs, StillCaused DEF Running
  <2> QED
    BY <1>1, <1>2, <1>3, <2>1, <2>2, StillInTurn
<1>6. ParallelyRan'
  <2>1. ParallelyRan
    BY <1>2 DEF AtFork
  <2>2. Done' = Done
    BY <1>1, <1>3 DEF Done, HasBody
  <2>3. NoChildren' <=> NoChildren
    BY <1>1 DEF NoChildren
  <2> QED
    BY <1>1, <1>3, <2>1, <2>2, <2>3 DEF ParallelyRan, HasBody
<1>7. AtJoin'
  BY <1>1, <1>2, <1>3, <1>6 DEF AtJoin, AtFork, Kind, Here
<1> QED
  BY <1>1, <1>3, <1>4, <1>5, <1>7, RunInvFrom DEF Current

\* What a continuation that has returned and whose children have ended has done.
LEMMA JoinedRan ==
    ASSUME BuilderInv, RunInv, job.pc = "join", NoChildren
    PROVE  /\ \E S \in SUBSET ToRun(Here) : Ran(executed[Here], S)
           /\ ~job.has_error /\ job.result = "Ended" => Over(Here)
<1>1. AtJoin /\ RunTyped /\ InTurn
  BY DEF RunInv, Current
<1>2. Here \in Continuations
  BY <1>1, HereIs DEF AtJoin
<1>3. Kind = procedure.continuations[Here] /\ count[Here] \in Nat
  BY <1>1, <1>2, ProceduresAssumption DEF Kind, Here, RunTyped, Indexes
<1>4. CASE Kind = "single" /\ Ran(executed[Here], {0})
  BY <1>3, <1>4 DEF ToRun, Over
<1>5. CASE Kind = "sequential_for" /\ SequentiallyRan
           /\ (job.result = "Ended" => job.frame.index >= job.frame.count)
  <2> DEFINE S == {n \in 0 .. job.frame.count - 1 : n < job.frame.index}
  <2>1. Ran(executed[Here], S) /\ ToRun(Here) = 0 .. job.frame.count - 1
    BY <1>3, <1>5 DEF SequentiallyRan, ToRun
  <2>2. S \in SUBSET ToRun(Here)
    BY <2>1
  <2>3. ASSUME job.result = "Ended" PROVE S = ToRun(Here)
    <3>1. job.frame.index \in Nat /\ job.frame.count \in Nat
      BY <1>1, ProceduresAssumption DEF RunTyped, JobType, FrameType, Indexes
    <3> QED
      BY <1>5, <2>1, <2>3, <3>1
  <2> HIDE DEF S
  <2> QED
    BY <2>1, <2>2, <2>3 DEF Over
<1>6. CASE Kind = "parallel_for" /\ ParallelyRan
  <2>1. /\ Ran(executed[Here], Done) /\ job.frame.count = count[Here]
        /\ ToRun(Here) = 0 .. count[Here] - 1
    BY <1>3, <1>6 DEF ParallelyRan, ToRun
  <2>2. job.frame.index \in Nat /\ job.frame.count \in 0 .. MaxCount
    BY <1>1 DEF RunTyped, JobType, FrameType, Indexes
  <2>3. Done \in SUBSET ToRun(Here)
    BY <2>1, <2>2, ProceduresAssumption DEF Done, Indexes
  <2>4. ASSUME ~job.has_error PROVE Over(Here)
    <3>1. CASE forked[Here] = 0
      <4>1. Done = {}
        BY <1>6, <2>2, <3>1, ProceduresAssumption DEF ParallelyRan, Done, Indexes
      <4> QED
        BY <1>3, <1>6, <2>1, <3>1, <4>1 DEF Over, Fresh
    <3>2. CASE forked[Here] # 0
      <4>1. job.frame.index >= job.frame.count
        BY <1>6, <2>4, <3>2 DEF ParallelyRan
      <4>2. \A n \in ToRun(Here) : n \in Done
        BY <2>1, <2>2, <4>1, ProceduresAssumption DEF Done, Indexes, NoChildren, HasBody
      <4>3. Done = ToRun(Here)
        BY <2>3, <4>2
      <4> QED
        BY <2>1, <4>3 DEF Over
    <3> QED
      BY <3>1, <3>2
  <2> QED
    BY <2>1, <2>3, <2>4
<1> QED
  BY <1>1, <1>4, <1>5, <1>6 DEF AtJoin

LEMMA RunInvMove ==
    ASSUME BuilderInv, RunInv, MoveToNext
    PROVE  RunInv'
<1> DEFINE result == IF job.has_error THEN "Error" ELSE job.result
           pc == IF result = "Error" THEN "abort" ELSE "step"
           frame == FrameAfter(job.frame, result)
           i == IF result = "Ended" THEN job.continuation_index + 1 ELSE job.continuation_index
<1>1. /\ job.pc = "join" /\ NoChildren
      /\ job' = [job EXCEPT !.pc = pc, !.frame = frame, !.continuation_index = i]
      /\ UNCHANGED <<procedure, requested, child, count, forked, unwound, executed, body_failed>>
  BY DEF MoveToNext, buildVars, NoChildren
<1>2. RunTyped /\ InTurn /\ AtJoin /\ job \in JobType
  BY <1>1 DEF RunInv, Current, RunTyped
<1>3. /\ Here \in Continuations /\ Built /\ Here \in Nat \ {0}
      /\ procedure.num_continuations \in Nat /\ procedure.num_continuations <= MaxContinuations
      /\ Here <= procedure.num_continuations
  <2>1. Here \in Continuations /\ procedure.num_continuations \in Nat /\ Built
    BY <1>1, <1>2, HereIs DEF AtJoin
  <2>2. procedure.num_continuations <= MaxContinuations
    BY <2>1 DEF BuilderInv, BuilderSound, Holds
  <2> QED
    BY <1>2, <2>1, <2>2, ProcedureBuilderAssumption DEF Continuations, AtJoin
<1>4. frame \in FrameType
  BY <1>2, ProceduresAssumption DEF FrameAfter, NewFrame, FrameType, JobType, Indexes
<1>5. pc \in {"abort", "step"} /\ i \in Nat \ {0}
  BY <1>3 DEF Here
<1>6. result \in {"Ended", "Error", "Repeat"}
  BY <1>2 DEF JobType
<1>7. /\ result = "Error" => pc = "abort" /\ i = Here /\ job.has_error
      /\ result = "Ended" => pc = "step" /\ i = Here + 1 /\ frame = NewFrame
                             /\ ~job.has_error /\ job.result = "Ended"
      /\ result = "Repeat" => pc = "step" /\ i = Here /\ frame = job.frame
                              /\ ~job.has_error /\ job.result = "Repeat"
  BY <1>2, <1>6 DEF FrameAfter, Here, AtJoin
<1> HIDE DEF result, pc, frame, i
<1>8. /\ job' \in JobType /\ job'.pc = pc /\ job'.frame = frame /\ Here' = i
      /\ job'.has_error = job.has_error
      /\ job'.dependency_has_error = job.dependency_has_error /\ job'.unfit = job.unfit
  BY <1>1, <1>2, <1>4, <1>5 DEF JobType, Here
<1>9. RunTyped'
  BY <1>1, <1>2, <1>8 DEF RunTyped
<1>10. (Cause <=> job.has_error)' /\ Unmet'
  BY <1>1, <1>2, <1>8, CauseIs, StillCaused DEF Running
<1>11. NoChildren'
  BY <1>1 DEF NoChildren
<1>12. CASE result # "Ended"
  <2>1. Here' = Here
    BY <1>6, <1>7, <1>8, <1>12
  <2>2. InTurn'
    <3>1. OthersStay
      BY <1>1 DEF OthersStay
    <3> QED
      BY <1>1, <1>2, <1>10, <2>1, <3>1, StillInTurn
  <2>3. CASE result = "Error"
    <3>1. job'.pc = "abort" /\ job'.has_error
      BY <1>7, <1>8, <2>3
    <3>2. ToRun(Here)' = ToRun(Here)
      BY <1>1, <2>1 DEF ToRun
    <3>3. \E S \in SUBSET ToRun(Here) : Ran(executed[Here], S)
      BY <1>1, JoinedRan
    <3>4. AtFailure'
      BY <1>1, <1>11, <2>1, <3>1, <3>2, <3>3 DEF AtFailure
    <3> QED
      BY <1>1, <1>9, <2>2, <3>1, <3>4, RunInvFrom DEF Current
  <2>4. CASE result = "Repeat"
    <3>1. job'.pc = "step" /\ ~job'.has_error /\ job'.frame = job.frame
      BY <1>7, <1>8, <2>4
    <3>2. Kind = "sequential_for" /\ SequentiallyRan /\ job.frame.index < job.frame.count
      BY <1>2, <1>7, <2>4 DEF AtJoin
    <3>3. SequentiallyRan'
      BY <1>1, <2>1, <3>1, <3>2 DEF SequentiallyRan
    <3>4. Kind' = "sequential_for"
      BY <1>1, <2>1, <3>2 DEF Kind, Here
    <3>5. AtStep'
      BY <1>11, <3>1, <3>2, <3>3, <3>4 DEF AtStep
    <3> QED
      BY <1>1, <1>9, <2>2, <3>1, <3>5, RunInvFrom DEF Current
  <2> QED
    BY <1>6, <1>12, <2>3, <2>4
<1>13. CASE result = "Ended"
  <2>1. job'.pc = "step" /\ ~job'.has_error /\ job'.frame = NewFrame /\ Here' = Here + 1
    BY <1>7, <1>8, <1>13
  <2>2. Over(Here)
    BY <1>1, <1>7, <1>13, JoinedRan
  <2>3. ASSUME NEW k \in Continuations
        PROVE  (k < Here' => Over(k)') /\ (k >= Here' => Fresh(k)')
    <3>1. k \in Nat
      BY ProcedureBuilderAssumption DEF Continuations
    <3>2. (Over(k)' <=> Over(k)) /\ (Fresh(k)' <=> Fresh(k))
      BY <1>1 DEF Over, Fresh, ToRun, Ran
    <3>3. k < Here + 1 => k < Here \/ k = Here
      BY <1>3, <3>1
    <3>4. k >= Here + 1 => k > Here
      BY <1>3, <3>1
    <3> QED
      BY <1>2, <2>1, <2>2, <3>2, <3>3, <3>4 DEF InTurn
  <2>4. InTurn'
    <3>1. Built'
      BY <1>1, <1>3 DEF Built
    <3>2. Here' <= procedure'.num_continuations + 1
      BY <1>1, <1>3, <2>1
    <3>3. \A k \in Continuations : k > Here' => k >= Here'
      BY <1>3, <2>1, ProcedureBuilderAssumption DEF Continuations
    <3> QED
      BY <1>10, <2>3, <3>1, <3>2, <3>3 DEF InTurn
  <2>5. AtStep'
    <3>1. Here' = procedure'.num_continuations + 1 \/ Here' \in Continuations
      BY <1>1, <1>3, <2>1, ProcedureBuilderAssumption DEF Continuations
    <3>2. ASSUME Here' \in Continuations PROVE Fresh(Here)'
      <4>1. Here' >= Here'
        BY <1>3, <2>1
      <4>2. \A k \in Continuations : k = Here' => Fresh(k)'
        BY <2>3, <4>1
      <4> QED
        BY <3>2, <4>2 DEF Fresh
    <3> QED
      BY <1>11, <2>1, <3>1, <3>2 DEF AtStep
  <2> QED
    BY <1>1, <1>9, <2>1, <2>4, <2>5, RunInvFrom DEF Current
<1> QED
  BY <1>12, <1>13

LEMMA RunInvEnd ==
    ASSUME BuilderInv, RunInv, EndJob
    PROVE  RunInv'
<1> DEFINE pc == IF job.pc = "step" THEN "ok" ELSE "failed"
<1>1. /\ (job.pc = "step" /\ Here > procedure.num_continuations) \/ job.pc \in {"abort", "reject"}
      /\ unwound' = unwound + Unwinds
      /\ job' = [job EXCEPT !.pc = pc]
      /\ UNCHANGED <<procedure, requested, child, count, forked, executed, body_failed>>
  BY DEF EndJob, buildVars, Here
<1>2. RunTyped /\ InTurn /\ job \in JobType /\ Built
  BY <1>1 DEF RunInv, RunTyped, InTurn
<1>3. pc \in {"ok", "failed"} /\ (job.pc = "step" <=> pc = "ok")
  OBVIOUS
<1> HIDE DEF pc
<1>4. /\ job' \in JobType /\ job'.pc = pc /\ Here' = Here /\ job'.has_error = job.has_error
      /\ job'.dependency_has_error = job.dependency_has_error /\ job'.unfit = job.unfit
  BY <1>1, <1>2, <1>3 DEF JobType, Here
<1>5. unwound = 0 /\ Unwinds = IF requested.unwind THEN 1 ELSE 0
  <2>1. unwound = 0
    BY <1>1 DEF RunInv, UnwoundOnce
  <2>2. procedure.unwind_func <=> requested.unwind
    BY <1>2 DEF BuilderInv, BuilderSound
  <2> QED
    BY <2>1, <2>2 DEF Unwinds
<1>6. unwound' = IF requested.unwind THEN 1 ELSE 0
  BY <1>1, <1>5
<1>7. RunTyped'
  BY <1>1, <1>2, <1>4, <1>6 DEF RunTyped
<1>8. UnwoundOnce'
  BY <1>1, <1>3, <1>4, <1>6 DEF UnwoundOnce
<1>9. InTurn'
  <2>1. OthersStay
    BY <1>1 DEF OthersStay
  <2>2. (Cause <=> job.has_error)'
    BY <1>1, <1>2, <1>3, <1>4 DEF InTurn, Cause
  <2>3. Unmet'
    <3>1. ASSUME job.dependency_has_error
          PROVE  pc = "failed" /\ \A k \in Continuations : Fresh(k)
      BY <1>1, <1>2, <1>3, <3>1 DEF InTurn, Unmet
    <3>2. \A k \in Continuations : Fresh(k)' <=> Fresh(k)
      BY <1>1 DEF Fresh, Ran
    <3> QED
      BY <1>4, <3>1, <3>2 DEF Unmet
  <2> QED
    BY <1>1, <1>2, <1>4, <2>1, <2>2, <2>3, StillInTurn
<1>10. NoChildren' <=> NoChildren
  BY <1>1 DEF NoChildren
<1>11. CASE job.pc = "step"
  <2>1. AtStep /\ Here \in Nat /\ procedure.num_continuations \in Nat
    BY <1>2, <1>11 DEF RunInv, Current, JobType, Here, BuilderInv, BuilderTyped, ProcedureType
  <2>2. AtSuccess'
    <3>1. Here = procedure.num_continuations + 1
      BY <1>1, <1>2, <1>11, <2>1 DEF InTurn
    <3> QED
      BY <1>1, <1>4, <1>10, <2>1, <3>1 DEF AtStep, AtSuccess
  <2> QED
    BY <1>3, <1>4, <1>7, <1>8, <1>9, <1>11, <2>2 DEF RunInv, Current
<1>12. CASE job.pc \in {"abort", "reject"}
  <2>1. AtFailure
    BY <1>12 DEF RunInv, Current
  <2>2. ToRun(Here)' = ToRun(Here)
    BY <1>1, <1>4 DEF ToRun
  <2>3. AtFailure'
    BY <1>1, <1>4, <1>10, <2>1, <2>2 DEF AtFailure
  <2> QED
    BY <1>3, <1>4, <1>7, <1>8, <1>9, <1>12, <2>3 DEF RunInv, Current
<1> QED
  BY <1>1, <1>11, <1>12

\* While there are children the current continuation is a parallel_for.
LEMMA ChildAtWork ==
    ASSUME BuilderInv, RunInv, NEW e \in Executors, child[e].pc # "none"
    PROVE  /\ job.pc \in {"fork", "join"}
           /\ job.pc = "join" => job.result = "Ended"
           /\ Here \in Continuations /\ Here <= procedure.num_continuations
           /\ Kind = "parallel_for" /\ ParallelyRan /\ forked[Here] # 0
<1>1. ~NoChildren
  BY DEF NoChildren
<1>2. /\ job.pc \in {"fork", "join"} /\ Here <= procedure.num_continuations
      /\ Kind = "parallel_for" /\ ParallelyRan
      /\ job.pc = "join" => job.result = "Ended"
  <2>1. job.pc \in {"none", "setup", "step", "fork", "join", "abort", "reject", "ok", "failed"}
    BY DEF RunInv, RunTyped, JobType
  <2>2. job.pc \in {"fork", "join"}
    BY <1>1, <2>1 DEF RunInv, Current, AtRest, AtSetup, AtStep, AtFailure, AtSuccess
  <2> QED
    BY <1>1, <2>2 DEF RunInv, Current, AtFork, AtJoin
<1>3. Here \in Continuations
  BY <1>2, HereIs
<1> QED
  BY <1>1, <1>2, <1>3 DEF ParallelyRan

\* What has to be shown of a step of a child.
LEMMA RunInvChild ==
    ASSUME BuilderInv, RunInv, NEW e \in Executors, child[e].pc # "none",
           UNCHANGED procedure, UNCHANGED unwound,
           Here' = Here, job'.pc = job.pc, job'.result = job.result,
           RunTyped', InTurn', ParallelyRan'
    PROVE  RunInv'
<1>1. /\ job.pc \in {"fork", "join"}
      /\ job.pc = "join" => job.result = "Ended"
      /\ Here <= procedure.num_continuations /\ Kind = "parallel_for"
  BY ChildAtWork
<1>2. Kind' = "parallel_for"
  BY <1>1 DEF Kind, Here
<1>3. job.pc = "fork" => AtFork'
  BY <1>1, <1>2 DEF AtFork
<1>4. job.pc = "join" => AtJoin'
  BY <1>1, <1>2 DEF AtJoin
<1> QED
  BY <1>1, <1>3, <1>4, RunInvFrom DEF Current

LEMMA RunInvFetch ==
    ASSUME BuilderInv, RunInv, NEW e \in Executors, Fetch(e)
    PROVE  RunInv'
<1> DEFINE index == job.frame.index
           past == PastLast(index, job.frame.count)
           new == IF past THEN NoChild ELSE [pc |-> "body", index |-> index]
<1>1. /\ child[e].pc \in {"setup", "fetch"}
      /\ job' = [job EXCEPT !.frame.index = index + 1]
      /\ child' = [child EXCEPT ![e] = new]
      /\ UNCHANGED <<procedure, requested, count, forked, executed, body_failed, unwound>>
  BY DEF Fetch, buildVars
<1>2. /\ job.pc \in {"fork", "join"}
      /\ Here \in Continuations /\ ParallelyRan /\ forked[Here] # 0
  BY <1>1, ChildAtWork
<1>3. RunTyped /\ InTurn /\ job \in JobType /\ child \in [Executors -> ChildType]
  BY <1>2 DEF RunInv, RunTyped
<1>4. index \in Nat /\ job.frame.count \in Nat /\ job.frame.count <= MaxCount
  BY <1>3, ProceduresAssumption DEF JobType, FrameType, Indexes
<1>5. /\ new \in ChildType
      /\ past => new.pc = "none" /\ index >= job.frame.count
      /\ ~past => new.pc = "body" /\ new.index = index /\ index < job.frame.count
  BY <1>4 DEF NoChild, ChildType, PastLast
<1>6. /\ child' \in [Executors -> ChildType] /\ child'[e] = new
      /\ \A d \in Executors : d # e => child'[d] = child[d]
  <2> HIDE DEF new
  <2> QED
    BY <1>1, <1>3, <1>5
<1> HIDE DEF new, past
<1>7. /\ job' \in JobType /\ job'.pc = job.pc /\ job'.result = job.result
      /\ job'.has_error = job.has_error
      /\ job'.dependency_has_error = job.dependency_has_error /\ job'.unfit = job.unfit
      /\ Here' = Here /\ job'.frame.index = index + 1 /\ job'.frame.count = job.frame.count
      /\ job'.frame.is_first_time = job.frame.is_first_time
      /\ job'.next_executor = job.next_executor
  <2> DEFINE next == index + 1
  <2>1. next \in Nat
    BY <1>4
  <2>2. job' = [job EXCEPT !.frame.index = next]
    BY <1>1
  <2> HIDE DEF next
  <2> QED
    BY <1>3, <2>1, <2>2 DEF JobType, FrameType, Here, next
<1>8. RunTyped'
  BY <1>1, <1>3, <1>6, <1>7 DEF RunTyped
<1>9. InTurn'
  <2>1. OthersStay
    BY <1>1 DEF OthersStay
  <2>2. (Cause <=> job.has_error)' /\ Unmet'
    BY <1>1, <1>2, <1>3, <1>7, CauseIs, StillCaused DEF Running
  <2> QED
    BY <1>1, <1>3, <1>7, <2>1, <2>2, StillInTurn
<1>10. ParallelyRan'
  <2>1. \A d \in Executors : child[d].pc = "body" =>
            child[d].index \in Nat /\ child[d].index < index /\ child[d].index < job.frame.count
    BY <1>2, <1>3 DEF ParallelyRan, ChildType
  <2>2. \A d \in Executors : child'[d].pc = "body" =>
            child'[d].index < job'.frame.index /\ child'[d].index < job'.frame.count
    <3> TAKE d \in Executors
    <3>1. CASE d = e
      BY <1>4, <1>5, <1>6, <1>7, <3>1
    <3>2. CASE d # e
      <4>1. child'[d] = child[d]
        BY <1>6, <3>2
      <4> QED
        BY <1>4, <1>7, <2>1, <4>1
    <3> QED
      BY <3>1, <3>2
  <2>3. \A c \in Executors : \A d \in Executors :
            child'[c].pc = "body" /\ HasBody(d, child[c].index)' => c = d
    <3> SUFFICES ASSUME NEW c \in Executors, NEW d \in Executors,
                        child'[c].pc = "body", child'[d].pc = "body",
                        child'[d].index = child'[c].index, c # d
                 PROVE  FALSE
      BY DEF HasBody
    <3>1. CASE c = e
      <4>1. child'[d] = child[d] /\ child'[c].index = index
        BY <1>5, <1>6, <3>1
      <4> QED
        BY <1>4, <2>1, <4>1
    <3>2. CASE d = e
      <4>1. child'[c] = child[c] /\ child'[d].index = index
        BY <1>5, <1>6, <3>2
      <4> QED
        BY <1>4, <2>1, <4>1
    <3>3. CASE c # e /\ d # e
      <4>1. child'[c] = child[c] /\ child'[d] = child[d]
        BY <1>6, <3>3
      <4> QED
        BY <1>2, <4>1 DEF ParallelyRan, HasBody
    <3> QED
      BY <3>1, <3>2, <3>3
  <2>4. Done' = Done
    <3>1. ASSUME NEW n \in Indexes
          PROVE  n \in Done' <=> n \in Done
      <4>1. n \in Nat
        BY ProceduresAssumption DEF Indexes
      <4>2. \A d \in Executors : d # e => (HasBody(d, n)' <=> HasBody(d, n))
        BY <1>6 DEF HasBody
      <4>3. ~HasBody(e, n)
        BY <1>1 DEF HasBody
      <4>4. HasBody(e, n)' <=> ~past /\ n = index
        BY <1>5, <1>6 DEF HasBody
      <4>5. (\A d \in Executors : ~HasBody(d, n)')
              <=> (\A d \in Executors : ~HasBody(d, n)) /\ ~(~past /\ n = index)
        BY <4>2, <4>3, <4>4
      <4>6. n < index + 1 /\ n < job.frame.count /\ ~(~past /\ n = index)
              <=> n < index /\ n < job.frame.count
        BY <1>4, <1>5, <4>1
      <4>7. n \in Done' <=> /\ n < index + 1 /\ n < job.frame.count
                            /\ \A d \in Executors : ~HasBody(d, n)'
        BY <1>7 DEF Done
      <4>8. n \in Done <=> /\ n < index /\ n < job.frame.count
                           /\ \A d \in Executors : ~HasBody(d, n)
        BY DEF Done
      <4> QED
        BY <4>5, <4>6, <4>7, <4>8
    <3>2. Done \subseteq Indexes /\ Done' \subseteq Indexes
      BY DEF Done
    <3> QED
      BY <3>1, <3>2
  <2>5. /\ job'.frame.count = count'[Here'] /\ ~job'.frame.is_first_time
        /\ Ran(executed'[Here'], Done')
    BY <1>1, <1>2, <1>7, <2>4 DEF ParallelyRan
  <2>6. forked'[Here'] # 0
    BY <1>1, <1>2, <1>7
  <2>7. ~NoChildren' \/ job'.frame.index >= job'.frame.count
    <3>1. CASE past
      BY <1>4, <1>5, <1>7, <3>1
    <3>2. CASE ~past
      BY <1>5, <1>6, <3>2 DEF NoChildren
    <3> QED
      BY <3>1, <3>2
  <2>8. \A d \in job'.next_executor : child'[d].pc = "none"
    <3>1. e \notin job.next_executor /\ job.next_executor \subseteq Executors
      BY <1>1, <1>2, <1>3 DEF ParallelyRan, JobType
    <3> QED
      BY <1>2, <1>6, <1>7, <3>1 DEF ParallelyRan
  <2> QED
    BY <2>2, <2>3, <2>5, <2>6, <2>7, <2>8 DEF ParallelyRan
<1> QED
  BY <1>1, <1>7, <1>8, <1>9, <1>10, RunInvChild

LEMMA RunInvBody ==
    ASSUME BuilderInv, RunInv, NEW e \in Executors, RunChild(e)
    PROVE  RunInv'
<1>1. /\ child[e].pc = "body"
      /\ UNCHANGED <<procedure, requested, count, forked, unwound>>
  BY DEF RunChild, buildVars
<1> DEFINE index == child[e].index
<1>2. PICK failed \in BOOLEAN :
         /\ RunBody(index, failed)
         /\ job' = ChildError(failed)
         /\ child' = [child EXCEPT ![e] = IF failed THEN NoChild
                                          ELSE [NoChild EXCEPT !.pc = "fetch"]]
  BY DEF RunChild
<1> DEFINE new == IF failed THEN NoChild ELSE [NoChild EXCEPT !.pc = "fetch"]
           err == job.has_error \/ failed
<1>3. /\ job.pc \in {"fork", "join"}
      /\ Here \in Continuations /\ ParallelyRan /\ forked[Here] # 0
  BY <1>1, ChildAtWork
<1>4. RunTyped /\ InTurn /\ job \in JobType /\ child \in [Executors -> ChildType]
  BY <1>3 DEF RunInv, RunTyped
<1>5. /\ index \in Nat /\ index < job.frame.index /\ index < job.frame.count /\ index \in Indexes
      /\ index \notin Done
  <2>1. index \in Nat /\ index < job.frame.index /\ index < job.frame.count
    BY <1>1, <1>3, <1>4 DEF ParallelyRan, ChildType
  <2>2. job.frame.count \in Nat /\ job.frame.count <= MaxCount
    BY <1>4, ProceduresAssumption DEF JobType, FrameType, Indexes
  <2>3. index \in Indexes
    BY <2>1, <2>2, ProceduresAssumption DEF Indexes
  <2>4. HasBody(e, index)
    BY <1>1 DEF HasBody
  <2> QED
    BY <2>1, <2>3, <2>4 DEF Done
<1>6. /\ executed' \in [Continuations -> [Indexes -> 0 .. 2]]
      /\ Ran(executed'[Here], Done \cup {index})
      /\ \A k \in Continuations : k # Here => executed'[k] = executed[k]
      /\ body_failed' \in BOOLEAN /\ (body_failed' <=> body_failed \/ failed)
  <2>1. Ran(executed[Here], Done)
    BY <1>3 DEF ParallelyRan
  <2> HIDE DEF index
  <2> QED
    BY <1>2, <1>3, <1>4, <1>5, <2>1, BodyRuns, SMTT(30)
<1>7. /\ new \in ChildType /\ new.pc # "body" /\ (failed \/ new.pc = "fetch")
  BY DEF NoChild, ChildType
<1>8. /\ child' \in [Executors -> ChildType] /\ child'[e] = new
      /\ \A d \in Executors : d # e => child'[d] = child[d]
  <2> HIDE DEF new
  <2>1. child' = [child EXCEPT ![e] = new]
    BY <1>2 DEF new
  <2> QED
    BY <1>4, <1>7, <2>1
<1> HIDE DEF new
<1>9. /\ job' \in JobType /\ job'.pc = job.pc /\ job'.result = job.result
      /\ job'.has_error <=> job.has_error \/ failed
      /\ job'.dependency_has_error = job.dependency_has_error /\ job'.unfit = job.unfit
      /\ Here' = Here /\ job'.frame = job.frame /\ job'.next_executor = job.next_executor
  <2>1. err \in BOOLEAN
    OBVIOUS
  <2>2. job' = [job EXCEPT !.has_error = err]
    BY <1>2 DEF ChildError
  <2> HIDE DEF err
  <2>3. /\ job' \in JobType /\ job'.pc = job.pc /\ job'.result = job.result
        /\ job'.has_error = err
        /\ job'.dependency_has_error = job.dependency_has_error /\ job'.unfit = job.unfit
        /\ Here' = Here /\ job'.frame = job.frame /\ job'.next_executor = job.next_executor
    BY <1>4, <2>1, <2>2 DEF JobType, Here
  <2> QED
    BY <2>3 DEF err
<1>10. RunTyped'
  BY <1>1, <1>4, <1>6, <1>8, <1>9 DEF RunTyped
<1>11. InTurn'
  <2>1. OthersStay
    BY <1>1, <1>6 DEF OthersStay
  <2>2. (Cause <=> job.has_error)' /\ Unmet'
    BY <1>1, <1>3, <1>4, <1>6, <1>9, CauseIs, StillCaused DEF Running
  <2> QED
    BY <1>1, <1>4, <1>9, <2>1, <2>2, StillInTurn
<1>12. ParallelyRan'
  <2>1. \A d \in Executors : child'[d].pc = "body" => d # e /\ child'[d] = child[d]
    BY <1>7, <1>8
  <2>2. \A d \in Executors : child'[d].pc = "body" =>
            child'[d].index < job'.frame.index /\ child'[d].index < job'.frame.count
    BY <1>3, <1>9, <2>1 DEF ParallelyRan
  <2>3. \A c \in Executors : \A d \in Executors :
            child'[c].pc = "body" /\ HasBody(d, child[c].index)' => c = d
    BY <1>3, <2>1 DEF ParallelyRan, HasBody
  <2>4. Done' = Done \cup {index}
    <3>1. ASSUME NEW n \in Indexes
          PROVE  n \in Done' <=> n \in Done \/ n = index
      <4>1. \A d \in Executors : d # e => (HasBody(d, n)' <=> HasBody(d, n))
        BY <1>8 DEF HasBody
      <4>2. ~HasBody(e, n)' /\ (HasBody(e, n) <=> n = index)
        BY <1>1, <1>7, <1>8 DEF HasBody
      <4>3. n = index => \A d \in Executors : HasBody(d, n) => d = e
        BY <1>1, <1>3 DEF ParallelyRan
      <4>4. (\A d \in Executors : ~HasBody(d, n)')
              <=> (\A d \in Executors : ~HasBody(d, n)) \/ n = index
        BY <4>1, <4>2, <4>3
      <4>5. n \in Done' <=> /\ n < job.frame.index /\ n < job.frame.count
                            /\ \A d \in Executors : ~HasBody(d, n)'
        BY <1>9 DEF Done
      <4>6. n \in Done <=> /\ n < job.frame.index /\ n < job.frame.count
                           /\ \A d \in Executors : ~HasBody(d, n)
        BY DEF Done
      <4> QED
        BY <1>5, <4>4, <4>5, <4>6
    <3>2. Done \subseteq Indexes /\ Done' \subseteq Indexes
      BY DEF Done
    <3> QED
      BY <1>5, <3>1, <3>2
  <2>5. Ran(executed'[Here'], Done')
    BY <1>6, <1>9, <2>4
  <2>6. /\ job'.frame.count = count'[Here'] /\ ~job'.frame.is_first_time
        /\ forked'[Here'] # 0
    BY <1>1, <1>3, <1>9 DEF ParallelyRan
  <2>7. ~job'.has_error => ~NoChildren'
    BY <1>7, <1>8, <1>9 DEF NoChildren
  <2>8. \A d \in job'.next_executor : child'[d].pc = "none"
    <3>1. e \notin job.next_executor /\ job.next_executor \subseteq Executors
      BY <1>1, <1>3, <1>4 DEF ParallelyRan, JobType
    <3> QED
      BY <1>3, <1>8, <1>9, <3>1 DEF ParallelyRan
  <2> QED
    BY <2>2, <2>3, <2>5, <2>6, <2>7, <2>8 DEF ParallelyRan
<1> QED
  BY <1>1, <1>9, <1>10, <1>11, <1>12, RunInvChild

LEMMA RunInvReject ==
    ASSUME BuilderInv, RunInv, NEW e \in Executors, RejectChild(e)
    PROVE  RunInv'
<1> DEFINE last == job.pc = "join" /\ \A f \in Executors \ {e} : child[f].pc = "none"
           pc == IF last THEN "step" ELSE job.pc
<1>1. /\ child[e].pc = "setup"
      /\ job' = [job EXCEPT !.pc = pc, !.has_error = TRUE, !.unfit = TRUE]
      /\ child' = [child EXCEPT ![e] = NoChild]
      /\ UNCHANGED <<procedure, requested, count, forked, executed, body_failed, unwound>>
  BY DEF RejectChild, buildVars
<1>2. /\ job.pc \in {"fork", "join"} /\ Here <= procedure.num_continuations
      /\ Here \in Continuations /\ Kind = "parallel_for" /\ ParallelyRan /\ forked[Here] # 0
  BY <1>1, ChildAtWork
<1>3. RunTyped /\ InTurn /\ job \in JobType /\ child \in [Executors -> ChildType]
  BY <1>2 DEF RunInv, RunTyped
<1>4. pc \in {"step", "fork", "join"} /\ (last => pc = "step") /\ (~last => pc = job.pc)
  BY <1>2
<1> HIDE DEF pc
<1>5. /\ job' \in JobType /\ job'.pc = pc /\ job'.has_error /\ job'.unfit
      /\ job'.dependency_has_error = job.dependency_has_error /\ job'.result = job.result
      /\ Here' = Here /\ job'.frame = job.frame /\ job'.next_executor = job.next_executor
  BY <1>1, <1>3, <1>4 DEF JobType, Here
<1>6. /\ child' \in [Executors -> ChildType] /\ child'[e].pc = "none"
      /\ \A d \in Executors : d # e => child'[d] = child[d]
  <2>1. NoChild \in ChildType /\ NoChild.pc = "none"
    BY DEF NoChild, ChildType
  <2> QED
    BY <1>1, <1>3, <2>1
<1>7. RunTyped'
  BY <1>1, <1>3, <1>5, <1>6 DEF RunTyped
<1>8. InTurn'
  <2>1. OthersStay
    BY <1>1 DEF OthersStay
  <2>2. (Cause <=> job.has_error)' /\ Unmet'
    BY <1>2, <1>5, StillCaused DEF Running
  <2> QED
    BY <1>1, <1>3, <1>5, <2>1, <2>2, StillInTurn
<1>9. ParallelyRan'
  <2>1. \A d \in Executors : child'[d].pc = "body" => d # e /\ child'[d] = child[d]
    BY <1>6
  <2>2. \A d \in Executors : \A n : HasBody(d, n)' <=> HasBody(d, n)
    BY <1>1, <1>6 DEF HasBody
  <2>3. Done' = Done
    BY <1>5, <2>2 DEF Done
  <2>4. \A d \in Executors : child'[d].pc = "body" =>
            child'[d].index < job'.frame.index /\ child'[d].index < job'.frame.count
    BY <1>2, <1>5, <2>1 DEF ParallelyRan
  <2>5. \A c \in Executors : \A d \in Executors :
            child'[c].pc = "body" /\ HasBody(d, child[c].index)' => c = d
    BY <1>2, <2>1 DEF ParallelyRan, HasBody
  <2>6. /\ job'.frame.count = count'[Here'] /\ ~job'.frame.is_first_time
        /\ Ran(executed'[Here'], Done') /\ forked'[Here'] # 0
    BY <1>1, <1>2, <1>5, <2>3 DEF ParallelyRan
  <2>7. \A d \in job'.next_executor : child'[d].pc = "none"
    <3>1. e \notin job.next_executor /\ job.next_executor \subseteq Executors
      BY <1>1, <1>2, <1>3 DEF ParallelyRan, JobType
    <3> QED
      BY <1>2, <1>5, <1>6, <3>1 DEF ParallelyRan
  <2> QED
    BY <1>5, <2>4, <2>5, <2>6, <2>7 DEF ParallelyRan
<1>10. CASE last
  <2>1. NoChildren'
    BY <1>6, <1>10 DEF NoChildren
  <2>2. AtStep'
    BY <1>1, <1>2, <1>5, <1>9, <2>1 DEF AtStep, Kind, Here
  <2> QED
    BY <1>1, <1>2, <1>4, <1>5, <1>7, <1>8, <1>10, <2>2, RunInvFrom DEF Current
<1>11. CASE ~last
  BY <1>1, <1>4, <1>5, <1>7, <1>8, <1>9, <1>11, RunInvChild
<1> QED
  BY <1>10, <1>11

LEMMA RunInvDestroy == Destroy => RunInv'
<1>1. NoRun' => RunInv'
  BY AtRestIs, PTL
<1>2. Destroy => NoRun'
  BY DEF Destroy, NoRun
<1> QED
  BY <1>1, <1>2

LEMMA RunInvNext == BuilderInv /\ RunInv /\ [Next]_vars => RunInv'
<1> SUFFICES ASSUME BuilderInv, RunInv, [Next]_vars PROVE RunInv'
  OBVIOUS
<1>1. CASE BuilderNext /\ UNCHANGED runVars
  BY <1>1, RunInvBuilder
<1>2. CASE InvokeProcedure
  BY <1>2, RunInvInvoke
<1>3. CASE JobStep
  BY <1>3, RunInvSetup, RunInvSingle, RunInvSequential, RunInvParallel, RunInvAgain, RunInvFork,
     RunInvEndForks, RunInvMove, RunInvEnd DEF JobStep
<1>4. CASE \E e \in Executors : ChildStep(e)
  BY <1>4, RunInvReject, RunInvFetch, RunInvBody DEF ChildStep
<1>5. CASE Destroy
  BY <1>5, RunInvDestroy
<1>6. CASE UNCHANGED vars
  BY <1>6 DEF vars, buildVars, runVars, RunInv, RunTyped, InTurn, Current, UnwoundOnce, AtRest,
              Cause, Unmet, AtSetup, AtStep, AtFork, AtJoin, AtFailure, AtSuccess, NoChildren, Fresh, Over, ToRun, Here,
              Kind, SequentiallyRan, ParallelyRan, Done, HasBody, Built
<1> QED
  BY <1>1, <1>2, <1>3, <1>4, <1>5, <1>6 DEF Next

LEMMA AlwaysRunInv == Spec => [](BuilderInv /\ RunInv)
  BY BuilderInvInit, RunInvInit, BuilderInvNext, RunInvNext, PTL DEF Spec

-----------------------------------------------------------------------------
(* Theorems *)

\* In every state the current continuation has run part of what it is to run.
LEMMA CurrentRan ==
    ASSUME BuilderInv, RunInv, job.pc # "none", Here \in Continuations,
           Here <= procedure.num_continuations
    PROVE  \E S \in SUBSET ToRun(Here) : Ran(executed[Here], S)
<1>1. /\ job.pc \in {"none", "setup", "step", "fork", "join", "abort", "reject", "ok", "failed"}
      /\ Here \in Nat /\ procedure.num_continuations \in Nat
  BY DEF RunInv, RunTyped, JobType, Here, BuilderInv, BuilderTyped, ProcedureType
<1>2. /\ job.frame.index \in Nat /\ job.frame.count \in Nat
      /\ job.frame.count <= MaxCount
  BY ProceduresAssumption DEF RunInv, RunTyped, JobType, FrameType, Indexes
<1>3. ASSUME SequentiallyRan, Kind = "sequential_for"
      PROVE  \E S \in SUBSET ToRun(Here) : Ran(executed[Here], S)
  <2> DEFINE S == {n \in 0 .. job.frame.count - 1 : n < job.frame.index}
  <2>1. Ran(executed[Here], S) /\ ToRun(Here) = 0 .. job.frame.count - 1
    BY <1>3 DEF SequentiallyRan, ToRun, Kind, Here
  <2> QED
    BY <2>1
<1>4. ASSUME ParallelyRan, Kind = "parallel_for"
      PROVE  \E S \in SUBSET ToRun(Here) : Ran(executed[Here], S)
  <2>1. Ran(executed[Here], Done) /\ ToRun(Here) = 0 .. job.frame.count - 1
    BY <1>4 DEF ParallelyRan, ToRun, Kind, Here
  <2>2. Done \in SUBSET ToRun(Here)
    BY <1>2, <2>1, ProceduresAssumption DEF Done, Indexes
  <2> QED
    BY <2>1, <2>2
<1>5. Fresh(Here) => \E S \in SUBSET ToRun(Here) : Ran(executed[Here], S)
  BY DEF Fresh
<1>6. CASE job.pc = "step"
  <2>1. Here # procedure.num_continuations + 1
    BY <1>1
  <2> QED
    BY <1>3, <1>4, <1>5, <1>6, <2>1 DEF RunInv, Current, AtStep
<1>7. CASE job.pc = "fork"
  BY <1>4, <1>7 DEF RunInv, Current, AtFork
<1>8. CASE job.pc = "join"
  <2>1. Kind = "single" /\ Ran(executed[Here], {0}) => ToRun(Here) = {0}
    BY DEF ToRun, Kind, Here
  <2> QED
    BY <1>3, <1>4, <1>8, <2>1 DEF RunInv, Current, AtJoin
<1>9. CASE job.pc = "setup"
  BY <1>5, <1>9 DEF RunInv, Current, AtSetup
<1>10. CASE job.pc \in {"abort", "reject", "failed"}
  BY <1>10 DEF RunInv, Current, AtFailure
<1>11. CASE job.pc = "ok"
  <2>1. Here # procedure.num_continuations + 1
    BY <1>1
  <2> QED
    BY <1>11, <2>1 DEF RunInv, Current, AtSuccess
<1> QED
  BY <1>1, <1>6, <1>7, <1>8, <1>10, <1>11, <1>9

(***************************************************************************)
(* Each loop calls its body at most once for an index and never beyond its *)
(* count, and when the job has ended well for every index, for any number  *)
(* of executors that share the counter of a parallel_for                   *)
(* (sequential_for.c:24-61, parallel_for.c:24-95).                         *)
(***************************************************************************)
THEOREM LoopsRunOnce == Spec => []LoopsComplete
<1>1. BuilderInv /\ RunInv => LoopsComplete
  <2> SUFFICES ASSUME BuilderInv, RunInv, Built, NEW i \in 1 .. procedure.num_continuations
               PROVE  LET IsLoop == procedure.continuations[i]
                                      \in {"sequential_for", "parallel_for"}
                          Indices == IF IsLoop THEN 0 .. count[i] - 1 ELSE {0} IN
                      /\ \A n \in 0 .. MaxCount :
                            executed[i][n] <= IF n \in Indices THEN 1 ELSE 0
                      /\ job.pc = "ok" => \/ \A n \in Indices : executed[i][n] = 1
                                          \/ /\ procedure.continuations[i] = "parallel_for"
                                             /\ forked[i] = 0
    BY DEF LoopsComplete
  <2>1. /\ procedure.num_continuations \in Nat
        /\ procedure.num_continuations <= MaxContinuations
        /\ procedure.continuations[i] \in Kinds
    <3>1. /\ procedure.num_continuations \in Nat /\ requested.continuations \in Seq(Kinds)
          /\ Holds(procedure.continuations, procedure.num_continuations, requested.continuations)
      BY DEF BuilderInv, BuilderTyped, BuilderSound, ProcedureType, RequestType
    <3>2. i \in 1 .. Len(requested.continuations)
            /\ procedure.continuations[i] = requested.continuations[i]
      BY <3>1 DEF Holds
    <3>3. requested.continuations[i] \in Kinds
      BY <3>1, <3>2, ElementOfSeq
    <3> QED
      BY <3>1, <3>2, <3>3 DEF Holds
  <2>2. i \in Continuations /\ i \in Nat
    BY <2>1, ProcedureBuilderAssumption DEF Continuations
  <2> DEFINE IsLoop == procedure.continuations[i] \in {"sequential_for", "parallel_for"}
             Indices == IF IsLoop THEN 0 .. count[i] - 1 ELSE {0}
  <2>3. ToRun(i) = Indices /\ Indices \subseteq Indexes
    <3>1. count[i] \in 0 .. MaxCount
      BY <2>2 DEF RunInv, RunTyped, Indexes
    <3>2. ToRun(i) = Indices
      BY <2>1 DEF ToRun, Kinds
    <3>3. Indices \subseteq Indexes
      BY <3>1, ProceduresAssumption DEF Indexes
    <3> QED
      BY <3>2, <3>3
  <2> HIDE DEF Indices
  <2>4. \E S \in SUBSET Indices : Ran(executed[i], S)
    <3>1. CASE job.pc = "none"
      BY <2>2, <3>1 DEF RunInv, Current, AtRest, Fresh
    <3>2. CASE job.pc # "none"
      <4>1. CASE i < Here
        BY <2>2, <2>3, <3>2, <4>1 DEF RunInv, InTurn, Over, Fresh
      <4>2. CASE i > Here
        BY <2>2, <3>2, <4>2 DEF RunInv, InTurn, Fresh
      <4>3. CASE i = Here
        BY <2>2, <2>3, <3>2, <4>3, CurrentRan
      <4>4. Here \in Nat
        BY DEF RunInv, RunTyped, JobType, Here
      <4> QED
        BY <2>2, <4>1, <4>2, <4>3, <4>4
    <3> QED
      BY <3>1, <3>2
  <2>5. \A n \in 0 .. MaxCount : executed[i][n] <= IF n \in Indices THEN 1 ELSE 0
    BY <2>4 DEF Ran, Indexes
  <2>6. ASSUME job.pc = "ok"
        PROVE  \/ \A n \in Indices : executed[i][n] = 1
               \/ procedure.continuations[i] = "parallel_for" /\ forked[i] = 0
    <3>1. i < Here
      BY <2>1, <2>2, <2>6 DEF RunInv, Current, AtSuccess
    <3>2. Over(i)
      BY <2>2, <2>6, <3>1 DEF RunInv, InTurn
    <3> QED
      BY <2>3, <3>2 DEF Over, Fresh, Ran
  <2> QED
    BY <2>5, <2>6 DEF Indices
<1> QED
  BY <1>1, AlwaysRunInv, PTL

(***************************************************************************)
(* A job fails exactly when one of its bodies has failed, or a promise it  *)
(* depends on, or it or a child got no frame; nothing behind the failed    *)
(* continuation is begun, and after a failed dependency nothing at all     *)
(* (job.c:145-178, executor.c:127-180, parallel_for.c:24-95).              *)
(***************************************************************************)
THEOREM OutcomesAreHonest == Spec => []OutcomeHonest
<1>1. RunInv => OutcomeHonest
  <2> SUFFICES ASSUME RunInv PROVE OutcomeHonest
    OBVIOUS
  <2>1. job.pc \in {"ok", "failed"} =>
          (job.pc = "failed" <=> body_failed \/ job.dependency_has_error \/ job.unfit)
    BY DEF RunInv, InTurn, Cause, Current, AtSuccess, AtFailure
  <2>2. ASSUME NEW i \in Continuations, i > Here \/ job.dependency_has_error
        PROVE  \A n \in 0 .. MaxCount : executed[i][n] = 0
    <3>1. Fresh(i)
      BY <2>2 DEF RunInv, InTurn, Unmet, Current, AtRest
    <3> QED
      BY <3>1 DEF Fresh, Ran, Indexes
  <2> QED
    BY <2>1, <2>2 DEF OutcomeHonest, Here
<1> QED
  BY <1>1, AlwaysRunInv, PTL

(***************************************************************************)
(* The unwind function that was asked for is called once, when the job has *)
(* ended: after its last continuation, after an error or after a setup     *)
(* that failed (executor.c:234, 269, 286).                                 *)
(***************************************************************************)
THEOREM UnwindsOnce == Spec => []UnwoundOnce
<1>1. RunInv => UnwoundOnce
  BY DEF RunInv
<1> QED
  BY <1>1, AlwaysRunInv, PTL
=============================================================================
