----------------------- MODULE PromiseManager_proofs -----------------------
(***************************************************************************)
(* The promises of a context: what each action does to their records and   *)
(* lists, and the theorem that all variables have their types.             *)
(***************************************************************************)
EXTENDS PromiseManager, FiniteSetTheorems, SequenceTheorems, TLAPS

-----------------------------------------------------------------------------
(* Records and lists *)

LEMMA NewPromiseType ==
    ASSUME NEW n \in Nat, NEW e \in BOOLEAN
    PROVE  /\ NewPromise(n, e) \in PromiseRecord
           /\ NewPromise(n, e).status = "NotFinished"
           /\ NewPromise(n, e).reference_count = 2 + n
           /\ NewPromise(n, e).num_all_waiting_promises = n
           /\ NewPromise(n, e).num_ended_waiting_promises = 0
           /\ NewPromise(n, e).dependency_has_error = e
           /\ NewPromise(n, e).pending_job <=> n > 0
           /\ NewPromise(n, e).continuation_promises = <<>>
           /\ NewPromise(n, e).num_promise_callbacks = 0
<1> DEFINE pending == n > 0
<1>1. pending \in BOOLEAN
  OBVIOUS
<1>2. <<>> \in Seq(0 .. MaxHandles)
  OBVIOUS
<1>3. 2 + n \in Int
  OBVIOUS
<1>4. NewPromise(n, e) =
        [detached |-> FALSE, reference_count |-> 2 + n, status |-> "NotFinished",
         num_all_waiting_promises |-> n, num_ended_waiting_promises |-> 0,
         dependency_has_error |-> e, pending_job |-> pending,
         continuation_promises |-> <<>>, num_promise_callbacks |-> 0]
  BY DEF NewPromise, References
<1> HIDE DEF pending
<1>5. /\ NewPromise(n, e) \in PromiseRecord
      /\ NewPromise(n, e).pending_job = pending
  BY <1>1, <1>2, <1>3, <1>4 DEF PromiseRecord, Status
<1>6. /\ NewPromise(n, e).status = "NotFinished"
      /\ NewPromise(n, e).reference_count = 2 + n
      /\ NewPromise(n, e).num_all_waiting_promises = n
      /\ NewPromise(n, e).num_ended_waiting_promises = 0
      /\ NewPromise(n, e).dependency_has_error = e
      /\ NewPromise(n, e).continuation_promises = <<>>
      /\ NewPromise(n, e).num_promise_callbacks = 0
  BY <1>4
<1> QED
  BY <1>5, <1>6 DEF pending

LEMMA NoPromiseType ==
    /\ NoPromise \in PromiseRecord
    /\ NoPromise.status = "NotFinished"
    /\ NoPromise.continuation_promises = <<>>
<1> DEFINE p == NewPromise(0, FALSE)
<1>1. /\ p \in PromiseRecord
      /\ p.status = "NotFinished"
      /\ p.continuation_promises = <<>>
  BY NewPromiseType
<1>2. NoPromise = [p EXCEPT !.reference_count = 0]
  BY DEF NoPromise
<1> HIDE DEF p
<1> QED
  BY <1>1, <1>2 DEF PromiseRecord

\* The lists of a well-typed state.
LEMMA Lists ==
    ASSUME TypeOK, NEW h \in Handles
    PROVE  /\ promise[h] \in PromiseRecord
           /\ promise[h].continuation_promises \in Seq(0 .. MaxHandles)
           /\ Len(promise[h].continuation_promises) \in Nat
           /\ DOMAIN promise[h].continuation_promises
                = 1 .. Len(promise[h].continuation_promises)
           /\ \A i \in DOMAIN promise[h].continuation_promises :
                promise[h].continuation_promises[i] \in 0 .. MaxHandles
<1>1. promise[h] \in PromiseRecord
  BY DEF TypeOK
<1> DEFINE list == promise[h].continuation_promises
<1>2. list \in Seq(0 .. MaxHandles)
  BY <1>1 DEF PromiseRecord
<1> HIDE DEF list
<1>3. /\ Len(list) \in Nat
      /\ DOMAIN list = 1 .. Len(list)
  BY <1>2
<1>4. \A i \in DOMAIN list : list[i] \in 0 .. MaxHandles
  BY <1>2, <1>3, ElementOfSeq
<1> QED
  BY <1>1, <1>2, <1>3, <1>4 DEF list

LEMMA AwaitedFinite ==
    ASSUME NEW deps \in Seq(Nat)
    PROVE  /\ IsFiniteSet(Awaited(deps))
           /\ Cardinality(Awaited(deps)) \in Nat
           /\ \A h : /\ IsFiniteSet({i \in Awaited(deps) : deps[i] = h})
                     /\ Cardinality({i \in Awaited(deps) : deps[i] = h}) \in Nat
<1>1. DOMAIN deps = 1 .. Len(deps) /\ Len(deps) \in Nat
  OBVIOUS
<1>2. IsFiniteSet(DOMAIN deps)
  BY <1>1, FS_Interval
<1>3. \A S \in SUBSET (DOMAIN deps) : IsFiniteSet(S) /\ Cardinality(S) \in Nat
  BY <1>2, FS_Subset, FS_CardinalityType
<1>4. Awaited(deps) \in SUBSET (DOMAIN deps)
  BY DEF Awaited
<1>5. \A h : {i \in Awaited(deps) : deps[i] = h} \in SUBSET (DOMAIN deps)
  BY <1>4
<1> QED
  BY <1>3, <1>4, <1>5

\* What `n' copies of x behind a list look like.
LEMMA Copies ==
    ASSUME NEW S, NEW s \in Seq(S), NEW x \in S, NEW n \in Nat
    PROVE  LET t == s \o [k \in 1 .. n |-> x] IN
           /\ t \in Seq(S)
           /\ Len(t) = Len(s) + n
           /\ DOMAIN t = 1 .. Len(s) + n
           /\ \A i \in 1 .. Len(s) : t[i] = s[i]
           /\ \A i \in Len(s) + 1 .. Len(s) + n : t[i] = x
<1> DEFINE c == [k \in 1 .. n |-> x]
           t == s \o c
<1>1. c \in Seq(S)
  <2>1. c \in [1 .. n -> S]
    OBVIOUS
  <2> QED
    BY <2>1, SeqDef
<1>2. Len(c) = n
  OBVIOUS
<1>3. \A k \in 1 .. n : c[k] = x
  OBVIOUS
<1> HIDE DEF c
<1>4. /\ t \in Seq(S)
      /\ Len(t) = Len(s) + Len(c)
      /\ \A i \in 1 .. Len(s) + Len(c) : t[i] = IF i <= Len(s) THEN s[i] ELSE c[i - Len(s)]
  BY <1>1, ConcatProperties
<1>5. Len(s) \in Nat
  OBVIOUS
<1> HIDE DEF t
<1>6. /\ DOMAIN t = 1 .. Len(s) + n
      /\ \A i \in 1 .. Len(s) : t[i] = s[i]
  BY <1>2, <1>4, <1>5
<1>7. ASSUME NEW i \in Len(s) + 1 .. Len(s) + n PROVE t[i] = x
  <2>1. i \in 1 .. Len(s) + Len(c) /\ ~(i <= Len(s)) /\ i - Len(s) \in 1 .. n
    BY <1>2, <1>5
  <2> QED
    BY <1>3, <1>4, <2>1
<1>8. /\ t \in Seq(S)
      /\ Len(t) = Len(s) + n
  BY <1>2, <1>4
<1> QED
  BY <1>6, <1>7, <1>8 DEF t, c

\* The number of places in deps where h is to be waited for.
Links(deps, h) == Cardinality({i \in Awaited(deps) : deps[i] = h})

LEMMA NoLinks ==
    ASSUME NEW deps, NEW d, \A i \in DOMAIN deps : deps[i] # 0 => deps[i] \in table,
           d \notin table
    PROVE  Links(deps, d) = 0
<1>1. {i \in Awaited(deps) : deps[i] = d} = {}
  BY DEF Awaited
<1> QED
  BY <1>1, FS_EmptySet DEF Links

LEMMA LinkedEffect ==
    ASSUME TypeOK, NEW deps \in Seq(Nat), NEW target \in 0 .. MaxHandles, NEW d \in Handles
    PROVE  LET p == Linked(deps, target)[d]
               old == Len(promise[d].continuation_promises) IN
           /\ p \in PromiseRecord
           /\ p = [promise[d] EXCEPT !.continuation_promises = p.continuation_promises]
           /\ old \in Nat
           /\ Links(deps, d) \in Nat
           /\ DOMAIN p.continuation_promises = 1 .. old + Links(deps, d)
           /\ \A i \in 1 .. old :
                p.continuation_promises[i] = promise[d].continuation_promises[i]
           /\ \A i \in old + 1 .. old + Links(deps, d) : p.continuation_promises[i] = target
           /\ p.continuation_promises \in Seq(0 .. MaxHandles)
<1> DEFINE p == Linked(deps, target)[d]
           old == Len(promise[d].continuation_promises)
           list == promise[d].continuation_promises
           n == Links(deps, d)
           long == list \o [k \in 1 .. n |-> target]
<1>1. /\ promise[d] \in PromiseRecord
      /\ list \in Seq(0 .. MaxHandles)
      /\ old \in Nat
  BY Lists
<1>2. n \in Nat
  BY AwaitedFinite DEF Links
<1>3. p = [promise[d] EXCEPT !.continuation_promises = long]
  BY DEF Linked, Links
<1>4. /\ long \in Seq(0 .. MaxHandles)
      /\ DOMAIN long = 1 .. old + n
      /\ \A i \in 1 .. old : long[i] = list[i]
      /\ \A i \in old + 1 .. old + n : long[i] = target
  <2> HIDE DEF n, list, old
  <2>1. old = Len(list)
    BY DEF old, list
  <2> QED
    BY <1>1, <1>2, <2>1, Copies
<1> HIDE DEF p, long
<1>5. p \in PromiseRecord /\ p.continuation_promises = long
  BY <1>1, <1>3, <1>4 DEF PromiseRecord
<1> QED
  BY <1>1, <1>2, <1>3, <1>4, <1>5 DEF p

LEMMA DropEffect ==
    ASSUME TypeOK, NEW h \in Handles, NEW p \in PromiseRecord, Drop(h, p)
    PROVE  /\ table' \subseteq table
           /\ \A d \in Handles \ {h} : promise'[d] = promise[d]
           /\ \A d \in table : d # h => d \in table'
           /\ promise' \in [Handles -> PromiseRecord]
           /\ IF p.reference_count = 1
                THEN /\ h \notin table'
                     /\ promise'[h] = NoPromise
                ELSE /\ h \in table => h \in table'
                     /\ promise'[h].reference_count = p.reference_count - 1
                     /\ promise'[h] = [p EXCEPT !.reference_count = promise'[h].reference_count]
<1>1. promise \in [Handles -> PromiseRecord]
  BY DEF TypeOK
<1>2. CASE p.reference_count = 1
  BY <1>1, <1>2, NoPromiseType DEF Drop
<1>3. CASE p.reference_count # 1
  <2> DEFINE q == [p EXCEPT !.reference_count = @ - 1]
  <2>1. p.reference_count - 1 \in Int
    BY DEF PromiseRecord
  <2>2. /\ q \in PromiseRecord
        /\ q.reference_count = p.reference_count - 1
        /\ q = [p EXCEPT !.reference_count = q.reference_count]
    BY <2>1 DEF PromiseRecord
  <2>3. promise' = [promise EXCEPT ![h] = q] /\ table' = table
    BY <1>3 DEF Drop
  <2> HIDE DEF q
  <2>4. promise'[h] = q
    BY <1>1, <2>3
  <2> QED
    BY <1>1, <1>3, <2>2, <2>3, <2>4
<1> QED
  BY <1>2, <1>3

-----------------------------------------------------------------------------
(* What the actions do to the records *)

\* The list of d gets n elements x; nothing else becomes of d's promise.
Extended(d, n, x) ==
    LET old == Len(promise[d].continuation_promises) IN
    /\ promise'[d] = [promise[d] EXCEPT !.continuation_promises =
                                    promise'[d].continuation_promises]
    /\ DOMAIN promise'[d].continuation_promises = 1 .. old + n
    /\ \A i \in 1 .. old :
         promise'[d].continuation_promises[i] = promise[d].continuation_promises[i]
    /\ \A i \in old + 1 .. old + n : promise'[d].continuation_promises[i] = x

HasError(deps) == \E i \in DOMAIN deps : deps[i] # 0 /\ promise[deps[i]].status = "Error"

LEMMA InvokeEffect ==
    ASSUME TypeOK, NEW c \in Clients, NEW deps \in Dependencies, Invoke(c, deps)
    PROVE  LET h == handle_counter + 1
               n == Cardinality(Awaited(deps)) IN
           /\ h \in Handles
           /\ n \in Nat
           /\ IsFiniteSet(Awaited(deps))
           /\ deps \in Seq(Nat)
           /\ \A i \in DOMAIN deps : deps[i] # 0 => deps[i] \in table
           /\ promise' \in [Handles -> PromiseRecord]
           /\ \A d \in Handles \ {h} : Links(deps, d) \in Nat /\ Extended(d, Links(deps, d), h)
           /\ \A d \in Handles \ table : Links(deps, d) = 0
           /\ promise'[h].status = "NotFinished"
           /\ promise'[h].reference_count = 2 + n
           /\ promise'[h].num_all_waiting_promises = n
           /\ promise'[h].num_ended_waiting_promises = 0
           /\ promise'[h].dependency_has_error = HasError(deps)
           /\ promise'[h].pending_job <=> n > 0
           /\ promise'[h].continuation_promises = <<>>
           /\ promise'[h].num_promise_callbacks = 0
           /\ \A d \in Handles \ {h} : job'[d] = job[d]
           /\ job'[h].state = IF n = 0 THEN "queued" ELSE "pending"
           /\ job'[h].dependency_has_error = HasError(deps)
           /\ DOMAIN job' = Handles
           /\ dependencies'[h] \in SUBSET Handles
           /\ dependencies' = [dependencies EXCEPT ![h] = dependencies'[h]]
           /\ \A d : d \in dependencies'[h] <=> d # 0 /\ \E i \in DOMAIN deps : deps[i] = d
<1> DEFINE h == handle_counter + 1
           n == Cardinality(Awaited(deps))
           error == HasError(deps)
           new == NewPromise(n, error)
           st == IF n = 0 THEN "queued" ELSE "pending"
<1>1. deps \in Seq(Nat)
  BY DependenciesAssumption
<1>2. /\ n \in Nat
      /\ IsFiniteSet(Awaited(deps))
  BY <1>1, AwaitedFinite
<1>3. h \in Handles
  BY BoundsAssumption DEF TypeOK, Invoke, Handles
<1>4. \A i \in DOMAIN deps : deps[i] # 0 => deps[i] \in table
  BY DEF Invoke, Bad
<1>5. error \in BOOLEAN
  BY DEF HasError
<1>6. Awaited(deps) = {} <=> n = 0
  BY <1>2, FS_EmptySet
<1>7. /\ promise' = [Linked(deps, h) EXCEPT ![h] = new]
      /\ job' = [job EXCEPT ![h] = [state |-> st, dependency_has_error |-> error]]
      /\ dependencies' = [dependencies EXCEPT ![h] = {deps[i] : i \in DOMAIN deps} \ {0}]
  BY <1>6 DEF Invoke, HasError
<1>8. h \in 0 .. MaxHandles
  BY <1>3, BoundsAssumption DEF Handles
<1> HIDE DEF n, error, h
<1>9. /\ new \in PromiseRecord
      /\ new.status = "NotFinished"
      /\ new.reference_count = 2 + n
      /\ new.num_all_waiting_promises = n
      /\ new.num_ended_waiting_promises = 0
      /\ new.dependency_has_error = error
      /\ new.pending_job <=> n > 0
      /\ new.continuation_promises = <<>>
      /\ new.num_promise_callbacks = 0
  BY <1>2, <1>5, NewPromiseType
<1> HIDE DEF new, st
<1>10. Linked(deps, h) \in [Handles -> PromiseRecord]
  <2>1. \A d \in Handles : Linked(deps, h)[d] \in PromiseRecord
    BY <1>1, <1>8, LinkedEffect
  <2>2. Linked(deps, h) = [d \in Handles |-> Linked(deps, h)[d]]
    BY DEF Linked
  <2> QED
    BY <2>1, <2>2
<1>11. /\ promise' \in [Handles -> PromiseRecord]
       /\ promise'[h] = new
       /\ \A d \in Handles \ {h} : promise'[d] = Linked(deps, h)[d]
  BY <1>3, <1>7, <1>9, <1>10
<1>12. ASSUME NEW d \in Handles \ {h}
       PROVE  Links(deps, d) \in Nat /\ Extended(d, Links(deps, d), h)
  <2>1. promise'[d] = Linked(deps, h)[d]
    BY <1>11
  <2> QED
    BY <1>1, <1>8, <2>1, LinkedEffect DEF Extended
<1>13. /\ \A d \in Handles \ {h} : job'[d] = job[d]
       /\ job'[h].state = st
       /\ job'[h].dependency_has_error = error
       /\ DOMAIN job' = Handles
  BY <1>3, <1>7 DEF TypeOK
<1>14. dependencies'[h] = {deps[i] : i \in DOMAIN deps} \ {0}
  BY <1>3, <1>7 DEF TypeOK
<1>15. /\ dependencies'[h] \in SUBSET Handles
       /\ dependencies' = [dependencies EXCEPT ![h] = dependencies'[h]]
       /\ \A d : d \in dependencies'[h] <=> d # 0 /\ \E i \in DOMAIN deps : deps[i] = d
  <2>1. \A d : d \in dependencies'[h] <=> d # 0 /\ \E i \in DOMAIN deps : deps[i] = d
    BY <1>14
  <2>2. dependencies'[h] \in SUBSET Handles
    BY <1>4, <2>1 DEF TypeOK
  <2>3. dependencies' = [dependencies EXCEPT ![h] = dependencies'[h]]
    BY <1>7, <1>14
  <2> QED
    BY <2>1, <2>2, <2>3
<1>16. \A d \in Handles \ table : Links(deps, d) = 0
  BY <1>4, NoLinks
<1> QED
  BY <1>1, <1>2, <1>3, <1>4, <1>9, <1>11, <1>12, <1>13, <1>15, <1>16 DEF h, n, error, st

LEMMA InvokeFailsEffect ==
    ASSUME TypeOK, NEW c \in Clients, NEW deps \in Dependencies, NEW n \in 0 .. Len(deps),
           InvokeFails(c, deps, n)
    PROVE  LET h == handle_counter + 1
               links == [d \in Handles |-> Links(SubSeq(deps, 1, n), d)] IN
           /\ h \in Handles
           /\ promise' \in [Handles -> PromiseRecord]
           /\ links \in [Handles -> Nat]
           /\ \A d \in Handles \ table : links[d] = 0
           /\ (\A d \in Handles : \A i \in DOMAIN promise[d].continuation_promises :
                 promise[d].continuation_promises[i] # h)
              => \A d \in Handles : Extended(d, links[d], 0)
<1> DEFINE h == handle_counter + 1
           first == SubSeq(deps, 1, n)
           links == [d \in Handles |-> Links(first, d)]
           linked == Linked(first, h)
           clean(d) == Cleaned(linked[d].continuation_promises, h)
<1>1. deps \in Seq(Nat) /\ Len(deps) \in Nat /\ DOMAIN deps = 1 .. Len(deps)
  BY DependenciesAssumption
<1>2. h \in Handles /\ h \in 0 .. MaxHandles
  BY BoundsAssumption DEF TypeOK, InvokeFails, Handles
<1>3. \A i \in 1 .. n : deps[i] # 0 => deps[i] \in table
  BY DEF InvokeFails, Bad
<1>4. first \in Seq(Nat) /\ DOMAIN first = 1 .. n /\ \A i \in 1 .. n : first[i] = deps[i]
  BY <1>1
<1>5. promise' = [d \in Handles |->
          [linked[d] EXCEPT !.continuation_promises =
             IF d \in table /\ d \in {deps[i] : i \in DOMAIN deps}
               THEN clean(d) ELSE linked[d].continuation_promises]]
  BY DEF InvokeFails
<1> HIDE DEF first, h, clean, linked
<1>6. ASSUME NEW d \in Handles
      PROVE  LET old == Len(promise[d].continuation_promises)
                 p == linked[d] IN
             /\ p \in PromiseRecord
             /\ p = [promise[d] EXCEPT !.continuation_promises = p.continuation_promises]
             /\ old \in Nat
             /\ links[d] \in Nat
             /\ DOMAIN p.continuation_promises = 1 .. old + links[d]
             /\ \A i \in 1 .. old :
                  p.continuation_promises[i] = promise[d].continuation_promises[i]
             /\ \A i \in old + 1 .. old + links[d] : p.continuation_promises[i] = h
             /\ p.continuation_promises \in Seq(0 .. MaxHandles)
  <2>1. links[d] = Links(first, d)
    OBVIOUS
  <2> HIDE DEF links
  <2> QED
    BY <1>2, <1>4, <2>1, LinkedEffect, SMTT(30) DEF linked
<1>7. links \in [Handles -> Nat]
  BY <1>6
<1>8. ASSUME NEW d \in Handles
      PROVE  /\ clean(d) \in Seq(0 .. MaxHandles)
             /\ DOMAIN clean(d) = DOMAIN linked[d].continuation_promises
             /\ \A i \in DOMAIN clean(d) :
                  clean(d)[i] = IF linked[d].continuation_promises[i] = h THEN 0
                                ELSE linked[d].continuation_promises[i]
  <2> DEFINE list == linked[d].continuation_promises
  <2>1. list \in Seq(0 .. MaxHandles)
    BY <1>6
  <2>2. Cleaned(list, h) = [i \in DOMAIN list |-> IF list[i] = h THEN 0 ELSE list[i]]
    BY DEF Cleaned
  <2> HIDE DEF list
  <2>3. /\ Len(list) \in Nat
        /\ DOMAIN list = 1 .. Len(list)
        /\ \A i \in 1 .. Len(list) : list[i] \in 0 .. MaxHandles
    <3>1. Len(list) \in Nat /\ DOMAIN list = 1 .. Len(list)
      BY <2>1
    <3>2. \A i \in 1 .. Len(list) : list[i] \in 0 .. MaxHandles
      BY <2>1, ElementOfSeq
    <3> QED
      BY <3>1, <3>2
  <2>4. 0 \in 0 .. MaxHandles
    BY BoundsAssumption
  <2>5. Cleaned(list, h) \in [1 .. Len(list) -> 0 .. MaxHandles]
    BY <2>2, <2>3, <2>4
  <2>6. Cleaned(list, h) \in Seq(0 .. MaxHandles)
    BY <2>3, <2>5, SeqDef
  <2> QED
    BY <2>2, <2>6 DEF list, clean
<1>9. ASSUME NEW d \in Handles
      PROVE  /\ promise'[d] \in PromiseRecord
             /\ promise'[d] = [promise[d] EXCEPT !.continuation_promises =
                                    promise'[d].continuation_promises]
             /\ promise'[d].continuation_promises =
                  IF d \in table /\ d \in {deps[i] : i \in DOMAIN deps}
                    THEN clean(d) ELSE linked[d].continuation_promises
  <2> DEFINE list == IF d \in table /\ d \in {deps[i] : i \in DOMAIN deps}
                       THEN clean(d) ELSE linked[d].continuation_promises
  <2>1. promise'[d] = [linked[d] EXCEPT !.continuation_promises = list]
    BY <1>5
  <2>2. list \in Seq(0 .. MaxHandles)
    BY <1>6, <1>8
  <2> HIDE DEF list
  <2>3. /\ promise[d] \in PromiseRecord
        /\ linked[d] \in PromiseRecord
        /\ linked[d] = [promise[d] EXCEPT !.continuation_promises =
                                    linked[d].continuation_promises]
    BY <1>6, Lists
  <2>4. promise'[d].continuation_promises = list
    BY <2>1, <2>3 DEF PromiseRecord
  <2>5. promise'[d] \in PromiseRecord
    BY <2>1, <2>2, <2>3 DEF PromiseRecord
  <2>6. promise'[d] = [promise[d] EXCEPT !.continuation_promises = list]
    BY <2>1, <2>3 DEF PromiseRecord
  <2> QED
    BY <2>4, <2>5, <2>6 DEF list
<1>10. promise' \in [Handles -> PromiseRecord]
  <2>1. DOMAIN promise' = Handles
    BY <1>5
  <2>2. promise' = [d \in Handles |-> promise'[d]]
    BY <1>5
  <2> QED
    BY <1>9, <2>2
<1>11. ASSUME \A d \in Handles : \A i \in DOMAIN promise[d].continuation_promises :
                 promise[d].continuation_promises[i] # h,
              NEW d \in Handles
       PROVE  Extended(d, links[d], 0)
  <2> DEFINE old == Len(promise[d].continuation_promises)
             now == promise'[d].continuation_promises
             k == links[d]
             list == linked[d].continuation_promises
  <2>1. /\ old \in Nat
        /\ k \in Nat
        /\ DOMAIN list = 1 .. old + k
        /\ \A i \in 1 .. old : list[i] = promise[d].continuation_promises[i]
        /\ \A i \in old + 1 .. old + k : list[i] = h
    BY <1>6
  <2>2. \A i \in 1 .. old : list[i] # h
    BY <1>11, <2>1, Lists
  <2>3. CASE d \in table /\ d \in {deps[i] : i \in DOMAIN deps}
    <3>1. now = clean(d)
      BY <1>9, <2>3
    <3>2. /\ DOMAIN now = 1 .. old + k
          /\ \A i \in 1 .. old + k : now[i] = IF list[i] = h THEN 0 ELSE list[i]
      BY <1>8, <2>1, <3>1
    <3> HIDE DEF now, list, k, old
    <3>3. /\ \A i \in 1 .. old : now[i] = list[i]
          /\ \A i \in old + 1 .. old + k : now[i] = 0
      BY <2>1, <2>2, <3>2
    <3>4. \A i \in 1 .. old : now[i] = promise[d].continuation_promises[i]
      BY <2>1, <3>3
    <3> QED
      BY <1>9, <3>2, <3>3, <3>4 DEF Extended, now, old, k
  <2>4. CASE ~(d \in table /\ d \in {deps[i] : i \in DOMAIN deps})
    <3>1. now = list
      BY <1>9, <2>4
    <3>2. k = 0
      <4>1. {i \in Awaited(first) : first[i] = d} = {}
        <5> SUFFICES ASSUME NEW i \in Awaited(first), first[i] = d PROVE FALSE
          OBVIOUS
        <5>1. i \in 1 .. n /\ first[i] # 0
          BY <1>4 DEF Awaited
        <5>2. first[i] = deps[i] /\ i \in DOMAIN deps
          BY <1>1, <1>4, <5>1
        <5> QED
          BY <1>3, <2>4, <5>1, <5>2
      <4> QED
        BY <4>1, FS_EmptySet DEF Links
    <3> HIDE DEF now, list, k, old
    <3>3. /\ DOMAIN now = 1 .. old + k
          /\ \A i \in 1 .. old : now[i] = promise[d].continuation_promises[i]
          /\ \A i \in old + 1 .. old + k : now[i] = 0
      BY <2>1, <3>1, <3>2
    <3> QED
      BY <1>9, <3>3 DEF Extended, now, old, k
  <2> QED
    BY <2>3, <2>4
<1>12. \A d \in Handles \ table : links[d] = 0
  BY <1>3, <1>4, NoLinks
<1> HIDE DEF links
<1> QED
  BY <1>2, <1>7, <1>10, <1>11, <1>12 DEF h, links, first

\* Of what a promise records, everything but its reference count and `detached'.
SameBut(p, q) ==
    /\ p.status = q.status
    /\ p.num_all_waiting_promises = q.num_all_waiting_promises
    /\ p.num_ended_waiting_promises = q.num_ended_waiting_promises
    /\ p.dependency_has_error = q.dependency_has_error
    /\ p.pending_job = q.pending_job
    /\ p.continuation_promises = q.continuation_promises
    /\ p.num_promise_callbacks = q.num_promise_callbacks

\* The application gives up its reference of h.
LetGo(h) ==
    /\ table' \subseteq table
    /\ \A d \in Handles \ {h} : promise'[d] = promise[d]
    /\ \A d \in table : d # h => d \in table'
    /\ IF promise[h].reference_count = 1
         THEN h \notin table' /\ promise'[h] = NoPromise
         ELSE /\ h \in table => h \in table'
              /\ promise'[h].reference_count = promise[h].reference_count - 1
              /\ SameBut(promise'[h], promise[h])

LEMMA DropLetsGo ==
    ASSUME TypeOK, NEW h \in Handles, NEW p \in PromiseRecord, Drop(h, p),
           p.reference_count = promise[h].reference_count, SameBut(p, promise[h])
    PROVE  promise' \in [Handles -> PromiseRecord] /\ LetGo(h)
<1>1. /\ table' \subseteq table
      /\ \A d \in Handles \ {h} : promise'[d] = promise[d]
      /\ \A d \in table : d # h => d \in table'
      /\ promise' \in [Handles -> PromiseRecord]
      /\ IF p.reference_count = 1
           THEN /\ h \notin table'
                /\ promise'[h] = NoPromise
           ELSE /\ h \in table => h \in table'
                /\ promise'[h].reference_count = p.reference_count - 1
                /\ promise'[h] = [p EXCEPT !.reference_count = promise'[h].reference_count]
  BY DropEffect
<1>2. ASSUME promise'[h] = [p EXCEPT !.reference_count = promise'[h].reference_count]
      PROVE  SameBut(promise'[h], p)
  BY <1>2 DEF PromiseRecord, SameBut
<1>3. SameBut(promise'[h], p) => SameBut(promise'[h], promise[h])
  BY DEF SameBut
<1> QED
  BY <1>1, <1>2, <1>3 DEF LetGo

LEMMA DetachEffect ==
    ASSUME TypeOK, NEW c \in Clients, NEW h \in Handles, Detach(c, h)
    PROVE  promise' \in [Handles -> PromiseRecord] /\ LetGo(h)
<1> DEFINE p == [promise[h] EXCEPT !.detached = TRUE]
<1>1. promise[h] \in PromiseRecord
  BY DEF TypeOK
<1>2. /\ p \in PromiseRecord
      /\ p.reference_count = promise[h].reference_count
  BY <1>1 DEF PromiseRecord
<1>3. SameBut(p, promise[h])
  BY <1>1 DEF PromiseRecord, SameBut
<1>4. Drop(h, p)
  BY DEF Detach, DropDetached
<1> HIDE DEF p
<1> QED
  BY <1>2, <1>3, <1>4, DropLetsGo

\* armd_await returns the result of h to c, or c sleeps.
LEMMA AwaitOrSleepEffect ==
    ASSUME TypeOK, NEW c \in Clients, NEW h \in Handles, AwaitOrSleep(c, h)
    PROVE  /\ promise' \in [Handles -> PromiseRecord]
           /\ \/ /\ promise[h].status = "NotFinished"
                 /\ client' = [client EXCEPT ![c] = [pc |-> "await", handle |-> h, asleep |-> TRUE]]
                 /\ UNCHANGED <<table, promise, observed>>
              \/ /\ promise[h].status # "NotFinished"
                 /\ client' = [client EXCEPT ![c] = IdleClient]
                 /\ observed' = [observed EXCEPT ![h] = promise[h].status]
                 /\ LetGo(h)
<1>1. promise[h] \in PromiseRecord
  BY DEF TypeOK
<1>2. SameBut(promise[h], promise[h])
  BY DEF SameBut
<1>3. CASE NotFinished(h)
  BY <1>3 DEF AwaitOrSleep, NotFinished, TypeOK
<1>4. CASE ~NotFinished(h)
  <2>1. Drop(h, promise[h])
    BY <1>4 DEF AwaitOrSleep
  <2>2. promise' \in [Handles -> PromiseRecord] /\ LetGo(h)
    BY <1>1, <1>2, <2>1, DropLetsGo
  <2> QED
    BY <1>4, <2>2 DEF AwaitOrSleep, NotFinished
<1> QED
  BY <1>3, <1>4

LEMMA AddCallbackEffect ==
    ASSUME TypeOK, NEW c \in Clients, NEW h \in Handles, AddCallback(c, h)
    PROVE  /\ promise' \in [Handles -> PromiseRecord]
           /\ \A d \in Handles \ {h} : promise'[d] = promise[d] /\ callbacks'[d] = callbacks[d]
           /\ callbacks' \in [Handles -> [added: Nat, called: Nat]]
           /\ callbacks'[h].added = callbacks[h].added + 1
           /\ callbacks'[h].called = IF NotFinished(h) THEN callbacks[h].called
                                                       ELSE callbacks[h].called + 1
           /\ promise'[h].status = promise[h].status
           /\ promise'[h].num_all_waiting_promises = promise[h].num_all_waiting_promises
           /\ promise'[h].num_ended_waiting_promises = promise[h].num_ended_waiting_promises
           /\ promise'[h].dependency_has_error = promise[h].dependency_has_error
           /\ promise'[h].pending_job = promise[h].pending_job
           /\ promise'[h].continuation_promises = promise[h].continuation_promises
           /\ promise[h].reference_count \in Int /\ promise[h].num_promise_callbacks \in Nat
           /\ promise'[h].reference_count = IF NotFinished(h) THEN promise[h].reference_count + 1
                                                            ELSE promise[h].reference_count
           /\ promise'[h].num_promise_callbacks =
                IF NotFinished(h) THEN promise[h].num_promise_callbacks + 1
                                  ELSE promise[h].num_promise_callbacks
<1>1. /\ promise \in [Handles -> PromiseRecord]
      /\ callbacks \in [Handles -> [added: Nat, called: Nat]]
  BY DEF TypeOK
<1>2. promise[h] \in PromiseRecord /\ promise[h].reference_count \in Int
      /\ promise[h].num_promise_callbacks \in Nat
  BY <1>1 DEF PromiseRecord
<1>3. CASE NotFinished(h)
  <2>1. /\ promise' = [promise EXCEPT ![h].num_promise_callbacks = @ + 1,
                                      ![h].reference_count = @ + 1]
        /\ callbacks' = [callbacks EXCEPT ![h].added = @ + 1]
    BY <1>3 DEF AddCallback, Defers
  <2>2. promise'[h] \in PromiseRecord /\ promise' \in [Handles -> PromiseRecord]
    BY <1>1, <1>2, <2>1 DEF PromiseRecord
  <2>3. callbacks' \in [Handles -> [added: Nat, called: Nat]]
    BY <1>1, <2>1
  <2>4. /\ callbacks'[h].added = callbacks[h].added + 1
        /\ callbacks'[h].called = callbacks[h].called
        /\ \A d \in Handles \ {h} : promise'[d] = promise[d] /\ callbacks'[d] = callbacks[d]
    BY <1>1, <2>1
  <2> QED
    BY <1>1, <1>2, <1>3, <2>1, <2>2, <2>3, <2>4 DEF PromiseRecord
<1>4. CASE ~NotFinished(h)
  <2>1. /\ promise' = promise
        /\ callbacks' = [callbacks EXCEPT ![h] = [added |-> @.added + 1, called |-> @.called + 1]]
    BY <1>4 DEF AddCallback, Defers
  <2>2. callbacks' \in [Handles -> [added: Nat, called: Nat]]
    BY <1>1, <2>1
  <2> QED
    BY <1>1, <1>2, <1>4, <2>1, <2>2
<1> QED
  BY <1>3, <1>4

LEMMA CompleteEffect ==
    ASSUME TypeOK, NEW w \in Workers, Complete(w)
    PROVE  LET h == worker[w].handle
               n == promise[h].num_promise_callbacks IN
           /\ h \in Handles
           /\ n \in Nat
           /\ StatusOf(worker[w].has_error) \in {"Success", "Error"}
           /\ promise' \in [Handles -> PromiseRecord]
           /\ \A d \in Handles \ {h} : promise'[d] = promise[d]
           /\ promise'[h].status = StatusOf(worker[w].has_error)
           /\ promise[h].reference_count \in Int
           /\ promise'[h].reference_count = promise[h].reference_count - 1 - n
           /\ promise'[h].num_all_waiting_promises = promise[h].num_all_waiting_promises
           /\ promise'[h].num_ended_waiting_promises = promise[h].num_ended_waiting_promises
           /\ promise'[h].dependency_has_error = promise[h].dependency_has_error
           /\ promise'[h].pending_job = promise[h].pending_job
           /\ promise'[h].continuation_promises = promise[h].continuation_promises
<1> DEFINE h == worker[w].handle
           n == promise[h].num_promise_callbacks
           s == StatusOf(worker[w].has_error)
<1>1. h \in Handles
  BY DEF TypeOK, Pointers, Complete
<1>2. promise[h] \in PromiseRecord /\ n \in Nat /\ promise[h].reference_count \in Int
  BY <1>1 DEF TypeOK, PromiseRecord
<1>3. s \in {"Success", "Error"}
  BY DEF StatusOf
<1>4. promise' = [promise EXCEPT ![h].status = s, ![h].reference_count = @ - 1 - n]
  BY DEF Complete
<1>5. promise \in [Handles -> PromiseRecord]
  BY DEF TypeOK
<1>6. promise[h].reference_count - 1 - n \in Int /\ s \in Status
  BY <1>2, <1>3 DEF Status
<1> DEFINE rc == promise[h].reference_count - 1 - n
           p == [promise[h] EXCEPT !.status = s, !.reference_count = rc]
<1>7. promise' = [promise EXCEPT ![h] = p]
  BY <1>1, <1>2, <1>4, <1>5 DEF PromiseRecord
<1> HIDE DEF s, rc, h
<1>8. /\ p \in PromiseRecord
      /\ p.status = s
      /\ p.reference_count = rc
      /\ p.num_all_waiting_promises = promise[h].num_all_waiting_promises
      /\ p.num_ended_waiting_promises = promise[h].num_ended_waiting_promises
      /\ p.dependency_has_error = promise[h].dependency_has_error
      /\ p.pending_job = promise[h].pending_job
      /\ p.continuation_promises = promise[h].continuation_promises
  BY <1>2, <1>6 DEF PromiseRecord, rc
<1> HIDE DEF p
<1>9. /\ promise' \in [Handles -> PromiseRecord]
      /\ promise'[h] = p
      /\ \A d \in Handles \ {h} : promise'[d] = promise[d]
  BY <1>1, <1>5, <1>7, <1>8
<1> QED
  BY <1>1, <1>2, <1>3, <1>8, <1>9 DEF rc, s, h

\* One entry of the list of worker w's promise.
LEMMA ReleaseEntry ==
    ASSUME TypeOK, NEW w \in Workers, Release(w)
    PROVE  LET d == worker[w].handle
               i == worker[w].i IN
           /\ d \in Handles
           /\ i \in DOMAIN promise[d].continuation_promises
           /\ promise[d].continuation_promises[i] \in 0 .. MaxHandles
<1>1. worker[w].handle \in Handles /\ worker[w].i >= 1 /\ worker[w].i \in Nat
  BY DEF TypeOK, Pointers, Release
<1>2. worker[w].i <= Len(promise[worker[w].handle].continuation_promises)
  BY DEF Release
<1> QED
  BY <1>1, <1>2, Lists

LEMMA ReleaseEffect ==
    ASSUME TypeOK, NEW w \in Workers, Release(w),
           NEW h \in Handles,
           h = promise[worker[w].handle].continuation_promises[worker[w].i]
    PROVE  LET ended == promise[h].num_ended_waiting_promises + 1
               has_error == promise[h].dependency_has_error \/ worker[w].has_error
               last == ended >= promise[h].num_all_waiting_promises IN
           /\ promise[h].reference_count \in Int
           /\ ended \in Nat
           /\ promise[h].num_all_waiting_promises \in Nat
           /\ promise' \in [Handles -> PromiseRecord]
           /\ \A d \in Handles \ {h} : promise'[d] = promise[d]
           /\ table' \subseteq table
           /\ \A d \in table : d # h => d \in table'
           /\ promise[h].reference_count # 1 =>
                /\ h \in table => h \in table'
                /\ promise'[h].reference_count = promise[h].reference_count - 1
                /\ promise'[h].status = promise[h].status
                /\ promise'[h].num_all_waiting_promises = promise[h].num_all_waiting_promises
                /\ promise'[h].num_ended_waiting_promises = ended
                /\ promise'[h].dependency_has_error = has_error
                /\ promise'[h].pending_job <=> promise[h].pending_job /\ ~last
                /\ promise'[h].continuation_promises = promise[h].continuation_promises
                /\ promise'[h].num_promise_callbacks = promise[h].num_promise_callbacks
           /\ job' \in [Handles -> [state: {"none", "pending", "queued", "running", "ended", "lost"},
                                    dependency_has_error: BOOLEAN]]
           /\ \A d \in Handles \ {h} : job'[d] = job[d]
           /\ last => job'[h].state \in {"queued", "lost"}
           /\ ~last => job'[h].state = job[h].state
           /\ last => (job'[h].dependency_has_error <=> job[h].dependency_has_error \/ has_error)
           /\ free_job_count' \in Int
<1> DEFINE ended == promise[h].num_ended_waiting_promises + 1
           has_error == promise[h].dependency_has_error \/ worker[w].has_error
           last == ended >= promise[h].num_all_waiting_promises
           pending == promise[h].pending_job /\ ~last
           q == [promise[h] EXCEPT !.num_ended_waiting_promises = ended,
                                   !.dependency_has_error = has_error,
                                   !.pending_job = pending]
           failed == job[h].dependency_has_error \/ has_error
<1>1. h # 0
  BY DEF Handles
<1>2. PICK state \in Enqueued :
         /\ Drop(h, [promise[h] EXCEPT !.num_ended_waiting_promises = ended,
                                      !.dependency_has_error = has_error,
                                      !.pending_job = @ /\ ~last])
         /\ IF last
              THEN /\ job' = [job EXCEPT ![h] = [state |-> state,
                                                 dependency_has_error |->
                                                    @.dependency_has_error \/ has_error]]
                   /\ free_job_count' = free_job_count + 1
              ELSE UNCHANGED jobVars
  BY <1>1 DEF Release, AllEnded, Enqueued
<1>a. state \in {"queued", "lost"}
  BY DEF Enqueued
<1>3. promise[h] \in PromiseRecord
  BY DEF TypeOK
<1>4. job \in [Handles -> [state: {"none", "pending", "queued", "running", "ended", "lost"},
                           dependency_has_error: BOOLEAN]]
  BY DEF TypeOK
<1>5. /\ ended \in Nat
      /\ promise[h].num_all_waiting_promises \in Nat
      /\ promise[h].reference_count \in Int
      /\ free_job_count \in Int
  <2>1. free_job_count \in Int
    BY DEF TypeOK
  <2>2. /\ promise[h].num_ended_waiting_promises \in Nat
        /\ promise[h].num_all_waiting_promises \in Nat
        /\ promise[h].reference_count \in Int
    BY <1>3 DEF PromiseRecord
  <2>3. ended \in Nat
    BY <2>2, SMTT(30)
  <2> QED
    BY <2>1, <2>2, <2>3
<1>6. pending \in BOOLEAN /\ has_error \in BOOLEAN /\ failed \in BOOLEAN
  OBVIOUS
<1>7. q = [promise[h] EXCEPT !.num_ended_waiting_promises = ended,
                             !.dependency_has_error = has_error,
                             !.pending_job = @ /\ ~last]
  BY <1>3 DEF PromiseRecord
<1>8. /\ last => /\ job' = [job EXCEPT ![h] = [state |-> state,
                                               dependency_has_error |-> failed]]
                 /\ free_job_count' = free_job_count + 1
      /\ ~last => job' = job /\ free_job_count' = free_job_count
  BY <1>2, <1>4 DEF jobVars
<1>9. Drop(h, q)
  BY <1>2, <1>7
<1> HIDE DEF ended, has_error, pending, failed
<1>10. /\ q \in PromiseRecord
       /\ q.reference_count = promise[h].reference_count
       /\ q.status = promise[h].status
       /\ q.num_all_waiting_promises = promise[h].num_all_waiting_promises
       /\ q.num_ended_waiting_promises = ended
       /\ q.dependency_has_error = has_error
       /\ q.pending_job = pending
       /\ q.continuation_promises = promise[h].continuation_promises
       /\ q.num_promise_callbacks = promise[h].num_promise_callbacks
  BY <1>3, <1>5, <1>6 DEF PromiseRecord
<1> HIDE DEF q, last
<1>11. /\ table' \subseteq table
       /\ \A d \in Handles \ {h} : promise'[d] = promise[d]
       /\ \A d \in table : d # h => d \in table'
       /\ promise' \in [Handles -> PromiseRecord]
       /\ q.reference_count # 1 =>
            /\ h \in table => h \in table'
            /\ promise'[h].reference_count = q.reference_count - 1
            /\ promise'[h] = [q EXCEPT !.reference_count = promise'[h].reference_count]
  BY <1>9, <1>10, DropEffect
<1>12. ASSUME promise[h].reference_count # 1
       PROVE  /\ h \in table => h \in table'
              /\ promise'[h].reference_count = promise[h].reference_count - 1
              /\ promise'[h].status = promise[h].status
              /\ promise'[h].num_all_waiting_promises = promise[h].num_all_waiting_promises
              /\ promise'[h].num_ended_waiting_promises = ended
              /\ promise'[h].dependency_has_error = has_error
              /\ promise'[h].pending_job = pending
              /\ promise'[h].continuation_promises = promise[h].continuation_promises
              /\ promise'[h].num_promise_callbacks = promise[h].num_promise_callbacks
  <2>1. promise'[h] = [q EXCEPT !.reference_count = promise'[h].reference_count]
    BY <1>10, <1>11, <1>12
  <2>2. /\ promise'[h].status = q.status
        /\ promise'[h].num_all_waiting_promises = q.num_all_waiting_promises
        /\ promise'[h].num_ended_waiting_promises = q.num_ended_waiting_promises
        /\ promise'[h].dependency_has_error = q.dependency_has_error
        /\ promise'[h].pending_job = q.pending_job
        /\ promise'[h].continuation_promises = q.continuation_promises
        /\ promise'[h].num_promise_callbacks = q.num_promise_callbacks
    BY <1>10, <2>1 DEF PromiseRecord
  <2> QED
    BY <1>10, <1>11, <1>12, <2>2
<1>13. /\ job' \in [Handles -> [state: {"none", "pending", "queued", "running", "ended", "lost"},
                                dependency_has_error: BOOLEAN]]
       /\ \A d \in Handles \ {h} : job'[d] = job[d]
       /\ last => job'[h].state \in {"queued", "lost"}
       /\ ~last => job'[h].state = job[h].state
       /\ last => job'[h].dependency_has_error = failed
  <2>1. CASE last
    <3> DEFINE r == [state |-> state, dependency_has_error |-> failed]
    <3>1. /\ r \in [state: {"none", "pending", "queued", "running", "ended", "lost"},
                     dependency_has_error: BOOLEAN]
          /\ r.state \in {"queued", "lost"}
          /\ r.dependency_has_error = failed
      BY <1>6, <1>a
    <3>2. job' = [job EXCEPT ![h] = r]
      BY <1>8, <2>1
    <3> HIDE DEF r
    <3> QED
      BY <1>4, <2>1, <3>1, <3>2
  <2>2. CASE ~last
    BY <1>4, <1>8, <2>2
  <2> QED
    BY <2>1, <2>2
<1>14. free_job_count' \in Int
  BY <1>5, <1>8, SMTT(30)
<1>15. /\ promise[h].reference_count # 1 =>
            (promise'[h].pending_job <=> promise[h].pending_job /\ ~last)
       /\ last => (job'[h].dependency_has_error <=> job[h].dependency_has_error \/ has_error)
  BY <1>12, <1>13 DEF pending, failed
<1> QED
  BY <1>5, <1>11, <1>12, <1>13, <1>14, <1>15 DEF ended, has_error, last

LEMMA FinishEffect ==
    ASSUME TypeOK, NEW w \in Workers, Finish(w)
    PROVE  LET h == worker[w].handle IN
           /\ h \in Handles
           /\ promise' \in [Handles -> PromiseRecord]
           /\ \A d \in Handles \ {h} : promise'[d] = promise[d]
           /\ table' \subseteq table
           /\ \A d \in table : d # h => d \in table'
           /\ promise[h].reference_count = 0 => h \notin table' /\ promise'[h] = NoPromise
           /\ promise[h].reference_count # 0 => table' = table /\ promise' = promise
<1> DEFINE h == worker[w].handle
<1>1. h \in Handles
  BY DEF TypeOK, Pointers, Finish
<1>2. promise \in [Handles -> PromiseRecord]
  BY DEF TypeOK
<1>3. CASE promise[h].reference_count = 0
  <2>1. table' = table \ {h} /\ promise' = [promise EXCEPT ![h] = NoPromise]
    BY <1>3 DEF Finish
  <2> QED
    BY <1>1, <1>2, <1>3, <2>1, NoPromiseType
<1>4. CASE promise[h].reference_count # 0
  BY <1>1, <1>2, <1>4 DEF Finish
<1> QED
  BY <1>3, <1>4

-----------------------------------------------------------------------------
(* Types *)

LEMMA InitTyped == Init => TypeOK
<1> SUFFICES ASSUME Init PROVE TypeOK
  OBVIOUS
<1>1. promise \in [Handles -> PromiseRecord]
  BY NoPromiseType DEF Init
<1>2. 0 \in 0 .. MaxHandles
  BY BoundsAssumption
<1> QED
  BY <1>1, <1>2, BoundsAssumption DEF Init, TypeOK, Pointers, Status

\* What the clients and workers of a well-typed state are.
LEMMA Types ==
    ASSUME TypeOK
    PROVE  /\ table \subseteq Handles
           /\ promise \in [Handles -> PromiseRecord]
           /\ handle_counter \in 0 .. MaxHandles
           /\ handle_counter \in Nat
           /\ 0 \in 0 .. MaxHandles
           /\ Handles \subseteq 0 .. MaxHandles
           /\ Handles \subseteq Nat
           /\ job \in [Handles -> [state: {"none", "pending", "queued", "running", "ended", "lost"},
                                   dependency_has_error: BOOLEAN]]
           /\ worker \in [Workers -> [pc: {"idle", "complete", "release"},
                                      handle: 0 .. MaxHandles, has_error: BOOLEAN, i: Nat]]
           /\ client \in [Clients -> [pc: {"idle", "signal", "await", "await_all"},
                                      handle: 0 .. MaxHandles, asleep: BOOLEAN]]
           /\ IdleClient \in [pc: {"idle", "signal", "await", "await_all"},
                              handle: 0 .. MaxHandles, asleep: BOOLEAN]
           /\ user \subseteq Handles
           /\ outcome \in [Handles -> Status]
           /\ observed \in [Handles -> Status]
           /\ callbacks \in [Handles -> [added: Nat, called: Nat]]
<1>1. 0 \in 0 .. MaxHandles /\ Handles \subseteq 0 .. MaxHandles /\ Handles \subseteq Nat
  BY BoundsAssumption DEF Handles
<1>2. handle_counter \in Nat
  BY BoundsAssumption DEF TypeOK
<1> QED
  BY <1>1, <1>2 DEF TypeOK, IdleClient

\* The steps of a client that touch neither promises nor jobs.
LEMMA ClientTyped ==
    ASSUME TypeOK, NEW c \in Clients,
           NEW p \in {"idle", "signal", "await", "await_all"}, NEW h \in 0 .. MaxHandles,
           p \in {"signal", "await"} => h \in Handles,
           NEW a \in BOOLEAN,
           client' = [client EXCEPT ![c] = [pc |-> p, handle |-> h, asleep |-> a]]
    PROVE  /\ client' \in [Clients -> [pc: {"idle", "signal", "await", "await_all"},
                                       handle: 0 .. MaxHandles, asleep: BOOLEAN]]
           /\ \A d \in Clients : client'[d].pc \in {"signal", "await"}
                                   => client'[d].handle \in Handles
BY Types DEF TypeOK, Pointers

LEMMA ClientStepsTyped ==
    ASSUME TypeOK, NEW c \in Clients
    PROVE  /\ SignalInvoke(c) => TypeOK'
           /\ AwaitAgain(c) => TypeOK'
           /\ AwaitAll(c) => TypeOK'
           /\ SpuriousWakeup(c) => TypeOK'
           /\ \A h \in Handles : (Await(c, h) => TypeOK') /\ (Detach(c, h) => TypeOK')
                                   /\ (AddCallback(c, h) => TypeOK')
<1> USE Types
<1> DEFINE clientTyped ==
             /\ client' \in [Clients -> [pc: {"idle", "signal", "await", "await_all"},
                                         handle: 0 .. MaxHandles, asleep: BOOLEAN]]
             /\ \A d \in Clients : client'[d].pc \in {"signal", "await"}
                                     => client'[d].handle \in Handles
<1>0. client' = [client EXCEPT ![c] = IdleClient] => clientTyped
  BY ClientTyped DEF IdleClient
<1>1. SignalInvoke(c) => TypeOK'
  <2> SUFFICES ASSUME SignalInvoke(c) PROVE TypeOK'
    OBVIOUS
  <2>1. clientTyped
    BY <1>0 DEF SignalInvoke
  <2>2. client[c].handle \in Handles /\ free_job_count' \in Int
    BY DEF SignalInvoke, TypeOK, Pointers
  <2> QED
    BY <2>1, <2>2 DEF SignalInvoke, histories, TypeOK, Pointers
<1>2. ASSUME NEW h \in Handles, AwaitOrSleep(c, h),
             UNCHANGED <<handle_counter, mutex, jobVars, worker, dependencies, outcome, callbacks>>,
             user' \subseteq user
      PROVE  TypeOK'
  <2>1. promise' \in [Handles -> PromiseRecord]
    BY <1>2, AwaitOrSleepEffect
  <2>2. CASE NotFinished(h)
    <3>1. clientTyped
      BY <1>2, <2>2, ClientTyped DEF AwaitOrSleep
    <3> QED
      BY <1>2, <2>1, <2>2, <3>1 DEF AwaitOrSleep, jobVars, TypeOK, Pointers
  <2>3. CASE ~NotFinished(h)
    <3>1. clientTyped
      BY <1>0, <1>2, <2>3 DEF AwaitOrSleep
    <3>2. observed' \in [Handles -> Status]
      <4>1. promise[h].status \in Status
        BY DEF PromiseRecord
      <4> QED
        BY <1>2, <2>3, <4>1 DEF AwaitOrSleep
    <3>3. table' \subseteq Handles
      BY <1>2, <2>3, AwaitOrSleepEffect DEF LetGo, NotFinished
    <3> QED
      BY <1>2, <2>1, <3>1, <3>2, <3>3 DEF jobVars, TypeOK, Pointers
  <2> QED
    BY <2>2, <2>3
<1>3. AwaitAgain(c) => TypeOK'
  BY <1>2 DEF AwaitAgain, TypeOK, Pointers
<1>4. AwaitAll(c) => TypeOK'
  <2> SUFFICES ASSUME AwaitAll(c) PROVE TypeOK'
    OBVIOUS
  <2>1. clientTyped
    <3>1. CASE table = {}
      BY <1>0, <3>1 DEF AwaitAll
    <3>2. CASE table # {}
      BY <3>2, ClientTyped DEF AwaitAll
    <3> QED
      BY <3>1, <3>2
  <2> QED
    BY <2>1 DEF AwaitAll, jobVars, histories, TypeOK, Pointers
<1>5. SpuriousWakeup(c) => TypeOK'
  <2> SUFFICES ASSUME SpuriousWakeup(c) PROVE TypeOK'
    OBVIOUS
  <2>1. clientTyped
    BY DEF SpuriousWakeup, TypeOK, Pointers
  <2> QED
    BY <2>1 DEF SpuriousWakeup, jobVars, histories, TypeOK, Pointers
<1>6. ASSUME NEW h \in Handles, Await(c, h) PROVE TypeOK'
  BY <1>2, <1>6 DEF Await
<1>7. ASSUME NEW h \in Handles, Detach(c, h) PROVE TypeOK'
  <2>1. promise' \in [Handles -> PromiseRecord] /\ table' \subseteq Handles
    BY <1>7, DetachEffect DEF LetGo
  <2> QED
    BY <1>7, <2>1 DEF Detach, jobVars, histories, TypeOK, Pointers
<1>8. ASSUME NEW h \in Handles, AddCallback(c, h) PROVE TypeOK'
  <2>1. /\ promise' \in [Handles -> PromiseRecord]
        /\ callbacks' \in [Handles -> [added: Nat, called: Nat]]
    BY <1>8, AddCallbackEffect
  <2> QED
    BY <1>8, <2>1 DEF AddCallback, jobVars, TypeOK, Pointers
<1> QED
  BY <1>1, <1>3, <1>4, <1>5, <1>6, <1>7, <1>8

LEMMA InvokeTyped ==
    ASSUME TypeOK, NEW c \in Clients, NEW deps \in Dependencies
    PROVE  /\ Invoke(c, deps) => TypeOK'
           /\ \A n \in 0 .. Len(deps) : InvokeFails(c, deps, n) => TypeOK'
<1> USE Types
<1>1. ASSUME Invoke(c, deps) PROVE TypeOK'
  <2> DEFINE h == handle_counter + 1
  <2>1. /\ h \in Handles
        /\ promise' \in [Handles -> PromiseRecord]
        /\ \A d \in Handles \ {h} : job'[d] = job[d]
        /\ job'[h].state \in {"pending", "queued"}
        /\ job'[h].dependency_has_error = HasError(deps)
        /\ dependencies'[h] \in SUBSET Handles
        /\ dependencies' = [dependencies EXCEPT ![h] = dependencies'[h]]
    BY <1>1, InvokeEffect
  <2>2. h \in 0 .. MaxHandles
    BY <2>1
  <2>3. handle_counter' = h /\ table' = table \cup {h}
    BY <1>1 DEF Invoke
  <2>4. job' \in [Handles -> [state: {"none", "pending", "queued", "running", "ended", "lost"},
                              dependency_has_error: BOOLEAN]]
    <3> DEFINE st == IF Awaited(deps) = {} THEN "queued" ELSE "pending"
               error == HasError(deps)
    <3>1. job' = [job EXCEPT ![h] = [state |-> st, dependency_has_error |-> error]]
      BY <1>1 DEF Invoke, HasError
    <3>2. error \in BOOLEAN /\ st \in {"queued", "pending"}
      BY DEF HasError
    <3> HIDE DEF error, st
    <3> QED
      BY <3>1, <3>2
  <2>5. dependencies' \in [Handles -> SUBSET Handles]
    BY <2>1 DEF TypeOK
  <2>6. client' = [client EXCEPT ![c] = [pc |-> "signal", handle |-> h, asleep |-> FALSE]]
    BY <1>1 DEF Invoke
  <2> HIDE DEF h
  <2>7. /\ client' \in [Clients -> [pc: {"idle", "signal", "await", "await_all"},
                                    handle: 0 .. MaxHandles, asleep: BOOLEAN]]
        /\ \A d \in Clients : client'[d].pc \in {"signal", "await"}
                                => client'[d].handle \in Handles
    BY <2>1, <2>2, <2>6, ClientTyped
  <2>8. UNCHANGED <<mutex, free_job_count, worker, user, outcome, observed, callbacks>>
    BY <1>1 DEF Invoke
  <2> QED
    BY <2>1, <2>2, <2>3, <2>4, <2>5, <2>7, <2>8 DEF TypeOK, Pointers
<1>2. ASSUME NEW n \in 0 .. Len(deps), InvokeFails(c, deps, n) PROVE TypeOK'
  <2>1. promise' \in [Handles -> PromiseRecord]
    BY <1>2, InvokeFailsEffect
  <2> QED
    BY <1>2, <2>1 DEF InvokeFails, jobVars, histories, TypeOK, Pointers
<1> QED
  BY <1>1, <1>2

LEMMA WorkerStepsTyped ==
    ASSUME TypeOK, NEW w \in Workers
    PROVE  /\ \A h \in Handles, e \in BOOLEAN : Run(w, h, e) => TypeOK'
           /\ Complete(w) => TypeOK'
           /\ Release(w) => TypeOK'
           /\ Finish(w) => TypeOK'
<1> USE Types
<1>1. ASSUME NEW h \in Handles, NEW e \in BOOLEAN, Run(w, h, e) PROVE TypeOK'
  <2>1. job' \in [Handles -> [state: {"none", "pending", "queued", "running", "ended", "lost"},
                              dependency_has_error: BOOLEAN]]
    BY <1>1 DEF Run
  <2>2. /\ worker' \in [Workers -> [pc: {"idle", "complete", "release"},
                                    handle: 0 .. MaxHandles, has_error: BOOLEAN, i: Nat]]
        /\ \A v \in Workers : worker'[v].pc # "idle" => worker'[v].handle \in Handles
        /\ \A v \in Workers : worker'[v].pc = "release" => worker'[v].i >= 1
    BY <1>1 DEF Run, TypeOK, Pointers
  <2>3. free_job_count' \in Int
    BY <1>1 DEF Run, TypeOK
  <2> QED
    BY <1>1, <2>1, <2>2, <2>3 DEF Run, histories, TypeOK, Pointers
<1>2. ASSUME Complete(w) PROVE TypeOK'
  <2> DEFINE h == worker[w].handle
             n == promise[h].num_promise_callbacks
             s == StatusOf(worker[w].has_error)
  <2>1. /\ h \in Handles
        /\ n \in Nat
        /\ s \in {"Success", "Error"}
        /\ promise' \in [Handles -> PromiseRecord]
    BY <1>2, CompleteEffect
  <2>2. /\ mutex' = w
        /\ callbacks' = [callbacks EXCEPT ![h].called = @ + n]
        /\ outcome' = [outcome EXCEPT ![h] = s]
        /\ worker' = [worker EXCEPT ![w] = [@ EXCEPT !.pc = "release", !.i = 1]]
        /\ UNCHANGED <<table, handle_counter, jobVars, client, user, dependencies, observed>>
    BY <1>2 DEF Complete
  <2>3. worker[w].pc = "complete"
    BY <1>2 DEF Complete
  <2> HIDE DEF s, n
  <2>4. /\ callbacks' \in [Handles -> [added: Nat, called: Nat]]
        /\ outcome' \in [Handles -> Status]
    <3>1. outcome' \in [Handles -> Status]
      BY <2>1, <2>2 DEF Status
    <3>2. callbacks[h].called + n \in Nat
      BY <2>1
    <3>3. callbacks' \in [Handles -> [added: Nat, called: Nat]]
      BY <2>1, <2>2, <3>2, SMTT(30)
    <3> QED
      BY <3>1, <3>3
  <2> DEFINE r == [worker[w] EXCEPT !.pc = "release", !.i = 1]
  <2>6. /\ worker' = [worker EXCEPT ![w] = r]
        /\ r \in [pc: {"idle", "complete", "release"},
                  handle: 0 .. MaxHandles, has_error: BOOLEAN, i: Nat]
        /\ r.pc = "release"
        /\ r.handle = h
        /\ r.i = 1
    BY <2>2, ZenonT(60)
  <2>5. /\ worker' \in [Workers -> [pc: {"idle", "complete", "release"},
                                    handle: 0 .. MaxHandles, has_error: BOOLEAN, i: Nat]]
        /\ \A v \in Workers : worker'[v].pc # "idle" => worker'[v].handle \in Handles
        /\ \A v \in Workers : worker'[v].pc = "release" => worker'[v].i >= 1
    <3> HIDE DEF h, r
    <3> QED
      BY <2>1, <2>6 DEF TypeOK, Pointers
  <2> QED
    BY <2>1, <2>2, <2>4, <2>5 DEF jobVars, TypeOK, Pointers
<1>3. ASSUME Release(w) PROVE TypeOK'
  <2> DEFINE h == promise[worker[w].handle].continuation_promises[worker[w].i]
  <2>1. h \in 0 .. MaxHandles
    BY <1>3, ReleaseEntry
  <2>2. /\ promise' \in [Handles -> PromiseRecord]
        /\ table' \subseteq table
        /\ job' \in [Handles -> [state: {"none", "pending", "queued", "running", "ended", "lost"},
                                 dependency_has_error: BOOLEAN]]
        /\ free_job_count' \in Int
    <3>1. CASE h = 0
      BY <1>3, <3>1 DEF Release, jobVars, TypeOK
    <3>2. CASE h # 0
      <4>1. h \in Handles
        BY <2>1, <3>2, BoundsAssumption DEF Handles
      <4> QED
        BY <1>3, <4>1, ReleaseEffect
    <3> QED
      BY <3>1, <3>2
  <2>3. worker' = [worker EXCEPT ![w].i = @ + 1]
    BY <1>3 DEF Release
  <2>4. /\ worker' \in [Workers -> [pc: {"idle", "complete", "release"},
                                    handle: 0 .. MaxHandles, has_error: BOOLEAN, i: Nat]]
        /\ \A v \in Workers : worker'[v].pc # "idle" => worker'[v].handle \in Handles
        /\ \A v \in Workers : worker'[v].pc = "release" => worker'[v].i >= 1
    BY <2>3 DEF TypeOK, Pointers
  <2>5. UNCHANGED <<handle_counter, mutex, client, user, histories>>
    BY <1>3 DEF Release
  <2> QED
    BY <2>2, <2>4, <2>5 DEF histories, TypeOK, Pointers
<1>4. ASSUME Finish(w) PROVE TypeOK'
  <2>1. /\ promise' \in [Handles -> PromiseRecord]
        /\ table' \subseteq table
        /\ worker[w].handle \in Handles
    BY <1>4, FinishEffect
  <2>2. /\ client' \in [Clients -> [pc: {"idle", "signal", "await", "await_all"},
                                    handle: 0 .. MaxHandles, asleep: BOOLEAN]]
        /\ \A d \in Clients : client'[d].pc = client[d].pc /\ client'[d].handle = client[d].handle
    BY <1>4 DEF Finish, Awakened
  <2>3. job' \in [Handles -> [state: {"none", "pending", "queued", "running", "ended", "lost"},
                              dependency_has_error: BOOLEAN]]
    <3> DEFINE h == worker[w].handle
    <3>1. job' = [job EXCEPT ![h].state = "ended"] /\ h \in Handles
      BY <1>4, <2>1 DEF Finish
    <3> HIDE DEF h
    <3> QED
      BY <3>1
  <2>4. /\ worker' \in [Workers -> [pc: {"idle", "complete", "release"},
                                    handle: 0 .. MaxHandles, has_error: BOOLEAN, i: Nat]]
        /\ \A v \in Workers : worker'[v].pc # "idle" => worker'[v].handle \in Handles
        /\ \A v \in Workers : worker'[v].pc = "release" => worker'[v].i >= 1
    BY <1>4 DEF Finish, TypeOK, Pointers
  <2>5. /\ mutex' = NoThread
        /\ UNCHANGED <<handle_counter, free_job_count, user, histories>>
    BY <1>4 DEF Finish
  <2> QED
    BY <2>1, <2>2, <2>3, <2>4, <2>5 DEF histories, TypeOK, Pointers
<1> QED
  BY <1>1, <1>2, <1>3, <1>4

LEMMA StepTyped == TypeOK /\ [Next]_vars => TypeOK'
<1> SUFFICES ASSUME TypeOK, [Next]_vars PROVE TypeOK'
  OBVIOUS
<1>1. ASSUME NEW c \in Clients, ClientStep(c) PROVE TypeOK'
  BY <1>1, ClientStepsTyped DEF ClientStep
<1>2. ASSUME NEW c \in Clients, ClientCall(c) PROVE TypeOK'
  BY <1>2, ClientStepsTyped, InvokeTyped DEF ClientCall
<1>3. ASSUME NEW w \in Workers, WorkerStep(w) PROVE TypeOK'
  BY <1>3, WorkerStepsTyped DEF WorkerStep
<1>4. ASSUME Quiet \/ UNCHANGED vars PROVE TypeOK'
  BY <1>4 DEF Quiet, vars, jobVars, histories, TypeOK, Pointers
<1> QED
  BY <1>1, <1>2, <1>3, <1>4 DEF Next

(***************************************************************************)
(* The promise manager's variables have their types.  Lists name only      *)
(* handles that armd_invoke can give out; a thread in armd_invoke or       *)
(* armd_await, and a worker with a job, have such a handle.                *)
(***************************************************************************)
THEOREM PromisesTyped == Spec => []TypeOK
  BY InitTyped, StepTyped, PTL DEF Spec
=============================================================================
