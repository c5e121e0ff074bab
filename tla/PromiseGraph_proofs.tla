------------------------ MODULE PromiseGraph_proofs -------------------------
(***************************************************************************)
(* The promises of a context: the theorems that the dependency graph and   *)
(* the counters agree, that reference counts are exact, that nobody uses a *)
(* promise that is gone, that callbacks are called once, that nothing is   *)
(* leaked, and that they implement the task flow, for any number of        *)
(* threads and promises.                                                   *)
(***************************************************************************)
EXTENDS PromiseManager_proofs

-----------------------------------------------------------------------------
(* The inductive invariant *)

\* The mutex is held from Complete to Finish.
Locked == \A w \in Workers : mutex = w <=> worker[w].pc = "release"

\* Each job has one worker, which has completed it or is about to.
WorkersSound ==
    /\ \A w \in Workers : worker[w].pc # "idle" =>
         /\ job[worker[w].handle].state = "running"
         /\ outcome[worker[w].handle] = "NotFinished" <=> worker[w].pc = "complete"
    /\ \A w \in Workers : worker[w].pc = "release" => worker[w].handle \in table
    /\ \A v, w \in Workers :
         worker[v].pc # "idle" /\ worker[w].pc # "idle" /\ worker[v].handle = worker[w].handle
         => v = w

\* A job has a result once it is completed, and its promise until then.
JobsSound ==
    \A h \in Handles :
        /\ job[h].state \in {"none", "pending", "queued", "lost"} => outcome[h] = "NotFinished"
        /\ job[h].state = "ended" => outcome[h] # "NotFinished"
        /\ JobHolds(h) => h \in table

\* Handles are given out in order, and none is named before.
Fresh ==
    /\ \A h \in Handles : job[h].state = "none" <=> h > handle_counter
    /\ \A h \in Handles : h > handle_counter => callbacks[h].added = 0
    /\ \A h \in table : h <= handle_counter
    /\ \A h \in Handles \ table : promise[h] = NoPromise
    /\ \A h \in Handles : \A i \in DOMAIN promise[h].continuation_promises :
         promise[h].continuation_promises[i] <= handle_counter

\* The promise in the table knows what became of its job.
TableSound ==
    \A h \in table :
        /\ promise[h].status = outcome[h]
        /\ promise[h].pending_job <=> job[h].state = "pending"
        /\ \/ promise[h].reference_count > 0
           \/ \E w \in Workers : worker[w].pc = "release" /\ worker[w].handle = h

\* A handle is given back once.
HeldOnce ==
    /\ \A c \in Clients : client[c].pc \in {"signal", "await"} => client[c].handle \notin user
    /\ \A c, d \in Clients :
         /\ client[c].pc \in {"signal", "await"}
         /\ client[d].pc \in {"signal", "await"}
         /\ client[c].handle = client[d].handle
         => c = d

UsersSound == HeldOnce /\ \A h \in Handles : UserHolds(h) => h \in table

CallbacksKept ==
    \A h \in table : NotFinished(h) => promise[h].num_promise_callbacks = callbacks[h].added

FinitelyOwed == \A h \in Handles : IsFiniteSet(Owed(h))

Threads == Locked /\ WorkersSound /\ JobsSound /\ UsersSound

Records == Fresh /\ TableSound /\ CallbacksKept /\ CallbacksOnce

Counted == FinitelyOwed /\ ReleasesOwed /\ RefCountExact

Sound == Threads /\ Records /\ Counted

-----------------------------------------------------------------------------
(* Counting *)

\* A list element that is still to be processed, and whose it is.
Due(d, i) == d \in table /\ i \in Unreleased(d)
Entry(d, i) == promise[d].continuation_promises[i]

\* A step that changes no entry that is still to be processed.
LinksKept == \A h \in Handles : Owed(h)' = Owed(h)

LEMMA OwedIs ==
    \A h : /\ \A d, i : <<d, i>> \in Owed(h) <=> Due(d, i) /\ Entry(d, i) = h
           /\ \A x \in Owed(h) : \E d \in table : \E i \in Unreleased(d) : x = <<d, i>>
BY DEF Owed, Due, Entry

LEMMA OwedIsNext ==
    \A h : /\ \A d, i : <<d, i>> \in Owed(h)' <=> Due(d, i)' /\ Entry(d, i)' = h
           /\ \A x \in Owed(h)' : \E d \in table' : \E i \in Unreleased(d)' : x = <<d, i>>
BY DEF Owed, Due, Entry

LEMMA OwedKept ==
    ASSUME NEW h, table \subseteq Handles, table' \subseteq Handles,
           \A d \in Handles : \A i :
             (Due(d, i)' /\ Entry(d, i)' = h) <=> (Due(d, i) /\ Entry(d, i) = h)
    PROVE  Owed(h)' = Owed(h)
<1>1. ASSUME NEW x \in Owed(h) PROVE x \in Owed(h)'
  <2>1. PICK d, i : d \in table /\ i \in Unreleased(d) /\ x = <<d, i>>
    BY OwedIs
  <2>2. Due(d, i) /\ Entry(d, i) = h
    BY <2>1, OwedIs
  <2>3. Due(d, i)' /\ Entry(d, i)' = h
    BY <2>1, <2>2
  <2> QED
    BY <2>1, <2>3, OwedIsNext
<1>2. ASSUME NEW x \in Owed(h)' PROVE x \in Owed(h)
  <2>1. PICK d, i : d \in table' /\ i \in Unreleased(d)' /\ x = <<d, i>>
    BY OwedIsNext
  <2>2. Due(d, i)' /\ Entry(d, i)' = h
    BY <2>1, OwedIsNext
  <2>3. Due(d, i) /\ Entry(d, i) = h
    BY <2>1, <2>2
  <2> QED
    BY <2>1, <2>3, OwedIs
<1> QED
  BY <1>1, <1>2

LEMMA Less == \A x, y \in Nat : x <= y /\ x # y => x < y
OBVIOUS

(***************************************************************************)
(* The places A in a list of dependencies, counted promise by promise: an  *)
(* entry for each of the places[d] that hold d, behind the base[d] entries *)
(* that d's list has already, are as many entries as there are places.     *)
(***************************************************************************)
PlacesOf(places, A, T, deps) ==
    \A d \in T : \A i : i \in places[d] <=> i \in A /\ deps[i] = d

AppendedTo(S, T, places, base) ==
    \A x : x \in S <=> \E d \in T :
        \E j \in 1 .. Cardinality(places[d]) : x = <<d, base[d] + j>>

LEMMA PlacesCounted ==
    ASSUME NEW A \in SUBSET Nat, IsFiniteSet(A), NEW T, NEW deps, \A i \in A : deps[i] \in T,
           NEW base \in [T -> Nat],
           NEW places, PlacesOf(places, A, T, deps),
           NEW S, AppendedTo(S, T, places, base)
    PROVE  IsFiniteSet(S) /\ Cardinality(S) = Cardinality(A)
<1> DEFINE C(d) == {i \in A : deps[i] = d}
           B(i) == {k \in C(deps[i]) : k <= i}
           rank(i) == Cardinality(B(i))
           f == [i \in A |-> <<deps[i], base[deps[i]] + rank(i)>>]
<1>0. \A x : x \in S <=> \E d \in T : \E j \in 1 .. Cardinality(C(d)) : x = <<d, base[d] + j>>
  <2>1. ASSUME NEW d \in T PROVE Cardinality(places[d]) = Cardinality(C(d))
    <3>1. \A i : i \in places[d] <=> i \in C(d)
      BY DEF PlacesOf
    <3> HIDE DEF C
    <3>2. places[d] = C(d)
      BY <3>1
    <3> QED
      BY <3>2
  <2> HIDE DEF C
  <2> QED
    BY <2>1 DEF AppendedTo
<1>1. \A d : IsFiniteSet(C(d)) /\ Cardinality(C(d)) \in Nat
  <2>1. \A d : C(d) \in SUBSET A
    OBVIOUS
  <2> QED
    BY <2>1, FS_Subset, FS_CardinalityType
<1>2. \A i \in A : IsFiniteSet(B(i)) /\ rank(i) \in Nat
  <2>1. \A i : B(i) \in SUBSET C(deps[i])
    OBVIOUS
  <2> HIDE DEF B, C
  <2> QED
    BY <1>1, <2>1, FS_Subset, FS_CardinalityType
<1>3. ASSUME NEW i \in A PROVE rank(i) \in 1 .. Cardinality(C(deps[i]))
  <2>1. B(i) \in SUBSET C(deps[i])
    OBVIOUS
  <2>2. i \in B(i)
    OBVIOUS
  <2> HIDE DEF B, C
  <2>3. rank(i) <= Cardinality(C(deps[i]))
    BY <1>1, <2>1, FS_Subset
  <2>4. rank(i) # 0
    BY <1>2, <2>2, FS_EmptySet
  <2> HIDE DEF rank
  <2> QED
    BY <1>1, <1>2, <2>3, <2>4
<1>4. ASSUME NEW i \in A, NEW k \in A, deps[i] = deps[k], i < k
      PROVE  rank(i) < rank(k)
  <2>0. i \in Nat /\ k \in Nat
    OBVIOUS
  <2>1. B(i) \in SUBSET B(k) /\ k \in B(k) /\ k \notin B(i)
    <3>1. C(deps[i]) = C(deps[k])
      BY <1>4
    <3>2. ASSUME NEW x \in B(i) PROVE x \in B(k)
      <4>1. x \in C(deps[k]) /\ x <= i /\ x \in Nat
        BY <3>1
      <4> QED
        BY <1>4, <2>0, <4>1
    <3>3. k \in B(k)
      BY <2>0
    <3>4. k \notin B(i)
      BY <1>4, <2>0
    <3> QED
      BY <3>2, <3>3, <3>4
  <2> HIDE DEF B, C
  <2>2. rank(i) <= rank(k) /\ rank(i) # rank(k)
    BY <1>2, <2>1, FS_Subset
  <2>3. rank(i) \in Nat /\ rank(k) \in Nat
    BY <1>2
  <2> HIDE DEF rank
  <2> QED
    BY <2>2, <2>3, Less
<1>5. ASSUME NEW i \in A, NEW k \in A, deps[i] = deps[k], rank(i) = rank(k)
      PROVE  i = k
  <2>0. i \in Nat /\ k \in Nat /\ rank(i) \in Nat /\ rank(k) \in Nat
    BY <1>2
  <2>1. i < k => rank(i) < rank(k)
    BY <1>4, <1>5
  <2>2. k < i => rank(k) < rank(i)
    BY <1>4, <1>5
  <2> HIDE DEF rank
  <2> QED
    BY <1>5, <2>0, <2>1, <2>2
<1>6. ASSUME NEW d \in T, NEW j \in 1 .. Cardinality(C(d))
      PROVE  \E i \in C(d) : rank(i) = j
  <2> DEFINE m == Cardinality(C(d))
             g == [i \in C(d) |-> rank(i)]
  <2>1. m \in Nat /\ IsFiniteSet(C(d))
    BY <1>1
  <2>2. \A i \in C(d) : i \in A /\ deps[i] = d
    OBVIOUS
  <2> HIDE DEF rank, C
  <2>3. IsFiniteSet(1 .. m) /\ Cardinality(1 .. m) = m
    BY <2>1, FS_Interval
  <2>4. g \in [C(d) -> 1 .. m]
    BY <1>3, <2>2
  <2>5. \A i, k \in C(d) : g[i] = g[k] => i = k
    BY <1>5, <2>2
  <2>6. g \in Injection(C(d), 1 .. m)
    BY <2>4, <2>5 DEF Injection, IsInjective
  <2>7. g \in Surjection(C(d), 1 .. m)
    BY <2>3, <2>6, FS_Injection
  <2> QED
    BY <2>7 DEF Surjection
<1>7. f \in [A -> S]
  <2> SUFFICES ASSUME NEW i \in A PROVE f[i] \in S
    OBVIOUS
  <2>1. rank(i) \in 1 .. Cardinality(C(deps[i]))
    BY <1>3
  <2> HIDE DEF rank, C
  <2> QED
    BY <1>0, <2>1
<1>8. \A i, k \in A : f[i] = f[k] => i = k
  <2> SUFFICES ASSUME NEW i \in A, NEW k \in A, f[i] = f[k] PROVE i = k
    OBVIOUS
  <2> HIDE DEF rank
  <2>1. deps[i] = deps[k] /\ base[deps[i]] + rank(i) = base[deps[k]] + rank(k)
    OBVIOUS
  <2>2. rank(i) \in Nat /\ rank(k) \in Nat /\ base[deps[i]] \in Nat
    BY <1>2
  <2>3. rank(i) = rank(k)
    BY <2>1, <2>2
  <2> QED
    BY <1>5, <2>1, <2>3
<1>9. \A x \in S : \E i \in A : f[i] = x
  <2> SUFFICES ASSUME NEW x \in S PROVE \E i \in A : f[i] = x
    OBVIOUS
  <2>1. PICK d \in T : \E j \in 1 .. Cardinality(C(d)) : x = <<d, base[d] + j>>
    BY <1>0
  <2>2. PICK j \in 1 .. Cardinality(C(d)) : x = <<d, base[d] + j>>
    BY <2>1
  <2>3. PICK i \in C(d) : rank(i) = j
    BY <1>6, <2>2
  <2>4. i \in A /\ deps[i] = d
    OBVIOUS
  <2> HIDE DEF rank
  <2> QED
    BY <2>2, <2>3, <2>4
<1> HIDE DEF f
<1>10. f \in Bijection(A, S)
  BY <1>7, <1>8, <1>9 DEF Bijection, Injection, IsInjective, Surjection
<1> QED
  BY <1>10, FS_Bijection DEF ExistsBijection

-----------------------------------------------------------------------------
(* References *)

\* The right-hand side of RefCountExact.
Refs(h) ==
      One(UserHolds(h)) + One(JobHolds(h))
    + (promise[h].num_all_waiting_promises - promise[h].num_ended_waiting_promises)
    + IF NotFinished(h) THEN promise[h].num_promise_callbacks ELSE 0

LEMMA RefsCounted == RefCountExact <=> \A h \in table : promise[h].reference_count = Refs(h)
BY DEF RefCountExact, Refs

LEMMA RefsCountedNext ==
    RefCountExact' <=> \A h \in table' : promise'[h].reference_count = Refs(h)'
BY DEF RefCountExact, Refs

\* The numbers in the record of a promise.
LEMMA Numbers ==
    ASSUME TypeOK, NEW h \in Handles
    PROVE  /\ promise[h].reference_count \in Int
           /\ promise[h].num_all_waiting_promises \in Nat
           /\ promise[h].num_ended_waiting_promises \in Nat
           /\ promise[h].num_promise_callbacks \in Nat
           /\ promise[h].status \in Status
           /\ promise[h].pending_job \in BOOLEAN
           /\ promise[h].dependency_has_error \in BOOLEAN
<1>1. promise[h] \in PromiseRecord
  BY DEF TypeOK
<1> QED
  BY <1>1 DEF PromiseRecord

\* What the promises of the table owe and are owed.
LEMMA Balance ==
    ASSUME TypeOK, Sound, NEW h \in table
    PROVE  LET m == promise[h].num_all_waiting_promises - promise[h].num_ended_waiting_promises IN
           /\ m \in Nat
           /\ m = Cardinality(Owed(h))
           /\ m = 0 <=> Owed(h) = {}
           /\ promise[h].reference_count = Refs(h)
           /\ Refs(h) \in Nat
           /\ UserHolds(h) => Refs(h) >= 1
           /\ JobHolds(h) => Refs(h) >= 1
           /\ UserHolds(h) /\ JobHolds(h) => Refs(h) >= 2
           /\ Refs(h) >= m
           /\ JobHolds(h) => Refs(h) >= 1 + m
           /\ UserHolds(h) /\ Refs(h) = 1 => ~JobHolds(h) /\ m = 0
           /\ Refs(h) = 0 => ~UserHolds(h) /\ ~JobHolds(h) /\ m = 0
<1> DEFINE m == promise[h].num_all_waiting_promises - promise[h].num_ended_waiting_promises
           cb == IF NotFinished(h) THEN promise[h].num_promise_callbacks ELSE 0
<1>1. h \in Handles
  BY DEF TypeOK
<1>2. m = Cardinality(Owed(h)) /\ IsFiniteSet(Owed(h))
  BY <1>1 DEF Sound, Counted, ReleasesOwed, FinitelyOwed
<1>3. m \in Nat /\ (m = 0 <=> Owed(h) = {})
  BY <1>2, FS_CardinalityType, FS_EmptySet
<1>4. cb \in Nat
  BY <1>1, Numbers
<1>5. promise[h].reference_count = Refs(h)
  BY RefsCounted DEF Sound, Counted
<1>6. /\ UserHolds(h) => One(UserHolds(h)) = 1
      /\ ~UserHolds(h) => One(UserHolds(h)) = 0
      /\ JobHolds(h) => One(JobHolds(h)) = 1
      /\ ~JobHolds(h) => One(JobHolds(h)) = 0
  BY DEF One
<1>7. Refs(h) = One(UserHolds(h)) + One(JobHolds(h)) + m + cb
  BY DEF Refs
<1> DEFINE u == One(UserHolds(h))
           j == One(JobHolds(h))
<1>8. u \in {0, 1} /\ j \in {0, 1}
  BY DEF One
<1> HIDE DEF m, cb, u, j
<1>9. Refs(h) = u + j + m + cb
  BY <1>7 DEF u, j
<1>10. /\ Refs(h) \in Nat
       /\ u = 1 => Refs(h) >= 1
       /\ j = 1 => Refs(h) >= 1 /\ Refs(h) >= 1 + m
       /\ u = 1 /\ j = 1 => Refs(h) >= 2
       /\ Refs(h) >= m
       /\ u = 1 /\ Refs(h) = 1 => j = 0 /\ m = 0
       /\ Refs(h) = 0 => u = 0 /\ j = 0 /\ m = 0
  BY <1>3, <1>4, <1>8, <1>9
<1>11. (UserHolds(h) <=> u = 1) /\ (JobHolds(h) <=> j = 1)
  BY <1>6 DEF u, j
<1> QED
  BY <1>2, <1>3, <1>5, <1>8, <1>10, <1>11 DEF m

-----------------------------------------------------------------------------
(* The steps of clients *)

\* While the mutex is free no worker is releasing.
LEMMA NoneReleasing ==
    ASSUME Sound, mutex = NoThread, NEW w \in Workers
    PROVE  worker[w].pc # "release"
BY NoThreadAssumption DEF Sound, Threads, Locked

\* A promise in the table was invoked.
LEMMA InTable ==
    ASSUME TypeOK, Sound, NEW h \in table
    PROVE  /\ h \in Handles
           /\ promise[h].status = outcome[h]
           /\ job[h].state # "none"
<1>1. h \in Handles /\ h \in Nat /\ handle_counter \in Nat
  BY Types
<1>2. promise[h].status = outcome[h]
  BY DEF Sound, Records, TableSound
<1>3. h <= handle_counter /\ (job[h].state = "none" <=> h > handle_counter)
  BY <1>1 DEF Sound, Records, Fresh
<1> QED
  BY <1>1, <1>2, <1>3

LEMMA ClientsOnly ==
    ASSUME TypeOK, Sound,
           UNCHANGED <<table, promise, handle_counter, mutex, job, worker, outcome, callbacks>>,
           \A h \in Handles : UserHolds(h)' <=> UserHolds(h), UsersSound'
    PROVE  Sound' /\ LinksKept
<1>1. \A h : Owed(h)' = Owed(h)
  BY DEF Owed, Unreleased, NotFinished
<1>2. \A h : (JobHolds(h)' <=> JobHolds(h)) /\ (NotFinished(h)' <=> NotFinished(h))
  BY DEF JobHolds, NotFinished
<1>3. Threads'
  BY <1>2 DEF Sound, Threads, Locked, WorkersSound, JobsSound
<1>4. Records'
  BY <1>2 DEF Sound, Records, Fresh, TableSound, CallbacksKept, CallbacksOnce
<1>5. FinitelyOwed' /\ ReleasesOwed'
  BY <1>1 DEF Sound, Counted, FinitelyOwed, ReleasesOwed
<1>6. \A h \in table : Refs(h)' = Refs(h)
  <2> SUFFICES ASSUME NEW h \in table PROVE Refs(h)' = Refs(h)
    OBVIOUS
  <2>1. h \in Handles
    BY DEF TypeOK
  <2>2. One(UserHolds(h))' = One(UserHolds(h)) /\ One(JobHolds(h))' = One(JobHolds(h))
    BY <1>2, <2>1 DEF One
  <2> QED
    BY <1>2, <2>2 DEF Refs
<1>7. RefCountExact'
  BY <1>6, RefsCounted, RefsCountedNext DEF Sound, Counted
<1> QED
  BY <1>1, <1>3, <1>4, <1>5, <1>7 DEF Sound, Counted, LinksKept

\* What a step of one client does to the references of the application.
LEMMA ClientHolds ==
    ASSUME TypeOK, NEW c \in Clients,
           \A d \in Clients \ {c} : client'[d] = client[d],
           NEW h
    PROVE  /\ UserHolds(h) <=>
                \/ h \in user
                \/ client[c].pc \in {"signal", "await"} /\ client[c].handle = h
                \/ \E d \in Clients \ {c} : client[d].pc \in {"signal", "await"}
                                              /\ client[d].handle = h
           /\ UserHolds(h)' <=>
                \/ h \in user'
                \/ client'[c].pc \in {"signal", "await"} /\ client'[c].handle = h
                \/ \E d \in Clients \ {c} : client[d].pc \in {"signal", "await"}
                                              /\ client[d].handle = h
BY DEF UserHolds

LEMMA SoundSignalInvoke ==
    ASSUME TypeOK, Sound, NEW c \in Clients, SignalInvoke(c)
    PROVE  Sound' /\ LinksKept
<1> DEFINE h == client[c].handle
<1>1. /\ client[c].pc = "signal"
      /\ user' = user \cup {h}
      /\ client' = [client EXCEPT ![c] = IdleClient]
      /\ UNCHANGED <<table, promise, handle_counter, mutex, job, worker, outcome, callbacks>>
  BY DEF SignalInvoke, histories
<1>2. /\ \A d \in Clients \ {c} : client'[d] = client[d]
      /\ client'[c].pc = "idle"
  BY <1>1 DEF TypeOK, IdleClient
<1>3. \A k : UserHolds(k)' <=> UserHolds(k)
  BY <1>1, <1>2, ClientHolds
<1>4. UsersSound'
  BY <1>1, <1>2, <1>3 DEF Sound, Threads, UsersSound, HeldOnce
<1> QED
  BY <1>1, <1>3, <1>4, ClientsOnly

\* A client falls asleep, wakes up, or calls armd_await_all.
LEMMA SoundClientWaits ==
    ASSUME TypeOK, Sound, NEW c \in Clients,
           UNCHANGED <<table, promise, handle_counter, mutex, job, worker, user, outcome, callbacks>>,
           \A d \in Clients \ {c} : client'[d] = client[d],
           (client'[c].pc \in {"signal", "await"} <=> client[c].pc \in {"signal", "await"}),
           client[c].pc \in {"signal", "await"} => client'[c].handle = client[c].handle
    PROVE  Sound' /\ LinksKept
<1>1. \A k : UserHolds(k)' <=> UserHolds(k)
  BY ClientHolds
<1>2. UsersSound'
  BY <1>1 DEF Sound, Threads, UsersSound, HeldOnce
<1> QED
  BY <1>1, <1>2, ClientsOnly

LEMMA SoundLetGo ==
    ASSUME TypeOK, Sound, mutex = NoThread, table' \subseteq Handles,
           NEW h \in table, UserHolds(h), LetGo(h),
           UNCHANGED <<handle_counter, mutex, job, worker, outcome, callbacks>>,
           \A k \in Handles : UserHolds(k)' <=> UserHolds(k) /\ k # h,
           HeldOnce'
    PROVE  Sound' /\ LinksKept
<1>0. h \in Handles /\ table \subseteq Handles
  BY DEF TypeOK
<1>1. \A w \in Workers : worker[w].pc # "release"
  BY NoneReleasing
<1>2. /\ table' \subseteq table
      /\ \A d \in Handles \ {h} : promise'[d] = promise[d]
      /\ \A d \in table : d # h => d \in table'
  BY DEF LetGo
<1> DEFINE gone == promise[h].reference_count = 1
<1>3. gone => h \notin table' /\ promise'[h] = NoPromise
  BY DEF LetGo
<1>4. ~gone => /\ h \in table'
               /\ promise'[h].reference_count = promise[h].reference_count - 1
               /\ SameBut(promise'[h], promise[h])
  BY DEF LetGo
<1>5. gone => ~JobHolds(h) /\ Owed(h) = {}
  BY Balance
<1>6. promise[h].status = outcome[h] /\ job[h].state # "none"
  BY InTable
<1>7. gone => promise[h].status # "NotFinished"
  BY <1>5, <1>6 DEF JobHolds
<1>8. \A k : JobHolds(k)' <=> JobHolds(k)
  BY DEF JobHolds
<1>9. /\ \A d \in table' : promise'[d].status = promise[d].status
      /\ \A d \in table' : promise'[d].pending_job = promise[d].pending_job
      /\ \A d \in table' : promise'[d].num_all_waiting_promises = promise[d].num_all_waiting_promises
      /\ \A d \in table' : promise'[d].num_ended_waiting_promises
                             = promise[d].num_ended_waiting_promises
      /\ \A d \in table' : promise'[d].num_promise_callbacks = promise[d].num_promise_callbacks
      /\ \A d \in table' : promise'[d].continuation_promises = promise[d].continuation_promises
      /\ \A d \in table' : NotFinished(d)' <=> NotFinished(d)
  BY <1>0, <1>2, <1>3, <1>4 DEF SameBut, NotFinished
<1>10. /\ promise[h].reference_count \in Int
       /\ promise[h].reference_count = Refs(h)
       /\ Refs(h) >= 1
  BY <1>0, Numbers, Balance
<1>11. \A k \in Handles : Owed(k)' = Owed(k)
  <2> SUFFICES ASSUME NEW k \in Handles, NEW d \in Handles, NEW i
               PROVE  (Due(d, i)' /\ Entry(d, i)' = k) <=> (Due(d, i) /\ Entry(d, i) = k)
    BY <1>0, OwedKept
  <2>1. CASE d # h
    BY <1>2, <2>1 DEF Due, Entry, Unreleased, NotFinished
  <2>2. CASE d = h /\ ~gone
    BY <1>4, <2>2 DEF Due, Entry, Unreleased, NotFinished, SameBut
  <2>3. CASE d = h /\ gone
    <3>1. ~Due(d, i)
      BY <1>1, <1>7, <2>3 DEF Due, Unreleased, NotFinished
    <3>2. ~Due(d, i)'
      BY <1>3, <2>3 DEF Due
    <3> QED
      BY <3>1, <3>2
  <2> QED
    BY <2>1, <2>2, <2>3
<1>12. Locked' /\ WorkersSound'
  BY <1>1 DEF Sound, Threads, Locked, WorkersSound
<1>13. JobsSound'
  <2>1. \A k \in Handles : JobHolds(k) => k \in table'
    BY <1>2, <1>4, <1>5 DEF Sound, Threads, JobsSound
  <2> QED
    BY <1>8, <2>1 DEF Sound, Threads, JobsSound
<1>14. UsersSound'
  BY <1>2 DEF Sound, Threads, UsersSound
<1>15. Fresh'
  <2>1. \A k \in Handles \ table' : promise'[k] = NoPromise
    BY <1>2, <1>3, <1>4 DEF Sound, Records, Fresh
  <2>2. \A k \in Handles : \A i \in DOMAIN promise'[k].continuation_promises :
          promise'[k].continuation_promises[i] <= handle_counter
    <3> SUFFICES ASSUME NEW k \in Handles
                 PROVE  \A i \in DOMAIN promise'[k].continuation_promises :
                          promise'[k].continuation_promises[i] <= handle_counter
      OBVIOUS
    <3>1. CASE k # h
      BY <1>2, <3>1 DEF Sound, Records, Fresh
    <3>2. CASE k = h /\ ~gone
      BY <1>4, <3>2 DEF SameBut, Sound, Records, Fresh
    <3>3. CASE k = h /\ gone
      BY <1>3, <3>3, NoPromiseType
    <3> QED
      BY <3>1, <3>2, <3>3
  <2> QED
    BY <1>2, <2>1, <2>2 DEF Sound, Records, Fresh
<1>16. TableSound'
  <2> SUFFICES ASSUME NEW k \in table'
               PROVE  /\ promise'[k].status = outcome[k]
                      /\ promise'[k].pending_job <=> job[k].state = "pending"
                      /\ promise'[k].reference_count > 0
    BY DEF TableSound
  <2>1. k \in table
    BY <1>2
  <2>2. /\ promise'[k].status = outcome[k]
        /\ promise'[k].pending_job <=> job[k].state = "pending"
    BY <1>9, <2>1 DEF Sound, Records, TableSound
  <2>3. promise'[k].reference_count > 0
    <3>1. CASE k # h
      BY <1>0, <1>1, <1>2, <2>1, <3>1 DEF Sound, Records, TableSound
    <3>2. CASE k = h
      <4>1. ~gone
        BY <1>3, <3>2
      <4> QED
        BY <1>4, <1>10, <3>2, <4>1
    <3> QED
      BY <3>1, <3>2
  <2> QED
    BY <2>2, <2>3
<1>17. CallbacksKept' /\ CallbacksOnce'
  BY <1>2, <1>9 DEF Sound, Records, CallbacksKept, CallbacksOnce
<1>18. FinitelyOwed'
  BY <1>11 DEF Sound, Counted, FinitelyOwed
<1>19. ReleasesOwed'
  <2> SUFFICES ASSUME NEW k \in Handles
               PROVE  /\ Owed(k)' # {} => k \in table' /\ promise'[k].pending_job
                      /\ k \in table' => Cardinality(Owed(k)') =
                           promise'[k].num_all_waiting_promises
                             - promise'[k].num_ended_waiting_promises
                      /\ job[k].state = "pending" <=> Owed(k)' # {}
    BY DEF ReleasesOwed
  <2>1. Owed(k)' = Owed(k)
    BY <1>11
  <2>2. /\ Owed(k) # {} => k \in table /\ promise[k].pending_job
        /\ k \in table => Cardinality(Owed(k)) =
             promise[k].num_all_waiting_promises - promise[k].num_ended_waiting_promises
        /\ job[k].state = "pending" <=> Owed(k) # {}
    BY DEF Sound, Counted, ReleasesOwed
  <2>3. Owed(k) # {} => k \in table'
    BY <1>2, <1>4, <1>5, <2>2
  <2> QED
    BY <1>2, <1>9, <2>1, <2>2, <2>3
<1>20. RefCountExact'
  <2> SUFFICES ASSUME NEW k \in table'
               PROVE  promise'[k].reference_count = Refs(k)'
    BY RefsCountedNext
  <2>0. k \in table /\ k \in Handles
    BY <1>0, <1>2
  <2>1. promise[k].reference_count = Refs(k)
    BY <2>0, Balance
  <2>2. One(JobHolds(k))' = One(JobHolds(k))
    BY <1>8 DEF One
  <2>3. CASE k # h
    <3>1. One(UserHolds(k))' = One(UserHolds(k))
      BY <2>0, <2>3 DEF One
    <3> QED
      BY <1>2, <1>9, <2>0, <2>1, <2>2, <2>3, <3>1 DEF Refs
  <2>4. CASE k = h
    <3>1. One(UserHolds(k))' = 0 /\ One(UserHolds(k)) = 1
      BY <2>0, <2>4 DEF One
    <3>2. promise'[k].reference_count = promise[k].reference_count - 1
      BY <1>3, <1>4, <2>4
    <3> DEFINE rest == One(JobHolds(k))
                  + (promise[k].num_all_waiting_promises - promise[k].num_ended_waiting_promises)
                  + IF NotFinished(k) THEN promise[k].num_promise_callbacks ELSE 0
    <3>3. rest \in Int
      <4>1. One(JobHolds(k)) \in Nat
        BY DEF One
      <4> QED
        BY <2>0, <4>1, Numbers
    <3>4. Refs(k)' = 0 + rest
      <4>1. One(JobHolds(k)) \in Nat
        BY DEF One
      <4> QED
        BY <1>9, <2>0, <2>2, <3>1, <4>1, Numbers DEF Refs
    <3>5. Refs(k) = 1 + rest
      <4>1. One(JobHolds(k)) \in Nat
        BY DEF One
      <4> QED
        BY <2>0, <3>1, <4>1, Numbers DEF Refs
    <3> HIDE DEF rest
    <3> QED
      BY <2>1, <3>2, <3>3, <3>4, <3>5
  <2> QED
    BY <2>3, <2>4
<1> QED
  BY <1>11, <1>12, <1>13, <1>14, <1>15, <1>16, <1>17, <1>18, <1>19, <1>20
  DEF Sound, Threads, Records, Counted, LinksKept

\* armd_await looks at a promise the client holds, and returns or sleeps.
LEMMA SoundAwaitOrSleep ==
    ASSUME TypeOK, TypeOK', Sound, mutex = NoThread, NEW c \in Clients, NEW h \in table,
           AwaitOrSleep(c, h),
           UNCHANGED <<handle_counter, mutex, job, worker, outcome, callbacks>>,
           \/ client[c].pc = "idle" /\ h \in user /\ user' = user \ {h}
           \/ client[c].pc = "await" /\ client[c].handle = h /\ user' = user
    PROVE  Sound' /\ LinksKept
<1>1. h \in Handles
  BY DEF TypeOK
<1>2. UserHolds(h)
  BY DEF UserHolds
<1>3. HeldOnce
  BY DEF Sound, Threads, UsersSound
<1>4. client \in [Clients -> [pc: {"idle", "signal", "await", "await_all"},
                              handle: 0 .. MaxHandles, asleep: BOOLEAN]]
  BY DEF TypeOK
<1>5. CASE /\ client' = [client EXCEPT ![c] = [pc |-> "await", handle |-> h, asleep |-> TRUE]]
           /\ UNCHANGED <<table, promise, observed>>
  <2>1. /\ \A d \in Clients \ {c} : client'[d] = client[d]
        /\ client'[c].pc = "await" /\ client'[c].handle = h
    BY <1>4, <1>5
  <2>2. \A k : UserHolds(k)' <=> UserHolds(k)
    BY <2>1, ClientHolds
  <2>3. HeldOnce'
    BY <1>3, <2>1 DEF HeldOnce
  <2>4. UsersSound'
    BY <1>5, <2>2, <2>3 DEF Sound, Threads, UsersSound
  <2> QED
    BY <1>5, <2>2, <2>4, ClientsOnly
<1>6. CASE client' = [client EXCEPT ![c] = IdleClient] /\ LetGo(h)
  <2>1. /\ \A d \in Clients \ {c} : client'[d] = client[d]
        /\ client'[c].pc = "idle"
    BY <1>4, <1>6 DEF IdleClient
  <2>2. \A d \in Clients \ {c} : ~(client[d].pc \in {"signal", "await"} /\ client[d].handle = h)
    BY <1>3 DEF HeldOnce
  <2>3. h \notin user'
    BY <1>3 DEF HeldOnce
  <2>4. \A k \in Handles : UserHolds(k)' <=> UserHolds(k) /\ k # h
    BY <2>1, <2>2, <2>3, ClientHolds
  <2>5. HeldOnce'
    BY <1>3, <2>1 DEF HeldOnce
  <2>6. table' \subseteq Handles
    BY DEF TypeOK
  <2> QED
    BY <1>2, <1>6, <2>4, <2>5, <2>6, SoundLetGo
<1> QED
  BY <1>1, <1>5, <1>6, AwaitOrSleepEffect

LEMMA SoundClientSteps ==
    ASSUME TypeOK, TypeOK', Sound, NEW c \in Clients
    PROVE  /\ AwaitAgain(c) => Sound' /\ LinksKept
           /\ AwaitAll(c) => Sound' /\ LinksKept
           /\ SpuriousWakeup(c) => Sound' /\ LinksKept
           /\ \A h \in Handles : (Await(c, h) \/ Detach(c, h)) => Sound' /\ LinksKept
<1>1. client \in [Clients -> [pc: {"idle", "signal", "await", "await_all"},
                              handle: 0 .. MaxHandles, asleep: BOOLEAN]]
  BY DEF TypeOK
<1>2. AwaitAgain(c) => Sound' /\ LinksKept
  <2> SUFFICES ASSUME AwaitAgain(c) PROVE Sound' /\ LinksKept
    OBVIOUS
  <2> DEFINE h == client[c].handle
  <2>1. h \in table
    <3>1. h \in Handles /\ UserHolds(h)
      BY DEF AwaitAgain, TypeOK, Pointers, UserHolds
    <3> QED
      BY <3>1 DEF Sound, Threads, UsersSound
  <2>2. /\ AwaitOrSleep(c, h)
        /\ mutex = NoThread
        /\ UNCHANGED <<handle_counter, mutex, job, worker, outcome, callbacks>>
        /\ client[c].pc = "await" /\ client[c].handle = h /\ user' = user
    BY DEF AwaitAgain, jobVars
  <2> QED
    BY <2>1, <2>2, SoundAwaitOrSleep
<1>3. AwaitAll(c) => Sound' /\ LinksKept
  <2> SUFFICES ASSUME AwaitAll(c) PROVE Sound' /\ LinksKept
    OBVIOUS
  <2>1. UNCHANGED <<table, promise, handle_counter, mutex, job, worker, user, outcome, callbacks>>
    BY DEF AwaitAll, jobVars, histories
  <2>2. \A d \in Clients \ {c} : client'[d] = client[d]
    BY <1>1 DEF AwaitAll
  <2>3. client'[c].pc \in {"idle", "await_all"} /\ client[c].pc \in {"idle", "await_all"}
    BY <1>1 DEF AwaitAll, IdleClient
  <2> QED
    BY <2>1, <2>2, <2>3, SoundClientWaits
<1>4. SpuriousWakeup(c) => Sound' /\ LinksKept
  <2> SUFFICES ASSUME SpuriousWakeup(c) PROVE Sound' /\ LinksKept
    OBVIOUS
  <2>1. UNCHANGED <<table, promise, handle_counter, mutex, job, worker, user, outcome, callbacks>>
    BY DEF SpuriousWakeup, jobVars, histories
  <2>2. \A d \in Clients \ {c} : client'[d] = client[d]
    BY <1>1 DEF SpuriousWakeup
  <2>3. client'[c].pc = client[c].pc /\ client'[c].handle = client[c].handle
    BY <1>1 DEF SpuriousWakeup
  <2> QED
    BY <2>1, <2>2, <2>3, SoundClientWaits
<1>5. ASSUME NEW h \in Handles, Await(c, h) PROVE Sound' /\ LinksKept
  <2>1. /\ h \in table
        /\ AwaitOrSleep(c, h)
        /\ mutex = NoThread
        /\ UNCHANGED <<handle_counter, mutex, job, worker, outcome, callbacks>>
        /\ client[c].pc = "idle" /\ h \in user /\ user' = user \ {h}
    BY <1>5 DEF Await, jobVars
  <2> QED
    BY <2>1, SoundAwaitOrSleep
<1>6. ASSUME NEW h \in Handles, Detach(c, h) PROVE Sound' /\ LinksKept
  <2>1. /\ h \in table
        /\ mutex = NoThread
        /\ UNCHANGED <<handle_counter, mutex, job, worker, outcome, callbacks, client>>
        /\ h \in user /\ user' = user \ {h}
    BY <1>6 DEF Detach, jobVars, histories
  <2>2. HeldOnce
    BY DEF Sound, Threads, UsersSound
  <2>3. HeldOnce'
    BY <2>1, <2>2 DEF HeldOnce
  <2>4. \A k \in Handles : UserHolds(k)' <=> UserHolds(k) /\ k # h
    BY <2>1, <2>2 DEF HeldOnce, UserHolds
  <2>5. LetGo(h) /\ table' \subseteq Handles /\ UserHolds(h)
    BY <1>6, <2>1, DetachEffect DEF TypeOK, UserHolds
  <2> QED
    BY <2>1, <2>3, <2>4, <2>5, SoundLetGo
<1> QED
  BY <1>2, <1>3, <1>4, <1>5, <1>6

LEMMA SoundAddCallback ==
    ASSUME TypeOK, Sound, NEW c \in Clients, NEW h \in Handles, AddCallback(c, h)
    PROVE  Sound' /\ LinksKept
<1>1. /\ mutex = NoThread
      /\ h \in table
      /\ UNCHANGED <<table, handle_counter, mutex, job, worker, client, user, outcome>>
  BY DEF AddCallback, jobVars
<1>2. \A d \in Handles \ {h} : promise'[d] = promise[d] /\ callbacks'[d] = callbacks[d]
  BY AddCallbackEffect
<1>3. /\ callbacks'[h].added = callbacks[h].added + 1
      /\ callbacks'[h].called = IF NotFinished(h) THEN callbacks[h].called
                                                  ELSE callbacks[h].called + 1
      /\ promise'[h].reference_count = IF NotFinished(h) THEN promise[h].reference_count + 1
                                                       ELSE promise[h].reference_count
      /\ promise'[h].num_promise_callbacks =
           IF NotFinished(h) THEN promise[h].num_promise_callbacks + 1
                             ELSE promise[h].num_promise_callbacks
  BY AddCallbackEffect
<1>4. \A d \in Handles :
        /\ promise'[d].status = promise[d].status
        /\ promise'[d].num_all_waiting_promises = promise[d].num_all_waiting_promises
        /\ promise'[d].num_ended_waiting_promises = promise[d].num_ended_waiting_promises
        /\ promise'[d].pending_job = promise[d].pending_job
        /\ promise'[d].continuation_promises = promise[d].continuation_promises
  BY <1>2, AddCallbackEffect
<1>5. /\ \A d \in Handles : NotFinished(d)' <=> NotFinished(d)
      /\ \A d : JobHolds(d)' <=> JobHolds(d)
      /\ \A d : UserHolds(d)' <=> UserHolds(d)
  BY <1>1, <1>4 DEF NotFinished, JobHolds, UserHolds
<1>6. table \subseteq Handles
  BY DEF TypeOK
<1>7. \A k : Owed(k)' = Owed(k)
  <2> SUFFICES ASSUME NEW k PROVE Owed(k)' = Owed(k)
    OBVIOUS
  <2>1. ASSUME NEW d \in Handles, NEW i
        PROVE (Due(d, i)' /\ Entry(d, i)' = k) <=> (Due(d, i) /\ Entry(d, i) = k)
    BY <1>1, <1>4 DEF Due, Entry, Unreleased, NotFinished
  <2> QED
    BY <1>1, <1>6, <2>1, OwedKept
<1>8. Threads'
  BY <1>1, <1>5 DEF Sound, Threads, Locked, WorkersSound, JobsSound, UsersSound, HeldOnce
<1>9. Fresh'
  <2>1. h <= handle_counter /\ h \in Nat /\ handle_counter \in Nat
    BY <1>1, Types DEF Sound, Records, Fresh
  <2>2. Fresh
    BY DEF Sound, Records
  <2>3. \A d \in Handles : d > handle_counter => callbacks'[d].added = 0
    <3>1. ~(h > handle_counter)
      BY <2>1
    <3> QED
      BY <1>2, <2>2, <3>1 DEF Fresh
  <2>4. \A d \in Handles \ table : promise'[d] = NoPromise
    BY <1>1, <1>2, <2>2 DEF Fresh
  <2> QED
    BY <1>1, <1>4, <2>2, <2>3, <2>4 DEF Fresh
<1>10. TableSound'
  <2>1. promise[h].reference_count > 0
    <3>1. \A w \in Workers : worker[w].pc # "release"
      BY <1>1, NoneReleasing
    <3> QED
      BY <1>1, <3>1 DEF Sound, Records, TableSound
  <2>2. promise'[h].reference_count > 0
    <3>1. promise[h].reference_count \in Int
      BY Numbers
    <3> QED
      BY <1>3, <2>1, <3>1
  <2> QED
    BY <1>1, <1>2, <1>4, <1>6, <2>2 DEF Sound, Records, TableSound
<1>11. CallbacksKept'
  BY <1>1, <1>2, <1>3, <1>5, <1>6 DEF Sound, Records, CallbacksKept
<1>12. CallbacksOnce'
  <2>1. NotFinished(h) <=> outcome[h] = "NotFinished"
    BY <1>1, InTable DEF NotFinished
  <2> QED
    BY <1>1, <1>2, <1>3, <2>1 DEF Sound, Records, CallbacksOnce
<1>13. FinitelyOwed' /\ ReleasesOwed'
  BY <1>1, <1>4, <1>7 DEF Sound, Counted, FinitelyOwed, ReleasesOwed
<1>14. RefCountExact'
  <2> SUFFICES ASSUME NEW k \in table PROVE promise'[k].reference_count = Refs(k)'
    BY <1>1, RefsCountedNext
  <2>0. k \in Handles
    BY <1>6
  <2>1. promise[k].reference_count = Refs(k)
    BY Balance
  <2>2. One(JobHolds(k))' = One(JobHolds(k)) /\ One(UserHolds(k))' = One(UserHolds(k))
    BY <1>5 DEF One
  <2>3. CASE k # h
    BY <1>2, <1>5, <2>0, <2>1, <2>2, <2>3 DEF Refs
  <2>4. CASE k = h
    <3> DEFINE m == promise[k].num_all_waiting_promises - promise[k].num_ended_waiting_promises
               n == promise[k].num_promise_callbacks
               both == One(UserHolds(k)) + One(JobHolds(k))
    <3>1. both \in Nat /\ m \in Int /\ n \in Nat
      <4>1. One(JobHolds(k)) \in {0, 1} /\ One(UserHolds(k)) \in {0, 1}
        BY DEF One
      <4> QED
        BY <2>0, <4>1, Numbers
    <3>2. Refs(k) = both + m + IF NotFinished(k) THEN n ELSE 0
      BY DEF Refs
    <3>3. Refs(k)' = both + m + IF NotFinished(k)
                                  THEN promise'[k].num_promise_callbacks ELSE 0
      BY <1>4, <1>5, <2>0, <2>2 DEF Refs
    <3> HIDE DEF both, m
    <3> QED
      BY <1>3, <2>1, <2>4, <3>1, <3>2, <3>3
  <2> QED
    BY <2>3, <2>4
<1> QED
  BY <1>7, <1>8, <1>9, <1>10, <1>11, <1>12, <1>13, <1>14
  DEF Sound, Records, Counted, LinksKept

-----------------------------------------------------------------------------
(* The steps of workers *)

LEMMA SoundRun ==
    ASSUME TypeOK, Sound, NEW w \in Workers, NEW h \in Handles, NEW e \in BOOLEAN, Run(w, h, e)
    PROVE  Sound' /\ LinksKept
<1>1. /\ worker[w].pc = "idle"
      /\ job[h].state = "queued"
      /\ job' = [job EXCEPT ![h].state = "running"]
      /\ worker' = [worker EXCEPT ![w] = [pc |-> "complete", handle |-> h,
                                          has_error |-> e, i |-> 0]]
      /\ UNCHANGED <<table, promise, handle_counter, mutex, client, user, outcome, callbacks>>
  BY DEF Run, histories
<1>2. /\ worker'[w].pc = "complete"
      /\ worker'[w].handle = h
      /\ \A v \in Workers \ {w} : worker'[v] = worker[v]
      /\ job'[h].state = "running"
      /\ \A d \in Handles \ {h} : job'[d] = job[d]
  BY <1>1, Types
<1>3. outcome[h] = "NotFinished"
  BY <1>1 DEF Sound, Threads, JobsSound
<1>4. /\ \A v \in Workers : worker'[v].pc = "release" <=> worker[v].pc = "release"
      /\ \A v \in Workers : worker[v].pc = "release" => worker'[v] = worker[v]
  BY <1>1, <1>2
<1>5. /\ \A d \in Handles : JobHolds(d)' <=> JobHolds(d)
      /\ \A d : UserHolds(d)' <=> UserHolds(d)
      /\ \A d : NotFinished(d)' <=> NotFinished(d)
  BY <1>1, <1>2 DEF JobHolds, UserHolds, NotFinished
<1>6. \A d : Unreleased(d)' = Unreleased(d)
  BY <1>1, <1>4 DEF Unreleased, NotFinished
<1>7. \A d : Owed(d)' = Owed(d)
  BY <1>1, <1>6 DEF Owed
<1>8. Locked'
  BY <1>1, <1>4 DEF Sound, Threads, Locked
<1>9. WorkersSound'
  <2>0. WorkersSound
    BY DEF Sound, Threads
  <2>1. \A v \in Workers \ {w} : worker[v].pc # "idle" => worker[v].handle # h
    BY <1>1, <2>0 DEF WorkersSound
  <2>2. ASSUME NEW v \in Workers, worker'[v].pc # "idle"
        PROVE  /\ job'[worker'[v].handle].state = "running"
               /\ outcome[worker'[v].handle] = "NotFinished" <=> worker'[v].pc = "complete"
    <3>1. CASE v = w
      BY <1>2, <1>3, <3>1
    <3>2. CASE v # w
      BY <1>2, <2>0, <2>1, <2>2, <3>2 DEF WorkersSound, TypeOK, Pointers
    <3> QED
      BY <3>1, <3>2
  <2>3. \A v \in Workers : worker'[v].pc = "release" => worker'[v].handle \in table
    BY <1>4, <2>0 DEF WorkersSound
  <2>4. \A u, v \in Workers :
          worker'[u].pc # "idle" /\ worker'[v].pc # "idle" /\ worker'[u].handle = worker'[v].handle
          => u = v
    BY <1>2, <2>0, <2>1 DEF WorkersSound
  <2> QED
    BY <1>1, <2>2, <2>3, <2>4 DEF WorkersSound
<1>10. JobsSound' /\ UsersSound'
  <2>1. JobsSound'
    BY <1>1, <1>2, <1>5 DEF Sound, Threads, JobsSound
  <2>2. UsersSound'
    BY <1>1, <1>5 DEF Sound, Threads, UsersSound, HeldOnce
  <2> QED
    BY <2>1, <2>2
<1>11. Fresh'
  <2>1. \A d \in Handles : job'[d].state = "none" <=> job[d].state = "none"
    BY <1>1, <1>2
  <2> QED
    BY <1>1, <2>1 DEF Sound, Records, Fresh
<1>12. TableSound'
  <2>1. \A d \in Handles : job'[d].state = "pending" <=> job[d].state = "pending"
    BY <1>1, <1>2
  <2>2. table \subseteq Handles
    BY Types
  <2>3. TableSound
    BY DEF Sound, Records
  <2> SUFFICES ASSUME NEW d \in table
               PROVE  /\ promise[d].status = outcome[d]
                      /\ promise[d].pending_job <=> job'[d].state = "pending"
                      /\ \/ promise[d].reference_count > 0
                         \/ \E v \in Workers : worker'[v].pc = "release" /\ worker'[v].handle = d
    BY <1>1 DEF TableSound
  <2>4. (\E v \in Workers : worker[v].pc = "release" /\ worker[v].handle = d)
          => \E v \in Workers : worker'[v].pc = "release" /\ worker'[v].handle = d
    BY <1>4
  <2> QED
    BY <2>1, <2>2, <2>3, <2>4 DEF TableSound
<1>13. CallbacksKept' /\ CallbacksOnce'
  BY <1>1, <1>5 DEF Sound, Records, CallbacksKept, CallbacksOnce
<1>14. FinitelyOwed'
  BY <1>7 DEF Sound, Counted, FinitelyOwed
<1>15. ReleasesOwed'
  <2>1. \A d \in Handles : job'[d].state = "pending" <=> job[d].state = "pending"
    BY <1>1, <1>2
  <2> QED
    BY <1>1, <1>7, <2>1 DEF Sound, Counted, ReleasesOwed
<1>16. RefCountExact'
  <2> SUFFICES ASSUME NEW k \in table PROVE promise[k].reference_count = Refs(k)'
    BY <1>1, RefsCountedNext
  <2>1. k \in Handles /\ promise[k].reference_count = Refs(k)
    BY Balance, Types
  <2>2. One(JobHolds(k))' = One(JobHolds(k)) /\ One(UserHolds(k))' = One(UserHolds(k))
    BY <1>5, <2>1 DEF One
  <2> QED
    BY <1>1, <1>5, <2>1, <2>2 DEF Refs
<1> QED
  BY <1>7, <1>8, <1>9, <1>10, <1>11, <1>12, <1>13, <1>14, <1>15, <1>16
  DEF Sound, Threads, Records, Counted, LinksKept

LEMMA SoundComplete ==
    ASSUME TypeOK, Sound, NEW w \in Workers, Complete(w)
    PROVE  Sound' /\ LinksKept
<1> DEFINE h == worker[w].handle
           n == promise[h].num_promise_callbacks
           s == StatusOf(worker[w].has_error)
<1>0. worker \in [Workers -> [pc: {"idle", "complete", "release"},
                              handle: 0 .. MaxHandles, has_error: BOOLEAN, i: Nat]]
  BY Types
<1>1. /\ mutex = NoThread
      /\ worker[w].pc = "complete"
      /\ h \in table
      /\ mutex' = w
      /\ callbacks' = [callbacks EXCEPT ![h].called = @ + n]
      /\ outcome' = [outcome EXCEPT ![h] = s]
      /\ worker' = [worker EXCEPT ![w] = [@ EXCEPT !.pc = "release", !.i = 1]]
      /\ UNCHANGED <<table, handle_counter, job, client, user>>
  BY DEF Complete, jobVars
<1>2. /\ h \in Handles
      /\ n \in Nat
      /\ s # "NotFinished"
      /\ promise[h].reference_count \in Int
      /\ promise'[h].reference_count = promise[h].reference_count - 1 - n
      /\ promise'[h].status = s
  BY CompleteEffect
<1>3. /\ \A d \in Handles \ {h} : promise'[d] = promise[d]
      /\ \A d \in Handles :
           /\ promise'[d].num_all_waiting_promises = promise[d].num_all_waiting_promises
           /\ promise'[d].num_ended_waiting_promises = promise[d].num_ended_waiting_promises
           /\ promise'[d].pending_job = promise[d].pending_job
           /\ promise'[d].continuation_promises = promise[d].continuation_promises
  BY CompleteEffect
<1>4. /\ outcome[h] = "NotFinished"
      /\ job[h].state = "running"
      /\ promise[h].status = "NotFinished"
  BY <1>1, InTable DEF Sound, Threads, WorkersSound
<1>5. \A v \in Workers : worker[v].pc # "release"
  BY <1>1, NoneReleasing
<1> HIDE DEF s, n
<1>6. /\ \A d \in Handles \ {h} : outcome'[d] = outcome[d]
      /\ \A d \in Handles \ {h} : callbacks'[d] = callbacks[d]
      /\ outcome'[h] = s
      /\ callbacks'[h].added = callbacks[h].added
      /\ callbacks'[h].called = callbacks[h].called + n
  BY <1>1, <1>2, Types
<1>7. /\ worker'[w].pc = "release"
      /\ worker'[w].handle = h
      /\ worker'[w].i = 1
      /\ \A v \in Workers \ {w} : worker'[v] = worker[v]
  BY <1>0, <1>1
<1> HIDE DEF h
<1>8. table \subseteq Handles /\ table' \subseteq Handles
  BY <1>1, Types
<1>9. \A k \in Handles : Owed(k)' = Owed(k)
  <2> SUFFICES ASSUME NEW k \in Handles, NEW d \in Handles, NEW i
               PROVE  (Due(d, i)' /\ Entry(d, i)' = k) <=> (Due(d, i) /\ Entry(d, i) = k)
    BY <1>8, OwedKept
  <2>1. Entry(d, i)' = Entry(d, i)
    BY <1>3 DEF Entry
  <2>2. CASE d # h
    <3>1. \A v \in Workers : ~(worker'[v].pc = "release" /\ worker'[v].handle = d)
      BY <1>5, <1>7, <2>2
    <3>2. Unreleased(d)' = Unreleased(d)
      BY <1>3, <1>5, <2>2, <3>1 DEF Unreleased, NotFinished
    <3> QED
      BY <1>1, <2>1, <3>2 DEF Due
  <2>3. CASE d = h
    <3>1. i \in Unreleased(d) <=> i \in DOMAIN promise[d].continuation_promises
      BY <1>4, <2>3 DEF Unreleased, NotFinished
    <3>2. i \in DOMAIN promise[d].continuation_promises => i >= 1
      BY Lists
    <3>3. i \in Unreleased(d)' <=> i \in DOMAIN promise[d].continuation_promises
      BY <1>2, <1>3, <1>7, <2>3, <3>2 DEF Unreleased, NotFinished
    <3> QED
      BY <1>1, <2>1, <3>1, <3>3 DEF Due
  <2> QED
    BY <2>2, <2>3
<1>10. Locked'
  BY <1>1, <1>5, <1>7 DEF Sound, Threads, Locked
<1>11. WorkersSound'
  <2>0. WorkersSound
    BY DEF Sound, Threads
  <2>1. \A v \in Workers \ {w} : worker[v].pc # "idle" => worker[v].handle # h
    BY <1>1, <2>0 DEF WorkersSound, h
  <2>2. ASSUME NEW v \in Workers, worker'[v].pc # "idle"
        PROVE  /\ job[worker'[v].handle].state = "running"
               /\ outcome'[worker'[v].handle] = "NotFinished" <=> worker'[v].pc = "complete"
    <3>1. CASE v = w
      BY <1>2, <1>4, <1>6, <1>7, <3>1
    <3>2. CASE v # w
      BY <1>6, <1>7, <2>0, <2>1, <2>2, <3>2 DEF WorkersSound, TypeOK, Pointers
    <3> QED
      BY <3>1, <3>2
  <2>3. \A v \in Workers : worker'[v].pc = "release" => worker'[v].handle \in table
    BY <1>1, <1>5, <1>7
  <2>4. \A u, v \in Workers :
          worker'[u].pc # "idle" /\ worker'[v].pc # "idle" /\ worker'[u].handle = worker'[v].handle
          => u = v
    BY <1>7, <2>0, <2>1 DEF WorkersSound
  <2> QED
    BY <1>1, <2>2, <2>3, <2>4 DEF WorkersSound
<1>12. /\ \A d \in Handles : JobHolds(d)' <=> JobHolds(d) /\ d # h
       /\ \A d : UserHolds(d)' <=> UserHolds(d)
  BY <1>1, <1>2, <1>6 DEF JobHolds, UserHolds
<1>13. JobsSound'
  <2>1. JobsSound
    BY DEF Sound, Threads
  <2>2. \A d \in Handles : JobHolds(d)' => d \in table'
    BY <1>1, <1>12, <2>1 DEF JobsSound
  <2> QED
    BY <1>1, <1>2, <1>4, <1>6, <2>1, <2>2 DEF JobsSound
<1>14. UsersSound'
  BY <1>1, <1>12 DEF Sound, Threads, UsersSound, HeldOnce
<1>15. Fresh'
  <2>1. Fresh
    BY DEF Sound, Records
  <2>2. \A d \in Handles \ table : promise'[d] = NoPromise
    BY <1>1, <1>3, <2>1 DEF Fresh
  <2>3. \A d \in Handles : callbacks'[d].added = callbacks[d].added
    BY <1>6
  <2> QED
    BY <1>1, <1>3, <2>1, <2>2, <2>3 DEF Fresh
<1>16. TableSound'
  <2>1. TableSound
    BY DEF Sound, Records
  <2> SUFFICES ASSUME NEW d \in table
               PROVE  /\ promise'[d].status = outcome'[d]
                      /\ promise'[d].pending_job <=> job[d].state = "pending"
                      /\ \/ promise'[d].reference_count > 0
                         \/ \E v \in Workers : worker'[v].pc = "release" /\ worker'[v].handle = d
    BY <1>1 DEF TableSound
  <2>2. CASE d = h
    BY <1>2, <1>3, <1>6, <1>7, <2>1, <2>2 DEF TableSound
  <2>3. CASE d # h
    BY <1>3, <1>5, <1>6, <1>8, <2>1, <2>3 DEF TableSound
  <2> QED
    BY <2>2, <2>3
<1>17. \A d \in Handles : NotFinished(d)' <=> NotFinished(d) /\ d # h
  BY <1>2, <1>3 DEF NotFinished
<1>18. CallbacksKept'
  BY <1>1, <1>3, <1>6, <1>8, <1>17 DEF Sound, Records, CallbacksKept
<1>19. CallbacksOnce'
  <2>1. callbacks[h].called = 0 /\ n = callbacks[h].added
    BY <1>1, <1>2, <1>4 DEF Sound, Records, CallbacksKept, CallbacksOnce, NotFinished, n, h
  <2>2. CallbacksOnce
    BY DEF Sound, Records
  <2>3. callbacks'[h].called = callbacks'[h].added
    BY <1>2, <1>6, <2>1
  <2> QED
    BY <1>2, <1>6, <2>2, <2>3 DEF CallbacksOnce
<1>20. FinitelyOwed' /\ ReleasesOwed'
  BY <1>1, <1>3, <1>9 DEF Sound, Counted, FinitelyOwed, ReleasesOwed
<1>21. RefCountExact'
  <2> SUFFICES ASSUME NEW k \in table PROVE promise'[k].reference_count = Refs(k)'
    BY <1>1, RefsCountedNext
  <2>0. k \in Handles /\ promise[k].reference_count = Refs(k)
    BY Balance, Types
  <2>1. One(UserHolds(k))' = One(UserHolds(k))
    BY <1>12 DEF One
  <2>2. CASE k # h
    <3>1. One(JobHolds(k))' = One(JobHolds(k))
      BY <1>12, <2>0, <2>2 DEF One
    <3> QED
      BY <1>3, <1>17, <2>0, <2>1, <2>2, <3>1 DEF Refs
  <2>3. CASE k = h
    <3> DEFINE m == promise[k].num_all_waiting_promises - promise[k].num_ended_waiting_promises
               u == One(UserHolds(k))
    <3>1. One(JobHolds(k))' = 0 /\ One(JobHolds(k)) = 1
      BY <1>4, <1>12, <2>0, <2>3 DEF One, JobHolds
    <3>2. u \in Int /\ m \in Int
      <4>1. u \in {0, 1}
        BY DEF One
      <4> QED
        BY <2>0, <4>1, Numbers
    <3>3. Refs(k) = u + 1 + m + n
      BY <1>4, <2>3, <3>1 DEF Refs, NotFinished, n
    <3>4. Refs(k)' = u + 0 + m + 0
      BY <1>3, <1>17, <2>0, <2>1, <2>3, <3>1 DEF Refs
    <3> HIDE DEF u, m
    <3> QED
      BY <1>2, <2>0, <2>3, <3>2, <3>3, <3>4
  <2> QED
    BY <2>2, <2>3
<1> QED
  BY <1>9, <1>10, <1>11, <1>13, <1>14, <1>15, <1>16, <1>18, <1>19, <1>20, <1>21
  DEF Sound, Threads, Records, Counted, LinksKept

\* The worker goes on to the next entry of its list.
LEMMA ReleaseMovesOn ==
    ASSUME TypeOK, Sound, NEW w \in Workers, Release(w)
    PROVE  LET d == worker[w].handle IN
           /\ worker'[w].pc = "release" /\ worker[w].pc = "release"
           /\ worker'[w].handle = d
           /\ worker[w].i \in Nat
           /\ worker'[w].i = worker[w].i + 1
           /\ \A v \in Workers \ {w} : worker'[v] = worker[v]
           /\ \A v \in Workers \ {w} : worker[v].pc # "release"
           /\ d \in table
           /\ promise[d].status # "NotFinished"
           /\ job[d].state = "running"
           /\ Due(d, worker[w].i)
           /\ UNCHANGED <<handle_counter, mutex, client, user, outcome, callbacks>>
<1> DEFINE d == worker[w].handle
<1>0. worker \in [Workers -> [pc: {"idle", "complete", "release"},
                              handle: 0 .. MaxHandles, has_error: BOOLEAN, i: Nat]]
  BY Types
<1>1. /\ worker[w].pc = "release"
      /\ worker' = [worker EXCEPT ![w].i = @ + 1]
      /\ UNCHANGED <<handle_counter, mutex, client, user, outcome, callbacks>>
  BY DEF Release, histories
<1>2. /\ worker'[w].pc = "release"
      /\ worker'[w].handle = d
      /\ worker[w].i \in Nat
      /\ worker'[w].i = worker[w].i + 1
      /\ \A v \in Workers \ {w} : worker'[v] = worker[v]
  BY <1>0, <1>1
<1>3. \A v \in Workers \ {w} : worker[v].pc # "release"
  BY <1>1 DEF Sound, Threads, Locked
<1>4. /\ d \in table
      /\ job[d].state = "running"
      /\ outcome[d] # "NotFinished"
  BY <1>1 DEF Sound, Threads, WorkersSound
<1>5. promise[d].status # "NotFinished"
  BY <1>4, InTable
<1>6. Due(d, worker[w].i)
  BY <1>1, <1>2, <1>4, ReleaseEntry DEF Due, Unreleased
<1> QED
  BY <1>1, <1>2, <1>3, <1>4, <1>5, <1>6

\* What is due after the step: all that was but this entry.
LEMMA ReleaseLeaves ==
    ASSUME TypeOK, Sound, NEW w \in Workers, Release(w), table' = table,
           \A d \in Handles :
             /\ promise'[d].status = promise[d].status
             /\ promise'[d].continuation_promises = promise[d].continuation_promises,
           NEW d \in Handles, NEW i
    PROVE  /\ Due(d, i)' <=> Due(d, i) /\ ~(d = worker[w].handle /\ i = worker[w].i)
           /\ Entry(d, i)' = Entry(d, i)
<1> DEFINE h == worker[w].handle
<1>1. /\ worker'[w].pc = "release" /\ worker[w].pc = "release"
      /\ worker'[w].handle = h
      /\ worker[w].i \in Nat
      /\ worker'[w].i = worker[w].i + 1
      /\ \A v \in Workers \ {w} : worker'[v] = worker[v]
      /\ \A v \in Workers \ {w} : worker[v].pc # "release"
      /\ promise[h].status # "NotFinished"
  BY ReleaseMovesOn
<1>2. CASE d # h
  <2>1. \A v \in Workers : ~(worker'[v].pc = "release" /\ worker'[v].handle = d)
    BY <1>1, <1>2
  <2>2. \A v \in Workers : ~(worker[v].pc = "release" /\ worker[v].handle = d)
    BY <1>1, <1>2
  <2> QED
    BY <1>2, <2>1, <2>2 DEF Due, Unreleased, NotFinished, Entry
<1>3. CASE d = h
  <2> HIDE DEF h
  <2>0. i \in DOMAIN promise[d].continuation_promises => i \in Nat
    BY Lists
  <2>1. i \in Unreleased(d) <=> i \in DOMAIN promise[d].continuation_promises /\ worker[w].i <= i
    BY <1>1, <1>3 DEF Unreleased, NotFinished, h
  <2>2. i \in Unreleased(d)' <=> i \in DOMAIN promise[d].continuation_promises
                                  /\ worker[w].i + 1 <= i
    BY <1>1, <1>3 DEF Unreleased, NotFinished, h
  <2>3. i \in Unreleased(d)' <=> i \in Unreleased(d) /\ i # worker[w].i
    BY <1>1, <2>0, <2>1, <2>2
  <2> QED
    BY <1>3, <2>3 DEF Due, Entry, h
<1> QED
  BY <1>2, <1>3

\* The threads after a step of the loop.
LEMMA ReleaseThreads ==
    ASSUME TypeOK, Sound, NEW w \in Workers, Release(w), table' = table,
           \A v \in Workers : worker[v].pc # "idle" => job'[worker[v].handle].state = "running",
           \A d \in Handles : job[d].state = "none" <=> job'[d].state = "none",
           \A d \in Handles : job'[d].state \in {"pending", "queued", "lost"}
                                => job[d].state \in {"pending", "queued", "lost"},
           \A d \in Handles : job'[d].state = "ended" => job[d].state = "ended"
    PROVE  /\ Threads'
           /\ \A d \in Handles : JobHolds(d)' <=> JobHolds(d)
           /\ \A d : UserHolds(d)' <=> UserHolds(d)
<1>1. /\ worker'[w].pc = "release" /\ worker[w].pc = "release"
      /\ worker'[w].handle = worker[w].handle
      /\ \A v \in Workers \ {w} : worker'[v] = worker[v]
      /\ UNCHANGED <<handle_counter, mutex, client, user, outcome, callbacks>>
  BY ReleaseMovesOn
<1>2. \A v \in Workers : worker'[v].pc = worker[v].pc /\ worker'[v].handle = worker[v].handle
  BY <1>1
<1>3. /\ \A d \in Handles : JobHolds(d)' <=> JobHolds(d)
      /\ \A d : UserHolds(d)' <=> UserHolds(d)
  BY <1>1 DEF JobHolds, UserHolds
<1>4. Locked'
  BY <1>1, <1>2 DEF Sound, Threads, Locked
<1>5. WorkersSound'
  BY <1>1, <1>2 DEF Sound, Threads, WorkersSound
<1>6. JobsSound'
  <2>1. JobsSound
    BY DEF Sound, Threads
  <2> QED
    BY <1>1, <1>3, <2>1 DEF JobsSound
<1>7. UsersSound'
  BY <1>1, <1>3 DEF Sound, Threads, UsersSound, HeldOnce
<1> QED
  BY <1>3, <1>4, <1>5, <1>6, <1>7 DEF Threads

\* An entry that a failed armd_invoke has cleared.
LEMMA SoundReleaseNothing ==
    ASSUME TypeOK, Sound, NEW w \in Workers, Release(w), Entry(worker[w].handle, worker[w].i) = 0
    PROVE  Sound' /\ LinksKept
<1>1. UNCHANGED <<table, promise, job>>
  BY DEF Release, Entry, jobVars
<1>2. /\ \A v \in Workers : worker'[v].pc = worker[v].pc /\ worker'[v].handle = worker[v].handle
      /\ UNCHANGED <<handle_counter, mutex, client, user, outcome, callbacks>>
  BY ReleaseMovesOn
<1>3. /\ Threads'
      /\ \A d \in Handles : JobHolds(d)' <=> JobHolds(d)
      /\ \A d : UserHolds(d)' <=> UserHolds(d)
  <2>1. \A v \in Workers : worker[v].pc # "idle" => job'[worker[v].handle].state = "running"
    BY <1>1 DEF Sound, Threads, WorkersSound
  <2> QED
    BY <1>1, <2>1, ReleaseThreads
<1>4. \A k \in Handles : Owed(k)' = Owed(k)
  <2> SUFFICES ASSUME NEW k \in Handles, NEW d \in Handles, NEW i
               PROVE  (Due(d, i)' /\ Entry(d, i)' = k) <=> (Due(d, i) /\ Entry(d, i) = k)
    BY <1>1, OwedKept, Types
  <2>1. /\ Due(d, i)' <=> Due(d, i) /\ ~(d = worker[w].handle /\ i = worker[w].i)
        /\ Entry(d, i)' = Entry(d, i)
    BY <1>1, ReleaseLeaves
  <2>2. k # 0
    BY DEF Handles
  <2> QED
    BY <2>1, <2>2
<1>5. \A d : NotFinished(d)' <=> NotFinished(d)
  BY <1>1 DEF NotFinished
<1>6. Records'
  BY <1>1, <1>2, <1>5 DEF Sound, Records, Fresh, TableSound, CallbacksKept, CallbacksOnce
<1>7. FinitelyOwed' /\ ReleasesOwed'
  BY <1>1, <1>4 DEF Sound, Counted, FinitelyOwed, ReleasesOwed
<1>8. RefCountExact'
  <2> SUFFICES ASSUME NEW k \in table PROVE promise[k].reference_count = Refs(k)'
    BY <1>1, RefsCountedNext
  <2>1. k \in Handles /\ promise[k].reference_count = Refs(k)
    BY Balance, Types
  <2>2. One(JobHolds(k))' = One(JobHolds(k)) /\ One(UserHolds(k))' = One(UserHolds(k))
    BY <1>3, <2>1 DEF One
  <2> QED
    BY <1>1, <1>5, <2>1, <2>2 DEF Refs
<1> QED
  BY <1>3, <1>4, <1>6, <1>7, <1>8
  DEF Sound, Counted, LinksKept

LEMMA SoundReleaseOne ==
    ASSUME TypeOK, Sound, NEW w \in Workers, Release(w), NEW h \in Handles,
           h = Entry(worker[w].handle, worker[w].i)
    PROVE  /\ Sound'
           /\ \A k \in Handles \ {h} : Owed(k)' = Owed(k)
           /\ Owed(h)' = Owed(h) \ {<<worker[w].handle, worker[w].i>>}
           /\ job[h].state = "pending"
           /\ outcome[h] = "NotFinished"
           /\ promise[h].reference_count # 1
<1> DEFINE d0 == worker[w].handle
           i0 == worker[w].i
           ended == promise[h].num_ended_waiting_promises + 1
           all == promise[h].num_all_waiting_promises
           last == ended >= all
           m == all - promise[h].num_ended_waiting_promises
<1>1. /\ \A v \in Workers : worker'[v].pc = worker[v].pc /\ worker'[v].handle = worker[v].handle
      /\ UNCHANGED <<handle_counter, mutex, client, user, outcome, callbacks>>
      /\ Due(d0, i0)
      /\ job[d0].state = "running"
      /\ d0 \in table
      /\ \E v \in Workers : worker'[v].pc = "release" /\ worker'[v].handle = d0
  BY ReleaseMovesOn
<1>2. <<d0, i0>> \in Owed(h)
  BY <1>1, OwedIs
<1>3. /\ h \in table
      /\ promise[h].pending_job
      /\ job[h].state = "pending"
  BY <1>2 DEF Sound, Counted, ReleasesOwed
<1>4. outcome[h] = "NotFinished" /\ promise[h].status = "NotFinished" /\ JobHolds(h)
  BY <1>3, InTable DEF Sound, Threads, JobsSound, JobHolds
<1>5. /\ m \in Nat
      /\ m = Cardinality(Owed(h))
      /\ m # 0
      /\ promise[h].reference_count = Refs(h)
      /\ Refs(h) >= 1 + m
      /\ Refs(h) \in Nat
  BY <1>2, <1>3, <1>4, Balance
<1>6. promise[h].reference_count # 1 /\ promise[h].reference_count > 1
  <2> HIDE DEF m
  <2> QED
    BY <1>5
<1>7. /\ table' = table
      /\ \A d \in Handles \ {h} : promise'[d] = promise[d] /\ job'[d] = job[d]
  <2>0. h = promise[worker[w].handle].continuation_promises[worker[w].i]
    BY DEF Entry
  <2>1. /\ table' \subseteq table
        /\ \A d \in table : d # h => d \in table'
        /\ promise[h].reference_count # 1 => (h \in table => h \in table')
    BY <2>0, ReleaseEffect, SMTT(30)
  <2>2. table' = table
    BY <1>3, <1>6, <2>1
  <2>3. /\ \A d \in Handles \ {h} : promise'[d] = promise[d]
        /\ \A d \in Handles \ {h} : job'[d] = job[d]
    BY <2>0, ReleaseEffect
  <2> QED
    BY <2>2, <2>3
<1>8. /\ promise'[h].reference_count = promise[h].reference_count - 1
      /\ promise'[h].status = promise[h].status
      /\ promise'[h].num_all_waiting_promises = all
      /\ promise'[h].num_ended_waiting_promises = ended
      /\ promise'[h].pending_job <=> promise[h].pending_job /\ ~last
      /\ promise'[h].continuation_promises = promise[h].continuation_promises
      /\ promise'[h].num_promise_callbacks = promise[h].num_promise_callbacks
      /\ last => job'[h].state \in {"queued", "lost"}
      /\ ~last => job'[h].state = job[h].state
  BY <1>6, ReleaseEffect DEF Entry
<1>9. last <=> m = 1
  BY <1>5, Numbers
<1>10. /\ \A d \in Handles : promise'[d].status = promise[d].status
       /\ \A d \in Handles :
            promise'[d].continuation_promises = promise[d].continuation_promises
       /\ \A d \in Handles : promise'[d].num_promise_callbacks = promise[d].num_promise_callbacks
       /\ \A d \in Handles : NotFinished(d)' <=> NotFinished(d)
  BY <1>7, <1>8 DEF NotFinished
<1> HIDE DEF last, m, ended, all
<1>11. ASSUME NEW d \in Handles, NEW i
       PROVE  /\ Due(d, i)' <=> Due(d, i) /\ ~(d = d0 /\ i = i0)
              /\ Entry(d, i)' = Entry(d, i)
  BY <1>7, <1>10, ReleaseLeaves
<1> HIDE DEF d0, i0
<1>12. \A k \in Handles \ {h} : Owed(k)' = Owed(k)
  <2> SUFFICES ASSUME NEW k \in Handles \ {h}, NEW d \in Handles, NEW i
               PROVE  (Due(d, i)' /\ Entry(d, i)' = k) <=> (Due(d, i) /\ Entry(d, i) = k)
    BY <1>7, OwedKept, Types
  <2>1. Entry(d0, i0) = h
    BY DEF d0, i0
  <2> QED
    BY <1>11, <2>1
<1>13. Owed(h)' = Owed(h) \ {<<d0, i0>>}
  <2>1. table \subseteq Handles
    BY Types
  <2>2. ASSUME NEW x \in Owed(h)' PROVE x \in Owed(h) /\ x # <<d0, i0>>
    <3>1. PICK d, i : d \in table' /\ x = <<d, i>>
      BY OwedIsNext
    <3>2. Due(d, i)' /\ Entry(d, i)' = h
      BY <3>1, OwedIsNext
    <3>3. d \in Handles
      BY <1>7, <2>1, <3>1
    <3>4. Due(d, i) /\ ~(d = d0 /\ i = i0) /\ Entry(d, i) = h
      BY <1>11, <3>2, <3>3
    <3> QED
      BY <3>1, <3>4, OwedIs
  <2>3. ASSUME NEW x \in Owed(h), x # <<d0, i0>> PROVE x \in Owed(h)'
    <3>1. PICK d, i : d \in table /\ x = <<d, i>>
      BY OwedIs
    <3>2. Due(d, i) /\ Entry(d, i) = h
      BY <3>1, OwedIs
    <3>3. d \in Handles
      BY <2>1, <3>1
    <3>4. Due(d, i)' /\ Entry(d, i)' = h
      BY <1>11, <2>3, <3>1, <3>2, <3>3
    <3> QED
      BY <3>1, <3>4, OwedIsNext
  <2> QED
    BY <2>2, <2>3
<1>14. /\ IsFiniteSet(Owed(h)')
       /\ Cardinality(Owed(h)') = m - 1
       /\ Owed(h)' = {} <=> last
  <2>1. IsFiniteSet(Owed(h))
    BY DEF Sound, Counted, FinitelyOwed
  <2>2. IsFiniteSet(Owed(h)') /\ Cardinality(Owed(h)') = Cardinality(Owed(h)) - 1
    BY <1>2, <1>13, <2>1, FS_RemoveElement
  <2>3. Owed(h)' = {} <=> Cardinality(Owed(h)') = 0
    BY <2>2, FS_EmptySet
  <2> QED
    BY <1>5, <1>9, <2>2, <2>3
<1>15. /\ Threads'
       /\ \A d \in Handles : JobHolds(d)' <=> JobHolds(d)
       /\ \A d : UserHolds(d)' <=> UserHolds(d)
  <2>1. \A v \in Workers : worker[v].pc # "idle" => job'[worker[v].handle].state = "running"
    BY <1>3, <1>7 DEF Sound, Threads, WorkersSound, TypeOK, Pointers
  <2>2. \A d \in Handles : job[d].state = "none" <=> job'[d].state = "none"
    BY <1>3, <1>7, <1>8
  <2>3. \A d \in Handles : job'[d].state \in {"pending", "queued", "lost"}
                             => job[d].state \in {"pending", "queued", "lost"}
    BY <1>3, <1>7
  <2>4. \A d \in Handles : job'[d].state = "ended" => job[d].state = "ended"
    BY <1>3, <1>7, <1>8
  <2> QED
    BY <1>7, <2>1, <2>2, <2>3, <2>4, ReleaseThreads
<1>16. Fresh'
  <2>1. Fresh
    BY DEF Sound, Records
  <2>2. \A d \in Handles : job[d].state = "none" <=> job'[d].state = "none"
    BY <1>3, <1>7, <1>8
  <2>3. \A d \in Handles \ table : promise'[d] = NoPromise
    BY <1>3, <1>7, <2>1 DEF Fresh
  <2> QED
    BY <1>1, <1>7, <1>10, <2>1, <2>2, <2>3 DEF Fresh
<1>17. TableSound'
  <2>1. TableSound /\ table \subseteq Handles
    BY Types DEF Sound, Records
  <2> SUFFICES ASSUME NEW d \in table
               PROVE  /\ promise'[d].status = outcome[d]
                      /\ promise'[d].pending_job <=> job'[d].state = "pending"
                      /\ \/ promise'[d].reference_count > 0
                         \/ \E v \in Workers : worker'[v].pc = "release" /\ worker'[v].handle = d
    BY <1>1, <1>7 DEF TableSound
  <2>2. CASE d = h
    <3>1. promise'[h].reference_count > 0
      BY <1>6, <1>8, Numbers
    <3>2. promise'[h].pending_job <=> job'[h].state = "pending"
      BY <1>3, <1>8
    <3> QED
      BY <1>8, <2>1, <2>2, <3>1, <3>2 DEF TableSound
  <2>3. CASE d # h
    <3>1. (\E v \in Workers : worker[v].pc = "release" /\ worker[v].handle = d)
            => \E v \in Workers : worker'[v].pc = "release" /\ worker'[v].handle = d
      BY <1>1
    <3> QED
      BY <1>7, <2>1, <2>3, <3>1 DEF TableSound
  <2> QED
    BY <2>2, <2>3
<1>18. CallbacksKept' /\ CallbacksOnce'
  <2>1. table \subseteq Handles
    BY Types
  <2> QED
    BY <1>1, <1>7, <1>10, <2>1 DEF Sound, Records, CallbacksKept, CallbacksOnce
<1>19. FinitelyOwed'
  BY <1>12, <1>14 DEF Sound, Counted, FinitelyOwed
<1>20. ReleasesOwed'
  <2>1. ReleasesOwed
    BY DEF Sound, Counted
  <2> SUFFICES ASSUME NEW k \in Handles
               PROVE  /\ Owed(k)' # {} => k \in table' /\ promise'[k].pending_job
                      /\ k \in table' => Cardinality(Owed(k)') =
                           promise'[k].num_all_waiting_promises
                             - promise'[k].num_ended_waiting_promises
                      /\ job'[k].state = "pending" <=> Owed(k)' # {}
    BY DEF ReleasesOwed
  <2>2. CASE k # h
    BY <1>7, <1>12, <2>1, <2>2 DEF ReleasesOwed
  <2>3. CASE k = h
    <3>1. m - 1 = all - ended
      BY Numbers DEF m, all, ended
    <3> QED
      BY <1>3, <1>7, <1>8, <1>14, <2>3, <3>1
  <2> QED
    BY <2>2, <2>3
<1>21. RefCountExact'
  <2> SUFFICES ASSUME NEW k \in table PROVE promise'[k].reference_count = Refs(k)'
    BY <1>7, RefsCountedNext
  <2>1. k \in Handles /\ promise[k].reference_count = Refs(k)
    BY Balance, Types
  <2>2. One(JobHolds(k))' = One(JobHolds(k)) /\ One(UserHolds(k))' = One(UserHolds(k))
    BY <1>15, <2>1 DEF One
  <2>3. CASE k # h
    BY <1>7, <1>10, <2>1, <2>2, <2>3 DEF Refs
  <2>4. CASE k = h
    <3> DEFINE both == One(UserHolds(k)) + One(JobHolds(k))
               cb == IF NotFinished(k) THEN promise[k].num_promise_callbacks ELSE 0
    <3>1. both \in Nat /\ cb \in Nat
      <4>1. One(JobHolds(k)) \in {0, 1} /\ One(UserHolds(k)) \in {0, 1}
        BY DEF One
      <4> QED
        BY <2>1, <4>1, Numbers
    <3>2. Refs(k) = both + m + cb
      BY <2>4 DEF Refs, m, all
    <3>3. Refs(k)' = both + (all - ended) + cb
      BY <1>8, <1>10, <2>1, <2>2, <2>4 DEF Refs
    <3>4. all - ended = m - 1
      BY Numbers DEF m, all, ended
    <3> HIDE DEF both, cb
    <3> QED
      BY <1>5, <1>8, <2>1, <2>4, <3>1, <3>2, <3>3, <3>4
  <2> QED
    BY <2>3, <2>4
<1> QED
  BY <1>3, <1>4, <1>6, <1>12, <1>13, <1>15, <1>16, <1>17, <1>18, <1>19, <1>20, <1>21
  DEF d0, i0, Sound, Records, Counted

LEMMA SoundRelease ==
    ASSUME TypeOK, Sound, NEW w \in Workers, Release(w)
    PROVE  Sound'
<1> DEFINE h == Entry(worker[w].handle, worker[w].i)
<1>1. h \in 0 .. MaxHandles
  BY ReleaseEntry DEF Entry
<1>2. h = 0 \/ h \in Handles
  BY <1>1, BoundsAssumption DEF Handles
<1> QED
  BY <1>2, SoundReleaseNothing, SoundReleaseOne

LEMMA SoundFinish ==
    ASSUME TypeOK, Sound, NEW w \in Workers, Finish(w)
    PROVE  Sound' /\ LinksKept
<1> DEFINE h == worker[w].handle
           gone == promise[h].reference_count = 0
<1>0. /\ worker \in [Workers -> [pc: {"idle", "complete", "release"},
                                 handle: 0 .. MaxHandles, has_error: BOOLEAN, i: Nat]]
      /\ client \in [Clients -> [pc: {"idle", "signal", "await", "await_all"},
                                 handle: 0 .. MaxHandles, asleep: BOOLEAN]]
      /\ job \in [Handles -> [state: {"none", "pending", "queued", "running", "ended", "lost"},
                              dependency_has_error: BOOLEAN]]
      /\ table \subseteq Handles
      /\ table' \subseteq Handles
  BY Types, FinishEffect
<1>1. /\ worker[w].pc = "release"
      /\ worker[w].i > Len(promise[h].continuation_promises)
      /\ client' = Awakened
      /\ mutex' = NoThread
      /\ job' = [job EXCEPT ![h].state = "ended"]
      /\ worker' = [worker EXCEPT ![w] = [pc |-> "idle", handle |-> 0,
                                          has_error |-> FALSE, i |-> 0]]
      /\ UNCHANGED <<handle_counter, user, outcome, callbacks>>
  BY DEF Finish, histories
<1>2. /\ h \in Handles
      /\ \A d \in Handles \ {h} : promise'[d] = promise[d]
      /\ table' \subseteq table
      /\ \A d \in table : d # h => d \in table'
      /\ gone => h \notin table' /\ promise'[h] = NoPromise
      /\ ~gone => table' = table /\ promise' = promise
  BY FinishEffect
<1>3. /\ h \in table
      /\ job[h].state = "running"
      /\ outcome[h] # "NotFinished"
      /\ promise[h].status # "NotFinished"
  BY <1>1, InTable DEF Sound, Threads, WorkersSound
<1>4. \A v \in Workers \ {w} : worker[v].pc # "release"
  BY <1>1 DEF Sound, Threads, Locked
<1>5. /\ worker'[w].pc = "idle"
      /\ \A v \in Workers \ {w} : worker'[v] = worker[v]
      /\ \A v \in Workers : worker'[v].pc # "release"
  BY <1>0, <1>1, <1>4
<1>6. \A c \in Clients : client'[c].pc = client[c].pc /\ client'[c].handle = client[c].handle
  BY <1>0, <1>1 DEF Awakened
<1> HIDE DEF h
<1>7. /\ job'[h].state = "ended"
      /\ \A d \in Handles \ {h} : job'[d] = job[d]
  BY <1>0, <1>1, <1>2
<1>8. /\ \A d \in Handles : JobHolds(d)' <=> JobHolds(d)
      /\ \A d : UserHolds(d)' <=> UserHolds(d)
      /\ ~JobHolds(h)
  BY <1>1, <1>3, <1>6, <1>7 DEF JobHolds, UserHolds
<1>9. gone => ~UserHolds(h) /\ Owed(h) = {}
  BY <1>3, Balance
<1>10. \A d \in table' : promise'[d] = promise[d]
  BY <1>0, <1>2
<1>11. \A k \in Handles : Owed(k)' = Owed(k)
  <2> SUFFICES ASSUME NEW k \in Handles, NEW d \in Handles, NEW i
               PROVE  (Due(d, i)' /\ Entry(d, i)' = k) <=> (Due(d, i) /\ Entry(d, i) = k)
    BY <1>0, OwedKept
  <2>1. CASE d # h
    <3>1. \A v \in Workers : ~(worker[v].pc = "release" /\ worker[v].handle = d)
      BY <1>4, <2>1 DEF h
    <3>2. \A v \in Workers : ~(worker'[v].pc = "release" /\ worker'[v].handle = d)
      BY <1>5
    <3>3. Unreleased(d)' = Unreleased(d)
      BY <1>2, <2>1, <3>1, <3>2 DEF Unreleased, NotFinished
    <3> QED
      BY <1>2, <2>1, <3>3 DEF Due, Entry
  <2>2. CASE d = h
    <3>1. i \notin Unreleased(d)
      <4>1. DOMAIN promise[h].continuation_promises
              = 1 .. Len(promise[h].continuation_promises)
            /\ Len(promise[h].continuation_promises) \in Nat
        BY <1>2, Lists
      <4>2. worker[w].i \in Nat
        BY <1>0
      <4>3. ASSUME NEW v \in Workers, i \in DOMAIN promise[h].continuation_promises
            PROVE  ~(worker[v].pc = "release" /\ worker[v].handle = h /\ worker[v].i <= i)
        <5>1. CASE v = w
          BY <1>1, <4>1, <4>2, <4>3, <5>1
        <5>2. CASE v # w
          BY <1>4, <5>2
        <5> QED
          BY <5>1, <5>2
      <4> QED
        BY <1>3, <2>2, <4>3 DEF Unreleased, NotFinished
    <3>2. ~Due(d, i)'
      <4>1. CASE gone
        BY <1>2, <2>2, <4>1 DEF Due
      <4>2. CASE ~gone
        BY <1>2, <1>3, <1>5, <2>2, <4>2 DEF Due, Unreleased, NotFinished
      <4> QED
        BY <4>1, <4>2
    <3> QED
      BY <3>1, <3>2 DEF Due
  <2> QED
    BY <2>1, <2>2
<1>12. Locked'
  BY <1>1, <1>5, NoThreadAssumption DEF Locked
<1>13. WorkersSound'
  <2>0. WorkersSound
    BY DEF Sound, Threads
  <2>1. \A v \in Workers \ {w} : worker[v].pc # "idle" => worker[v].handle # h
    BY <1>1, <2>0 DEF WorkersSound, h
  <2>2. ASSUME NEW v \in Workers, worker'[v].pc # "idle"
        PROVE  /\ job'[worker'[v].handle].state = "running"
               /\ outcome[worker'[v].handle] = "NotFinished" <=> worker'[v].pc = "complete"
    <3>1. v # w
      BY <1>5, <2>2
    <3> QED
      BY <1>5, <1>7, <2>0, <2>1, <2>2, <3>1 DEF WorkersSound, TypeOK, Pointers
  <2>3. \A u, v \in Workers :
          worker'[u].pc # "idle" /\ worker'[v].pc # "idle" /\ worker'[u].handle = worker'[v].handle
          => u = v
    BY <1>5, <2>0 DEF WorkersSound
  <2> QED
    BY <1>1, <1>5, <2>2, <2>3 DEF WorkersSound
<1>14. JobsSound'
  <2>1. JobsSound
    BY DEF Sound, Threads
  <2>2. \A d \in Handles : JobHolds(d) => d \in table'
    BY <1>2, <1>8, <2>1 DEF JobsSound
  <2> QED
    BY <1>1, <1>3, <1>7, <1>8, <2>1, <2>2 DEF JobsSound
<1>15. UsersSound'
  <2>1. \A d \in Handles : UserHolds(d) => d \in table'
    BY <1>2, <1>9 DEF Sound, Threads, UsersSound
  <2> QED
    BY <1>1, <1>6, <1>8, <2>1 DEF Sound, Threads, UsersSound, HeldOnce
<1>16. Fresh'
  <2>1. Fresh
    BY DEF Sound, Records
  <2>2. \A d \in Handles : job'[d].state = "none" <=> job[d].state = "none"
    BY <1>3, <1>7
  <2>3. \A d \in Handles \ table' : promise'[d] = NoPromise
    BY <1>2, <2>1 DEF Fresh
  <2>4. \A d \in Handles : \A i \in DOMAIN promise'[d].continuation_promises :
          promise'[d].continuation_promises[i] <= handle_counter
    <3> SUFFICES ASSUME NEW d \in Handles
                 PROVE  \A i \in DOMAIN promise'[d].continuation_promises :
                          promise'[d].continuation_promises[i] <= handle_counter
      OBVIOUS
    <3>1. CASE promise'[d] = promise[d]
      BY <2>1, <3>1 DEF Fresh
    <3>2. CASE promise'[d] = NoPromise
      BY <3>2, NoPromiseType
    <3> QED
      BY <1>2, <3>1, <3>2
  <2> QED
    BY <1>1, <1>2, <2>1, <2>2, <2>3, <2>4 DEF Fresh
<1>17. TableSound'
  <2>1. TableSound
    BY DEF Sound, Records
  <2> SUFFICES ASSUME NEW d \in table'
               PROVE  /\ promise'[d].status = outcome[d]
                      /\ promise'[d].pending_job <=> job'[d].state = "pending"
                      /\ promise'[d].reference_count > 0
    BY <1>1 DEF TableSound
  <2>2. d \in table /\ d \in Handles /\ promise'[d] = promise[d]
    BY <1>0, <1>2, <1>10
  <2>3. job'[d].state = "pending" <=> job[d].state = "pending"
    BY <1>3, <1>7, <2>2
  <2>4. promise[d].reference_count > 0
    <3>1. CASE d = h
      <4>1. promise[d].reference_count # 0 /\ promise[d].reference_count = Refs(d) /\ Refs(d) \in Nat
        BY <1>2, <2>2, <3>1, Balance
      <4> QED
        BY <4>1
    <3>2. CASE d # h
      BY <1>4, <2>1, <2>2, <3>2 DEF TableSound, h
    <3> QED
      BY <3>1, <3>2
  <2> QED
    BY <2>1, <2>2, <2>3, <2>4 DEF TableSound
<1>18. CallbacksKept' /\ CallbacksOnce'
  <2>1. \A d \in table' : d \in table /\ (NotFinished(d)' <=> NotFinished(d))
    BY <1>2, <1>10 DEF NotFinished
  <2> QED
    BY <1>1, <1>10, <2>1 DEF Sound, Records, CallbacksKept, CallbacksOnce
<1>19. FinitelyOwed'
  BY <1>11 DEF Sound, Counted, FinitelyOwed
<1>20. ReleasesOwed'
  <2>1. ReleasesOwed
    BY DEF Sound, Counted
  <2> SUFFICES ASSUME NEW k \in Handles
               PROVE  /\ Owed(k)' # {} => k \in table' /\ promise'[k].pending_job
                      /\ k \in table' => Cardinality(Owed(k)') =
                           promise'[k].num_all_waiting_promises
                             - promise'[k].num_ended_waiting_promises
                      /\ job'[k].state = "pending" <=> Owed(k)' # {}
    BY DEF ReleasesOwed
  <2>2. Owed(k)' = Owed(k)
    BY <1>11
  <2>3. Owed(k) # {} => k \in table'
    BY <1>2, <1>9, <2>1 DEF ReleasesOwed
  <2>4. job'[k].state = "pending" <=> job[k].state = "pending"
    BY <1>3, <1>7
  <2>5. k \in table' => k \in table
    BY <1>2
  <2> QED
    BY <1>10, <2>1, <2>2, <2>3, <2>4, <2>5 DEF ReleasesOwed
<1>21. RefCountExact'
  <2> SUFFICES ASSUME NEW k \in table' PROVE promise'[k].reference_count = Refs(k)'
    BY RefsCountedNext
  <2>1. k \in table /\ k \in Handles /\ promise[k].reference_count = Refs(k)
    BY <1>0, <1>2, Balance
  <2>2. One(JobHolds(k))' = One(JobHolds(k)) /\ One(UserHolds(k))' = One(UserHolds(k))
    BY <1>8, <2>1 DEF One
  <2>3. NotFinished(k)' <=> NotFinished(k)
    BY <1>10 DEF NotFinished
  <2> QED
    BY <1>10, <2>1, <2>2, <2>3 DEF Refs
<1> QED
  BY <1>11, <1>12, <1>13, <1>14, <1>15, <1>16, <1>17, <1>18, <1>19, <1>20, <1>21
  DEF Sound, Threads, Records, Counted, LinksKept

-----------------------------------------------------------------------------
(* armd_invoke *)

LEMMA ExtendedFields ==
    ASSUME TypeOK, promise' \in [Handles -> PromiseRecord],
           NEW d \in Handles, NEW n \in Nat, NEW x, Extended(d, n, x)
    PROVE  LET old == Len(promise[d].continuation_promises) IN
           /\ promise'[d].reference_count = promise[d].reference_count
           /\ promise'[d].status = promise[d].status
           /\ promise'[d].num_all_waiting_promises = promise[d].num_all_waiting_promises
           /\ promise'[d].num_ended_waiting_promises = promise[d].num_ended_waiting_promises
           /\ promise'[d].dependency_has_error = promise[d].dependency_has_error
           /\ promise'[d].pending_job = promise[d].pending_job
           /\ promise'[d].num_promise_callbacks = promise[d].num_promise_callbacks
           /\ old \in Nat
           /\ DOMAIN promise[d].continuation_promises = 1 .. old
           /\ DOMAIN promise'[d].continuation_promises = 1 .. old + n
           /\ \A i \in 1 .. old :
                promise'[d].continuation_promises[i] = promise[d].continuation_promises[i]
           /\ \A i \in old + 1 .. old + n : promise'[d].continuation_promises[i] = x
<1> DEFINE list == promise'[d].continuation_promises
<1>1. promise[d] \in PromiseRecord
  BY Lists
<1>2. promise'[d] = [promise[d] EXCEPT !.continuation_promises = list]
  BY DEF Extended
<1> HIDE DEF list
<1>3. /\ promise'[d].reference_count = promise[d].reference_count
      /\ promise'[d].status = promise[d].status
      /\ promise'[d].num_all_waiting_promises = promise[d].num_all_waiting_promises
      /\ promise'[d].num_ended_waiting_promises = promise[d].num_ended_waiting_promises
      /\ promise'[d].dependency_has_error = promise[d].dependency_has_error
      /\ promise'[d].pending_job = promise[d].pending_job
      /\ promise'[d].num_promise_callbacks = promise[d].num_promise_callbacks
  BY <1>1, <1>2 DEF PromiseRecord
<1> QED
  BY <1>3, Lists DEF Extended

LEMMA ExtendedByNone ==
    ASSUME TypeOK, promise' \in [Handles -> PromiseRecord],
           NEW d \in Handles, NEW x, Extended(d, 0, x)
    PROVE  promise'[d] = promise[d]
<1> DEFINE now == promise'[d].continuation_promises
           old == promise[d].continuation_promises
<1>1. /\ old \in Seq(0 .. MaxHandles)
      /\ promise[d] \in PromiseRecord
  BY Lists
<1>2. now \in Seq(0 .. MaxHandles)
  <2>1. promise'[d] \in PromiseRecord
    OBVIOUS
  <2> QED
    BY <2>1 DEF PromiseRecord
<1>3. /\ Len(old) \in Nat
      /\ DOMAIN now = 1 .. Len(old) + 0
      /\ \A i \in 1 .. Len(old) : now[i] = old[i]
  BY ExtendedFields
<1>4. promise'[d] = [promise[d] EXCEPT !.continuation_promises = now]
  BY DEF Extended
<1> HIDE DEF now
<1>5. Len(now) = Len(old)
  <2> HIDE DEF old
  <2>1. Len(now) \in Nat /\ DOMAIN now = 1 .. Len(now) /\ DOMAIN now = 1 .. Len(old)
    BY <1>2, <1>3
  <2> QED
    BY <1>3, <2>1
<1>6. now = old
  BY <1>1, <1>2, <1>3, <1>5, SeqEqual
<1> QED
  BY <1>1, <1>4, <1>6 DEF PromiseRecord

LEMMA SoundInvokeFails ==
    ASSUME TypeOK, Sound, NEW c \in Clients, NEW deps \in Dependencies, NEW n \in 0 .. Len(deps),
           InvokeFails(c, deps, n)
    PROVE  /\ Sound' /\ LinksKept
           /\ \A d \in Handles :
                promise'[d].dependency_has_error = promise[d].dependency_has_error
<1> DEFINE links == [d \in Handles |-> Links(SubSeq(deps, 1, n), d)]
<1>1. /\ mutex = NoThread
      /\ UNCHANGED <<table, handle_counter, mutex, job, worker, client, user, outcome, callbacks>>
  BY DEF InvokeFails, jobVars, histories
<1>2. handle_counter \in Nat /\ table \subseteq Handles /\ Handles \subseteq Nat
  BY Types
<1>3. \A d \in Handles : \A i \in DOMAIN promise[d].continuation_promises :
        promise[d].continuation_promises[i] # handle_counter + 1
  <2> SUFFICES ASSUME NEW d \in Handles, NEW i \in DOMAIN promise[d].continuation_promises
               PROVE  promise[d].continuation_promises[i] # handle_counter + 1
    OBVIOUS
  <2>1. promise[d].continuation_promises[i] <= handle_counter
    BY DEF Sound, Records, Fresh
  <2>2. promise[d].continuation_promises[i] \in 0 .. MaxHandles
    BY Lists
  <2> QED
    BY <1>2, <2>1, <2>2
<1>4. /\ promise' \in [Handles -> PromiseRecord]
      /\ links \in [Handles -> Nat]
      /\ \A d \in Handles \ table : links[d] = 0
      /\ \A d \in Handles : Extended(d, links[d], 0)
  BY <1>3, InvokeFailsEffect
<1> HIDE DEF links
<1>5. ASSUME NEW d \in Handles
      PROVE  LET old == Len(promise[d].continuation_promises) IN
             /\ promise'[d].reference_count = promise[d].reference_count
             /\ promise'[d].status = promise[d].status
             /\ promise'[d].num_all_waiting_promises = promise[d].num_all_waiting_promises
             /\ promise'[d].num_ended_waiting_promises = promise[d].num_ended_waiting_promises
             /\ promise'[d].dependency_has_error = promise[d].dependency_has_error
             /\ promise'[d].pending_job = promise[d].pending_job
             /\ promise'[d].num_promise_callbacks = promise[d].num_promise_callbacks
             /\ old \in Nat /\ links[d] \in Nat
             /\ DOMAIN promise[d].continuation_promises = 1 .. old
             /\ DOMAIN promise'[d].continuation_promises = 1 .. old + links[d]
             /\ \A i \in 1 .. old :
                  promise'[d].continuation_promises[i] = promise[d].continuation_promises[i]
             /\ \A i \in old + 1 .. old + links[d] : promise'[d].continuation_promises[i] = 0
  <2>1. links[d] \in Nat /\ Extended(d, links[d], 0)
    BY <1>4
  <2> QED
    BY <1>4, <2>1, ExtendedFields
<1>6. \A w \in Workers : worker[w].pc # "release"
  BY <1>1, NoneReleasing
<1>7. /\ \A d \in Handles : NotFinished(d)' <=> NotFinished(d)
      /\ \A d : JobHolds(d)' <=> JobHolds(d)
      /\ \A d : UserHolds(d)' <=> UserHolds(d)
  BY <1>1, <1>5 DEF NotFinished, JobHolds, UserHolds
<1>8. \A k \in Handles : Owed(k)' = Owed(k)
  <2> SUFFICES ASSUME NEW k \in Handles, NEW d \in Handles, NEW i
               PROVE  (Due(d, i)' /\ Entry(d, i)' = k) <=> (Due(d, i) /\ Entry(d, i) = k)
    BY <1>1, <1>2, OwedKept
  <2> DEFINE old == Len(promise[d].continuation_promises)
  <2>1. /\ old \in Nat /\ links[d] \in Nat
        /\ DOMAIN promise[d].continuation_promises = 1 .. old
        /\ DOMAIN promise'[d].continuation_promises = 1 .. old + links[d]
        /\ \A j \in 1 .. old :
             promise'[d].continuation_promises[j] = promise[d].continuation_promises[j]
        /\ \A j \in old + 1 .. old + links[d] : promise'[d].continuation_promises[j] = 0
    BY <1>5
  <2> HIDE DEF old
  <2>2. Due(d, i) <=> d \in table /\ NotFinished(d) /\ i \in 1 .. old
    BY <1>6, <2>1 DEF Due, Unreleased
  <2>3. Due(d, i)' <=> d \in table /\ NotFinished(d) /\ i \in 1 .. old + links[d]
    BY <1>1, <1>6, <1>7, <2>1 DEF Due, Unreleased
  <2>4. k # 0
    BY DEF Handles
  <2>5. i \in 1 .. old + links[d] /\ i \notin 1 .. old => i \in old + 1 .. old + links[d]
    BY <2>1
  <2>6. i \in 1 .. old => i \in 1 .. old + links[d]
    BY <2>1
  <2>7. Entry(d, i)' = promise'[d].continuation_promises[i]
        /\ Entry(d, i) = promise[d].continuation_promises[i]
    BY DEF Entry
  <2> QED
    BY <2>1, <2>2, <2>3, <2>4, <2>5, <2>6, <2>7
<1>9. Threads'
  BY <1>1, <1>7 DEF Sound, Threads, Locked, WorkersSound, JobsSound, UsersSound, HeldOnce
<1>10. Fresh'
  <2>1. Fresh
    BY DEF Sound, Records
  <2>2. \A d \in Handles \ table : promise'[d] = NoPromise
    <3> SUFFICES ASSUME NEW d \in Handles \ table PROVE promise'[d] = NoPromise
      OBVIOUS
    <3>1. Extended(d, 0, 0)
      BY <1>4
    <3> QED
      BY <1>4, <2>1, <3>1, ExtendedByNone DEF Fresh
  <2>3. ASSUME NEW d \in Handles, NEW i \in DOMAIN promise'[d].continuation_promises
        PROVE  promise'[d].continuation_promises[i] <= handle_counter
    <3> DEFINE old == Len(promise[d].continuation_promises)
    <3>1. /\ old \in Nat /\ links[d] \in Nat
          /\ i \in 1 .. old + links[d]
          /\ i \in 1 .. old => promise'[d].continuation_promises[i] <= handle_counter
          /\ \A j \in old + 1 .. old + links[d] : promise'[d].continuation_promises[j] = 0
      BY <1>5, <2>1 DEF Fresh
    <3> HIDE DEF old
    <3>2. i \in 1 .. old \/ i \in old + 1 .. old + links[d]
      BY <3>1
    <3> QED
      BY <1>2, <3>1, <3>2
  <2> QED
    BY <1>1, <2>1, <2>2, <2>3 DEF Fresh
<1>11. TableSound' /\ CallbacksKept' /\ CallbacksOnce'
  <2>1. TableSound'
    <3>1. TableSound
      BY DEF Sound, Records
    <3> SUFFICES ASSUME NEW d \in table
                 PROVE  /\ promise'[d].status = outcome[d]
                        /\ promise'[d].pending_job <=> job[d].state = "pending"
                        /\ promise'[d].reference_count > 0
      BY <1>1 DEF TableSound
    <3>2. d \in Handles
      BY <1>2
    <3>3. promise[d].reference_count > 0
      BY <1>6, <3>1 DEF TableSound
    <3> QED
      BY <1>5, <3>1, <3>2, <3>3 DEF TableSound
  <2>2. CallbacksKept' /\ CallbacksOnce'
    BY <1>1, <1>2, <1>5, <1>7 DEF Sound, Records, CallbacksKept, CallbacksOnce
  <2> QED
    BY <2>1, <2>2
<1>12. FinitelyOwed' /\ ReleasesOwed'
  BY <1>1, <1>5, <1>8 DEF Sound, Counted, FinitelyOwed, ReleasesOwed
<1>13. RefCountExact'
  <2> SUFFICES ASSUME NEW k \in table PROVE promise'[k].reference_count = Refs(k)'
    BY <1>1, RefsCountedNext
  <2>1. k \in Handles /\ promise[k].reference_count = Refs(k)
    BY <1>2, Balance
  <2>2. One(JobHolds(k))' = One(JobHolds(k)) /\ One(UserHolds(k))' = One(UserHolds(k))
    BY <1>7 DEF One
  <2> QED
    BY <1>5, <1>7, <2>1, <2>2 DEF Refs
<1> QED
  BY <1>5, <1>8, <1>9, <1>10, <1>11, <1>12, <1>13
  DEF Sound, Records, Counted, LinksKept

LEMMA SoundInvoke ==
    ASSUME TypeOK, TypeOK', Sound, NEW c \in Clients, NEW deps \in Dependencies, Invoke(c, deps)
    PROVE  /\ Sound'
           /\ \A h : h = handle_counter + 1 =>
                /\ \A k \in Handles \ {h} : Owed(k)' = Owed(k)
                /\ \A d \in table : Links(deps, d) # 0 => \E i : <<d, i>> \in Owed(h)'
<1>0. PICK h, n : h = handle_counter + 1 /\ n = Cardinality(Awaited(deps))
  OBVIOUS
<1>1. /\ mutex = NoThread
      /\ client[c].pc = "idle"
      /\ handle_counter' = h
      /\ table' = table \cup {h}
      /\ client' = [client EXCEPT ![c] = [pc |-> "signal", handle |-> h, asleep |-> FALSE]]
      /\ UNCHANGED <<mutex, worker, user, outcome, callbacks>>
  BY <1>0 DEF Invoke
<1>2. /\ h \in Handles
      /\ n \in Nat
      /\ IsFiniteSet(Awaited(deps))
      /\ deps \in Seq(Nat)
      /\ \A i \in DOMAIN deps : deps[i] # 0 => deps[i] \in table
      /\ promise' \in [Handles -> PromiseRecord]
      /\ \A d \in Handles \ {h} : Links(deps, d) \in Nat /\ Extended(d, Links(deps, d), h)
      /\ \A d \in Handles \ table : Links(deps, d) = 0
  BY <1>0, InvokeEffect
<1>3. /\ promise'[h].status = "NotFinished"
      /\ promise'[h].reference_count = 2 + n
      /\ promise'[h].num_all_waiting_promises = n
      /\ promise'[h].num_ended_waiting_promises = 0
      /\ promise'[h].pending_job <=> n > 0
      /\ promise'[h].continuation_promises = <<>>
      /\ promise'[h].num_promise_callbacks = 0
      /\ \A d \in Handles \ {h} : job'[d] = job[d]
      /\ job'[h].state = IF n = 0 THEN "queued" ELSE "pending"
  BY <1>0, InvokeEffect
<1>4. /\ handle_counter \in Nat /\ table \subseteq Handles /\ Handles \subseteq Nat
      /\ client \in [Clients -> [pc: {"idle", "signal", "await", "await_all"},
                                 handle: 0 .. MaxHandles, asleep: BOOLEAN]]
  BY Types
<1>5. h > handle_counter /\ ~(h <= handle_counter) /\ handle_counter < h
  BY <1>0, <1>4
<1>6. /\ job[h].state = "none"
      /\ callbacks[h].added = 0
      /\ h \notin table
      /\ outcome[h] = "NotFinished"
      /\ callbacks[h].called = 0
  BY <1>2, <1>5 DEF Sound, Records, Fresh, Threads, JobsSound, CallbacksOnce
<1>7. \A d \in Handles : d # h => (d > h <=> d > handle_counter)
  BY <1>0, <1>4
<1>8. ASSUME NEW d \in Handles \ {h}
      PROVE  LET old == Len(promise[d].continuation_promises) IN
             /\ promise'[d].reference_count = promise[d].reference_count
             /\ promise'[d].status = promise[d].status
             /\ promise'[d].num_all_waiting_promises = promise[d].num_all_waiting_promises
             /\ promise'[d].num_ended_waiting_promises = promise[d].num_ended_waiting_promises
             /\ promise'[d].pending_job = promise[d].pending_job
             /\ promise'[d].num_promise_callbacks = promise[d].num_promise_callbacks
             /\ old \in Nat /\ Links(deps, d) \in Nat
             /\ DOMAIN promise[d].continuation_promises = 1 .. old
             /\ DOMAIN promise'[d].continuation_promises = 1 .. old + Links(deps, d)
             /\ \A i \in 1 .. old :
                  promise'[d].continuation_promises[i] = promise[d].continuation_promises[i]
             /\ \A i \in old + 1 .. old + Links(deps, d) :
                  promise'[d].continuation_promises[i] = h
  <2>1. Links(deps, d) \in Nat /\ Extended(d, Links(deps, d), h)
    BY <1>2
  <2> QED
    BY <1>2, <2>1, ExtendedFields
<1>9. \A w \in Workers : worker[w].pc # "release"
  BY <1>1, NoneReleasing
<1>10. /\ \A d \in Handles \ {h} : NotFinished(d)' <=> NotFinished(d)
       /\ NotFinished(h)'
       /\ \A d \in Handles : JobHolds(d)' <=> JobHolds(d) \/ d = h
       /\ ~JobHolds(h)
  <2>1. \A d \in Handles \ {h} : NotFinished(d)' <=> NotFinished(d)
    BY <1>8 DEF NotFinished
  <2>2. NotFinished(h)'
    BY <1>3 DEF NotFinished
  <2>3. ~JobHolds(h)
    BY <1>6 DEF JobHolds
  <2>4. JobHolds(h)'
    BY <1>1, <1>3, <1>6 DEF JobHolds
  <2>5. \A d \in Handles \ {h} : JobHolds(d)' <=> JobHolds(d)
    BY <1>1, <1>3 DEF JobHolds
  <2> QED
    BY <2>1, <2>2, <2>3, <2>4, <2>5
<1>11. /\ \A d \in Clients \ {c} : client'[d] = client[d]
       /\ client'[c].pc = "signal" /\ client'[c].handle = h
  BY <1>1, <1>4
<1>12. /\ \A d : UserHolds(d)' <=> UserHolds(d) \/ d = h
       /\ ~UserHolds(h)
  <2>1. ~UserHolds(h)
    BY <1>2, <1>6 DEF Sound, Threads, UsersSound
  <2> QED
    BY <1>1, <1>11, <2>1, ClientHolds
<1>13. ASSUME NEW d \in Handles \ {h}, NEW i
       PROVE  LET old == Len(promise[d].continuation_promises) IN
              /\ Due(d, i) <=> d \in table /\ NotFinished(d) /\ i \in 1 .. old
              /\ Due(d, i)' <=> d \in table /\ NotFinished(d) /\ i \in 1 .. old + Links(deps, d)
  <2> DEFINE old == Len(promise[d].continuation_promises)
  <2>1. /\ DOMAIN promise[d].continuation_promises = 1 .. old
        /\ DOMAIN promise'[d].continuation_promises = 1 .. old + Links(deps, d)
    BY <1>8
  <2> HIDE DEF old
  <2>2. Due(d, i) <=> d \in table /\ NotFinished(d) /\ i \in 1 .. old
    BY <1>9, <2>1 DEF Due, Unreleased
  <2>3. Due(d, i)' <=> d \in table /\ NotFinished(d) /\ i \in 1 .. old + Links(deps, d)
    BY <1>1, <1>9, <1>10, <2>1 DEF Due, Unreleased
  <2> QED
    BY <2>2, <2>3 DEF old
<1>14. \A i : ~Due(h, i) /\ ~Due(h, i)'
  <2>1. \A i : ~Due(h, i)
    BY <1>6 DEF Due
  <2>2. Unreleased(h)' = {}
    BY <1>3 DEF Unreleased
  <2> QED
    BY <2>1, <2>2 DEF Due
<1>15. \A d \in Handles : \A i \in DOMAIN promise[d].continuation_promises :
         /\ promise[d].continuation_promises[i] \in Nat
         /\ promise[d].continuation_promises[i] <= handle_counter
         /\ promise[d].continuation_promises[i] # h
  <2> SUFFICES ASSUME NEW d \in Handles, NEW i \in DOMAIN promise[d].continuation_promises
               PROVE  /\ promise[d].continuation_promises[i] \in Nat
                      /\ promise[d].continuation_promises[i] <= handle_counter
                      /\ promise[d].continuation_promises[i] # h
    OBVIOUS
  <2>1. promise[d].continuation_promises[i] <= handle_counter
    BY DEF Sound, Records, Fresh
  <2>2. promise[d].continuation_promises[i] \in Nat
    <3>1. promise[d].continuation_promises[i] \in 0 .. MaxHandles
      BY Lists
    <3> QED
      BY <3>1, BoundsAssumption
  <2> QED
    BY <1>5, <2>1, <2>2
<1>16. \A k \in Handles \ {h} : Owed(k)' = Owed(k)
  <2> SUFFICES ASSUME NEW k \in Handles \ {h}, NEW d \in Handles, NEW i
               PROVE  (Due(d, i)' /\ Entry(d, i)' = k) <=> (Due(d, i) /\ Entry(d, i) = k)
    BY <1>1, <1>2, <1>4, OwedKept
  <2>1. CASE d = h
    BY <1>14, <2>1
  <2>2. CASE d # h
    <3> DEFINE old == Len(promise[d].continuation_promises)
    <3>1. /\ old \in Nat /\ Links(deps, d) \in Nat
          /\ \A j \in 1 .. old :
               promise'[d].continuation_promises[j] = promise[d].continuation_promises[j]
          /\ \A j \in old + 1 .. old + Links(deps, d) : promise'[d].continuation_promises[j] = h
      BY <1>8, <2>2
    <3>2. /\ Due(d, i) <=> d \in table /\ NotFinished(d) /\ i \in 1 .. old
          /\ Due(d, i)' <=> d \in table /\ NotFinished(d) /\ i \in 1 .. old + Links(deps, d)
      BY <1>13, <2>2
    <3> HIDE DEF old
    <3>3. i \in 1 .. old + Links(deps, d) /\ i \notin 1 .. old
            => i \in old + 1 .. old + Links(deps, d)
      BY <3>1
    <3>4. i \in 1 .. old => i \in 1 .. old + Links(deps, d)
      BY <3>1
    <3> QED
      BY <3>1, <3>2, <3>3, <3>4 DEF Entry
  <2> QED
    BY <2>1, <2>2
<1>17. /\ IsFiniteSet(Owed(h)') /\ Cardinality(Owed(h)') = n
       /\ \A d \in table : Links(deps, d) # 0 => \E i : <<d, i>> \in Owed(h)'
  <2>0. PICK A, base, T : /\ A = Awaited(deps)
                          /\ base = [d \in table |-> Len(promise[d].continuation_promises)]
                          /\ T = table
    OBVIOUS
  <2>1. A \in SUBSET Nat
    BY <1>2, <2>0 DEF Awaited
  <2>2. \A i \in A : deps[i] \in T /\ NotFinished(deps[i])
    BY <1>2, <2>0 DEF Awaited
  <2>3. base \in [T -> Nat]
    BY <1>4, <2>0, Lists
  <2>4. ASSUME NEW x
        PROVE  x \in Owed(h)' <=> \E d \in T :
                 \E j \in 1 .. Links(deps, d) : x = <<d, base[d] + j>>
    <3>1. ASSUME x \in Owed(h)'
          PROVE  \E d \in T :
                   \E j \in 1 .. Links(deps, d) : x = <<d, base[d] + j>>
      <4>1. PICK d, i : d \in table' /\ i \in Unreleased(d)' /\ x = <<d, i>>
        BY <3>1, OwedIsNext
      <4>2. Due(d, i)' /\ Entry(d, i)' = h
        BY <3>1, <4>1, OwedIsNext
      <4>3. d \in table /\ d \in Handles \ {h}
        BY <1>1, <1>4, <1>6, <1>14, <4>1, <4>2
      <4>0. PICK old : old = Len(promise[d].continuation_promises)
        OBVIOUS
      <4>4. i \in 1 .. old + Links(deps, d)
        BY <1>13, <4>0, <4>2, <4>3
      <4>5. /\ old \in Nat /\ Links(deps, d) \in Nat
            /\ DOMAIN promise[d].continuation_promises = 1 .. old
            /\ \A j \in 1 .. old :
                 promise'[d].continuation_promises[j] = promise[d].continuation_promises[j]
        BY <1>8, <4>0, <4>3
      <4>6. i \notin 1 .. old
        BY <1>15, <4>2, <4>3, <4>5 DEF Entry
      <4>7. base[d] = old
        BY <2>0, <4>0, <4>3
      <4>8. i - old \in 1 .. Links(deps, d) /\ i = old + (i - old)
        BY <4>4, <4>5, <4>6
      <4> QED
        BY <2>0, <4>1, <4>3, <4>7, <4>8
    <3>2. ASSUME NEW d \in T, NEW j \in 1 .. Links(deps, d), x = <<d, base[d] + j>>
          PROVE  x \in Owed(h)'
      <4>0. PICK old : old = Len(promise[d].continuation_promises)
        OBVIOUS
      <4>1. d \in Handles \ {h}
        BY <1>4, <1>6, <2>0
      <4>2. NotFinished(d)
        <5>1. {i \in A : deps[i] = d} # {}
          <6>1. Links(deps, d) # 0
            BY <1>8, <4>1
          <6> QED
            BY <2>0, <6>1, FS_EmptySet DEF Links
        <5> QED
          BY <2>2, <5>1
      <4>3. /\ old \in Nat /\ Links(deps, d) \in Nat
            /\ \A i \in old + 1 .. old + Links(deps, d) :
                 promise'[d].continuation_promises[i] = h
        BY <1>8, <4>0, <4>1
      <4>4. base[d] = old
        BY <2>0, <4>0
      <4>5. Due(d, old + j)' <=> old + j \in 1 .. old + Links(deps, d)
        BY <1>13, <2>0, <4>0, <4>1, <4>2
      <4>6. old + j \in 1 .. old + Links(deps, d)
        BY <4>3
      <4>7. old + j \in old + 1 .. old + Links(deps, d)
        BY <4>3
      <4>8. promise'[d].continuation_promises[old + j] = h
        BY <4>3, <4>7
      <4>9. Due(d, old + j)' /\ Entry(d, old + j)' = h
        BY <4>5, <4>6, <4>8 DEF Entry
      <4> QED
        BY <3>2, <4>4, <4>9, OwedIsNext
    <3> QED
      BY <2>0, <3>1, <3>2
  <2>5. IsFiniteSet(A) /\ n = Cardinality(A)
    BY <1>0, <1>2, <2>0
  <2>6. \A x : x \in Owed(h)' <=> \E d \in T :
          \E j \in 1 .. Links(deps, d) : x = <<d, base[d] + j>>
    BY <2>4
  <2>7. PICK S : S = Owed(h)'
    OBVIOUS
  <2>8. \A i \in A : deps[i] \in T
    BY <2>2
  <2>9. IsFiniteSet(S) /\ Cardinality(S) = Cardinality(A)
    <3>1. PICK places : places = [d \in T |-> {i \in A : deps[i] = d}]
      OBVIOUS
    <3>2. PlacesOf(places, A, T, deps)
      BY <3>1 DEF PlacesOf
    <3>3. \A d \in T : Links(deps, d) = Cardinality(places[d])
      BY <2>0, <3>1 DEF Links
    <3>4. AppendedTo(S, T, places, base)
      BY <2>6, <2>7, <3>3 DEF AppendedTo
    <3>5. IsFiniteSet(A)
      BY <2>5
    <3> QED
      BY <2>1, <2>3, <2>8, <3>2, <3>4, <3>5, PlacesCounted
  <2>10. ASSUME NEW d \in table, Links(deps, d) # 0 PROVE \E i : <<d, i>> \in Owed(h)'
    <3>1. d \in Handles \ {h}
      BY <1>4, <1>6
    <3>2. Links(deps, d) \in Nat
      BY <1>2, <3>1
    <3>3. 1 \in 1 .. Links(deps, d)
      BY <2>10, <3>2
    <3> QED
      BY <2>0, <2>6, <3>3
  <2> QED
    BY <2>5, <2>7, <2>9, <2>10
<1>18. Owed(h)' = {} <=> n = 0
  BY <1>17, FS_EmptySet
<1>19. Locked' /\ WorkersSound'
  <2>1. WorkersSound
    BY DEF Sound, Threads
  <2>2. \A w \in Workers : worker[w].pc # "idle" => worker[w].handle \in Handles \ {h}
    BY <1>6, <2>1 DEF WorkersSound, TypeOK, Pointers
  <2>3. WorkersSound'
    BY <1>1, <1>3, <1>9, <2>1, <2>2 DEF WorkersSound
  <2> QED
    BY <1>1, <2>3 DEF Sound, Threads, Locked
<1>20. JobsSound'
  <2>1. JobsSound
    BY DEF Sound, Threads
  <2>2. job'[h].state # "ended"
    BY <1>3
  <2> QED
    BY <1>1, <1>3, <1>6, <1>10, <2>1, <2>2 DEF JobsSound
<1>21. UsersSound'
  <2>1. UsersSound
    BY DEF Sound, Threads
  <2>2. \A d \in Handles : UserHolds(d)' => d \in table'
    BY <1>1, <1>12, <2>1 DEF UsersSound
  <2>3. /\ \A d \in Clients : client[d].pc \in {"signal", "await"} => client[d].handle # h
        /\ h \notin user
    BY <1>12 DEF UserHolds
  <2>4. HeldOnce'
    BY <1>1, <1>11, <2>1, <2>3 DEF UsersSound, HeldOnce
  <2> QED
    BY <2>2, <2>4 DEF UsersSound
<1>22. Fresh'
  <2>1. Fresh
    BY DEF Sound, Records
  <2>2. \A d \in Handles : job'[d].state = "none" <=> d > h
    <3>1. job'[h].state # "none" /\ ~(h > h)
      BY <1>2, <1>3, <1>4
    <3> QED
      BY <1>3, <1>7, <2>1, <3>1 DEF Fresh
  <2>3. \A d \in Handles : d > h => callbacks[d].added = 0
    <3>1. ~(h > h)
      BY <1>2, <1>4
    <3> QED
      BY <1>7, <2>1, <3>1 DEF Fresh
  <2>4. \A d \in table' : d <= h
    <3>1. h <= h
      BY <1>2, <1>4
    <3>2. \A d \in table : d <= handle_counter /\ d \in Nat
      BY <1>4, <2>1 DEF Fresh
    <3> QED
      BY <1>0, <1>1, <1>4, <3>1, <3>2
  <2>5. \A d \in Handles \ table' : promise'[d] = NoPromise
    <3> SUFFICES ASSUME NEW d \in Handles \ table' PROVE promise'[d] = NoPromise
      OBVIOUS
    <3>1. d \in Handles \ {h} /\ d \in Handles \ table
      BY <1>1
    <3>2. Extended(d, 0, h)
      BY <1>2, <3>1
    <3> QED
      BY <1>2, <2>1, <3>1, <3>2, ExtendedByNone DEF Fresh
  <2>6. ASSUME NEW d \in Handles, NEW i \in DOMAIN promise'[d].continuation_promises
        PROVE  promise'[d].continuation_promises[i] <= h
    <3>1. CASE d = h
      BY <1>3, <3>1
    <3>2. CASE d # h
      <4> DEFINE old == Len(promise[d].continuation_promises)
      <4>1. /\ old \in Nat /\ Links(deps, d) \in Nat
            /\ i \in 1 .. old + Links(deps, d)
            /\ DOMAIN promise[d].continuation_promises = 1 .. old
            /\ \A j \in 1 .. old :
                 promise'[d].continuation_promises[j] = promise[d].continuation_promises[j]
            /\ \A j \in old + 1 .. old + Links(deps, d) : promise'[d].continuation_promises[j] = h
        BY <1>8, <3>2
      <4>2. i \in 1 .. old => /\ promise'[d].continuation_promises[i] \in Nat
                              /\ promise'[d].continuation_promises[i] <= handle_counter
        BY <1>15, <4>1
      <4> HIDE DEF old
      <4>3. i \in 1 .. old \/ i \in old + 1 .. old + Links(deps, d)
        BY <4>1
      <4>4. h \in Nat /\ h <= h
        BY <1>2, <1>4
      <4> QED
        BY <1>4, <1>5, <4>1, <4>2, <4>3, <4>4
    <3> QED
      BY <3>1, <3>2
  <2> QED
    BY <1>1, <2>2, <2>3, <2>4, <2>5, <2>6 DEF Fresh
<1>23. TableSound'
  <2>1. TableSound
    BY DEF Sound, Records
  <2> SUFFICES ASSUME NEW d \in table'
               PROVE  /\ promise'[d].status = outcome[d]
                      /\ promise'[d].pending_job <=> job'[d].state = "pending"
                      /\ promise'[d].reference_count > 0
    BY <1>1 DEF TableSound
  <2>2. CASE d = h
    <3>1. promise'[h].pending_job <=> job'[h].state = "pending"
      BY <1>2, <1>3
    <3>2. promise'[h].reference_count > 0
      BY <1>2, <1>3
    <3> QED
      BY <1>3, <1>6, <2>2, <3>1, <3>2
  <2>3. CASE d # h
    <3>1. d \in table /\ d \in Handles \ {h}
      BY <1>1, <1>4, <2>3
    <3>2. promise[d].reference_count > 0
      BY <1>9, <2>1, <3>1 DEF TableSound
    <3> QED
      BY <1>3, <1>8, <2>1, <3>1, <3>2 DEF TableSound
  <2> QED
    BY <2>2, <2>3
<1>24. CallbacksKept' /\ CallbacksOnce'
  <2>1. CallbacksOnce'
    BY <1>1 DEF Sound, Records, CallbacksOnce
  <2>2. CallbacksKept'
    <3> SUFFICES ASSUME NEW d \in table', NotFinished(d)'
                 PROVE  promise'[d].num_promise_callbacks = callbacks[d].added
      BY <1>1 DEF CallbacksKept
    <3>1. CASE d = h
      BY <1>3, <1>6, <3>1
    <3>2. CASE d # h
      <4>1. d \in table /\ d \in Handles \ {h}
        BY <1>1, <1>4, <3>2
      <4> QED
        BY <1>8, <1>10, <4>1 DEF Sound, Records, CallbacksKept
    <3> QED
      BY <3>1, <3>2
  <2> QED
    BY <2>1, <2>2
<1>25. FinitelyOwed'
  BY <1>16, <1>17 DEF Sound, Counted, FinitelyOwed
<1>26. ReleasesOwed'
  <2>1. ReleasesOwed
    BY DEF Sound, Counted
  <2> SUFFICES ASSUME NEW k \in Handles
               PROVE  /\ Owed(k)' # {} => k \in table' /\ promise'[k].pending_job
                      /\ k \in table' => Cardinality(Owed(k)') =
                           promise'[k].num_all_waiting_promises
                             - promise'[k].num_ended_waiting_promises
                      /\ job'[k].state = "pending" <=> Owed(k)' # {}
    BY DEF ReleasesOwed
  <2>2. CASE k # h
    <3>1. k \in table' <=> k \in table
      BY <1>1, <2>2
    <3> QED
      BY <1>3, <1>8, <1>16, <2>1, <2>2, <3>1 DEF ReleasesOwed
  <2>3. CASE k = h
    <3>1. n > 0 <=> n # 0
      BY <1>2
    <3>2. n - 0 = n
      BY <1>2
    <3> QED
      BY <1>1, <1>3, <1>17, <1>18, <2>3, <3>1, <3>2
  <2> QED
    BY <2>2, <2>3
<1>27. RefCountExact'
  <2> SUFFICES ASSUME NEW k \in table' PROVE promise'[k].reference_count = Refs(k)'
    BY RefsCountedNext
  <2>0. k \in Handles
    BY <1>1, <1>2, <1>4
  <2>1. CASE k # h
    <3>1. k \in table /\ promise[k].reference_count = Refs(k)
      BY <1>1, <2>1, Balance
    <3>2. One(JobHolds(k))' = One(JobHolds(k)) /\ One(UserHolds(k))' = One(UserHolds(k))
      BY <1>10, <1>12, <2>0, <2>1 DEF One
    <3> QED
      BY <1>8, <1>10, <2>0, <2>1, <3>1, <3>2 DEF Refs
  <2>2. CASE k = h
    <3>1. One(JobHolds(k))' = 1 /\ One(UserHolds(k))' = 1
      BY <1>10, <1>12, <2>0, <2>2 DEF One
    <3>2. Refs(k)' = 1 + 1 + (n - 0) + 0
      BY <1>3, <1>10, <2>2, <3>1 DEF Refs
    <3>3. 1 + 1 + (n - 0) + 0 = 2 + n
      BY <1>2
    <3> QED
      BY <1>3, <2>2, <3>2, <3>3
  <2> QED
    BY <2>1, <2>2
<1> QED
  BY <1>0, <1>16, <1>17, <1>19, <1>20, <1>21, <1>22, <1>23, <1>24, <1>25, <1>26, <1>27
  DEF Sound, Threads, Records, Counted

-----------------------------------------------------------------------------
(* The theorems *)

LEMMA InitSound == Init => Sound
<1> SUFFICES ASSUME Init PROVE Sound
  OBVIOUS
<1>1. TypeOK
  BY InitTyped
<1>2. \A h : ~UserHolds(h)
  BY DEF Init, UserHolds
<1>3. \A h \in Handles : ~JobHolds(h)
  BY DEF Init, JobHolds
<1>4. Threads
  BY <1>2, <1>3, NoThreadAssumption
  DEF Init, Threads, Locked, WorkersSound, JobsSound, UsersSound, HeldOnce
<1>5. Fresh
  <2>1. \A h \in Handles : h > 0
    BY DEF Handles
  <2>2. \A h \in Handles : promise[h] = NoPromise
    BY DEF Init
  <2>3. \A h \in Handles : DOMAIN promise[h].continuation_promises = {}
    BY <2>2, NoPromiseType
  <2> QED
    BY <2>1, <2>2, <2>3 DEF Init, Fresh
<1>6. TableSound /\ CallbacksKept /\ CallbacksOnce
  BY DEF Init, TableSound, CallbacksKept, CallbacksOnce
<1>7. \A h \in Handles : Owed(h) = {}
  BY DEF Init, Owed
<1>8. FinitelyOwed
  BY <1>7, FS_EmptySet DEF FinitelyOwed
<1>9. ReleasesOwed /\ RefCountExact
  BY <1>7 DEF Init, ReleasesOwed, RefCountExact
<1> QED
  BY <1>4, <1>5, <1>6, <1>8, <1>9 DEF Sound, Records, Counted

LEMMA StepSound == TypeOK /\ Sound /\ [Next]_vars => Sound'
<1> SUFFICES ASSUME TypeOK, Sound, [Next]_vars PROVE Sound'
  OBVIOUS
<1>0. TypeOK'
  BY StepTyped
<1>1. ASSUME NEW c \in Clients, ClientStep(c) PROVE Sound'
  BY <1>0, <1>1, SoundSignalInvoke, SoundClientSteps DEF ClientStep
<1>2. ASSUME NEW c \in Clients, ClientCall(c) PROVE Sound'
  <2>1. CASE \E deps \in Dependencies :
               \/ Invoke(c, deps)
               \/ \E n \in 0 .. Len(deps) : InvokeFails(c, deps, n)
    BY <1>0, <2>1, SoundInvoke, SoundInvokeFails
  <2>2. CASE \E h \in Handles : Await(c, h) \/ Detach(c, h) \/ AddCallback(c, h)
    BY <1>0, <2>2, SoundClientSteps, SoundAddCallback
  <2>3. CASE (client[c].pc = "idle" /\ AwaitAll(c)) \/ SpuriousWakeup(c)
    BY <1>0, <2>3, SoundClientSteps
  <2> QED
    BY <1>2, <2>1, <2>2, <2>3 DEF ClientCall
<1>3. ASSUME NEW w \in Workers, WorkerStep(w) PROVE Sound'
  BY <1>3, SoundRun, SoundComplete, SoundRelease, SoundFinish DEF WorkerStep
<1>4. ASSUME Quiet \/ UNCHANGED vars PROVE Sound'
  <2>1. UNCHANGED <<table, promise, handle_counter, mutex, job, worker, client, user,
                    outcome, callbacks>>
    BY <1>4 DEF Quiet, vars, jobVars, histories
  <2>2. \A h : UserHolds(h)' <=> UserHolds(h)
    BY <2>1 DEF UserHolds
  <2>3. UsersSound'
    BY <2>1, <2>2 DEF Sound, Threads, UsersSound, HeldOnce
  <2> QED
    BY <2>1, <2>2, <2>3, ClientsOnly
<1> QED
  BY <1>1, <1>2, <1>3, <1>4 DEF Next

LEMMA AlwaysSound == Spec => [](TypeOK /\ Sound)
<1>1. Init => TypeOK /\ Sound
  BY InitTyped, InitSound
<1>2. TypeOK /\ Sound /\ [Next]_vars => (TypeOK /\ Sound)'
  BY StepTyped, StepSound
<1> QED
  BY <1>1, <1>2, PTL DEF Spec

(***************************************************************************)
(* A pending promise waits for exactly as many releases as the lists of    *)
(* the others hold for it, so that armd__context_complete_promise releases *)
(* a job once, and with the last of its dependencies.                      *)
(***************************************************************************)
THEOREM PendingCountsExact == Spec => []ReleasesOwed
<1>1. Sound => ReleasesOwed
  BY DEF Sound, Counted
<1> QED
  BY <1>1, AlwaysSound, PTL

(***************************************************************************)
(* The reference count of a promise is the number of those who are still   *)
(* to drop one.                                                            *)
(***************************************************************************)
THEOREM ReferenceCountsExact == Spec => []RefCountExact
<1>1. Sound => RefCountExact
  BY DEF Sound, Counted
<1> QED
  BY <1>1, AlwaysSound, PTL

(***************************************************************************)
(* A promise that somebody waits for, is to complete or is completing has  *)
(* not been destroyed.                                                     *)
(***************************************************************************)
THEOREM NoPromiseUsedAfterFree == Spec => []NoUseAfterFree
<1>1. TypeOK /\ Sound => NoUseAfterFree
  <2> SUFFICES ASSUME TypeOK, Sound PROVE NoUseAfterFree
    OBVIOUS
  <2>1. \A c \in Clients : client[c].pc = "await" => client[c].handle \in table
    BY DEF Sound, Threads, UsersSound, UserHolds, TypeOK, Pointers
  <2>2. \A h \in Handles : JobHolds(h) => h \in table
    BY DEF Sound, Threads, JobsSound
  <2>3. \A w \in Workers : worker[w].pc = "release" => worker[w].handle \in table
    BY DEF Sound, Threads, WorkersSound
  <2> QED
    BY <2>1, <2>2, <2>3 DEF NoUseAfterFree
<1> QED
  BY <1>1, AlwaysSound, PTL

(***************************************************************************)
(* Every callback that armd_add_promise_callback accepted is called once,  *)
(* and not before the promise is completed.                                *)
(***************************************************************************)
THEOREM CallbacksCalledOnce == Spec => []CallbacksOnce
<1>1. Sound => CallbacksOnce
  BY DEF Sound, Records
<1> QED
  BY <1>1, AlwaysSound, PTL

(***************************************************************************)
(* When the application has given back its handles and all jobs have ended *)
(* the table of promises is empty.                                         *)
(***************************************************************************)
THEOREM NoPromiseLeaked == Spec => []NoLeak
<1>1. TypeOK /\ Sound => NoLeak
  <2> SUFFICES ASSUME TypeOK, Sound,
                      \A h \in Handles : ~UserHolds(h) /\ job[h].state \in {"none", "ended"},
                      NEW h \in table
               PROVE  FALSE
    BY DEF NoLeak
  <2>1. h \in Handles /\ job[h].state = "ended"
    BY InTable
  <2>2. outcome[h] # "NotFinished" /\ promise[h].status # "NotFinished"
    BY <2>1, InTable DEF Sound, Threads, JobsSound
  <2>3. ~JobHolds(h) /\ ~UserHolds(h)
    BY <2>1, <2>2 DEF JobHolds
  <2>4. promise[h].num_all_waiting_promises - promise[h].num_ended_waiting_promises = 0
    <3>1. Owed(h) = {}
      BY <2>1 DEF Sound, Counted, ReleasesOwed
    <3> QED
      BY <3>1, Balance
  <2>5. promise[h].reference_count = 0
    <3>1. One(JobHolds(h)) = 0 /\ One(UserHolds(h)) = 0
      BY <2>3 DEF One
    <3>2. Refs(h) = 0 + 0 + 0 + 0
      BY <2>2, <2>4, <3>1 DEF Refs, NotFinished
    <3> QED
      BY <3>2, Balance
  <2>6. \A w \in Workers : worker[w].pc = "release" => worker[w].handle # h
    BY <2>1 DEF Sound, Threads, WorkersSound
  <2> QED
    BY <2>5, <2>6 DEF Sound, Records, TableSound
<1> QED
  BY <1>1, AlwaysSound, PTL

-----------------------------------------------------------------------------
(***************************************************************************)
(* The promises of a context: the theorem that they implement the task     *)
(* flow, for any number of threads and promises.                           *)
(***************************************************************************)

-----------------------------------------------------------------------------
(* The inductive invariant *)

Owes(d, h) == \E i : <<d, i>> \in Owed(h)

\* What h knows of its dependencies: an error has reached it.
Warned(h) ==
    \/ job[h].state = "pending" /\ promise[h].dependency_has_error
    \/ job[h].state # "pending" /\ job[h].dependency_has_error

\* A dependency is still to tell, or there is nothing to tell, or it has told.
Informed ==
    \A h \in Handles : job[h].state # "none" => \A d \in dependencies[h] :
        \/ Owes(d, h)
        \/ outcome[d] = "Success"
        \/ outcome[d] = "Error" /\ Warned(h)

\* A worker passes on the error of its job.
Heeded == \A w \in Workers : worker[w].pc # "idle" =>
    /\ job[worker[w].handle].dependency_has_error => worker[w].has_error
    /\ outcome[worker[w].handle] = "Error" => worker[w].has_error

\* Who has been told the result no longer holds the handle.
Untold == \A h \in Handles :
    observed[h] # "NotFinished" => job[h].state # "none" /\ ~UserHolds(h)

Known == Informed /\ Heeded /\ Untold

-----------------------------------------------------------------------------
(* The steps of TaskFlow *)

TaskOf(h) ==
    IF outcome[h] # "NotFinished" THEN outcome[h]
    ELSE IF job[h].state = "none" THEN "none"
    ELSE IF job[h].state = "running" THEN "started"
    ELSE "submitted"

LEMMA Stutters ==
    ASSUME \A h \in Handles : TaskOf(h)' = TaskOf(h), UNCHANGED <<dependencies, observed>>
    PROVE  UNCHANGED Flow!vars
BY DEF Flow!vars, TaskOf

LEMMA Submits ==
    ASSUME NEW t \in Handles, NEW deps \in SUBSET Handles,
           TaskOf(t) = "none", \A d \in deps : TaskOf(d) # "none",
           TaskOf(t)' = "submitted", \A h \in Handles \ {t} : TaskOf(h)' = TaskOf(h),
           dependencies' = [dependencies EXCEPT ![t] = deps], UNCHANGED observed
    PROVE  Flow!Next
<1>1. Flow!Submit(t, deps)
  BY DEF Flow!Submit, TaskOf
<1> QED
  BY <1>1 DEF Flow!Next

LEMMA Starts ==
    ASSUME NEW t \in Handles, dependencies[t] \subseteq Handles,
           TaskOf(t) = "submitted", \A d \in dependencies[t] : TaskOf(d) \in {"Success", "Error"},
           TaskOf(t)' = "started", \A h \in Handles \ {t} : TaskOf(h)' = TaskOf(h),
           UNCHANGED <<dependencies, observed>>
    PROVE  Flow!Next
<1>1. Flow!Start(t)
  BY DEF Flow!Start, Flow!Ended, TaskOf
<1> QED
  BY <1>1 DEF Flow!Next, Flow!Run

LEMMA Ends ==
    ASSUME NEW t \in Handles, dependencies[t] \subseteq Handles,
           NEW result \in {"Success", "Error"},
           TaskOf(t) = "started",
           (\E d \in dependencies[t] : TaskOf(d) = "Error") => result = "Error",
           TaskOf(t)' = result, \A h \in Handles \ {t} : TaskOf(h)' = TaskOf(h),
           UNCHANGED <<dependencies, observed>>
    PROVE  Flow!Next
<1>1. Flow!End(t, result)
  BY DEF Flow!End, TaskOf
<1> QED
  BY <1>1 DEF Flow!Next, Flow!Run

LEMMA Tells ==
    ASSUME NEW t \in Handles, TaskOf(t) \in {"Success", "Error"}, observed[t] = "NotFinished",
           \A h \in Handles : TaskOf(h)' = TaskOf(h),
           UNCHANGED dependencies, observed' = [observed EXCEPT ![t] = TaskOf(t)]
    PROVE  Flow!Next
<1>1. Flow!Tell(t)
  BY DEF Flow!Tell, Flow!Ended, TaskOf
<1> QED
  BY <1>1 DEF Flow!Next

Refines == Known' /\ [Flow!Next]_(Flow!vars)

-----------------------------------------------------------------------------
(* Steps that tell nobody anything *)

LEMMA InformedKept ==
    ASSUME TypeOK, Informed, LinksKept, UNCHANGED dependencies,
           \A d \in Handles : outcome[d] # "NotFinished" => outcome'[d] = outcome[d],
           \A h \in Handles : /\ job'[h].state = "none" <=> job[h].state = "none"
                              /\ job'[h].state = "pending" <=> job[h].state = "pending"
                              /\ job'[h].dependency_has_error = job[h].dependency_has_error,
           \A h \in Handles : job[h].state = "pending" =>
               promise'[h].dependency_has_error = promise[h].dependency_has_error
    PROVE  Informed'
<1> SUFFICES ASSUME NEW h \in Handles, job'[h].state # "none", NEW d \in dependencies[h]
             PROVE  \/ Owes(d, h)'
                    \/ outcome'[d] = "Success"
                    \/ outcome'[d] = "Error" /\ Warned(h)'
  BY DEF Informed
<1>1. d \in Handles
  BY DEF TypeOK
<1>2. Owes(d, h)' <=> Owes(d, h)
  BY DEF Owes, LinksKept
<1>3. Warned(h)' <=> Warned(h)
  BY DEF Warned
<1>4. \/ Owes(d, h)
      \/ outcome[d] = "Success"
      \/ outcome[d] = "Error" /\ Warned(h)
  BY DEF Informed
<1> QED
  BY <1>1, <1>2, <1>3, <1>4

LEMMA ClientKnows ==
    ASSUME TypeOK, Known, LinksKept, UNCHANGED <<job, worker, outcome, dependencies>>,
           \A h \in Handles : job[h].state = "pending" =>
               promise'[h].dependency_has_error = promise[h].dependency_has_error
    PROVE  /\ Informed' /\ Heeded'
           /\ \A h \in Handles : TaskOf(h)' = TaskOf(h)
<1>1. Informed'
  BY InformedKept DEF Known
<1>2. Heeded'
  BY DEF Known, Heeded
<1> QED
  BY <1>1, <1>2 DEF TaskOf

LEMMA ClientRefines ==
    ASSUME TypeOK, Known, LinksKept, UNCHANGED <<job, worker, outcome, dependencies, observed>>,
           \A h \in Handles : job[h].state = "pending" =>
               promise'[h].dependency_has_error = promise[h].dependency_has_error,
           \A h \in Handles : UserHolds(h)' => UserHolds(h)
    PROVE  Refines
<1>1. /\ Informed' /\ Heeded'
      /\ \A h \in Handles : TaskOf(h)' = TaskOf(h)
  BY ClientKnows
<1>2. Untold'
  BY DEF Known, Untold
<1>3. UNCHANGED Flow!vars
  BY <1>1, Stutters
<1> QED
  BY <1>1, <1>2, <1>3 DEF Refines, Known

\* A promise whose job is pending does not go with its handle.
LEMMA LetGoKeeps ==
    ASSUME TypeOK, Sound, NEW h \in table, UserHolds(h), LetGo(h)
    PROVE  \A k \in Handles : job[k].state = "pending" =>
               promise'[k].dependency_has_error = promise[k].dependency_has_error
<1> SUFFICES ASSUME NEW k \in Handles, job[k].state = "pending"
             PROVE  promise'[k].dependency_has_error = promise[k].dependency_has_error
  OBVIOUS
<1>1. CASE k # h
  BY <1>1 DEF LetGo
<1>2. CASE k = h
  <2>1. JobHolds(h)
    BY <1>2 DEF Sound, Threads, JobsSound, JobHolds
  <2>2. promise[h].reference_count # 1
    BY <2>1, Balance
  <2> QED
    BY <1>2, <2>2 DEF LetGo, SameBut
<1> QED
  BY <1>1, <1>2

-----------------------------------------------------------------------------
(* The application *)

LEMMA SignalInvokeRefines ==
    ASSUME TypeOK, Sound, Known, NEW c \in Clients, SignalInvoke(c)
    PROVE  Refines
<1>1. /\ client[c].pc = "signal"
      /\ user' = user \cup {client[c].handle}
      /\ client' = [client EXCEPT ![c] = IdleClient]
      /\ UNCHANGED <<promise, job, worker, outcome, dependencies, observed>>
  BY DEF SignalInvoke, histories
<1>2. /\ \A d \in Clients \ {c} : client'[d] = client[d]
      /\ client'[c].pc = "idle"
  BY <1>1 DEF TypeOK, IdleClient
<1>3. \A k : UserHolds(k)' => UserHolds(k)
  BY <1>1, <1>2, ClientHolds
<1> QED
  BY <1>1, <1>3, SoundSignalInvoke, ClientRefines

LEMMA AwaitOrSleepRefines ==
    ASSUME TypeOK, TypeOK', Sound, Known, mutex = NoThread, NEW c \in Clients, NEW h \in table,
           AwaitOrSleep(c, h),
           UNCHANGED <<handle_counter, mutex, job, worker, outcome, callbacks, dependencies>>,
           \/ client[c].pc = "idle" /\ h \in user /\ user' = user \ {h}
           \/ client[c].pc = "await" /\ client[c].handle = h /\ user' = user
    PROVE  Refines
<1>1. h \in Handles
  BY DEF TypeOK
<1>2. UserHolds(h)
  BY DEF UserHolds
<1>3. HeldOnce
  BY DEF Sound, Threads, UsersSound
<1>4. client \in [Clients -> [pc: {"idle", "signal", "await", "await_all"},
                              handle: 0 .. MaxHandles, asleep: BOOLEAN]]
  BY DEF TypeOK
<1>5. LinksKept
  BY SoundAwaitOrSleep
<1>6. CASE /\ client' = [client EXCEPT ![c] = [pc |-> "await", handle |-> h, asleep |-> TRUE]]
           /\ UNCHANGED <<table, promise, observed>>
  <2>1. /\ \A d \in Clients \ {c} : client'[d] = client[d]
        /\ client'[c].pc = "await" /\ client'[c].handle = h
    BY <1>4, <1>6
  <2>2. \A k : UserHolds(k)' => UserHolds(k)
    BY <2>1, ClientHolds
  <2> QED
    BY <1>5, <1>6, <2>2, ClientRefines
<1>7. CASE /\ promise[h].status # "NotFinished"
           /\ client' = [client EXCEPT ![c] = IdleClient]
           /\ observed' = [observed EXCEPT ![h] = promise[h].status]
           /\ LetGo(h)
  <2>1. /\ \A d \in Clients \ {c} : client'[d] = client[d]
        /\ client'[c].pc = "idle"
    BY <1>4, <1>7 DEF IdleClient
  <2>2. \A d \in Clients \ {c} : ~(client[d].pc \in {"signal", "await"} /\ client[d].handle = h)
    BY <1>3 DEF HeldOnce
  <2>3. h \notin user'
    BY <1>3 DEF HeldOnce
  <2>4. \A k \in Handles : UserHolds(k)' <=> UserHolds(k) /\ k # h
    BY <2>1, <2>2, <2>3, ClientHolds
  <2>5. /\ Informed' /\ Heeded'
        /\ \A k \in Handles : TaskOf(k)' = TaskOf(k)
    BY <1>2, <1>5, <1>7, LetGoKeeps, ClientKnows
  <2>6. promise[h].status = outcome[h] /\ job[h].state # "none"
    BY InTable
  <2>7. observed \in [Handles -> Status] /\ outcome \in [Handles -> Status]
    BY Types
  <2>8. Untold'
    BY <1>1, <1>7, <2>4, <2>6, <2>7 DEF Known, Untold
  <2>9. observed[h] = "NotFinished"
    BY <1>1, <1>2 DEF Known, Untold
  <2>10. TaskOf(h) = promise[h].status /\ TaskOf(h) \in {"Success", "Error"}
    BY <1>1, <1>7, <2>6, <2>7 DEF TaskOf, Status
  <2>11. observed' = [observed EXCEPT ![h] = TaskOf(h)]
    BY <1>7, <2>10
  <2>12. Flow!Next
    BY <1>1, <2>5, <2>9, <2>10, <2>11, Tells
  <2> QED
    BY <2>5, <2>8, <2>12 DEF Refines, Known
<1> QED
  BY <1>1, <1>6, <1>7, AwaitOrSleepEffect

LEMMA ClientStepsRefine ==
    ASSUME TypeOK, TypeOK', Sound, Known, NEW c \in Clients
    PROVE  /\ AwaitAgain(c) => Refines
           /\ AwaitAll(c) => Refines
           /\ SpuriousWakeup(c) => Refines
           /\ \A h \in Handles : (Await(c, h) \/ Detach(c, h)) \/ AddCallback(c, h) => Refines
<1>1. client \in [Clients -> [pc: {"idle", "signal", "await", "await_all"},
                              handle: 0 .. MaxHandles, asleep: BOOLEAN]]
  BY DEF TypeOK
<1>2. ASSUME AwaitAgain(c) PROVE Refines
  <2> DEFINE h == client[c].handle
  <2>1. h \in table
    <3>1. h \in Handles /\ UserHolds(h)
      BY <1>2 DEF AwaitAgain, TypeOK, Pointers, UserHolds
    <3> QED
      BY <3>1 DEF Sound, Threads, UsersSound
  <2>2. /\ AwaitOrSleep(c, h)
        /\ mutex = NoThread
        /\ UNCHANGED <<handle_counter, mutex, job, worker, outcome, callbacks, dependencies>>
        /\ client[c].pc = "await" /\ client[c].handle = h /\ user' = user
    BY <1>2 DEF AwaitAgain, jobVars
  <2> QED
    BY <2>1, <2>2, AwaitOrSleepRefines
<1>3. ASSUME AwaitAll(c) PROVE Refines
  <2>1. UNCHANGED <<promise, job, worker, user, outcome, dependencies, observed>>
    BY <1>3 DEF AwaitAll, jobVars, histories
  <2>2. \A d \in Clients \ {c} : client'[d] = client[d]
    BY <1>1, <1>3 DEF AwaitAll
  <2>3. client'[c].pc \in {"idle", "await_all"}
    BY <1>1, <1>3 DEF AwaitAll, IdleClient
  <2>4. \A k : UserHolds(k)' => UserHolds(k)
    BY <2>1, <2>2, <2>3, ClientHolds
  <2> QED
    BY <1>3, <2>1, <2>4, SoundClientSteps, ClientRefines
<1>4. ASSUME SpuriousWakeup(c) PROVE Refines
  <2>1. UNCHANGED <<promise, job, worker, user, outcome, dependencies, observed>>
    BY <1>4 DEF SpuriousWakeup, jobVars, histories
  <2>2. \A d \in Clients \ {c} : client'[d] = client[d]
    BY <1>1, <1>4 DEF SpuriousWakeup
  <2>3. client'[c].pc = client[c].pc /\ client'[c].handle = client[c].handle
    BY <1>1, <1>4 DEF SpuriousWakeup
  <2>4. \A k : UserHolds(k)' => UserHolds(k)
    BY <2>1, <2>2, <2>3, ClientHolds
  <2> QED
    BY <1>4, <2>1, <2>4, SoundClientSteps, ClientRefines
<1>5. ASSUME NEW h \in Handles, Await(c, h) PROVE Refines
  <2>1. /\ h \in table
        /\ AwaitOrSleep(c, h)
        /\ mutex = NoThread
        /\ UNCHANGED <<handle_counter, mutex, job, worker, outcome, callbacks, dependencies>>
        /\ client[c].pc = "idle" /\ h \in user /\ user' = user \ {h}
    BY <1>5 DEF Await, jobVars
  <2> QED
    BY <2>1, AwaitOrSleepRefines
<1>6. ASSUME NEW h \in Handles, Detach(c, h) PROVE Refines
  <2>1. /\ h \in table /\ h \in user
        /\ user' = user \ {h}
        /\ UNCHANGED <<job, worker, client, outcome, dependencies, observed>>
    BY <1>6 DEF Detach, jobVars, histories
  <2>2. LetGo(h) /\ UserHolds(h)
    BY <1>6, <2>1, DetachEffect DEF UserHolds
  <2>3. \A k : UserHolds(k)' => UserHolds(k)
    BY <2>1 DEF UserHolds
  <2> QED
    BY <1>6, <2>1, <2>2, <2>3, SoundClientSteps, LetGoKeeps, ClientRefines
<1>7. ASSUME NEW h \in Handles, AddCallback(c, h) PROVE Refines
  <2>1. UNCHANGED <<job, worker, client, user, outcome, dependencies, observed>>
    BY <1>7 DEF AddCallback, jobVars
  <2>2. \A k \in Handles : promise'[k].dependency_has_error = promise[k].dependency_has_error
    BY <1>7, AddCallbackEffect
  <2>3. \A k : UserHolds(k)' => UserHolds(k)
    BY <2>1 DEF UserHolds
  <2> QED
    BY <1>7, <2>1, <2>2, <2>3, SoundAddCallback, ClientRefines
<1> QED
  BY <1>2, <1>3, <1>4, <1>5, <1>6, <1>7

-----------------------------------------------------------------------------
(* armd_invoke *)

LEMMA InvokeFailsRefines ==
    ASSUME TypeOK, Sound, Known, NEW c \in Clients, NEW deps \in Dependencies,
           NEW n \in 0 .. Len(deps), InvokeFails(c, deps, n)
    PROVE  Refines
<1>1. UNCHANGED <<job, worker, client, user, outcome, dependencies, observed>>
  BY DEF InvokeFails, jobVars, histories
<1>2. \A k : UserHolds(k)' => UserHolds(k)
  BY <1>1 DEF UserHolds
<1> QED
  BY <1>1, <1>2, SoundInvokeFails, ClientRefines

LEMMA InvokeRefines ==
    ASSUME TypeOK, TypeOK', Sound, Known, NEW c \in Clients, NEW deps \in Dependencies,
           Invoke(c, deps)
    PROVE  Refines
<1>0. PICK h : h = handle_counter + 1
  OBVIOUS
<1>1. /\ client' = [client EXCEPT ![c] = [pc |-> "signal", handle |-> h, asleep |-> FALSE]]
      /\ UNCHANGED <<worker, user, outcome, observed>>
  BY <1>0 DEF Invoke
<1>2. /\ h \in Handles
      /\ deps \in Seq(Nat)
      /\ \A i \in DOMAIN deps : deps[i] # 0 => deps[i] \in table
      /\ promise' \in [Handles -> PromiseRecord]
      /\ \A d \in Handles \ {h} : Links(deps, d) \in Nat /\ Extended(d, Links(deps, d), h)
      /\ promise'[h].dependency_has_error = HasError(deps)
      /\ \A d \in Handles \ {h} : job'[d] = job[d]
      /\ job'[h].state \in {"queued", "pending"}
      /\ job'[h].dependency_has_error = HasError(deps)
      /\ dependencies'[h] \in SUBSET Handles
      /\ dependencies' = [dependencies EXCEPT ![h] = dependencies'[h]]
      /\ \A d : d \in dependencies'[h] <=> d # 0 /\ \E i \in DOMAIN deps : deps[i] = d
  BY <1>0, InvokeEffect
<1>3. /\ \A k \in Handles \ {h} : Owed(k)' = Owed(k)
      /\ \A d \in table : Links(deps, d) # 0 => \E i : <<d, i>> \in Owed(h)'
  BY <1>0, SoundInvoke
<1>4. /\ table \subseteq Handles
      /\ handle_counter \in Nat
      /\ outcome \in [Handles -> Status]
      /\ dependencies \in [Handles -> SUBSET Handles]
      /\ client \in [Clients -> [pc: {"idle", "signal", "await", "await_all"},
                                 handle: 0 .. MaxHandles, asleep: BOOLEAN]]
  BY Types DEF TypeOK
<1>5. job[h].state = "none" /\ outcome[h] = "NotFinished"
  <2>1. h > handle_counter
    BY <1>0, <1>4
  <2> QED
    BY <1>2, <2>1 DEF Sound, Records, Fresh, Threads, JobsSound
<1>6. \A d \in Handles \ {h} :
        /\ promise'[d].dependency_has_error = promise[d].dependency_has_error
        /\ dependencies'[d] = dependencies[d]
  <2>1. \A d \in Handles \ {h} :
          promise'[d].dependency_has_error = promise[d].dependency_has_error
    BY <1>2, ExtendedFields
  <2>2. \A d \in Handles \ {h} : dependencies'[d] = dependencies[d]
    BY <1>2, <1>4
  <2> QED
    BY <2>1, <2>2
<1>7. ASSUME NEW d \in dependencies'[h]
      PROVE  /\ d \in table
             /\ NotFinished(d) => Owes(d, h)'
             /\ promise[d].status = "Error" => HasError(deps)
             /\ promise[d].status = outcome[d]
             /\ outcome[d] \in Status
             /\ job[d].state # "none"
  <2>1. PICK i \in DOMAIN deps : deps[i] = d
    BY <1>2
  <2>2. d # 0 /\ d \in table
    BY <1>2, <2>1
  <2>3. ASSUME NotFinished(d) PROVE Owes(d, h)'
    <3>1. PICK S : S = {j \in Awaited(deps) : deps[j] = d}
      OBVIOUS
    <3>2. i \in S
      BY <2>1, <2>2, <2>3, <3>1 DEF Awaited
    <3>3. IsFiniteSet({j \in Awaited(deps) : deps[j] = d})
      BY <1>2, AwaitedFinite
    <3>4. Links(deps, d) = Cardinality(S)
      BY <3>1 DEF Links
    <3>5. Links(deps, d) # 0
      BY <3>1, <3>2, <3>3, <3>4, FS_EmptySet
    <3> QED
      BY <1>3, <2>2, <3>5 DEF Owes
  <2>4. promise[d].status = "Error" => HasError(deps)
    BY <2>1, <2>2 DEF HasError
  <2> QED
    BY <1>4, <2>2, <2>3, <2>4, InTable
<1>8. Informed'
  <2> SUFFICES ASSUME NEW k \in Handles, job'[k].state # "none", NEW d \in dependencies'[k]
               PROVE  \/ Owes(d, k)'
                      \/ outcome[d] = "Success"
                      \/ outcome[d] = "Error" /\ Warned(k)'
    BY <1>1 DEF Informed
  <2>1. CASE k = h
    <3>1. HasError(deps) => Warned(h)'
      BY <1>2 DEF Warned
    <3> QED
      BY <1>7, <2>1, <3>1 DEF NotFinished, Status
  <2>2. CASE k # h
    <3>1. Owes(d, k)' <=> Owes(d, k)
      BY <1>3, <2>2 DEF Owes
    <3>2. Warned(k)' <=> Warned(k)
      BY <1>2, <1>6, <2>2 DEF Warned
    <3>3. job[k].state # "none" /\ d \in dependencies[k]
      BY <1>2, <1>6, <2>2
    <3> QED
      BY <3>1, <3>2, <3>3 DEF Known, Informed
  <2> QED
    BY <2>1, <2>2
<1>9. Heeded'
  <2>1. \A w \in Workers : worker[w].pc # "idle" => worker[w].handle \in Handles \ {h}
    BY <1>5 DEF Sound, Threads, WorkersSound, TypeOK, Pointers
  <2> QED
    BY <1>1, <1>2, <2>1 DEF Known, Heeded
<1>10. Untold'
  <2>1. /\ \A d \in Clients \ {c} : client'[d] = client[d]
        /\ client'[c].pc = "signal" /\ client'[c].handle = h
    BY <1>1, <1>4
  <2>2. client[c].pc = "idle"
    BY DEF Invoke
  <2>3. \A k : UserHolds(k)' => UserHolds(k) \/ k = h
    BY <1>1, <2>1, <2>2, ClientHolds
  <2>4. observed[h] = "NotFinished"
    BY <1>2, <1>5 DEF Known, Untold
  <2> QED
    BY <1>1, <1>2, <2>3, <2>4 DEF Known, Untold
<1>11. /\ TaskOf(h) = "none"
       /\ TaskOf(h)' = "submitted"
       /\ \A d \in Handles \ {h} : TaskOf(d)' = TaskOf(d)
  <2>1. TaskOf(h) = "none"
    BY <1>5 DEF TaskOf
  <2>2. TaskOf(h)' = "submitted"
    BY <1>1, <1>2, <1>5 DEF TaskOf
  <2>3. \A d \in Handles \ {h} : TaskOf(d)' = TaskOf(d)
    BY <1>1, <1>2 DEF TaskOf
  <2> QED
    BY <2>1, <2>2, <2>3
<1>12. \A d \in dependencies'[h] : TaskOf(d) # "none"
  BY <1>7 DEF TaskOf, Status
<1>13. Flow!Next
  <2>1. PICK D : D = dependencies'[h]
    OBVIOUS
  <2>2. D \in SUBSET Handles /\ dependencies' = [dependencies EXCEPT ![h] = D]
    BY <1>2, <2>1
  <2>3. \A d \in D : TaskOf(d) # "none"
    BY <1>12, <2>1
  <2> QED
    BY <1>1, <1>2, <1>11, <2>2, <2>3, Submits
<1> QED
  BY <1>8, <1>9, <1>10, <1>13 DEF Refines, Known

-----------------------------------------------------------------------------
(* The workers *)

\* What is not pending waits for nobody.
LEMMA NobodyOwes ==
    ASSUME Sound, Known, NEW h \in Handles, job[h].state # "none", job[h].state # "pending",
           NEW d \in dependencies[h]
    PROVE  outcome[d] = "Success" \/ (outcome[d] = "Error" /\ job[h].dependency_has_error)
<1>1. Owed(h) = {}
  BY DEF Sound, Counted, ReleasesOwed
<1>2. ~Owes(d, h)
  BY <1>1 DEF Owes
<1> QED
  BY <1>2 DEF Known, Informed, Warned

LEMMA RunRefines ==
    ASSUME TypeOK, Sound, Known, NEW w \in Workers, NEW h \in Handles, NEW e \in BOOLEAN,
           Run(w, h, e)
    PROVE  Refines
<1>1. /\ job[h].state = "queued"
      /\ job[h].dependency_has_error => e
      /\ job' = [job EXCEPT ![h].state = "running"]
      /\ worker' = [worker EXCEPT ![w] = [pc |-> "complete", handle |-> h,
                                          has_error |-> e, i |-> 0]]
      /\ UNCHANGED <<promise, client, user, outcome, dependencies, observed>>
  BY DEF Run, histories
<1>2. /\ worker'[w].pc = "complete"
      /\ worker'[w].handle = h
      /\ worker'[w].has_error <=> e
      /\ \A v \in Workers \ {w} : worker'[v] = worker[v]
      /\ job'[h].state = "running"
      /\ \A d \in Handles \ {h} : job'[d] = job[d]
  BY <1>1, Types
<1>3. \A d \in Handles : job'[d].dependency_has_error = job[d].dependency_has_error
  BY <1>1, Types
<1>4. outcome[h] = "NotFinished"
  BY <1>1 DEF Sound, Threads, JobsSound
<1>5. Informed'
  BY <1>1, <1>2, <1>3, SoundRun, InformedKept DEF Known
<1>6. Heeded'
  BY <1>1, <1>2, <1>3, <1>4 DEF Known, Heeded, TypeOK, Pointers
<1>7. Untold'
  BY <1>1, <1>2 DEF Known, Untold, UserHolds
<1>8. /\ TaskOf(h) = "submitted"
      /\ TaskOf(h)' = "started"
      /\ \A d \in Handles \ {h} : TaskOf(d)' = TaskOf(d)
  BY <1>1, <1>2, <1>4 DEF TaskOf
<1>9. dependencies[h] \subseteq Handles
  BY DEF TypeOK
<1>10. \A d \in dependencies[h] : TaskOf(d) \in {"Success", "Error"}
  BY <1>1, NobodyOwes DEF TaskOf
<1>11. Flow!Next
  BY <1>1, <1>8, <1>9, <1>10, Starts
<1> QED
  BY <1>5, <1>6, <1>7, <1>11 DEF Refines, Known

LEMMA CompleteRefines ==
    ASSUME TypeOK, Sound, Known, NEW w \in Workers, Complete(w)
    PROVE  Refines
<1>0. PICK h, s : h = worker[w].handle /\ s = StatusOf(worker[w].has_error)
  OBVIOUS
<1>1. /\ mutex = NoThread
      /\ worker[w].pc = "complete"
      /\ outcome' = [outcome EXCEPT ![h] = s]
      /\ worker' = [worker EXCEPT ![w] = [@ EXCEPT !.pc = "release", !.i = 1]]
      /\ UNCHANGED <<job, client, user, dependencies, observed>>
  BY <1>0 DEF Complete, jobVars
<1>2. /\ h \in Handles
      /\ s \in {"Success", "Error"}
      /\ \A d \in Handles : promise'[d].dependency_has_error = promise[d].dependency_has_error
  BY <1>0, CompleteEffect
<1>3. s = "Error" <=> worker[w].has_error
  BY <1>0, Types DEF StatusOf
<1>4. outcome[h] = "NotFinished" /\ job[h].state = "running"
  BY <1>0, <1>1 DEF Sound, Threads, WorkersSound
<1>5. /\ outcome'[h] = s
      /\ \A d \in Handles \ {h} : outcome'[d] = outcome[d]
  BY <1>1, <1>2, Types
<1>6. /\ worker'[w].handle = h
      /\ worker'[w].has_error = worker[w].has_error
      /\ \A v \in Workers \ {w} : worker'[v] = worker[v]
  BY <1>0, <1>1, Types
<1>7. Informed'
  BY <1>1, <1>2, <1>4, <1>5, SoundComplete, InformedKept DEF Known
<1>8. Heeded'
  <2> SUFFICES ASSUME NEW v \in Workers, worker'[v].pc # "idle"
               PROVE  /\ job[worker'[v].handle].dependency_has_error => worker'[v].has_error
                      /\ outcome'[worker'[v].handle] = "Error" => worker'[v].has_error
    BY <1>1 DEF Heeded
  <2>1. CASE v = w
    BY <1>0, <1>1, <1>3, <1>5, <1>6, <2>1 DEF Known, Heeded
  <2>2. CASE v # w
    <3>1. worker[v].handle # h /\ worker[v].handle \in Handles
      BY <1>0, <1>1, <1>6, <2>2 DEF Sound, Threads, WorkersSound, TypeOK, Pointers
    <3> QED
      BY <1>5, <1>6, <2>2, <3>1 DEF Known, Heeded
  <2> QED
    BY <2>1, <2>2
<1>9. Untold'
  BY <1>1 DEF Known, Untold, UserHolds
<1>10. /\ TaskOf(h) = "started"
       /\ TaskOf(h)' = s
       /\ \A d \in Handles \ {h} : TaskOf(d)' = TaskOf(d)
  <2>1. TaskOf(h) = "started"
    BY <1>4 DEF TaskOf
  <2>2. TaskOf(h)' = s
    BY <1>2, <1>5 DEF TaskOf
  <2> QED
    BY <1>1, <1>5, <2>1, <2>2 DEF TaskOf
<1>11. (\E d \in dependencies[h] : TaskOf(d) = "Error") => s = "Error"
  <2> SUFFICES ASSUME NEW d \in dependencies[h], TaskOf(d) = "Error" PROVE s = "Error"
    OBVIOUS
  <2>1. outcome[d] = "Error"
    BY <1>2, <1>4, NobodyOwes DEF TaskOf
  <2>2. job[h].dependency_has_error
    BY <1>2, <1>4, <2>1, NobodyOwes
  <2> QED
    BY <1>0, <1>1, <1>3, <2>2 DEF Known, Heeded
<1>12. Flow!Next
  <2>1. dependencies[h] \subseteq Handles
    BY <1>2 DEF TypeOK
  <2> QED
    BY <1>1, <1>2, <1>10, <1>11, <2>1, Ends
<1> QED
  BY <1>7, <1>8, <1>9, <1>12 DEF Refines, Known

LEMMA ReleaseRefines ==
    ASSUME TypeOK, Sound, Known, NEW w \in Workers, Release(w)
    PROVE  Refines
<1>0. PICK d0, i0, h : d0 = worker[w].handle /\ i0 = worker[w].i /\ h = Entry(d0, i0)
  OBVIOUS
<1>1. /\ worker[w].pc = "release"
      /\ worker' = [worker EXCEPT ![w].i = @ + 1]
      /\ UNCHANGED <<client, user, outcome, dependencies, observed>>
  BY DEF Release, histories
<1>2. \A v \in Workers : /\ worker'[v].pc = worker[v].pc
                         /\ worker'[v].handle = worker[v].handle
                         /\ worker'[v].has_error = worker[v].has_error
  BY <1>1, Types
<1>3. /\ d0 \in Handles
      /\ job[d0].state = "running"
      /\ outcome[d0] \in {"Success", "Error"}
      /\ outcome[d0] = "Error" => worker[w].has_error
  <2>1. d0 \in Handles /\ job[d0].state = "running" /\ outcome[d0] # "NotFinished"
    BY <1>0, <1>1 DEF Sound, Threads, WorkersSound, TypeOK, Pointers
  <2> QED
    BY <1>0, <1>1, <2>1, Types DEF Known, Heeded, Status
<1>4. CASE h = 0
  <2>1. UNCHANGED <<promise, job>>
    BY <1>0, <1>4 DEF Release, Entry, jobVars
  <2>2. LinksKept
    BY <1>0, <1>4, SoundReleaseNothing
  <2>3. Informed'
    BY <1>1, <2>1, <2>2, InformedKept DEF Known
  <2>4. Heeded' /\ Untold'
    BY <1>1, <1>2, <2>1 DEF Known, Heeded, Untold, UserHolds
  <2>5. \A d \in Handles : TaskOf(d)' = TaskOf(d)
    BY <1>1, <2>1 DEF TaskOf
  <2> QED
    BY <1>1, <2>3, <2>4, <2>5, Stutters DEF Refines, Known
<1>5. CASE h # 0
  <2>0. h \in Handles
    <3>1. h \in 0 .. MaxHandles
      BY <1>0, ReleaseEntry DEF Entry
    <3> QED
      BY <1>5, <3>1, BoundsAssumption DEF Handles
  <2>1. /\ \A k \in Handles \ {h} : Owed(k)' = Owed(k)
        /\ Owed(h)' = Owed(h) \ {<<d0, i0>>}
        /\ job[h].state = "pending"
        /\ outcome[h] = "NotFinished"
        /\ promise[h].reference_count # 1
    BY <1>0, <2>0, SoundReleaseOne
  <2>2. PICK e \in BOOLEAN : e <=> promise[h].dependency_has_error \/ worker[w].has_error
    OBVIOUS
  <2>3. /\ \A d \in Handles \ {h} : promise'[d] = promise[d] /\ job'[d] = job[d]
        /\ promise'[h].dependency_has_error <=> e
        /\ job'[h].state \in {"pending", "queued", "lost"}
        /\ job'[h].state # "pending" /\ e => job'[h].dependency_has_error
    <3>1. h = promise[worker[w].handle].continuation_promises[worker[w].i]
      BY <1>0 DEF Entry
    <3>2. /\ \A d \in Handles \ {h} : promise'[d] = promise[d]
          /\ promise'[h].dependency_has_error
               = (promise[h].dependency_has_error \/ worker[w].has_error)
      BY <2>0, <2>1, <3>1, ReleaseEffect, ZenonT(60)
    <3>3. PICK last \in BOOLEAN :
            /\ \A d \in Handles \ {h} : job'[d] = job[d]
            /\ last => job'[h].state \in {"queued", "lost"}
            /\ ~last => job'[h].state = job[h].state
            /\ last => (job'[h].dependency_has_error
                          <=> job[h].dependency_has_error \/ promise[h].dependency_has_error
                                                          \/ worker[w].has_error)
      BY <2>0, <3>1, ReleaseEffect
    <3> QED
      BY <2>0, <2>1, <2>2, <3>1, <3>2, <3>3
  <2>4. Informed'
    <3> SUFFICES ASSUME NEW k \in Handles, job'[k].state # "none", NEW d \in dependencies[k]
                 PROVE  \/ Owes(d, k)'
                        \/ outcome[d] = "Success"
                        \/ outcome[d] = "Error" /\ Warned(k)'
      BY <1>1 DEF Informed
    <3>1. CASE k # h
      <4>1. Owes(d, k)' <=> Owes(d, k)
        BY <2>1, <3>1 DEF Owes
      <4>2. Warned(k)' <=> Warned(k)
        BY <2>3, <3>1 DEF Warned
      <4>3. job[k].state # "none"
        BY <2>3, <3>1
      <4> QED
        BY <4>1, <4>2, <4>3 DEF Known, Informed
    <3>2. CASE k = h
      <4>1. e => Warned(h)'
        BY <2>3 DEF Warned
      <4>2. \/ Owes(d, h)
            \/ outcome[d] = "Success"
            \/ outcome[d] = "Error" /\ Warned(h)
        BY <2>1, <3>2 DEF Known, Informed
      <4>3. Warned(h) => e
        BY <2>1, <2>2 DEF Warned
      <4>4. ASSUME Owes(d, h), ~Owes(d, h)' PROVE d = d0
        <5>1. PICK i : <<d, i>> \in Owed(h)
          BY <4>4 DEF Owes
        <5>2. <<d, i>> = <<d0, i0>>
          BY <2>1, <4>4, <5>1 DEF Owes
        <5> QED
          BY <5>2
      <4>5. d = d0 => outcome[d] = "Success" \/ (outcome[d] = "Error" /\ e)
        BY <1>3, <2>2
      <4> QED
        BY <3>2, <4>1, <4>2, <4>3, <4>4, <4>5
    <3> QED
      BY <3>1, <3>2
  <2>5. Heeded'
    <3>1. \A v \in Workers : worker[v].pc # "idle" => worker[v].handle \in Handles \ {h}
      BY <2>1 DEF Sound, Threads, WorkersSound, TypeOK, Pointers
    <3> QED
      BY <1>1, <1>2, <2>3, <3>1 DEF Known, Heeded
  <2>6. Untold'
    BY <1>1, <2>1, <2>3 DEF Known, Untold, UserHolds
  <2>7. \A d \in Handles : TaskOf(d)' = TaskOf(d)
    BY <1>1, <2>1, <2>3 DEF TaskOf
  <2> QED
    BY <1>1, <2>4, <2>5, <2>6, <2>7, Stutters DEF Refines, Known
<1> QED
  BY <1>4, <1>5

LEMMA FinishRefines ==
    ASSUME TypeOK, Sound, Known, NEW w \in Workers, Finish(w)
    PROVE  Refines
<1>0. PICK h : h = worker[w].handle
  OBVIOUS
<1>1. /\ worker[w].pc = "release"
      /\ client' = Awakened
      /\ job' = [job EXCEPT ![h].state = "ended"]
      /\ worker' = [worker EXCEPT ![w] = [pc |-> "idle", handle |-> 0,
                                          has_error |-> FALSE, i |-> 0]]
      /\ UNCHANGED <<user, outcome, dependencies, observed>>
  BY <1>0 DEF Finish, histories
<1>2. h \in Handles /\ \A d \in Handles \ {h} : promise'[d] = promise[d]
  BY <1>0, FinishEffect
<1>3. job[h].state = "running" /\ outcome[h] # "NotFinished"
  BY <1>0, <1>1 DEF Sound, Threads, WorkersSound
<1>4. /\ worker'[w].pc = "idle"
      /\ \A v \in Workers \ {w} : worker'[v] = worker[v]
  BY <1>1, Types
<1>5. /\ job'[h].state = "ended"
      /\ \A d \in Handles \ {h} : job'[d] = job[d]
      /\ \A d \in Handles : job'[d].dependency_has_error = job[d].dependency_has_error
  BY <1>1, <1>2, Types
<1>6. \A c \in Clients : client'[c].pc = client[c].pc /\ client'[c].handle = client[c].handle
  BY <1>1, Types DEF Awakened
<1>7. Informed'
  BY <1>1, <1>2, <1>3, <1>5, SoundFinish, InformedKept DEF Known
<1>8. Heeded'
  BY <1>1, <1>4, <1>5 DEF Known, Heeded, TypeOK, Pointers
<1>9. Untold'
  BY <1>1, <1>3, <1>5, <1>6 DEF Known, Untold, UserHolds
<1>10. \A d \in Handles : TaskOf(d)' = TaskOf(d)
  BY <1>1, <1>3, <1>5 DEF TaskOf
<1> QED
  BY <1>1, <1>7, <1>8, <1>9, <1>10, Stutters DEF Refines, Known

-----------------------------------------------------------------------------
(* The theorem *)

LEMMA InitRefines == Init => Known /\ Flow!Init
<1> SUFFICES ASSUME Init PROVE Known /\ Flow!Init
  OBVIOUS
<1>1. Known
  BY DEF Init, Known, Informed, Heeded, Untold
<1>2. Flow!Init
  BY DEF Init, Flow!Init
<1> QED
  BY <1>1, <1>2

LEMMA StepRefines == TypeOK /\ TypeOK' /\ Sound /\ Known /\ [Next]_vars => Refines
<1> SUFFICES ASSUME TypeOK, TypeOK', Sound, Known, [Next]_vars PROVE Refines
  OBVIOUS
<1>1. ASSUME NEW c \in Clients, ClientStep(c) PROVE Refines
  BY <1>1, SignalInvokeRefines, ClientStepsRefine DEF ClientStep
<1>2. ASSUME NEW c \in Clients, ClientCall(c) PROVE Refines
  <2>1. CASE \E deps \in Dependencies :
               \/ Invoke(c, deps)
               \/ \E n \in 0 .. Len(deps) : InvokeFails(c, deps, n)
    BY <2>1, InvokeRefines, InvokeFailsRefines
  <2>2. CASE \E h \in Handles : Await(c, h) \/ Detach(c, h) \/ AddCallback(c, h)
    BY <2>2, ClientStepsRefine
  <2>3. CASE (client[c].pc = "idle" /\ AwaitAll(c)) \/ SpuriousWakeup(c)
    BY <2>3, ClientStepsRefine
  <2> QED
    BY <1>2, <2>1, <2>2, <2>3 DEF ClientCall
<1>3. ASSUME NEW w \in Workers, WorkerStep(w) PROVE Refines
  BY <1>3, RunRefines, CompleteRefines, ReleaseRefines, FinishRefines DEF WorkerStep
<1>4. ASSUME Quiet \/ UNCHANGED vars PROVE Refines
  <2>1. UNCHANGED <<table, promise, job, worker, client, user,
                    outcome, dependencies, observed>>
    BY <1>4 DEF Quiet, vars, jobVars, histories
  <2>2. LinksKept
    BY <2>1 DEF LinksKept, Owed, Unreleased, NotFinished
  <2>3. \A h : UserHolds(h)' => UserHolds(h)
    BY <2>1 DEF UserHolds
  <2> QED
    BY <2>1, <2>2, <2>3, ClientRefines
<1> QED
  BY <1>1, <1>2, <1>3, <1>4 DEF Next

(***************************************************************************)
(* The promises implement the task flow: a job starts only after all it    *)
(* depends on, fails if one of them failed, and armd_await tells its       *)
(* result, once, however calls, completions and failed invocations         *)
(* interleave (context.c:382-460, 515-601, 664-701).                       *)
(***************************************************************************)
THEOREM PromisesImplementTaskFlow == Spec => ImplementsTaskFlow
<1>1. Known /\ TypeOK /\ Sound /\ (TypeOK /\ Sound)' /\ [Next]_vars
        => Known' /\ [Flow!Next]_(Flow!vars)
  BY StepRefines DEF Refines
<1> QED
  BY <1>1, AlwaysSound, InitRefines, PTL DEF Spec, ImplementsTaskFlow, Flow!Spec
=============================================================================
