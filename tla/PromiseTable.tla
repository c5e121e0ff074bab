---------------------------- MODULE PromiseTable ----------------------------
(***************************************************************************)
(* What the hash table of promises promises: a partial map from handles to *)
(* values.  An operation that allocates may fail for want of memory, and   *)
(* then changes nothing.                                                   *)
(***************************************************************************)
EXTENDS Integers, FiniteSets

CONSTANTS
    Keys,        \* handles
    Values,      \* promises
    Null,        \* NULL
    Untouched    \* what an output parameter holds that was not written

VARIABLES
    entries,     \* the map, empty when there is no table
    alive,       \* whether there is a table
    answer       \* what the last operation returned

vars == <<entries, alive, answer>>

Present(k) == k \in DOMAIN entries
With(k, v) == [i \in DOMAIN entries \cup {k} |-> IF i = k THEN v ELSE entries[i]]
Without(k) == [i \in DOMAIN entries \ {k} |-> entries[i]]
Returns(status, value) == answer' = [status |-> status, value |-> value]

Init ==
    /\ entries = <<>>
    /\ alive = FALSE
    /\ answer = [status |-> 0, value |-> Untouched]

Create ==
    /\ ~alive
    /\ alive' \in BOOLEAN
    /\ Returns(IF alive' THEN 0 ELSE -1, Untouched)
    /\ UNCHANGED entries

\* The answer is the number of entries that were left.
Destroy ==
    /\ alive
    /\ alive' = FALSE
    /\ entries' = <<>>
    /\ Returns(Cardinality(DOMAIN entries), Untouched)

OutOfMemory == UNCHANGED entries /\ Returns(-1, Untouched)

\* A key that is present is refused.
Insert(k, v) ==
    \/ ~Present(k) /\ entries' = With(k, v) /\ Returns(0, Untouched)
    \/ OutOfMemory

Update(k, v) ==
    IF Present(k)
      THEN entries' = With(k, v) /\ Returns(0, entries[k])
      ELSE UNCHANGED entries /\ Returns(-1, Null)

Upsert(k, v) ==
    \/ Present(k) /\ entries' = With(k, v) /\ Returns(0, entries[k])
    \/ ~Present(k) /\ entries' = With(k, v) /\ Returns(1, Null)
    \/ OutOfMemory

Get(k) ==
    /\ UNCHANGED entries
    /\ IF Present(k) THEN Returns(0, entries[k]) ELSE Returns(-1, Null)

Exists(k) ==
    /\ UNCHANGED entries
    /\ Returns(IF Present(k) THEN 1 ELSE 0, Untouched)

Remove(k) ==
    IF Present(k)
      THEN entries' = Without(k) /\ Returns(0, Untouched)
      ELSE UNCHANGED entries /\ Returns(-1, Untouched)

IsEmpty ==
    /\ UNCHANGED entries
    /\ Returns(IF entries = <<>> THEN 1 ELSE 0, Untouched)

Count ==
    /\ UNCHANGED entries
    /\ Returns(Cardinality(DOMAIN entries), Untouched)

Use ==
    /\ alive
    /\ UNCHANGED alive
    /\ \/ \E k \in Keys : \/ Get(k) \/ Exists(k) \/ Remove(k)
                          \/ \E v \in Values : Insert(k, v) \/ Update(k, v) \/ Upsert(k, v)
       \/ IsEmpty
       \/ Count

Next == Create \/ Destroy \/ Use

Spec == Init /\ [][Next]_vars
=============================================================================
