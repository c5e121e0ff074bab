------------------------------ MODULE HashTable ------------------------------
(***************************************************************************)
(* The hash table in which a context keeps its promises                    *)
(* (lib/src/hash_table.c).  It is used under the mutex of the promise      *)
(* manager, so that every operation is one action.                         *)
(***************************************************************************)
EXTENDS Integers, SequencesExt, Region

CONSTANTS
    Keys,               \* handles
    Values,             \* promises
    Null,               \* NULL
    Untouched,          \* what an output parameter holds that was not written
    InitialTableSize,   \* initial_table_size of armd__hash_table_create
    RehashNum,          \* rehash_ratio = RehashNum / RehashDen
    RehashDen,
    MaxTableSize        \* bound: a larger table cannot be allocated

ASSUME HashTableAssumption ==
    /\ InitialTableSize \in Nat \ {0}
    /\ RehashNum \in Nat \ {0}
    /\ RehashDen \in Nat \ {0}
    /\ MaxTableSize \in Nat
    /\ Keys \subseteq Nat

VARIABLES
    table,              \* the ARMD__HashTable; NoTable before and after its life
    table_answer        \* what the last operation returned

tableVars == <<table, table_answer>>

NoTable == [table_size |-> 0, num_entries |-> 0, chain |-> <<>>]
TableAlive == table.table_size > 0

\* A chain is the list that hangs on a sentinel, the node next to it first.
Node(key, value) == [key |-> key, value |-> value]

NewTable ==
    [table_size |-> InitialTableSize, num_entries |-> 0,
     chain |-> [i \in 0 .. InitialTableSize - 1 |-> <<>>]]

TableIndex(t, k) == k % t.table_size
ChainOf(t, k) == t.chain[TableIndex(t, k)]

-----------------------------------------------------------------------------
(* Rehashing *)

NeedsRehash(t) == RehashNum * t.table_size <= RehashDen * t.num_entries

\* The nodes in the order in which the loop over the old table meets them.
NodesInOrder(t) == FlattenSeq([i \in 1 .. t.table_size |-> t.chain[i - 1]])

\* Mutant: a chain is moved to the new table as a whole.
RehashedByChain(t) ==
    LET size == t.table_size * 2 + 1 IN
    [t EXCEPT !.table_size = size,
              !.chain = [i \in 0 .. size - 1 |-> IF i < t.table_size THEN t.chain[i] ELSE <<>>]]

\* Each node goes to the front of its new chain, so that later ones come first.
Rehashed(t) ==
    LET size == t.table_size * 2 + 1
        Relinked(chain, n) == [chain EXCEPT ![n.key % size] = <<n>> \o @] IN
    [t EXCEPT !.table_size = size,
              !.chain = FoldLeft(Relinked, [i \in 0 .. size - 1 |-> <<>>], NodesInOrder(t))]

CanRehash(t, allocated) ==
    ~NeedsRehash(t) \/ (allocated /\ t.table_size * 2 + 1 <= MaxTableSize)

\* rehash_if_needed, if it succeeds.
Spacious(t) == IF NeedsRehash(t) THEN Rehashed(t) ELSE t

-----------------------------------------------------------------------------
(* Chains *)

Position(t, k) == SelectInSeq(ChainOf(t, k), LAMBDA n : n.key = k)
Has(t, k) == Position(t, k) > 0
ValueAt(t, k) == ChainOf(t, k)[Position(t, k)].value

WithNode(t, k, v) ==
    [t EXCEPT !.chain[TableIndex(t, k)] = <<Node(k, v)>> \o @, !.num_entries = @ + 1]

WithValue(t, k, v) == [t EXCEPT !.chain[TableIndex(t, k)][Position(t, k)].value = v]

\* Mutant: the rest of the chain is dropped together with the node.
WithoutTail(t, k) ==
    [t EXCEPT !.chain[TableIndex(t, k)] = SubSeq(@, 1, Position(t, k) - 1),
              !.num_entries = @ - 1]

WithoutNode(t, k) ==
    [t EXCEPT !.chain[TableIndex(t, k)] = RemoveAt(@, Position(t, k)),
              !.num_entries = @ - 1]

-----------------------------------------------------------------------------
(* Operations *)

TableReturns(status, value) == table_answer' = [status |-> status, value |-> value]

\* A failure leaves the output parameter alone.
TableFails(t) == table' = t /\ NoAllocation /\ TableReturns(-1, Untouched)

TableInit ==
    /\ table = NoTable
    /\ table_answer = [status |-> 0, value |-> Untouched]

\* Two allocations; if the second fails the first is undone.
CreateTable(allocated) ==
    /\ ~TableAlive
    /\ IF allocated
         THEN table' = NewTable /\ Allocate(2) /\ TableReturns(0, Untouched)
         ELSE TableFails(table)

\* The nodes that are left are freed, and counted.
DestroyTable ==
    /\ TableAlive
    /\ table' = NoTable
    /\ LET node_destroyed == Len(NodesInOrder(table)) IN
       Free(node_destroyed + 2) /\ TableReturns(node_destroyed, Untouched)

\* The table is rehashed before the key is looked for, and stays so.  "room" and
\* "allocated" say whether the table and the node could be allocated.
Insert(k, v, room, allocated) ==
    LET t == Spacious(table) IN
    /\ TableAlive
    /\ IF ~CanRehash(table, room) THEN TableFails(table)
       ELSE IF Has(t, k) \/ ~allocated THEN TableFails(t)
       ELSE table' = WithNode(t, k, v) /\ Allocate(1) /\ TableReturns(0, Untouched)

Upsert(k, v, room, allocated) ==
    LET t == Spacious(table) IN
    /\ TableAlive
    /\ IF ~CanRehash(table, room) THEN TableFails(table)
       ELSE IF Has(t, k)
         THEN table' = WithValue(t, k, v) /\ NoAllocation /\ TableReturns(0, ValueAt(t, k))
       ELSE IF ~allocated THEN TableFails(t)
       ELSE table' = WithNode(t, k, v) /\ Allocate(1) /\ TableReturns(1, Null)

Update(k, v) ==
    /\ TableAlive
    /\ NoAllocation
    /\ IF Has(table, k)
         THEN table' = WithValue(table, k, v) /\ TableReturns(0, ValueAt(table, k))
         ELSE UNCHANGED table /\ TableReturns(-1, Null)

RemoveKey(k) ==
    /\ TableAlive
    /\ IF Has(table, k)
         THEN table' = WithoutNode(table, k) /\ Free(1) /\ TableReturns(0, Untouched)
         ELSE TableFails(table)

Get(k) ==
    /\ TableAlive
    /\ UNCHANGED table
    /\ NoAllocation
    /\ IF Has(table, k) THEN TableReturns(0, ValueAt(table, k)) ELSE TableReturns(-1, Null)

Exists(k) ==
    /\ TableAlive
    /\ UNCHANGED table
    /\ NoAllocation
    /\ TableReturns(IF Has(table, k) THEN 1 ELSE 0, Untouched)

IsEmptyTable ==
    /\ TableAlive
    /\ UNCHANGED table
    /\ NoAllocation
    /\ TableReturns(IF table.num_entries = 0 THEN 1 ELSE 0, Untouched)

CountEntries ==
    /\ TableAlive
    /\ UNCHANGED table
    /\ NoAllocation
    /\ TableReturns(table.num_entries, Untouched)

TableNext ==
    \/ \E allocated \in BOOLEAN : CreateTable(allocated)
    \/ DestroyTable
    \/ \E k \in Keys :
          \/ \E v \in Values :
                \/ \E room, allocated \in BOOLEAN : \/ Insert(k, v, room, allocated)
                                                    \/ Upsert(k, v, room, allocated)
                \/ Update(k, v)
          \/ RemoveKey(k)
          \/ Get(k)
          \/ Exists(k)
    \/ IsEmptyTable
    \/ CountEntries

TableSpec == TableInit /\ [][TableNext]_tableVars

-----------------------------------------------------------------------------

Nodes(t) == UNION {Range(t.chain[i]) : i \in DOMAIN t.chain}

\* What lookups could find: the map from the stored keys to their values.
Entries(t) ==
    LET nodes == Nodes(t) IN
    [k \in {n.key : n \in nodes} |-> (CHOOSE n \in nodes : n.key = k).value]

T == INSTANCE PromiseTable WITH
    entries <- Entries(table),
    alive <- TableAlive,
    answer <- table_answer

(***************************************************************************)
(* Chains, collisions and rehashing are invisible: the table is a partial  *)
(* map.  A handle that was inserted is found until it is removed, with the *)
(* value it got last, however often the nodes have been relinked, and      *)
(* armd__hash_table_destroy reports exactly the entries that were left.    *)
(***************************************************************************)
ImplementsPromiseTable == T!Spec

TableBlocks == IF TableAlive THEN 2 + table.num_entries ELSE 0
=============================================================================
