-------------------------------- MODULE Hashtable2 --------------------------------
(***************************************************************************)
(* The hash table with open addressing and linear probing (libuddsketch/   *)
(* src/dict/hashtable2.c).  A slot that is not occupied has hash value 0.  *)
(***************************************************************************)
EXTENDS HashCommon

VARIABLE table

\* What an unoccupied slot holds.  (The key that was there last may still be, where no
\* call looks at it.)
FreeSlot == [hash |-> 0, key |-> NULL, datum |-> NULL]

EmptyTable(hash_func, size) ==
  [hash_func |-> hash_func, size |-> size, count |-> 0,
   slot |-> [i \in 0 .. size - 1 |-> FreeSlot]]

\* A hash value of 0 stands for no key
nonzero_hash(t, k) == IF t.hash_func[k] = 0 THEN MaxHash ELSE t.hash_func[k]

----------------------------------------------------------------------------
(* Probing *)

\* The slot j steps after this one, round the end of the table
SlotAfter(t, slot, j) == IF slot + j < t.size THEN slot + j ELSE slot + j - t.size

\* Where the search for key k with this hash value ends, from its first slot on and all
\* the way round: at an unoccupied slot or at the key, or nowhere
Probe(t, k, hash) ==
  LET at(j) == SlotAfter(t, hash % t.size, j)
      ends  == {j \in 0 .. t.size - 1 :
                  \/ t.slot[at(j)].hash = 0
                  \/ t.slot[at(j)].hash = hash /\ t.slot[at(j)].key = k}
  IN  IF ends = {} THEN NULL ELSE at(Min(ends))

SlotOf(t, k) ==
  LET i == Probe(t, k, nonzero_hash(t, k))
  IN  IF i = NULL THEN NULL ELSE IF t.slot[i].hash = 0 THEN NULL ELSE i

\* insert: what it takes to succeed, and the table when it does
HasRoom(t, k, hash) == LET i == Probe(t, k, hash) IN i # NULL /\ t.slot[i].hash = 0

Stored(t, k, hash, datum) ==
  [t EXCEPT !.slot[Probe(t, k, hash)] = [hash |-> hash, key |-> k, datum |-> datum]]

\* A wrong Reinserted, for mutation tests: the datum is left behind
Reinserted_NoDatum(t, i) ==
  LET node == t.slot[i]
  IN  Stored([t EXCEPT !.slot[i] = FreeSlot], node.key, node.hash, NULL)

\* What is in slot i, put where it belongs now that it need not be there
Reinserted(t, i) ==
  LET node == t.slot[i]
  IN  Stored([t EXCEPT !.slot[i] = FreeSlot], node.key, node.hash, node.datum)

\* A wrong Cleanup, for mutation tests: it leaves the first node where it is
Cleanup_SkipsOne(t, first, start) ==
  LET run[j \in 0 .. t.size - 1] ==
        IF j = 0 THEN [t |-> t, ended |-> FALSE]
        ELSE LET i == SlotAfter(t, start, j)
             IN  IF run[j - 1].ended \/ run[j - 1].t.slot[i].hash = 0 \/ i = first
                 THEN [run[j - 1] EXCEPT !.ended = TRUE]
                 ELSE [run[j - 1] EXCEPT !.t = Reinserted(@, i)]
  IN  run[t.size - 1].t

\* remove_cleanup: the nodes from start on, up to an unoccupied slot or, all the way
\* round, the first slot of the key that was removed
Cleanup(t, first, start) ==
  LET run[j \in 0 .. t.size] ==
        IF j = 0 THEN [t |-> t, ended |-> FALSE]
        ELSE LET i == SlotAfter(t, start, j - 1)
             IN  IF \/ run[j - 1].ended
                    \/ run[j - 1].t.slot[i].hash = 0
                    \/ j > 1 /\ i = first
                 THEN [run[j - 1] EXCEPT !.ended = TRUE]
                 ELSE [run[j - 1] EXCEPT !.t = Reinserted(@, i)]
  IN  run[t.size].t

\* A wrong NodeRemoved, for mutation tests: the count stays
NodeRemoved_KeepsCount(t, i) ==
  Cleanup([t EXCEPT !.slot[i] = FreeSlot], t.slot[i].hash % t.size, SlotAfter(t, i, 1))

\* remove_node
NodeRemoved(t, i) ==
  LET first == t.slot[i].hash % t.size
      freed == [t EXCEPT !.slot[i] = FreeSlot, !.count = @ - 1]
  IN  Cleanup(freed, first, SlotAfter(t, i, 1))

\* The occupied slots, in order (hashtable2_traverse)
Nodes(t) ==
  LET before[i \in 0 .. t.size] ==
        IF i = 0 THEN <<>>
        ELSE IF t.slot[i - 1].hash = 0 THEN before[i - 1]
        ELSE Append(before[i - 1], i - 1)
  IN  before[t.size]

\* The table after hashtable2_resize, when there is memory for it and room for its nodes
Resized(t, new_size) ==
  LET size == dict_prime_geq(new_size)
      moved[i \in 0 .. t.size] ==
        IF i = 0 THEN [EmptyTable(t.hash_func, size) EXCEPT !.count = t.count]
        ELSE LET node == t.slot[i - 1]
             IN  IF node.hash = 0 THEN moved[i - 1]
                 ELSE Stored(moved[i - 1], node.key, node.hash, node.datum)
  IN  IF size = t.size \/ t.count > size THEN t ELSE moved[t.size]

----------------------------------------------------------------------------
(* Calls *)

\* hashtable2_new
Init == \E f \in HashFuncs, size \in kPrimes : table = EmptyTable(f, size)

\* What an insertion does first: a table that is too full grows, if there is memory
Grown(t) == {t} \cup (IF MustGrow(t) THEN {Resized(t, t.size + 1)} ELSE {})

\* The key is there already, or the table is full; but it may have grown
InsertKeeps ==
  /\ \E k \in Keys : \E t \in Grown(table) :
       /\ ~HasRoom(t, k, nonzero_hash(t, k))
       /\ table' = t

\* "No memory for a bigger table, but let the insert proceed anyway"
Insert(k) ==
  \E t \in Grown(table) :
    /\ HasRoom(t, k, nonzero_hash(t, k))
    /\ table' = [Stored(t, k, nonzero_hash(t, k), Datum(k)) EXCEPT !.count = @ + 1]

\* hashtable2_remove, and hashtable2_itor_remove for the iterator's slot
RemoveKey(k) ==
  table' = IF SlotOf(table, k) = NULL THEN table ELSE NodeRemoved(table, SlotOf(table, k))

Clear == table' = EmptyTable(table.hash_func, table.size)

Resize(new_size) == table' = Resized(table, new_size)

Next == \/ InsertKeeps
        \/ \E k \in Keys : Insert(k) \/ RemoveKey(k)
        \/ Clear
        \/ \E size \in kPrimes : Resize(size)

Spec == Init /\ [][Next]_table

----------------------------------------------------------------------------
hashtable2_verify(t) ==
  /\ t.count = Cardinality({i \in DOMAIN t.slot : t.slot[i].hash # 0})
  /\ \A i \in DOMAIN t.slot : t.slot[i].hash = 0 => t.slot[i].datum = NULL

----------------------------------------------------------------------------
(* Iterators: the slot one stands at, or -1 *)

IterNext(t, i) ==
  LET after == {j \in i + 1 .. t.size - 1 : t.slot[j].hash # 0}
  IN  IF i < 0 \/ after = {} THEN -1 ELSE Min(after)

IterPrev(t, i) ==
  LET before == {j \in 0 .. i - 1 : t.slot[j].hash # 0}
  IN  IF i < 0 \/ before = {} THEN -1 ELSE Max(before)

IterFirst(t) ==
  LET used == {j \in 0 .. t.size - 1 : t.slot[j].hash # 0}
  IN  IF used = {} THEN -1 ELSE Min(used)

IterLast(t) ==
  LET used == {j \in 0 .. t.size - 1 : t.slot[j].hash # 0}
  IN  IF used = {} THEN -1 ELSE Max(used)

\* Where a call on an iterator takes it; x is a key or a number
hashtable2_itor(t, slot, call, x) ==
  LET forth[i \in 0 .. x] == IF i = 0 THEN slot ELSE IterNext(t, forth[i - 1])
      back[i \in 0 .. x]  == IF i = 0 THEN slot ELSE IterPrev(t, back[i - 1])
  IN  CASE call = "invalidate" -> -1
        [] call = "first"      -> IterFirst(t)
        [] call = "last"       -> IterLast(t)
        [] call = "next"       -> IterNext(t, slot)
        [] call = "prev"       -> IterPrev(t, slot)
        [] call = "nextn"      -> forth[x]
        [] call = "prevn"      -> back[x]
        [] call = "search"     -> IF SlotOf(t, x) = NULL THEN -1 ELSE SlotOf(t, x)

----------------------------------------------------------------------------
TypeOK ==
  /\ table.hash_func \in HashFuncs
  /\ table.size \in kPrimes
  /\ table.count \in 0 .. table.size
  /\ DOMAIN table.slot = 0 .. table.size - 1
  /\ \A i \in DOMAIN table.slot :
       LET n == table.slot[i]
       IN  n = FreeSlot \/ n \in [hash : 1 .. MaxHash, key : Keys, datum : {Datum(k) : k \in Keys}]

\* No key is there twice, and from its first slot to where each is there is no unoccupied
\* one, though removals, shrinking and tables without a free slot come between:
\* hashtable2_verify does not look at that.
Sound ==
  LET used == {i \in DOMAIN table.slot : table.slot[i].hash # 0}
  IN  /\ hashtable2_verify(table)
      /\ \A i, j \in used : table.slot[i].key = table.slot[j].key => i = j
      /\ \A i \in used :
           LET first == table.slot[i].hash % table.size
           IN  IF first <= i THEN first .. i \subseteq used
               ELSE DOMAIN table.slot \ (i + 1 .. first - 1) \subseteq used

\* A search finds the slot of a key that is there, and none for one that is not, from
\* wherever the key's probing starts and in a full table too.
SearchesRight ==
  LET with(k) == {i \in DOMAIN table.slot : table.slot[i].hash # 0 /\ table.slot[i].key = k}
  IN  \A k \in Keys : SlotOf(table, k) = IF with(k) = {} THEN NULL ELSE Min(with(k))

\* Every call on an iterator takes it where its name says in the order of the slots.
IteratorsRight ==
  LET keys   == [i \in DOMAIN Nodes(table) |-> table.slot[Nodes(table)[i]].key]
      Pos(i) == IF i = 0 THEN -1 ELSE Nodes(table)[i]
  IN  \A i \in 0 .. Len(keys), c \in Steps \cup Strides \cup ({"search"} \X Keys) :
        hashtable2_itor(table, Pos(i), c[1], c[2]) = Pos(MovedTo(keys, i, c[1], c[2]))

\* What the table maps
MapOf(t) ==
  LET used == {i \in DOMAIN t.slot : t.slot[i].hash # 0}
  IN  [k \in {t.slot[i].key : i \in used} |->
         t.slot[CHOOSE i \in used : t.slot[i].key = k].datum]
===================================================================================
