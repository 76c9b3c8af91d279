--------------------------------- MODULE Hashtable --------------------------------
(***************************************************************************)
(* The hash table with separate chaining (libuddsketch/src/dict/           *)
(* hashtable.c): in each slot a chain of nodes, doubly linked, in the      *)
(* order of their hash values.                                             *)
(*                                                                         *)
(* A table is a record: its hash function, its size, its count, the first  *)
(* node of each slot, and the heap, a function from the addresses of its   *)
(* nodes to nodes.                                                         *)
(***************************************************************************)
EXTENDS HashCommon

VARIABLE table

EmptyTable(hash_func, size) ==
  [hash_func |-> hash_func, size |-> size, count |-> 0,
   first |-> [i \in 0 .. size - 1 |-> NULL], heap |-> [n \in {} |-> NULL]]

----------------------------------------------------------------------------
(* Chains *)

\* A wrong Passed, for mutation tests: a chain is left at the first equal hash value
Passed_Equal(t, start, hash) ==
  LET walk[n \in DOMAIN t.heap \cup {NULL}] ==
        IF n = NULL THEN <<>>
        ELSE IF hash <= t.heap[n].hash THEN <<>>
        ELSE <<n>> \o walk[t.heap[n].next]
  IN  walk[start]

\* The nodes that are passed from start on while the hash value is not below theirs
Passed(t, start, hash) ==
  LET walk[n \in DOMAIN t.heap \cup {NULL}] ==
        IF n = NULL THEN <<>>
        ELSE IF hash < t.heap[n].hash THEN <<>>
        ELSE <<n>> \o walk[t.heap[n].next]
  IN  walk[start]

\* The node n, wherever it was, is put into the chain of its slot after all the nodes
\* whose hash value is not above its own
Place(t, n) ==
  LET slot   == t.heap[n].hash % t.size
      passed == Passed(t, t.first[slot], t.heap[n].hash)
      prev   == IF passed = <<>> THEN NULL ELSE Last(passed)
      next   == IF prev = NULL THEN t.first[slot] ELSE t.heap[prev].next
  IN  [t EXCEPT
         !.first[slot] = IF prev = NULL THEN n ELSE @,
         !.heap = [x \in DOMAIN @ |->
                     [@[x] EXCEPT !.prev = IF x = n THEN prev ELSE IF x = next THEN n ELSE @,
                                  !.next = IF x = n THEN next ELSE IF x = prev THEN n ELSE @]]]

\* The nodes in the order of the slots and of their chains (hashtable_traverse)
Nodes(t) ==
  LET chain[n \in DOMAIN t.heap \cup {NULL}] ==
        IF n = NULL THEN <<>> ELSE <<n>> \o chain[t.heap[n].next]
  IN  FlattenSeq([i \in 1 .. t.size |-> chain[t.first[i - 1]]])

NodeWith(t, k) ==
  LET hash   == t.hash_func[k]
      passed == Passed(t, t.first[hash % t.size], hash)
      same   == {i \in DOMAIN passed : t.heap[passed[i]].hash = hash /\ t.heap[passed[i]].key = k}
  IN  IF same = {} THEN NULL ELSE passed[Min(same)]

\* The table after hashtable_resize, when there is memory for it: its nodes, one by one,
\* in new slots
Resized(t, new_size) ==
  LET size == dict_prime_geq(new_size)
  IN  IF size = t.size THEN t
      ELSE FoldLeft(Place, [t EXCEPT !.size = size, !.first = [i \in 0 .. size - 1 |-> NULL]],
                    Nodes(t))

\* A wrong NodeRemoved, for mutation tests: the next node's contents take the place of n's
NodeRemoved_TakesNext(t, n) ==
  LET next == t.heap[n].next
  IN  IF next = NULL \/ t.heap[n].prev # NULL THEN t
      ELSE [t EXCEPT
              !.count = @ - 1,
              !.heap = [x \in DOMAIN @ \ {next} |->
                          IF x = n THEN [@[next] EXCEPT !.prev = NULL]
                          ELSE [@[x] EXCEPT !.prev = IF x = t.heap[next].next THEN n ELSE @]]]

\* remove_node
NodeRemoved(t, n) ==
  LET node == t.heap[n]
      slot == node.hash % t.size
  IN  [t EXCEPT
         !.count = @ - 1,
         !.first[slot] = IF node.prev = NULL THEN node.next ELSE @,
         !.heap = [x \in DOMAIN @ \ {n} |->
                     [@[x] EXCEPT !.next = IF x = node.prev THEN node.next ELSE @,
                                  !.prev = IF x = node.next THEN node.prev ELSE @]]]

----------------------------------------------------------------------------
(* Calls *)

\* hashtable_new
Init == \E f \in HashFuncs, size \in kPrimes : table = EmptyTable(f, size)

\* What an insertion does first: a table that is too full grows, if there is memory
Grown(t) == {t} \cup (IF MustGrow(t) THEN {Resized(t, t.size + 1)} ELSE {})

\* The key is there already, or malloc fails; but the table may have grown
InsertKeeps == table' \in Grown(table)

Insert(k) ==
  \E t \in Grown(table) :
    LET a == CHOOSE a \in Addresses : a \notin DOMAIN t.heap
        node == [key |-> k, datum |-> Datum(k), hash |-> t.hash_func[k],
                 prev |-> NULL, next |-> NULL]
    IN  /\ NodeWith(t, k) = NULL
        /\ table' = Place([t EXCEPT !.count = @ + 1,
                             !.heap = [x \in DOMAIN @ \cup {a} |-> IF x = a THEN node ELSE @[x]]], a)

\* hashtable_remove, and hashtable_itor_remove for the iterator's node
RemoveKey(k) ==
  table' = IF NodeWith(table, k) = NULL THEN table ELSE NodeRemoved(table, NodeWith(table, k))

Clear == table' = EmptyTable(table.hash_func, table.size)

Resize(new_size) == table' = Resized(table, new_size)

Next == \/ InsertKeeps
        \/ \E k \in Keys : Insert(k) \/ RemoveKey(k)
        \/ Clear
        \/ \E size \in kPrimes : Resize(size)

Spec == Init /\ [][Next]_table

----------------------------------------------------------------------------
(* hashtable_verify: every chain is linked both ways, sorted, and in its slot *)
hashtable_verify(t) ==
  /\ \A i \in DOMAIN t.first :
       t.first[i] # NULL => /\ t.heap[t.first[i]].prev = NULL
                            /\ t.heap[t.first[i]].hash % t.size = i
  /\ \A n \in ToSet(Nodes(t)) :
       LET next == t.heap[n].next
       IN  next # NULL => /\ t.heap[next].prev = n
                          /\ t.heap[n].hash <= t.heap[next].hash
                          /\ t.heap[n].hash % t.size = t.heap[next].hash % t.size

----------------------------------------------------------------------------
(* Iterators: the node one stands at, or NULL, and its slot *)

Nowhere == [node |-> NULL, slot |-> 0]

\* The ends of the chains of some slots
FirstIn(t, slots) ==
  LET used == {i \in slots : t.first[i] # NULL}
  IN  IF used = {} THEN Nowhere ELSE [node |-> t.first[Min(used)], slot |-> Min(used)]

LastIn(t, slots) ==
  LET used == {i \in slots : t.first[i] # NULL}
      end[n \in DOMAIN t.heap] == IF t.heap[n].next = NULL THEN n ELSE end[t.heap[n].next]
  IN  IF used = {} THEN Nowhere ELSE [node |-> end[t.first[Max(used)]], slot |-> Max(used)]

IterFirst(t) == FirstIn(t, 0 .. t.size - 1)
IterLast(t)  == LastIn(t, 0 .. t.size - 1)

IterNext(t, itor) ==
  IF itor.node = NULL THEN itor
  ELSE IF t.heap[itor.node].next # NULL THEN [itor EXCEPT !.node = t.heap[@].next]
  ELSE FirstIn(t, itor.slot + 1 .. t.size - 1)

IterPrev(t, itor) ==
  IF itor.node = NULL THEN itor
  ELSE IF t.heap[itor.node].prev # NULL THEN [itor EXCEPT !.node = t.heap[@].prev]
  ELSE LastIn(t, 0 .. itor.slot - 1)

IterSearch(t, k) ==
  IF NodeWith(t, k) = NULL THEN Nowhere
  ELSE [node |-> NodeWith(t, k), slot |-> t.hash_func[k] % t.size]

\* Where a call on an iterator takes it; x is a key or a number
hashtable_itor(t, itor, call, x) ==
  LET forth[i \in 0 .. x] == IF i = 0 THEN itor ELSE IterNext(t, forth[i - 1])
      back[i \in 0 .. x]  == IF i = 0 THEN itor ELSE IterPrev(t, back[i - 1])
  IN  CASE call = "invalidate" -> Nowhere
        [] call = "first"      -> IterFirst(t)
        [] call = "last"       -> IterLast(t)
        [] call = "next"       -> IterNext(t, itor)
        [] call = "prev"       -> IterPrev(t, itor)
        [] call = "nextn"      -> forth[x]
        [] call = "prevn"      -> back[x]
        [] call = "search"     -> IterSearch(t, x)

----------------------------------------------------------------------------
TypeOK ==
  LET ptrs == DOMAIN table.heap \cup {NULL}
  IN  /\ table.hash_func \in HashFuncs
      /\ table.size \in kPrimes
      /\ table.count \in Nat
      /\ DOMAIN table.heap \subseteq Addresses
      /\ table.first \in [0 .. table.size - 1 -> ptrs]
      /\ \A n \in DOMAIN table.heap :
           LET node == table.heap[n]
           IN  /\ node.key \in Keys /\ node.datum = Datum(node.key)
               /\ node.hash = table.hash_func[node.key]
               /\ {node.prev, node.next} \subseteq ptrs

\* The chains hold every node once, the count is right, and no key is there twice, which
\* hashtable_verify does not look at.
Sound ==
  LET nodes == Nodes(table)
  IN  /\ hashtable_verify(table)
      /\ ToSet(nodes) = DOMAIN table.heap
      /\ Len(nodes) = Cardinality(DOMAIN table.heap) /\ table.count = Len(nodes)
      /\ \A m, n \in DOMAIN table.heap : table.heap[m].key = table.heap[n].key => m = n

\* A search finds the node of a key that is there, and none for one that is not.
SearchesRight ==
  LET with(k) == {n \in DOMAIN table.heap : table.heap[n].key = k}
  IN  \A k \in Keys : NodeWith(table, k) \in (IF with(k) = {} THEN {NULL} ELSE with(k))

\* Every call on an iterator, wherever a search has put it, takes it where its name says
\* in the order of the chains.
IteratorsRight ==
  LET keys   == [i \in DOMAIN Nodes(table) |-> table.heap[Nodes(table)[i]].key]
      Pos(i) == IF i = 0 THEN Nowhere ELSE IterSearch(table, keys[i])
  IN  /\ \A i \in DOMAIN keys : Pos(i).node = Nodes(table)[i]
      /\ \A i \in 0 .. Len(keys), c \in Steps \cup Strides \cup ({"search"} \X Keys) :
           hashtable_itor(table, Pos(i), c[1], c[2]) = Pos(MovedTo(keys, i, c[1], c[2]))

\* What the table maps
MapOf(t) ==
  [k \in {t.heap[n].key : n \in DOMAIN t.heap} |->
     t.heap[CHOOSE n \in DOMAIN t.heap : t.heap[n].key = k].datum]
===================================================================================
