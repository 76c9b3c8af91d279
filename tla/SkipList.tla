--------------------------------- MODULE SkipList ---------------------------------
(***************************************************************************)
(* The skip list (libuddsketch/src/dict/skiplist.c): sorted nodes, each on *)
(* the levels 0 to link_count - 1, and a head before them all that has     *)
(* max_link links.  A node knows the one before it on level 0.             *)
(*                                                                         *)
(* A list is a record: top_link, its count, and the heap, a function from  *)
(* the head and the addresses of the nodes to nodes.                       *)
(***************************************************************************)
EXTENDS Cursor, SequencesExt

CONSTANTS Keys,       \* the keys that callers use
          Addresses,  \* where a node may be allocated
          NULL,       \* no node
          HEAD,       \* the head
          max_link    \* how many links the head has

VARIABLE list

Datum(k) == <<k>>

Nodes(l) == DOMAIN l.heap \ {HEAD}

----------------------------------------------------------------------------
(* Searches: along a level while the keys are below the one looked for,    *)
(* then one level down.  The loops that go down several levels at once     *)
(* where the next node is the same only save comparisons.                  *)

\* The last node on each level whose key is below k (update)
LastBelow(l, k) ==
  LET along[x \in DOMAIN l.heap, i \in 0 .. l.top_link] ==
        LET y == l.heap[x].link[i]
        IN  IF y # NULL /\ l.heap[y].key < k THEN along[y, i] ELSE x
      update[i \in 0 .. l.top_link] ==
        along[IF i = l.top_link THEN HEAD ELSE update[i + 1], i]
  IN  update

\* The nodes that a search stops before, from the top down: the first one it meets on
\* each level whose key is not below k
Ahead(l, k) ==
  LET update == LastBelow(l, k)
  IN  [i \in 0 .. l.top_link |-> l.heap[update[i]].link[i]]

\* The levels where it meets k itself
Met(l, k) == {i \in 0 .. l.top_link : LET y == Ahead(l, k)[i] IN y # NULL /\ l.heap[y].key = k}

\* Where it meets k first, from the top (node_search)
SearchNode(l, k) == IF Met(l, k) = {} THEN NULL ELSE Ahead(l, k)[Max(Met(l, k))]

Before(l, k) == LET x == LastBelow(l, k)[0] IN IF x = HEAD THEN NULL ELSE x

\* The node met above k on the lowest level where there was one
After(l, k) ==
  LET levels == {i \in 0 .. l.top_link : Ahead(l, k)[i] # NULL}
  IN  IF levels = {} THEN NULL ELSE Ahead(l, k)[Min(levels)]

\* The node that a search has found when it met k at y, or what is left when it did not
SearchLE(l, k) ==
  LET y == SearchNode(l, k) IN IF y # NULL THEN y ELSE Before(l, k)

\* A wrong SearchLT, for mutation tests: a key that is there is not passed over
SearchLT_Equal(l, k) ==
  LET y == SearchNode(l, k) IN IF y # NULL THEN y ELSE Before(l, k)

SearchLT(l, k) ==
  LET y == SearchNode(l, k) IN IF y # NULL THEN l.heap[y].prev ELSE Before(l, k)

SearchGE(l, k) ==
  LET y == SearchNode(l, k) IN IF y # NULL THEN y ELSE After(l, k)

SearchGT(l, k) ==
  LET y == SearchNode(l, k) IN IF y # NULL THEN l.heap[y].link[0] ELSE After(l, k)

----------------------------------------------------------------------------
(* Calls *)

\* skiplist_new; the links of a new node are cleared
EmptyList == [top_link |-> 0, count |-> 0,
              heap |-> [x \in {HEAD} |-> [key |-> NULL, datum |-> NULL, prev |-> NULL,
                                          link |-> [i \in 0 .. max_link - 1 |-> NULL]]]]

\* What rand_link_count may return: any number of links less than the head's
LinkCounts == IF max_link = 1 THEN {0} ELSE 1 .. max_link - 1

\* The node at a, with n links, goes after the nodes in update; above the old top that
\* is the head
NodeInsert(l, a, k, n) ==
  LET update   == LastBelow(l, k)
      after(i) == IF i > l.top_link THEN HEAD ELSE update[i]
      next     == l.heap[update[0]].link[0]
      node     == [key |-> k, datum |-> Datum(k),
                   prev |-> IF update[0] = HEAD THEN NULL ELSE update[0],
                   link |-> [i \in 0 .. n - 1 |-> l.heap[after(i)].link[i]]]
      linked(x) == [l.heap[x] EXCEPT
                      !.prev = IF x = next THEN a ELSE @,
                      !.link = [i \in DOMAIN @ |-> IF i < n /\ after(i) = x THEN a ELSE @[i]]]
  IN  [top_link |-> IF n > l.top_link THEN n ELSE l.top_link,
       count    |-> l.count + 1,
       heap     |-> [x \in DOMAIN l.heap \cup {a} |-> IF x = a THEN node ELSE linked(x)]]

\* A wrong Unlinked, for mutation tests: the next node is left without a prev
Unlinked_ResetsPrev(l, x) ==
  LET update == LastBelow(l, l.heap[x].key)
      linked(i) == \A j \in 0 .. i : l.heap[update[j]].link[j] = x
  IN  [y \in DOMAIN l.heap \ {x} |->
         [l.heap[y] EXCEPT
            !.prev = IF y = l.heap[x].link[0] THEN NULL ELSE @,
            !.link = [i \in DOMAIN @ |-> IF i <= l.top_link /\ update[i] = y /\ linked(i)
                                         THEN l.heap[x].link[i] ELSE @[i]]]]

\* The node x, link[0] of the last one below its key, leaves the levels from 0 up to
\* the first that it is not on
Unlinked(l, x) ==
  LET update == LastBelow(l, l.heap[x].key)
      linked(i) == \A j \in 0 .. i : l.heap[update[j]].link[j] = x
  IN  [y \in DOMAIN l.heap \ {x} |->
         [l.heap[y] EXCEPT
            !.prev = IF y = l.heap[x].link[0] THEN l.heap[x].prev ELSE @,
            !.link = [i \in DOMAIN @ |-> IF i <= l.top_link /\ update[i] = y /\ linked(i)
                                         THEN l.heap[x].link[i] ELSE @[i]]]]

\* A wrong Lowered, for mutation tests: one level at most
Lowered_Once(top, head) == IF top > 0 /\ head.link[top - 1] = NULL THEN top - 1 ELSE top

\* The top goes down to the highest level that is not empty
Lowered(top, head) == Max({0} \cup {i \in 1 .. top : head.link[i - 1] # NULL})

NodeRemove(l, x) ==
  LET heap == Unlinked(l, x)
  IN  [top_link |-> Lowered(l.top_link, heap[HEAD]), count |-> l.count - 1, heap |-> heap]

Init == list = EmptyList

\* The key is there already, or malloc fails
InsertKeeps == UNCHANGED list

Insert(k) ==
  /\ Met(list, k) = {}
  /\ \E n \in LinkCounts :
       list' = NodeInsert(list, CHOOSE a \in Addresses : a \notin DOMAIN list.heap, k, n)

\* skiplist_remove, and skiplist_itor_remove for the key of the iterator's node
RemoveKey(k) ==
  list' = IF Met(list, k) = {} THEN list
          ELSE NodeRemove(list, list.heap[LastBelow(list, k)[0]].link[0])

\* Every node on level 0 is freed, and the head's links up to the top
Clear ==
  list' = [top_link |-> 0, count |-> 0,
           heap |-> [x \in {HEAD} |-> [list.heap[x] EXCEPT
                       !.link = [i \in DOMAIN @ |-> IF i <= list.top_link THEN NULL ELSE @[i]]]]]

Next == InsertKeeps \/ (\E k \in Keys : Insert(k) \/ RemoveKey(k)) \/ Clear

Spec == Init /\ [][Next]_list

----------------------------------------------------------------------------
(* skiplist_verify: the nodes along level 0 know the one before, and the top is the       *)
(* highest level that is not empty                                                        *)
skiplist_verify(l) ==
  LET from[x \in DOMAIN l.heap] ==
        LET y == l.heap[x].link[0] IN IF y = NULL THEN <<>> ELSE <<y>> \o from[y]
      nodes    == from[HEAD]
      links(x) == Cardinality(DOMAIN l.heap[x].link)
  IN  /\ l.count = 0 <=> l.top_link = 0
      /\ l.top_link < max_link
      /\ \A i \in 0 .. max_link - 1 : i < l.top_link <=> l.heap[HEAD].link[i] # NULL
      /\ \A j \in DOMAIN nodes :
           /\ l.heap[nodes[j]].prev = IF j = 1 THEN NULL ELSE nodes[j - 1]
           /\ links(nodes[j]) >= 1
           /\ \A k \in DOMAIN l.heap[nodes[j]].link :
                LET y == l.heap[nodes[j]].link[k] IN y # NULL => links(y) >= k
      /\ l.top_link = Max({0} \cup {links(nodes[j]) : j \in DOMAIN nodes})

----------------------------------------------------------------------------
(* Iterators: the node one stands at, or NULL *)

IterLast(l) ==
  LET along[x \in DOMAIN l.heap, i \in 0 .. max_link] ==
        IF l.heap[x].link[i] = NULL THEN x ELSE along[l.heap[x].link[i], i]
      down[i \in 0 .. l.top_link] == IF i = l.top_link THEN HEAD ELSE along[down[i + 1], i]
  IN  IF down[0] = HEAD THEN NULL ELSE down[0]

IterNext(l, x) == IF x = NULL THEN NULL ELSE l.heap[x].link[0]
IterPrev(l, x) == IF x = NULL THEN NULL ELSE l.heap[x].prev

\* Where a call on an iterator at x takes it; arg is a key or a number
skiplist_itor(l, x, call, arg) ==
  LET forth[i \in 0 .. arg] == IF i = 0 THEN x ELSE IterNext(l, forth[i - 1])
      back[i \in 0 .. arg]  == IF i = 0 THEN x ELSE IterPrev(l, back[i - 1])
  IN  CASE call = "invalidate" -> NULL
        [] call = "first"      -> l.heap[HEAD].link[0]
        [] call = "last"       -> IterLast(l)
        [] call = "next"       -> IterNext(l, x)
        [] call = "prev"       -> IterPrev(l, x)
        [] call = "nextn"      -> forth[arg]
        [] call = "prevn"      -> back[arg]
        [] call = "search"     -> SearchNode(l, arg)
        [] call = "search_le"  -> SearchLE(l, arg)
        [] call = "search_lt"  -> SearchLT(l, arg)
        [] call = "search_ge"  -> SearchGE(l, arg)
        [] call = "search_gt"  -> SearchGT(l, arg)

IterCompare(l, x, y) ==
  IF x = NULL THEN IF y = NULL THEN 0 ELSE -1
  ELSE IF y = NULL THEN 1
  ELSE l.heap[x].key - l.heap[y].key

----------------------------------------------------------------------------
TypeOK ==
  LET ptrs == Nodes(list) \cup {NULL}
  IN  /\ HEAD \in DOMAIN list.heap /\ Nodes(list) \subseteq Addresses
      /\ list.top_link \in 0 .. max_link - 1
      /\ list.count \in Nat
      /\ \A x \in DOMAIN list.heap :
           {list.heap[x].prev} \cup Range(list.heap[x].link) \subseteq ptrs
      /\ \A x \in Nodes(list) : list.heap[x].key \in Keys /\ list.heap[x].datum = Datum(list.heap[x].key)

\* "ASSERT(link_count >= 1)" in node_new: no node is left off the list
NodesAreLinked == \A x \in Nodes(list) : list.heap[x].link # <<>>

\* Each level holds the nodes that are tall enough for it and no other, in the order of
\* their keys, which skiplist_verify takes for granted.
LevelsNest ==
  LET from[x \in DOMAIN list.heap, i \in 0 .. max_link - 1] ==
        LET y == list.heap[x].link[i] IN IF y = NULL THEN <<>> ELSE <<y>> \o from[y, i]
      level(i) == from[HEAD, i]
      tall(i)  == {x \in Nodes(list) : i \in DOMAIN list.heap[x].link}
  IN  /\ skiplist_verify(list)
      /\ \A i \in 0 .. max_link - 1 :
           /\ ToSet(level(i)) = tall(i) /\ Len(level(i)) = Cardinality(tall(i))
           /\ \A j \in 2 .. Len(level(i)) :
                list.heap[level(i)[j - 1]].key < list.heap[level(i)[j]].key
      /\ tall(0) = Nodes(list) /\ list.count = Cardinality(Nodes(list))

\* Every search, for keys that are there and keys that are not, finds the node that its
\* name says, from whatever levels the nodes happen to be on.
SearchesRight ==
  LET ks == {list.heap[x].key : x \in Nodes(list)}
      NodeWith(some, Pick(_)) ==
        IF some = {} THEN NULL ELSE CHOOSE x \in Nodes(list) : list.heap[x].key = Pick(some)
  IN  \A k \in Keys :
        /\ SearchNode(list, k) = NodeWith(ks \cap {k}, Max)
        /\ SearchLE(list, k)   = NodeWith({x \in ks : x <= k}, Max)
        /\ SearchLT(list, k)   = NodeWith({x \in ks : x < k}, Max)
        /\ SearchGE(list, k)   = NodeWith({x \in ks : x >= k}, Min)
        /\ SearchGT(list, k)   = NodeWith({x \in ks : x > k}, Min)

\* Every call on an iterator takes it where its name says, from wherever it stands and
\* whatever levels the nodes are on; and iterators compare like their keys, with
\* nowhere before everything.
IteratorsRight ==
  LET keys   == SetToSortSeq({list.heap[x].key : x \in Nodes(list)}, <)
      Pos(i) == IF i = 0 THEN NULL ELSE CHOOSE x \in Nodes(list) : list.heap[x].key = keys[i]
  IN  /\ \A i \in 0 .. Len(keys), c \in Steps \cup Strides \cup (Searches \X Keys) :
           skiplist_itor(list, Pos(i), c[1], c[2]) = Pos(MovedTo(keys, i, c[1], c[2]))
      /\ \A i, j \in 0 .. Len(keys) :
           /\ IterCompare(list, Pos(i), Pos(j)) < 0 <=> i < j
           /\ IterCompare(list, Pos(i), Pos(j)) = 0 <=> i = j

\* What the list maps
MapOf(l) ==
  [k \in {l.heap[x].key : x \in Nodes(l)} |->
     l.heap[CHOOSE x \in Nodes(l) : l.heap[x].key = k].datum]
===================================================================================
