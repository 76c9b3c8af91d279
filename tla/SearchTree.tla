-------------------------------- MODULE SearchTree --------------------------------
(***************************************************************************)
(* What the calls on any search tree of libdict have in common: the state  *)
(* they work on, the calls that every tree answers alike, and what its     *)
(* callers rely on.  The modules of the six trees extend this one.         *)
(***************************************************************************)
EXTENDS TreeCommon, Cursor

CONSTANT Keys  \* the keys that callers use

ASSUME KeysAssumption == Keys \subseteq Int

VARIABLES tree,   \* the tree
          op,     \* the call in progress, or "none"
          at,     \* the node its loop has reached
          added   \* the node whose datum the caller of an insertion sets

shared == <<tree, op, at, added>>

\* What callers store with a key: here each has a datum of its own
Datum(k) == <<k>>

\* ... and no datum is like that of a node whose caller has not set it yet
ASSUME DatumAssumption == \A k \in Keys : Datum(k) # NULL

\* The parents, without the bits that the red-black and the height-balanced tree keep
\* in the same word: what PARENT yields there
Up == [n \in DOMAIN tree.heap |-> tree.heap[n].parent]

\* The walks of the files that mask these bits
node_next(n) == IF n = NULL THEN NULL ELSE NodeNext(tree, n, Up)
node_prev(n) == IF n = NULL THEN NULL ELSE NodePrev(tree, n, Up)

\* Where a call of tree_common.c on an iterator at n takes it; x is a key or a number
tree_iterator(n, call, x) ==
  CASE call = "invalidate" -> NULL
    [] call = "first"      -> Leftmost(tree, tree.root)
    [] call = "last"       -> Rightmost(tree, tree.root)
    [] call = "next"       -> IterNext(tree, n, Up)
    [] call = "prev"       -> IterPrev(tree, n, Up)
    [] call = "nextn"      -> IterNextN(tree, n, x, Up)
    [] call = "prevn"      -> IterPrevN(tree, n, x, Up)
    [] call = "search"     -> SearchNode(tree, x)
    [] call = "search_le"  -> SearchLE(tree, x)
    [] call = "search_lt"  -> SearchLT(tree, x)
    [] call = "search_ge"  -> SearchGE(tree, x)
    [] call = "search_gt"  -> SearchGT(tree, x)

StartsEmpty == tree = EmptyTree /\ op = "none" /\ at = NULL /\ added = NULL

----------------------------------------------------------------------------
(* Calls *)

\* The key is there already and the caller gets its datum, or malloc fails
InsertKeeps ==
  /\ op = "none"
  /\ UNCHANGED shared

\* A new leaf, where malloc has room, with what its kind keeps in a node besides
Plant(k, extra) ==
  LET a == Fresh(tree)
      p == InsertionParent(tree, k)
  IN  /\ op = "none"
      /\ SearchNode(tree, k) = NULL
      /\ Addresses \ DOMAIN tree.heap # {}
      /\ tree' = Attach(tree, a, node_new(k, p, extra))
      /\ op' = "insert"
      /\ added' = a

\* The insertion returns, and its caller sets the datum through the pointer it got
Grown(t) == [t EXCEPT !.count = @ + 1, !.heap[added].datum = Datum(t.heap[added].key)]

RemoveMisses(k) ==
  /\ op = "none"
  /\ SearchNode(tree, k) = NULL
  /\ UNCHANGED shared

Clear ==
  /\ op = "none"
  /\ op' = "clear"
  /\ at' = tree.root
  /\ UNCHANGED <<tree, added>>

ClearNode ==
  /\ op = "clear" /\ at # NULL
  /\ tree' = Cleared(tree, at)
  /\ at' = ClearGoes(tree, at)
  /\ UNCHANGED <<op, added>>

ClearReturns ==
  /\ op = "clear" /\ at = NULL
  /\ tree' = [tree EXCEPT !.count = 0]
  /\ op' = "none"
  /\ UNCHANGED <<at, added>>

\* tree_clear comes to an end: it goes deeper, or frees a node and goes back up
ClearAdvances ==
  2 * Cardinality(DOMAIN tree'.heap) - Depth(tree', at')
    < 2 * Cardinality(DOMAIN tree.heap) - Depth(tree, at)

----------------------------------------------------------------------------
(* Every pointer is NULL or to a node, and what a call uses is reset when  *)
(* it returns.  (What a kind keeps in its nodes is typed in its module.)   *)
SharedTypeOK ==
  LET ptrs == DOMAIN tree.heap \cup {NULL}
  IN  /\ DOMAIN tree.heap \subseteq Addresses
      /\ {tree.root, at, added} \subseteq ptrs
      /\ tree.count \in Nat
      /\ \A n \in DOMAIN tree.heap :
           /\ tree.heap[n].key \in Keys
           /\ tree.heap[n].datum \in {NULL, Datum(tree.heap[n].key)}
           /\ {tree.heap[n].parent, tree.heap[n].llink, tree.heap[n].rlink} \subseteq ptrs
      /\ op \in {"none", "insert", "remove", "search", "clear"}
      /\ op = "none" => at = NULL
      /\ added # NULL <=> op = "insert"

\* Whatever is rotated, spliced out or cleared, and in the middle of it too, parents
\* and children agree, nothing is lost or leaked, and the walks of tree_traverse and of
\* the iterators visit every key once, in order, in both directions.
WalksInOrder ==
  /\ LinksAgree(tree)
  /\ InOrder(tree, Traverse(tree, Up))
  /\ InOrder(tree, Reverse(TraverseBack(tree, Up)))

\* Between calls every search, for keys that are there and keys that are not, finds
\* the node that its name says.
SearchesRight == op = "none" => \A k \in Keys : SearchesAreRight(tree, k)

\* Between calls, wherever an iterator stands, every call on it takes it where its name
\* says in the order of the keys; and iterators compare like their keys, with nowhere
\* before everything.
IteratorsRight(Itor(_, _, _), Exact(_)) ==
  op = "none" =>
    LET keys   == Traverse(tree, Up)
        Pos(i) == IF i \in DOMAIN keys THEN NodeOf(tree, keys[i]) ELSE NULL
    IN  /\ tree.count = Len(keys)
        /\ \A i \in 0 .. Len(keys), c \in Steps \cup Strides :
             Itor(Pos(i), c[1], c[2]) = Pos(MovedTo(keys, i, c[1], c[2]))
        /\ \A call \in Searches, k \in Keys :
             Exact(call) \/ k \in KeysOf(tree) =>
               Itor(NULL, call, k) = Pos(MovedTo(keys, 0, call, k))
        /\ \A i, j \in 0 .. Len(keys) :
             /\ IterCompare(tree, Pos(i), Pos(j)) < 0 <=> i < j
             /\ IterCompare(tree, Pos(i), Pos(j)) = 0 <=> i = j

\* The pointers that callers hold, iterators and the addresses of data, stay good while
\* others insert and search, and those to the keys that stay when nodes are freed one by
\* one.  A removal may exchange the contents of two nodes, so it promises only
\* that no more than one pointer besides the removed key's goes bad.
PointersStay ==
  [][LET kept  == DOMAIN tree.heap \cap DOMAIN tree'.heap
         moved == {n \in kept : tree'.heap[n].key # tree.heap[n].key}
     IN  /\ moved # {} => op = "none" /\ op' # "insert" /\ op' # "search"
         /\ Cardinality(moved) <= 1
         /\ \A n \in kept \ moved : tree.heap[n].datum # NULL =>
              tree'.heap[n].datum = tree.heap[n].datum]_tree

\* The tree is a map: rotations and the exchange of a removed node's contents with
\* its neighbour's lose no key and give none another's datum, and the pointer that
\* an insertion returns is still to the new key's datum after the rotations.
Map == INSTANCE OrderedMap WITH map <- MapOf(tree)

ImplementsMap == Map!Spec
===================================================================================
