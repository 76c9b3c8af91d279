-------------------------------- MODULE TreeCommon --------------------------------
(***************************************************************************)
(* What the search trees of libdict share                                  *)
(* (libuddsketch/src/dict/tree_common.c): nodes with pointers to their     *)
(* children and their parent, rotations, searches and walks.               *)
(*                                                                         *)
(* A tree is a record: the pointer to its root, its count, and the heap,   *)
(* a function from the addresses of its nodes to nodes.  An operator is    *)
(* the effect of one C function on that record, or its result.             *)
(***************************************************************************)
EXTENDS Integers, FiniteSets, SequencesExt

CONSTANTS Addresses,  \* where a node may be allocated
          NULL,       \* no node, and a datum that was not set
          Wild        \* an address that is not a node's: one with a tag in its low bits

ASSUME PointerAssumption == NULL \notin Addresses /\ Wild \notin Addresses /\ NULL # Wild

EmptyTree == [root |-> NULL, count |-> 0, heap |-> [n \in {} |-> NULL]]

KeysOf(t)    == {t.heap[n].key : n \in DOMAIN t.heap}
NodeOf(t, k) == CHOOSE n \in DOMAIN t.heap : t.heap[n].key = k

----------------------------------------------------------------------------
(* Pointers *)

\* "*(p ? (p->llink == old ? &p->llink : &p->rlink) : &tree->root) = new"
Relink(t, p, old, new) ==
  IF p = NULL THEN [t EXCEPT !.root = new]
  ELSE IF t.heap[p].llink = old THEN [t EXCEPT !.heap[p].llink = new]
  ELSE [t EXCEPT !.heap[p].rlink = new]

\* "if (n) n->parent = p"
SetParent(t, n, p) == IF n = NULL THEN t ELSE [t EXCEPT !.heap[n].parent = p]

\* A wrong RotLeft, for mutation tests: the subtree that changes sides keeps its parent
RotLeft_KeepsParent(t, n) ==
  LET nr == t.heap[n].rlink
      p  == t.heap[n].parent
      t1 == [t EXCEPT !.heap[n].rlink = t.heap[nr].llink, !.heap[n].parent = nr,
                      !.heap[nr].llink = n, !.heap[nr].parent = p]
  IN  Relink(t1, p, n, nr)

\* Another, which moves the contents of the nodes instead of the nodes
RotLeft_Contents(t, n) ==
  LET nr == t.heap[n].rlink
      a  == t.heap[n].llink
      c  == t.heap[nr].rlink
      Filled(x, from, l, r) ==
        [t.heap[x] EXCEPT !.key = t.heap[from].key, !.datum = t.heap[from].datum,
                          !.llink = l, !.rlink = r]
  IN  [SetParent(SetParent(t, a, nr), c, n) EXCEPT !.heap =
         [x \in DOMAIN @ |-> IF x = n THEN Filled(n, nr, nr, c)
                             ELSE IF x = nr THEN Filled(nr, n, a, t.heap[nr].llink)
                             ELSE @[x]]]

RotLeft(t, n) ==
  LET nr == t.heap[n].rlink
      b  == t.heap[nr].llink
      p  == t.heap[n].parent
      t1 == [SetParent(t, b, n) EXCEPT
               !.heap[n].rlink = b, !.heap[n].parent = nr,
               !.heap[nr].llink = n, !.heap[nr].parent = p]
  IN  Relink(t1, p, n, nr)

RotRight(t, n) ==
  LET nl == t.heap[n].llink
      b  == t.heap[nl].rlink
      p  == t.heap[n].parent
      t1 == [SetParent(t, b, n) EXCEPT
               !.heap[n].llink = b, !.heap[n].parent = nl,
               !.heap[nl].rlink = n, !.heap[nl].parent = p]
  IN  Relink(t1, p, n, nl)

\* Where malloc puts a new node: which free address it is makes no difference
Fresh(t) == CHOOSE a \in Addresses : a \notin DOMAIN t.heap

\* A new node for the key, to hang below p, with what its kind keeps in a node besides
node_new(k, p, extra) ==
  LET node == [key |-> k, datum |-> NULL, parent |-> p, llink |-> NULL, rlink |-> NULL]
  IN  [f \in DOMAIN node \cup DOMAIN extra |->
         IF f \in DOMAIN extra THEN extra[f] ELSE node[f]]

\* A new node at a hangs below the parent it names, on the side of its key
Attach(t, a, node) ==
  LET p  == node.parent
      t1 == [t EXCEPT !.heap = [n \in DOMAIN @ \cup {a} |-> IF n = a THEN node ELSE @[n]]]
  IN  IF p = NULL THEN [t1 EXCEPT !.root = a]
      ELSE IF node.key < t.heap[p].key THEN [t1 EXCEPT !.heap[p].llink = a]
      ELSE [t1 EXCEPT !.heap[p].rlink = a]

\* A leaf or a node with one child goes, and its child takes its place
Splice(t, n) ==
  LET p     == t.heap[n].parent
      child == IF t.heap[n].llink # NULL THEN t.heap[n].llink ELSE t.heap[n].rlink
      t1    == Relink(SetParent(t, child, p), p, n, child)
  IN  [t1 EXCEPT !.heap = Restrict(@, DOMAIN @ \ {n})]

\* "SWAP(node->key, out->key, tmp); SWAP(node->datum, out->datum, tmp)"
SwapContents(t, n, out) ==
  [t EXCEPT !.heap[n].key = t.heap[out].key, !.heap[n].datum = t.heap[out].datum,
            !.heap[out].key = t.heap[n].key, !.heap[out].datum = t.heap[n].datum]

\* A wrong Emptied, for mutation tests: the datum stays where it was
Emptied_KeyOnly(t, n, out) ==
  IF NULL \in {t.heap[n].llink, t.heap[n].rlink} THEN <<t, n>>
  ELSE <<[t EXCEPT !.heap[n].key = t.heap[out].key, !.heap[out].key = t.heap[n].key], out>>

\* The tree and the node to splice out when n is to go: n itself, or with two
\* children its neighbour out, which trades contents with it
Emptied(t, n, out) ==
  IF NULL \in {t.heap[n].llink, t.heap[n].rlink} THEN <<t, n>>
  ELSE <<SwapContents(t, n, out), out>>

\* The node that tree_clear is at after n, and the tree it leaves: down to a child
\* while there is one, then the leaf goes and its parent is next
ClearGoes(t, n) ==
  IF t.heap[n].llink # NULL THEN t.heap[n].llink
  ELSE IF t.heap[n].rlink # NULL THEN t.heap[n].rlink
  ELSE t.heap[n].parent

Cleared(t, n) == IF {t.heap[n].llink, t.heap[n].rlink} = {NULL} THEN Splice(t, n) ELSE t

----------------------------------------------------------------------------
(* Walks.  up[n] is the parent of n as the caller reads it. *)

Leftmost(t, n) ==
  LET walk[x \in DOMAIN t.heap] ==
        IF t.heap[x].llink = NULL THEN x ELSE walk[t.heap[x].llink]
  IN  IF n = NULL THEN NULL ELSE walk[n]

Rightmost(t, n) ==
  LET walk[x \in DOMAIN t.heap] ==
        IF t.heap[x].rlink = NULL THEN x ELSE walk[t.heap[x].rlink]
  IN  IF n = NULL THEN NULL ELSE walk[n]

NodeNext(t, n, up) ==
  LET climb[x \in DOMAIN t.heap] ==
        IF up[x] \notin {NULL, Wild} /\ t.heap[up[x]].rlink = x
        THEN climb[up[x]] ELSE up[x]
  IN  IF t.heap[n].rlink # NULL THEN Leftmost(t, t.heap[n].rlink) ELSE climb[n]

NodePrev(t, n, up) ==
  LET climb[x \in DOMAIN t.heap] ==
        IF up[x] \notin {NULL, Wild} /\ t.heap[up[x]].llink = x
        THEN climb[up[x]] ELSE up[x]
  IN  IF t.heap[n].llink # NULL THEN Rightmost(t, t.heap[n].llink) ELSE climb[n]

\* tree_select: the n-th node, from the nearer end
SelectNode(t, n, up) ==
  LET forth[i \in 0 .. t.count] ==
        IF i = 0 THEN Leftmost(t, t.root) ELSE NodeNext(t, forth[i - 1], up)
      back[i \in 0 .. t.count] ==
        IF i = 0 THEN Rightmost(t, t.root) ELSE NodePrev(t, back[i - 1], up)
  IN  IF n >= t.count THEN NULL
      ELSE IF n >= t.count \div 2 THEN back[t.count - 1 - n] ELSE forth[n]

\* The keys that tree_traverse visits; a Wild node stands for what it would read there
Traverse(t, up) ==
  LET from[x \in DOMAIN t.heap \cup {NULL, Wild}] ==
        IF x = NULL THEN <<>>
        ELSE IF x = Wild THEN <<Wild>>
        ELSE <<t.heap[x].key>> \o from[NodeNext(t, x, up)]
  IN  from[Leftmost(t, t.root)]

\* The same from the last node down, as an iterator walks
TraverseBack(t, up) ==
  LET from[x \in DOMAIN t.heap \cup {NULL, Wild}] ==
        IF x = NULL THEN <<>>
        ELSE IF x = Wild THEN <<Wild>>
        ELSE <<t.heap[x].key>> \o from[NodePrev(t, x, up)]
  IN  from[Rightmost(t, t.root)]

----------------------------------------------------------------------------
(* Searches.  The five functions differ in whether an equal key ends the   *)
(* search, and in which of the nodes passed is the answer: the last one    *)
(* below the key, the last one above it, or none.                          *)

\* A wrong Descend, for mutation tests: an equal key ends every search
Descend_Equal(t, k, exact, side) ==
  LET ptrs == DOMAIN t.heap \cup {NULL}
      walk[w \in ptrs \X ptrs] ==
        LET x   == w[1]
            ret == w[2]
            key == t.heap[x].key
        IN  IF x = NULL THEN ret
            ELSE IF k = key THEN x
            ELSE IF k < key
            THEN walk[<<t.heap[x].llink, IF side = "above" THEN x ELSE ret>>]
            ELSE walk[<<t.heap[x].rlink, IF side = "below" THEN x ELSE ret>>]
  IN  walk[<<t.root, NULL>>]

Descend(t, k, exact, side) ==
  LET ptrs == DOMAIN t.heap \cup {NULL}
      walk[w \in ptrs \X ptrs] ==
        LET x   == w[1]
            ret == w[2]
            key == t.heap[x].key
        IN  IF x = NULL THEN ret
            ELSE IF k = key /\ exact THEN x
            ELSE IF k < key \/ (k = key /\ side = "below")
            THEN walk[<<t.heap[x].llink, IF side = "above" THEN x ELSE ret>>]
            ELSE walk[<<t.heap[x].rlink, IF side = "below" THEN x ELSE ret>>]
  IN  walk[<<t.root, NULL>>]

SearchNode(t, k) == Descend(t, k, TRUE, "none")
SearchLE(t, k)   == Descend(t, k, TRUE, "below")
SearchLT(t, k)   == Descend(t, k, FALSE, "below")
SearchGE(t, k)   == Descend(t, k, TRUE, "above")
SearchGT(t, k)   == Descend(t, k, FALSE, "above")

\* The node below which a new key is put, as the insertions find it
InsertionParent(t, k) ==
  LET walk[x \in DOMAIN t.heap] ==
        LET next == IF k < t.heap[x].key THEN t.heap[x].llink ELSE t.heap[x].rlink
        IN  IF next = NULL THEN x ELSE walk[next]
  IN  IF t.root = NULL THEN NULL ELSE walk[t.root]

----------------------------------------------------------------------------
(* Iterators.  One is the pointer to the node it stands at, NULL when it   *)
(* stands nowhere.                                                         *)

IterNext(t, n, up) == IF n = NULL THEN NULL ELSE NodeNext(t, n, up)
IterPrev(t, n, up) == IF n = NULL THEN NULL ELSE NodePrev(t, n, up)

IterNextN(t, n, count, up) ==
  LET step[i \in 0 .. count] == IF i = 0 THEN n ELSE IterNext(t, step[i - 1], up)
  IN  step[count]

IterPrevN(t, n, count, up) ==
  LET step[i \in 0 .. count] == IF i = 0 THEN n ELSE IterPrev(t, step[i - 1], up)
  IN  step[count]

\* A wrong IterCompare, for mutation tests: nowhere is after everything
IterCompare_NullLast(t, m, n) ==
  IF m = NULL THEN IF n = NULL THEN 0 ELSE 1
  ELSE IF n = NULL THEN -1
  ELSE t.heap[m].key - t.heap[n].key

IterCompare(t, m, n) ==
  IF m = NULL THEN IF n = NULL THEN 0 ELSE -1
  ELSE IF n = NULL THEN 1
  ELSE t.heap[m].key - t.heap[n].key

----------------------------------------------------------------------------
(* Path lengths *)

MinPathLength(t) ==
  LET min[x \in DOMAIN t.heap \cup {NULL}] ==
        IF x = NULL THEN 0 ELSE 1 + Min({min[t.heap[x].llink], min[t.heap[x].rlink]})
  IN  min[t.root]

MaxPathLength(t) ==
  LET max[x \in DOMAIN t.heap \cup {NULL}] ==
        IF x = NULL THEN 0 ELSE 1 + Max({max[t.heap[x].llink], max[t.heap[x].rlink]})
  IN  max[t.root]

TotalPathLength(t) ==
  LET sum[x \in DOMAIN t.heap \cup {NULL}, level \in Nat] ==
        IF x = NULL THEN 0
        ELSE level + sum[t.heap[x].llink, level + 1] + sum[t.heap[x].rlink, level + 1]
  IN  sum[t.root, 1]

----------------------------------------------------------------------------
(* What the searches and the walks must agree with *)

NodeWith(t, ks, Pick(_)) == IF ks = {} THEN NULL ELSE NodeOf(t, Pick(ks))

SearchesAreRight(t, k) ==
  LET ks == KeysOf(t)
  IN  /\ SearchNode(t, k) = NodeWith(t, ks \cap {k}, Max)
      /\ SearchLE(t, k)   = NodeWith(t, {x \in ks : x <= k}, Max)
      /\ SearchLT(t, k)   = NodeWith(t, {x \in ks : x < k}, Max)
      /\ SearchGE(t, k)   = NodeWith(t, {x \in ks : x >= k}, Min)
      /\ SearchGT(t, k)   = NodeWith(t, {x \in ks : x > k}, Min)

\* Does seq hold every key of the tree, in order?
InOrder(t, seq) ==
  /\ ToSet(seq) = KeysOf(t)
  /\ Len(seq) = Cardinality(DOMAIN t.heap)
  /\ \A i \in 2 .. Len(seq) : seq[i - 1] < seq[i]

\* How many nodes the way from the root to n has
Depth(t, n) ==
  LET d[x \in DOMAIN t.heap \cup {NULL}] == IF x = NULL THEN 0 ELSE 1 + d[t.heap[x].parent]
  IN  d[n]

\* The nodes of the subtree at n
Subtree(t, n) ==
  LET below[x \in DOMAIN t.heap \cup {NULL}] ==
        IF x = NULL THEN {}
        ELSE {x} \cup below[t.heap[x].llink] \cup below[t.heap[x].rlink]
  IN  below[n]

\* Parents and children know each other, and nothing else is allocated
LinksAgree(t) ==
  /\ DOMAIN t.heap = Subtree(t, t.root)
  /\ t.root # NULL => t.heap[t.root].parent = NULL
  /\ \A n \in DOMAIN t.heap : \A c \in {t.heap[n].llink, t.heap[n].rlink} \ {NULL} :
       t.heap[c].parent = n

\* What the node_verify functions of all six kinds look at, from the root down
NodesVerified(t) ==
  /\ t.root = NULL <=> t.count = 0
  /\ t.root # NULL => t.heap[t.root].parent = NULL
  /\ \A n \in Subtree(t, t.root) :
       LET l == t.heap[n].llink
           r == t.heap[n].rlink
       IN  /\ l # NULL => t.heap[l].parent = n /\ t.heap[l].key < t.heap[n].key
           /\ r # NULL => t.heap[r].parent = n /\ t.heap[r].key > t.heap[n].key

\* The map that the nodes hold; a node whose datum is not set yet is not in it
MapOf(t) ==
  LET there == {n \in DOMAIN t.heap : t.heap[n].datum # NULL}
  IN  [k \in {t.heap[n].key : n \in there} |-> t.heap[NodeOf(t, k)].datum]
===================================================================================
