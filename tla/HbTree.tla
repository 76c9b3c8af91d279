---------------------------------- MODULE HbTree ----------------------------------
(***************************************************************************)
(* The height-balanced tree (libuddsketch/src/dict/hb_tree.c), which holds *)
(* the buckets of a store that collapsed uniformly.  A node keeps its      *)
(* balance in the two low bits of the word that holds its parent's         *)
(* address: 0, or 1 when the right subtree is higher, or 2 when the left   *)
(* one is.  The functions of hb_tree.c mask these bits; tree_common.c,     *)
(* which reads the same word as a parent, does not.                        *)
(*                                                                         *)
(* A call that changes the tree walks back up from where it did, one step  *)
(* of the specification per node.                                          *)
(***************************************************************************)
EXTENDS SearchTree

VARIABLES child,  \* node: the root of the subtree whose height changed
          left,   \* in remove_node: is it the left one?
          q       \* in hb_tree_insert: the last uneven node above the new one

vars == <<shared, child, left, q>>

\* What tree_common.c reads as n->parent: a word with a balance in it is no node's address
RawParent == [n \in DOMAIN tree.heap |-> IF tree.heap[n].bal = 0 THEN Up[n] ELSE Wild]

Init == StartsEmpty /\ child = NULL /\ left = FALSE /\ q = NULL

----------------------------------------------------------------------------
(* Rotations *)

rotate_l(t, n) ==
  LET nr   == t.heap[n].rlink
      even == t.heap[nr].bal = 0
  IN  [RotLeft(t, n) EXCEPT !.heap[n].bal  = IF even THEN 1 ELSE 0,
                            !.heap[nr].bal = IF even THEN 2 ELSE 0]

rotate_r(t, n) ==
  LET nl   == t.heap[n].llink
      even == t.heap[nl].bal = 0
  IN  [RotRight(t, n) EXCEPT !.heap[n].bal  = IF even THEN 2 ELSE 0,
                             !.heap[nl].bal = IF even THEN 1 ELSE 0]

\* rotate_rl and rotate_lr write out their two rotations in one piece
rotate_rl(t, n) ==
  LET nr  == t.heap[n].rlink
      nrl == t.heap[nr].llink
  IN  [RotLeft(RotRight(t, nr), n) EXCEPT
         !.heap[nrl].bal = 0,
         !.heap[n].bal   = IF t.heap[nrl].bal = 1 THEN 2 ELSE 0,
         !.heap[nr].bal  = IF t.heap[nrl].bal = 2 THEN 1 ELSE 0]

rotate_lr(t, n) ==
  LET nl  == t.heap[n].llink
      nlr == t.heap[nl].rlink
  IN  [RotRight(RotLeft(t, nl), n) EXCEPT
         !.heap[nlr].bal = 0,
         !.heap[n].bal   = IF t.heap[nlr].bal = 2 THEN 1 ELSE 0,
         !.heap[nl].bal  = IF t.heap[nlr].bal = 1 THEN 2 ELSE 0]

\* The child on the higher side of an uneven node, and whether it leans the other way
HigherChild(t, n) == IF t.heap[n].bal = 1 THEN t.heap[n].rlink ELSE t.heap[n].llink
Bent(t, n)        == t.heap[HigherChild(t, n)].bal = 3 - t.heap[n].bal

\* The rotation that lifts the higher child of n, or that child's inner child
Rotated(t, n) ==
  IF t.heap[n].bal = 1
  THEN IF Bent(t, n) THEN rotate_rl(t, n) ELSE rotate_l(t, n)
  ELSE IF Bent(t, n) THEN rotate_lr(t, n) ELSE rotate_r(t, n)

\* Does it leave the height as it was?  (a single rotation that returns true)
KeepsHeight(t, n) == t.heap[HigherChild(t, n)].bal = 0

----------------------------------------------------------------------------
(* hb_tree_insert *)

\* A wrong LastUneven, for mutation tests: the first one instead
LastUneven_First(t, k) ==
  LET walk[x \in DOMAIN t.heap \cup {NULL}] ==
        IF x = NULL THEN NULL
        ELSE IF t.heap[x].bal # 0 THEN x
        ELSE walk[IF k < t.heap[x].key THEN t.heap[x].llink ELSE t.heap[x].rlink]
  IN  walk[t.root]

\* The last node on the way down to k that is not even
LastUneven(t, k) ==
  LET ptrs == DOMAIN t.heap \cup {NULL}
      walk[x \in ptrs, last \in ptrs] ==
        IF x = NULL THEN last
        ELSE walk[IF k < t.heap[x].key THEN t.heap[x].llink ELSE t.heap[x].rlink,
                  IF t.heap[x].bal # 0 THEN x ELSE last]
  IN  walk[t.root, NULL]

Insert(k) ==
  /\ Plant(k, [bal |-> 0])
  /\ at' = tree'.heap[added'].parent
  /\ child' = added'
  /\ q' = LastUneven(tree, k)
  /\ UNCHANGED left

\* "bal |= bit"
Or(bal, bit) == IF bal \in {0, bit} THEN bit ELSE 3

\* The even nodes up to q lean towards the new node
Mark ==
  /\ op = "insert"
  /\ at # q
  /\ tree' = [tree EXCEPT !.heap[at].bal = Or(@, IF tree.heap[at].llink = child THEN 2 ELSE 1)]
  /\ child' = at
  /\ at' = Up[at]
  /\ UNCHANGED <<op, left, q, added>>

\* What happens at the uneven node q
AtUneven(t) ==
  LET grew == IF t.heap[q].llink = child THEN 2 ELSE 1
  IN  IF t.heap[q].bal = grew THEN Rotated(t, q) ELSE [t EXCEPT !.heap[q].bal = 0]

InsertReturns ==
  LET t1 == IF q = NULL THEN tree ELSE AtUneven(tree)
  IN  /\ op = "insert"
      /\ at = q
      /\ tree' = Grown(t1)
      /\ op' = "none"
      /\ added' = NULL
      /\ at' = NULL /\ child' = NULL /\ left' = FALSE /\ q' = NULL

----------------------------------------------------------------------------
(* hb_tree_remove, hb_itor_remove *)

\* The neighbour that takes the place of a node with two children
Neighbour(t, n) ==
  IF t.heap[n].bal = 1 THEN Leftmost(t, t.heap[n].rlink) ELSE Rightmost(t, t.heap[n].llink)

\* The loop at p, or its end when p is NULL, after the subtree below it got lower
GoTo(p, node, isLeft) ==
  IF p = NULL
  THEN op' = "none" /\ at' = NULL /\ child' = NULL /\ left' = FALSE
  ELSE op' = "remove" /\ at' = p /\ child' = node /\ left' = isLeft

RemoveNode(n) ==
  LET e   == Emptied(tree, n, Neighbour(tree, n))
      out == e[1].heap[e[2]]
  IN  /\ op = "none"
      /\ tree' = [Splice(e[1], e[2]) EXCEPT !.count = @ - 1]
      /\ GoTo(out.parent,
              IF out.llink # NULL THEN out.llink ELSE out.rlink,
              out.parent # NULL /\ e[1].heap[out.parent].llink = e[2])
      /\ UNCHANGED <<q, added>>

\* The side that got lower, as a balance
Lower == IF left THEN 2 ELSE 1

\* An even node leans the other way now, and is as high as before
RetraceTilts ==
  /\ op = "remove"
  /\ tree.heap[at].bal = 0
  /\ tree' = [tree EXCEPT !.heap[at].bal = 3 - Lower]
  /\ GoTo(NULL, NULL, FALSE)
  /\ UNCHANGED <<q, added>>

\* The pass that goes on above, from node
Above(t, node) ==
  LET p == t.heap[node].parent
  IN  GoTo(p, node, p # NULL /\ t.heap[p].llink = node)

\* A node that leant towards that side is even now, and lower
RetraceEvens ==
  /\ op = "remove"
  /\ tree.heap[at].bal = Lower
  /\ tree' = [tree EXCEPT !.heap[at].bal = 0]
  /\ Above(tree, at)
  /\ UNCHANGED <<q, added>>

\* A wrong RetraceRotates, for mutation tests: goes on although the height is kept
RetraceRotates_Always ==
  /\ op = "remove"
  /\ tree.heap[at].bal = 3 - Lower
  /\ tree' = Rotated(tree, at)
  /\ Above(tree', tree'.heap[at].parent)
  /\ UNCHANGED <<q, added>>

\* A node that leant the other way is rotated, which may keep the height
RetraceRotates ==
  /\ op = "remove"
  /\ tree.heap[at].bal = 3 - Lower
  /\ tree' = Rotated(tree, at)
  /\ IF KeepsHeight(tree, at) THEN GoTo(NULL, NULL, FALSE)
     ELSE Above(tree', tree'.heap[at].parent)
  /\ UNCHANGED <<q, added>>

----------------------------------------------------------------------------
(* Calls that look at the tree *)

hb_tree_select(i) == SelectNode(tree, i, Up)

hb_tree_verify(t) ==
  LET height[x \in DOMAIN t.heap \cup {NULL}] ==
        IF x = NULL THEN 0 ELSE 1 + Max({height[t.heap[x].llink], height[t.heap[x].rlink]})
  IN  /\ NodesVerified(t)
      /\ t.count = Cardinality(Subtree(t, t.root))
      /\ \A n \in Subtree(t, t.root) :
           height[t.heap[n].rlink] - height[t.heap[n].llink]
             = CASE t.heap[n].bal = 0 -> 0 [] t.heap[n].bal = 1 -> 1 [] t.heap[n].bal = 2 -> -1

----------------------------------------------------------------------------
\* An iterator's calls, by their names in hb_tree.h: here "search" is search_ge
hb_itor(n, call, x) ==
  LET step(m) == IF call \in {"next", "nextn"} THEN node_next(m) ELSE node_prev(m)
      go[i \in 0 .. x] == IF i = 0 THEN n ELSE step(go[i - 1])
  IN  CASE call \in {"next", "prev"}   -> step(n)
        [] call \in {"nextn", "prevn"} -> go[x]
        [] call = "search"              -> SearchGE(tree, x)
        [] OTHER -> tree_iterator(n, call, x)

Call == \/ InsertKeeps /\ UNCHANGED <<child, left, q>>
        \/ \E k \in Keys : Insert(k)
        \/ \E k \in Keys : RemoveMisses(k) /\ UNCHANGED <<child, left, q>>
        \/ \E n \in DOMAIN tree.heap : RemoveNode(n)

hb_tree_clear == (Clear \/ ClearNode \/ ClearReturns) /\ UNCHANGED <<child, left, q>>

Loop == \/ Mark \/ InsertReturns
        \/ RetraceTilts \/ RetraceEvens \/ RetraceRotates

Next == Call \/ hb_tree_clear \/ Loop

Spec == Init /\ [][Next]_vars

----------------------------------------------------------------------------
\* No balance has both bits, and the locals are reset on return.
TypeOK ==
  /\ SharedTypeOK
  /\ \A n \in DOMAIN tree.heap : tree.heap[n].bal \in 0 .. 2
  /\ {child, q} \subseteq DOMAIN tree.heap \cup {NULL} /\ left \in BOOLEAN
  /\ op = "none" => child = NULL /\ q = NULL

\* The assertions of hb_tree_insert, remove_node and the rotations: what is marked
\* was even, the subtree that changed is where the loop thinks it is, and a rotation
\* during an insertion always makes the tree lower.
AssertionsHold ==
  /\ op = "insert" /\ at # NULL =>
       /\ child \in {tree.heap[at].llink, tree.heap[at].rlink}
       /\ at # q => tree.heap[at].bal = 0
       /\ at = q => /\ tree.heap[q].bal # 0
                    /\ tree.heap[q].bal = (IF tree.heap[q].llink = child THEN 2 ELSE 1)
                         => ~KeepsHeight(tree, q)
  /\ op = "remove" =>
       /\ child = IF left THEN tree.heap[at].llink ELSE tree.heap[at].rlink
       /\ tree.heap[at].bal = 3 - Lower => HigherChild(tree, at) # NULL

\* "Traverses the tree in order, calling |visit| with each key and value pair":
\* hb_tree_traverse passes its tree to tree_traverse, which climbs by n->parent.
TraverseVisitsAll ==
  op = "none" => InOrder(tree, Traverse(tree, RawParent))

\* Every pass of a loop is nearer to the root, whatever was rotated below
Advances == Depth(tree', at') < Depth(tree, at)
===================================================================================
