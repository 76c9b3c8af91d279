---------------------------------- MODULE WbTree ----------------------------------
(***************************************************************************)
(* The weight-balanced tree (libuddsketch/src/dict/wb_tree.c), which holds *)
(* the buckets of a new store.  A call that changes the tree walks back to *)
(* the root, one step of the specification per node: it corrects the       *)
(* weight and rotates when a subtree is too light.                         *)
(***************************************************************************)
EXTENDS SearchTree

vars == shared

Init == StartsEmpty

----------------------------------------------------------------------------
(* Weights and balance *)

Weight(t, n) == IF n = NULL THEN 1 ELSE t.heap[n].weight

Reweigh(t, n) ==
  [t EXCEPT !.heap[n].weight = Weight(t, t.heap[n].llink) + Weight(t, t.heap[n].rlink)]

\* A wrong LeftTooLight, for mutation tests: the bound is too low
LeftTooLight_Late(t, n) == Weight(t, t.heap[n].llink) * 1000 < t.heap[n].weight * 200

LeftTooLight(t, n) == Weight(t, t.heap[n].llink) * 1000 < t.heap[n].weight * 293
LeftTooHeavy(t, n) == Weight(t, t.heap[n].llink) * 1000 > t.heap[n].weight * 707

\* A wrong OuterLeft, for mutation tests: the bound of LeftTooLight instead
OuterLeft_Light(t, nr) == Weight(t, t.heap[nr].llink) * 1000 < t.heap[nr].weight * 293

\* Which of the two rotations is made, by the inner subtree of the heavy child
OuterLeft(t, nr)  == Weight(t, t.heap[nr].llink) * 1000 < t.heap[nr].weight * 586
OuterRight(t, nl) == Weight(t, t.heap[nl].llink) * 1000 > t.heap[nl].weight * 414

RotateLL(t, n) ==
  LET nr == t.heap[n].rlink
  IN  Reweigh(Reweigh(RotLeft(t, n), n), nr)

\* fixup writes out the two rotations in one piece
RotateRL(t, n) ==
  LET nr  == t.heap[n].rlink
      nrl == t.heap[nr].llink
  IN  Reweigh(Reweigh(Reweigh(RotLeft(RotRight(t, nr), n), n), nr), nrl)

RotateRR(t, n) ==
  LET nl == t.heap[n].llink
  IN  Reweigh(Reweigh(RotRight(t, n), n), nl)

RotateLR(t, n) ==
  LET nl  == t.heap[n].llink
      nlr == t.heap[nl].rlink
  IN  Reweigh(Reweigh(Reweigh(RotRight(RotLeft(t, nl), n), n), nl), nlr)

fixup(t, n) ==
  IF LeftTooLight(t, n)
  THEN IF OuterLeft(t, t.heap[n].rlink) THEN RotateLL(t, n) ELSE RotateRL(t, n)
  ELSE IF LeftTooHeavy(t, n)
  THEN IF OuterRight(t, t.heap[n].llink) THEN RotateRR(t, n) ELSE RotateLR(t, n)
  ELSE t

----------------------------------------------------------------------------
(* wb_tree_insert *)

\* A wrong Insert, for mutation tests: only internal nodes are counted
Insert_Weightless(k) ==
  /\ Plant(k, [weight |-> 0])
  /\ at' = tree'.heap[added'].parent

Insert(k) ==
  /\ Plant(k, [weight |-> 2])
  /\ at' = tree'.heap[added'].parent

InsertReturns ==
  /\ op = "insert"
  /\ at = NULL
  /\ tree' = Grown(tree)
  /\ op' = "none"
  /\ added' = NULL
  /\ UNCHANGED at

----------------------------------------------------------------------------
(* wb_tree_remove, wb_itor_remove *)

\* The neighbour that takes the place of a node with two children
Neighbour(t, n) ==
  LET l == t.heap[n].llink
      r == t.heap[n].rlink
  IN  IF t.heap[l].weight > t.heap[r].weight THEN Rightmost(t, l) ELSE Leftmost(t, r)

RemoveNode(n) ==
  LET e == Emptied(tree, n, Neighbour(tree, n))
  IN  /\ op = "none"
      /\ tree' = [Splice(e[1], e[2]) EXCEPT !.count = @ - 1]
      /\ op' = "remove"
      /\ at' = e[1].heap[e[2]].parent
      /\ UNCHANGED added

RemoveReturns ==
  /\ op = "remove"
  /\ at = NULL
  /\ op' = "none"
  /\ UNCHANGED <<tree, at, added>>

----------------------------------------------------------------------------
(* The way back to the root, of both *)

Step == IF op = "insert" THEN 1 ELSE -1

\* The tree that fixup is given
Adjusted == [tree EXCEPT !.heap[at].weight = @ + Step]

\* A wrong Climb, for mutation tests: goes on from where the rotation left the node
Climb_FromBelow ==
  /\ op \in {"insert", "remove"}
  /\ at # NULL
  /\ tree' = fixup(Adjusted, at)
  /\ at' = tree'.heap[at].parent
  /\ UNCHANGED <<op, added>>

Climb ==
  /\ op \in {"insert", "remove"}
  /\ at # NULL
  /\ tree' = fixup(Adjusted, at)
  /\ at' = tree.heap[at].parent
  /\ UNCHANGED <<op, added>>

----------------------------------------------------------------------------
(* Calls that look at the tree *)

\* wb_tree_select goes down by the weights; a Wild node is what it would find beyond a leaf
Select(t, i) ==
  LET walk[w \in (DOMAIN t.heap \cup {NULL}) \X (0 .. t.count)] ==
        LET x  == w[1]
            nw == Weight(t, t.heap[x].llink)
        IN  IF x = NULL THEN Wild
            ELSE IF w[2] + 1 = nw THEN x
            ELSE IF w[2] + 1 > nw THEN walk[<<t.heap[x].rlink, w[2] - nw>>]
            ELSE walk[<<t.heap[x].llink, w[2]>>]
  IN  IF i >= t.count THEN NULL ELSE walk[<<t.root, i>>]

wb_tree_verify(t) ==
  /\ NodesVerified(t)
  /\ t.count + 1 = Weight(t, t.root)
  /\ \A n \in Subtree(t, t.root) :
       LET left == Weight(t, t.heap[n].llink)
       IN  /\ t.heap[n].weight = left + Weight(t, t.heap[n].rlink)
           /\ left * 1000 >= t.heap[n].weight * 292
           /\ left * 1000 <= t.heap[n].weight * 708

----------------------------------------------------------------------------
wb_itor(n, call, x) == tree_iterator(n, call, x)

Call == \/ InsertKeeps
        \/ \E k \in Keys : Insert(k) \/ RemoveMisses(k)
        \/ \E n \in DOMAIN tree.heap : RemoveNode(n)

wb_tree_clear == Clear \/ ClearNode \/ ClearReturns

Loop == Climb \/ InsertReturns \/ RemoveReturns

Next == Call \/ wb_tree_clear \/ Loop

Spec == Init /\ [][Next]_vars

----------------------------------------------------------------------------
\* Weights are positive.
TypeOK ==
  SharedTypeOK /\ \A n \in DOMAIN tree.heap : tree.heap[n].weight \in Nat \ {0}

\* The weight of a node counts the external nodes below it, except that on the path
\* still to be climbed it lags behind by the node that came or went.
WeightsExact ==
  op # "clear" =>
    \A n \in DOMAIN tree.heap :
      LET due == at \in Subtree(tree, n)
      IN  tree.heap[n].weight + (IF due THEN Step ELSE 0)
            = Cardinality(Subtree(tree, n)) + 1

\* The assertions of fixup: the nodes that a rotation lifts are there.
RotationsHaveNodes ==
  op \in {"insert", "remove"} /\ at # NULL =>
    LET n == tree.heap[at]
    IN  /\ LeftTooLight(Adjusted, at) =>
             /\ n.rlink # NULL
             /\ ~OuterLeft(Adjusted, n.rlink) => tree.heap[n.rlink].llink # NULL
        /\ LeftTooHeavy(Adjusted, at) =>
             /\ n.llink # NULL
             /\ ~OuterRight(Adjusted, n.llink) => tree.heap[n.llink].rlink # NULL

\* Every pass of the loop is nearer to the root, whatever fixup did below
Advances == Depth(tree', at') < Depth(tree, at)
===================================================================================
