---------------------------------- MODULE PrTree ----------------------------------
(***************************************************************************)
(* The path-reduction tree (libuddsketch/src/dict/pr_tree.c): a tree with  *)
(* weights that rotates only when that shortens the internal path length.  *)
(* The weights on the way back to the root are corrected one node at a     *)
(* time; at each, fixup calls itself on the nodes that a rotation lowers   *)
(* or lifts, and its calls still to be made are a stack here, todo.        *)
(***************************************************************************)
EXTENDS SearchTree

VARIABLE todo  \* the nodes that fixup is still to be called on, the next one first

vars == <<shared, todo>>

Init == StartsEmpty /\ todo = <<>>

----------------------------------------------------------------------------
(* fixup *)

Weight(t, n) == IF n = NULL THEN 1 ELSE t.heap[n].weight

LeftWeight(t, n)  == Weight(t, t.heap[n].llink)
RightWeight(t, n) == Weight(t, t.heap[n].rlink)

Reweigh(t, n) == [t EXCEPT !.heap[n].weight = LeftWeight(t, n) + RightWeight(t, n)]

\* A wrong rot_left, for mutation tests: the lifted node keeps its weight
rot_left_Stale(t, n) == Reweigh(RotLeft(t, n), n)

rot_left(t, n) ==
  LET r == t.heap[n].rlink
  IN  Reweigh(Reweigh(RotLeft(t, n), n), r)

rot_right(t, n) ==
  LET l == t.heap[n].llink
  IN  Reweigh(Reweigh(RotRight(t, n), n), l)

\* The double rotations are written out in one piece, with the weights by difference
rot_rl(t, n) ==
  LET r  == t.heap[n].rlink
      rl == t.heap[r].llink
      wn == t.heap[n].weight + Weight(t, t.heap[rl].llink) - t.heap[r].weight
      wr == t.heap[r].weight + Weight(t, t.heap[rl].rlink) - t.heap[rl].weight
  IN  [RotLeft(RotRight(t, r), n) EXCEPT
         !.heap[n].weight = wn, !.heap[r].weight = wr, !.heap[rl].weight = wn + wr]

rot_lr(t, n) ==
  LET l  == t.heap[n].llink
      lr == t.heap[l].rlink
      wn == t.heap[n].weight + Weight(t, t.heap[lr].rlink) - t.heap[l].weight
      wl == t.heap[l].weight + Weight(t, t.heap[lr].llink) - t.heap[lr].weight
  IN  [RotRight(RotLeft(t, l), n) EXCEPT
         !.heap[n].weight = wn, !.heap[l].weight = wl, !.heap[lr].weight = wn + wl]

\* Which grandchild of n outweighs the child on the other side, the outer one first
LL(t, n) == RightWeight(t, t.heap[n].rlink) > LeftWeight(t, n)
RL(t, n) == LeftWeight(t, t.heap[n].rlink) > LeftWeight(t, n)
RR(t, n) == LeftWeight(t, t.heap[n].llink) > RightWeight(t, n)
LR(t, n) == RightWeight(t, t.heap[n].llink) > RightWeight(t, n)

LeansRight(t, n) == LeftWeight(t, n) < RightWeight(t, n)
LeansLeft(t, n)  == LeftWeight(t, n) > RightWeight(t, n)

\* fixup is called on the head of todo, becomes rotated, and its own calls come next
Fixes(rotated, calls) ==
  /\ tree' = rotated
  /\ todo' = calls \o Tail(todo)
  /\ UNCHANGED <<op, at, added>>

FixupLL ==
  /\ todo # <<>>
  /\ LET n == Head(todo)
     IN  /\ LeansRight(tree, n) /\ LL(tree, n)
         /\ Fixes(rot_left(tree, n), <<n, tree.heap[n].rlink>>)

FixupRL ==
  /\ todo # <<>>
  /\ LET n == Head(todo)
     IN  /\ LeansRight(tree, n) /\ ~LL(tree, n) /\ RL(tree, n)
         /\ Fixes(rot_rl(tree, n), <<tree.heap[n].rlink, n>>)

FixupRR ==
  /\ todo # <<>>
  /\ LET n == Head(todo)
     IN  /\ LeansLeft(tree, n) /\ RR(tree, n)
         /\ Fixes(rot_right(tree, n), <<n, tree.heap[n].llink>>)

FixupLR ==
  /\ todo # <<>>
  /\ LET n == Head(todo)
     IN  /\ LeansLeft(tree, n) /\ ~RR(tree, n) /\ LR(tree, n)
         /\ Fixes(rot_lr(tree, n), <<tree.heap[n].llink, n>>)

FixupReturns ==
  /\ todo # <<>>
  /\ LET n == Head(todo)
     IN  /\ LeansRight(tree, n) => ~LL(tree, n) /\ ~RL(tree, n)
         /\ LeansLeft(tree, n) => ~RR(tree, n) /\ ~LR(tree, n)
         /\ Fixes(tree, <<>>)

----------------------------------------------------------------------------
(* pr_tree_insert *)

Insert(k) ==
  /\ Plant(k, [weight |-> 2])
  /\ at' = tree'.heap[added'].parent
  /\ UNCHANGED todo

InsertReturns ==
  /\ op = "insert" /\ at = NULL /\ todo = <<>>
  /\ tree' = Grown(tree)
  /\ op' = "none"
  /\ added' = NULL
  /\ UNCHANGED <<at, todo>>

----------------------------------------------------------------------------
(* pr_tree_remove, pr_itor_remove *)

\* The neighbour that takes the place of a node with two children
Neighbour(t, n) ==
  IF LeftWeight(t, n) > RightWeight(t, n)
  THEN Rightmost(t, t.heap[n].llink) ELSE Leftmost(t, t.heap[n].rlink)

RemoveNode(n) ==
  LET e == Emptied(tree, n, Neighbour(tree, n))
  IN  /\ op = "none"
      /\ tree' = [Splice(e[1], e[2]) EXCEPT !.count = @ - 1]
      /\ op' = "remove"
      /\ at' = e[1].heap[e[2]].parent
      /\ UNCHANGED <<added, todo>>

RemoveReturns ==
  /\ op = "remove" /\ at = NULL /\ todo = <<>>
  /\ op' = "none"
  /\ UNCHANGED <<tree, at, added, todo>>

----------------------------------------------------------------------------
(* The way back to the root, of both: the next node was read before fixup *)

Step == IF op = "insert" THEN 1 ELSE -1

Climb ==
  /\ op \in {"insert", "remove"} /\ at # NULL /\ todo = <<>>
  /\ tree' = [tree EXCEPT !.heap[at].weight = @ + Step]
  /\ at' = Up[at]
  /\ todo' = <<at>>
  /\ UNCHANGED <<op, added>>

----------------------------------------------------------------------------
(* Calls that look at the tree *)

\* pr_tree_select goes down by the weights; a Wild node is what it would find beyond a leaf
Select(t, i) ==
  LET walk[w \in (DOMAIN t.heap \cup {NULL}) \X (0 .. t.count)] ==
        LET x  == w[1]
            nw == Weight(t, t.heap[x].llink)
        IN  IF x = NULL THEN Wild
            ELSE IF w[2] + 1 = nw THEN x
            ELSE IF w[2] + 1 > nw THEN walk[<<t.heap[x].rlink, w[2] - nw>>]
            ELSE walk[<<t.heap[x].llink, w[2]>>]
  IN  IF i >= t.count THEN NULL ELSE walk[<<t.root, i>>]

\* No single or double rotation is left that would shorten the paths
pr_tree_verify(t) ==
  /\ NodesVerified(t)
  /\ \A n \in Subtree(t, t.root) :
       /\ t.heap[n].weight = LeftWeight(t, n) + RightWeight(t, n)
       /\ LeansRight(t, n) => ~LL(t, n) /\ ~RL(t, n)
       /\ LeansLeft(t, n) => ~RR(t, n) /\ ~LR(t, n)

----------------------------------------------------------------------------
pr_itor(n, call, x) == tree_iterator(n, call, x)

Call == \/ InsertKeeps /\ UNCHANGED todo
        \/ \E k \in Keys : RemoveMisses(k) /\ UNCHANGED todo
        \/ \E k \in Keys : Insert(k)
        \/ \E n \in DOMAIN tree.heap : RemoveNode(n)

pr_tree_clear == (Clear \/ ClearNode \/ ClearReturns) /\ UNCHANGED todo

Loop == \/ Climb \/ InsertReturns \/ RemoveReturns
        \/ FixupLL \/ FixupRL \/ FixupRR \/ FixupLR \/ FixupReturns

Next == Call \/ pr_tree_clear \/ Loop

Spec == Init /\ [][Next]_vars

----------------------------------------------------------------------------
\* Weights are positive, and the calls to be made are on nodes.
TypeOK ==
  /\ SharedTypeOK
  /\ \A n \in DOMAIN tree.heap : tree.heap[n].weight \in Nat \ {0}
  /\ todo \in Seq(DOMAIN tree.heap)
  /\ op \notin {"insert", "remove"} => todo = <<>>

\* The weight of a node counts the external nodes below it, except that on the path
\* still to be climbed it lags behind by the node that came or went.
WeightsExact ==
  op # "clear" =>
    \A n \in DOMAIN tree.heap :
      LET due == at \in Subtree(tree, n)
      IN  tree.heap[n].weight + (IF due THEN Step ELSE 0)
            = Cardinality(Subtree(tree, n)) + 1

\* A pass of the loop is nearer to the root, a rotation shortens the total internal path
\* length (the comment in fixup), and a call of fixup that does neither is one less
Advances ==
  \/ Depth(tree', at') < Depth(tree, at)
  \/ TotalPathLength(tree') < TotalPathLength(tree)
  \/ tree' = tree /\ Len(todo') < Len(todo)
===================================================================================
