---------------------------------- MODULE TrTree ----------------------------------
(***************************************************************************)
(* The treap (libuddsketch/src/dict/tr_tree.c): every node has a priority, *)
(* given by the caller's function of its key or drawn at random, and none  *)
(* has a greater one than its parent.  A new node is sifted up and one     *)
(* that is to go is sifted down, one rotation per step.                    *)
(***************************************************************************)
EXTENDS SearchTree

CONSTANT Prios  \* the priorities that prio_func or dict_rand may give

TrInit == StartsEmpty

Prio(t, n) == t.heap[n].prio

----------------------------------------------------------------------------
(* tr_tree_insert *)

TrInsert(k, prio) ==
  /\ Plant(k, [prio |-> prio])
  /\ at' = tree'.heap[added'].parent

\* A wrong TooLow, for mutation tests: only up to the root's children
TooLow_BelowRoot == at # NULL /\ Up[at] # NULL /\ Prio(tree, at) < Prio(tree, added)

\* The parent that the loop is at has the lower priority
TooLow == at # NULL /\ Prio(tree, at) < Prio(tree, added)

SiftUp ==
  /\ op = "insert"
  /\ TooLow
  /\ tree' = IF tree.heap[at].llink = added THEN RotRight(tree, at) ELSE RotLeft(tree, at)
  /\ at' = tree'.heap[added].parent
  /\ UNCHANGED <<op, added>>

InsertReturns ==
  /\ op = "insert"
  /\ ~TooLow
  /\ tree' = Grown(tree)
  /\ op' = "none"
  /\ at' = NULL
  /\ added' = NULL

----------------------------------------------------------------------------
(* tr_tree_remove, tr_itor_remove *)

TrRemoveNode(n) ==
  /\ op = "none"
  /\ op' = "remove"
  /\ at' = n
  /\ UNCHANGED <<tree, added>>

TwoChildren == NULL \notin {tree.heap[at].llink, tree.heap[at].rlink}

\* A wrong Heavier, for mutation tests: the lower of the two goes up
Heavier_Lower(t, m, n) == Prio(t, m) < Prio(t, n)

Heavier(t, m, n) == Prio(t, m) > Prio(t, n)

\* The child with the higher priority takes the place of the node, the right one on a tie
SiftDown ==
  /\ op = "remove"
  /\ TwoChildren
  /\ tree' = IF Heavier(tree, tree.heap[at].llink, tree.heap[at].rlink)
             THEN RotRight(tree, at) ELSE RotLeft(tree, at)
  /\ UNCHANGED <<op, at, added>>

RemoveReturns ==
  /\ op = "remove"
  /\ ~TwoChildren
  /\ tree' = [Splice(tree, at) EXCEPT !.count = @ - 1]
  /\ op' = "none"
  /\ at' = NULL
  /\ UNCHANGED added

----------------------------------------------------------------------------
tr_tree_verify(t) ==
  /\ NodesVerified(t)
  /\ \A n \in Subtree(t, t.root) \ {t.root} : Prio(t, n) <= Prio(t, t.heap[n].parent)

tr_itor(n, call, x) == tree_iterator(n, call, x)

TrCall == \/ InsertKeeps
          \/ \E k \in Keys : RemoveMisses(k)
          \/ \E k \in Keys, prio \in Prios : TrInsert(k, prio)
          \/ \E n \in DOMAIN tree.heap : TrRemoveNode(n)

tr_tree_clear == Clear \/ ClearNode \/ ClearReturns

TrLoop == SiftUp \/ InsertReturns \/ SiftDown \/ RemoveReturns

TrNext == TrCall \/ tr_tree_clear \/ TrLoop

TrSpec == TrInit /\ [][TrNext]_shared

----------------------------------------------------------------------------
\* A node has the priority it was given.
TrTypeOK == SharedTypeOK /\ \A n \in DOMAIN tree.heap : Prio(tree, n) \in Prios

\* No node has a greater priority than its parent, even between steps, except in the one
\* place that a call is working on: the new node may be too low, the node that is to go
\* too high.  The splice at the end of a removal needs the order below it and around it.
HeapOrdered ==
  \A n \in DOMAIN tree.heap :
    \/ Up[n] = NULL
    \/ op = "insert" /\ n = added
    \/ op = "remove" /\ at \in {n, Up[n]}
    \/ Prio(tree, n) <= Prio(tree, Up[n])

\* Every rotation lifts the new node, or leaves less below the one that is to go
TrAdvances ==
  IF op = "insert" THEN Depth(tree', added) < Depth(tree, added)
  ELSE Cardinality(Subtree(tree', at)) < Cardinality(Subtree(tree, at))
===================================================================================
