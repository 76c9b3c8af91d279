---------------------------------- MODULE RbTree ----------------------------------
(***************************************************************************)
(* The red-black tree (libuddsketch/src/dict/rb_tree.c).  A node's colour  *)
(* is in the low bit of the word that holds its parent; here it is a field *)
(* of its own, and this file has its own rotations and walks, which mask   *)
(* the bit.  A call repairs the colours on its way up, one step of the     *)
(* specification per pass of insert_fixup or delete_fixup.  What the code  *)
(* writes out for both sides is here one definition for a side, left.      *)
(***************************************************************************)
EXTENDS SearchTree

VARIABLES child,  \* in delete_fixup, node: the subtree that lacks a black node
          left    \* in delete_fixup: is it the left one?

vars == <<shared, child, left>>

RED   == "red"
BLACK == "black"

Init == StartsEmpty /\ child = NULL /\ left = FALSE

----------------------------------------------------------------------------
(* Colours and sides *)

\* No node is as good as a black one
Color(t, n) == IF n = NULL THEN BLACK ELSE t.heap[n].color

Paint(t, n, color) == IF n = NULL THEN t ELSE [t EXCEPT !.heap[n].color = color]

Child(t, n, isLeft)  == IF isLeft THEN t.heap[n].llink ELSE t.heap[n].rlink
IsLeft(t, p, n)      == p # NULL /\ t.heap[p].llink = n
Rotate(t, n, toLeft) == IF toLeft THEN RotLeft(t, n) ELSE RotRight(t, n)

----------------------------------------------------------------------------
(* rb_tree_insert *)

Insert(k) ==
  /\ Plant(k, [color |-> RED])
  /\ at' = added'
  /\ UNCHANGED <<child, left>>

\* The loop's condition, and whom it looks at: the parent, its parent and its sibling
TwoReds     == at # tree.root /\ Color(tree, Up[at]) = RED
Grandparent == Up[Up[at]]
OnLeft      == IsLeft(tree, Grandparent, Up[at])
Uncle       == Child(tree, Grandparent, ~OnLeft)

InsertRecolors ==
  /\ op = "insert"
  /\ TwoReds
  /\ Color(tree, Uncle) = RED
  /\ tree' = Paint(Paint(Paint(tree, Uncle, BLACK), Up[at], BLACK), Grandparent, RED)
  /\ at' = Grandparent
  /\ UNCHANGED <<op, added, child, left>>

\* A wrong InsertRotates, for mutation tests: an inner node is not rotated outwards first
InsertRotates_Inner ==
  LET t1 == Paint(Paint(tree, Up[at], BLACK), Grandparent, RED)
  IN  /\ op = "insert"
      /\ TwoReds
      /\ Color(tree, Uncle) = BLACK
      /\ tree' = Rotate(t1, Grandparent, ~OnLeft)
      /\ UNCHANGED <<op, at, added, child, left>>

\* A node on the inner side first takes its parent's place
InsertRotates ==
  LET inner == IsLeft(tree, Up[at], at) # OnLeft
      t1    == IF inner THEN Rotate(tree, Up[at], OnLeft) ELSE tree
      node  == IF inner THEN Up[at] ELSE at
      t2    == Paint(Paint(t1, t1.heap[node].parent, BLACK), Grandparent, RED)
  IN  /\ op = "insert"
      /\ TwoReds
      /\ Color(tree, Uncle) = BLACK
      /\ tree' = Rotate(t2, Grandparent, ~OnLeft)
      /\ at' = node
      /\ UNCHANGED <<op, added, child, left>>

InsertReturns ==
  /\ op = "insert"
  /\ ~TwoReds
  /\ tree' = Grown(Paint(tree, tree.root, BLACK))
  /\ op' = "none"
  /\ at' = NULL
  /\ added' = NULL
  /\ UNCHANGED <<child, left>>

----------------------------------------------------------------------------
(* rb_tree_remove, rb_itor_remove *)

Returns == op' = "none" /\ at' = NULL /\ child' = NULL /\ left' = FALSE

Shrunk(t) == [t EXCEPT !.count = @ - 1]

\* A node with two children trades contents with its successor, which goes instead
RemoveNode(n) ==
  LET e   == Emptied(tree, n, Leftmost(tree, tree.heap[n].rlink))
      out == e[1].heap[e[2]]
      t1  == Splice(e[1], e[2])
  IN  /\ op = "none"
      /\ UNCHANGED added
      /\ IF out.color = BLACK /\ t1.root # NULL
         THEN /\ tree' = t1
              /\ op' = "remove"
              /\ at' = out.parent
              /\ child' = IF out.llink # NULL THEN out.llink ELSE out.rlink
              /\ left' = IsLeft(e[1], out.parent, e[2])
         ELSE tree' = Shrunk(t1) /\ Returns

\* The loop's condition, and the sibling it looks at: a red one is rotated up first,
\* which makes room for a black one
LacksBlack == child # tree.root /\ Color(tree, child) = BLACK
Sibling    == Child(tree, at, ~left)
Lifted     == IF Color(tree, Sibling) = RED
              THEN Rotate(Paint(Paint(tree, Sibling, BLACK), at, RED), at, left)
              ELSE tree

BlackChildren(t, n) == \A c \in {t.heap[n].llink, t.heap[n].rlink} : Color(t, c) = BLACK

DeleteRecolors ==
  LET w  == Child(Lifted, at, ~left)
      up == Lifted.heap[at].parent
  IN  /\ op = "remove"
      /\ LacksBlack
      /\ BlackChildren(Lifted, w)
      /\ tree' = Paint(Lifted, w, RED)
      /\ child' = at
      /\ at' = up
      /\ left' = IsLeft(Lifted, up, at)
      /\ UNCHANGED <<op, added>>

\* A wrong DeleteRotates, for mutation tests: the sibling is always painted black
DeleteRotates_Black ==
  LET w  == Child(Lifted, at, ~left)
      t1 == IF Color(Lifted, Child(Lifted, w, ~left)) = RED THEN Lifted
            ELSE Rotate(Paint(Paint(Lifted, Child(Lifted, w, left), BLACK), w, RED), w, ~left)
      v  == Child(t1, at, ~left)
      t2 == Paint(Paint(Paint(t1, v, BLACK), Child(t1, v, ~left), BLACK), at, BLACK)
  IN  /\ op = "remove"
      /\ LacksBlack
      /\ ~BlackChildren(Lifted, w)
      /\ tree' = Shrunk(Paint(Rotate(t2, at, left), child, BLACK))
      /\ Returns
      /\ UNCHANGED added

\* A sibling whose outer child is black is rotated outwards; then it takes the place
\* and the colour of the parent, and the loop ends
DeleteRotates ==
  LET w  == Child(Lifted, at, ~left)
      t1 == IF Color(Lifted, Child(Lifted, w, ~left)) = RED THEN Lifted
            ELSE Rotate(Paint(Paint(Lifted, Child(Lifted, w, left), BLACK), w, RED), w, ~left)
      v  == Child(t1, at, ~left)
      t2 == Paint(Paint(Paint(t1, v, Color(t1, at)), Child(t1, v, ~left), BLACK), at, BLACK)
  IN  /\ op = "remove"
      /\ LacksBlack
      /\ ~BlackChildren(Lifted, w)
      /\ tree' = Shrunk(Paint(Rotate(t2, at, left), child, BLACK))
      /\ Returns
      /\ UNCHANGED added

DeleteReturns ==
  /\ op = "remove"
  /\ ~LacksBlack
  /\ tree' = Shrunk(Paint(tree, child, BLACK))
  /\ Returns
  /\ UNCHANGED added

----------------------------------------------------------------------------
(* Calls that look at the tree *)

rb_tree_select(i) == SelectNode(tree, i, Up)

\* Every leaf has as many black nodes above it as the leftmost node
rb_tree_verify(t) ==
  LET blacks[x \in DOMAIN t.heap \cup {NULL}] ==
        IF x = NULL THEN 0
        ELSE blacks[t.heap[x].parent] + (IF Color(t, x) = BLACK THEN 1 ELSE 0)
  IN  /\ NodesVerified(t)
      /\ Color(t, t.root) = BLACK
      /\ \A n \in Subtree(t, t.root) :
           /\ t.heap[n].color = RED => BlackChildren(t, n)
           /\ {t.heap[n].llink, t.heap[n].rlink} = {NULL} =>
                blacks[n] = blacks[Leftmost(t, t.root)]

----------------------------------------------------------------------------
\* An iterator's calls, by their names in rb_tree.h
rb_itor(n, call, x) ==
  LET step(m) == IF call \in {"next", "nextn"} THEN node_next(m) ELSE node_prev(m)
      go[i \in 0 .. x] == IF i = 0 THEN n ELSE step(go[i - 1])
  IN  CASE call \in {"next", "prev"}   -> step(n)
        [] call \in {"nextn", "prevn"} -> go[x]
        [] OTHER -> tree_iterator(n, call, x)

Call == \/ InsertKeeps /\ UNCHANGED <<child, left>>
        \/ \E k \in Keys : Insert(k)
        \/ \E k \in Keys : RemoveMisses(k) /\ UNCHANGED <<child, left>>
        \/ \E n \in DOMAIN tree.heap : RemoveNode(n)

rb_tree_clear == (Clear \/ ClearNode \/ ClearReturns) /\ UNCHANGED <<child, left>>

Loop == \/ InsertRecolors \/ InsertRotates \/ InsertReturns
        \/ DeleteRecolors \/ DeleteRotates \/ DeleteReturns

Next == Call \/ rb_tree_clear \/ Loop

Spec == Init /\ [][Next]_vars

----------------------------------------------------------------------------
\* Every node has one of the two colours, and the locals are reset on return.
TypeOK ==
  /\ SharedTypeOK
  /\ \A n \in DOMAIN tree.heap : tree.heap[n].color \in {RED, BLACK}
  /\ child \in DOMAIN tree.heap \cup {NULL} /\ left \in BOOLEAN
  /\ op # "remove" => child = NULL /\ ~left

\* The black nodes on each way from the root to a missing child.  (rb_tree_verify looks
\* only at the ways that end at a leaf.)
BlackHeights ==
  LET ways[n \in DOMAIN tree.heap \cup {NULL}] ==
        IF n = NULL THEN {0}
        ELSE {b + (IF Color(tree, n) = BLACK THEN 1 ELSE 0)
                : b \in ways[tree.heap[n].llink] \cup ways[tree.heap[n].rlink]}
  IN  ways[tree.root]

\* What the loops take for granted: a red parent has a parent, the colours below the
\* pass are in order, and a node that lacks a black one has a sibling, whose
\* inner child is there when the outer one is black.
LoopsHaveNodes ==
  /\ op = "insert" =>
       /\ Color(tree, at) = RED \/ at = tree.root
       /\ TwoReds => Grandparent # NULL
  /\ op = "remove" =>
       /\ child = NULL => at # NULL
       /\ at # NULL => child = Child(tree, at, left)
       /\ LacksBlack =>
            /\ Sibling # NULL
            /\ LET w == Child(Lifted, at, ~left)
               IN  /\ w # NULL
                   /\ Color(Lifted, w) = BLACK

\* Every pass of a loop is nearer to the root, or the loop ends: lifting a red sibling
\* lowers the place where delete_fixup is, but leaves it red
Advances ==
  LET Left == 2 * Depth(tree, at) + IF op = "remove" /\ LacksBlack THEN 1 ELSE 0
  IN  Left' < Left
===================================================================================
