---------------------------------- MODULE SpTree ----------------------------------
(***************************************************************************)
(* The splay tree (libuddsketch/src/dict/sp_tree.c): insertions, removals  *)
(* and the searches of the tree, though not those of its iterators, bring  *)
(* a node to the root, one pass of splay per step.                         *)
(***************************************************************************)
EXTENDS SearchTree

SpInit == StartsEmpty

----------------------------------------------------------------------------
(* splay, at the node at *)

\* Rotates n up above its parent
RotUp(t, n) ==
  LET p == t.heap[n].parent
  IN  IF t.heap[p].llink = n THEN RotRight(t, p) ELSE RotLeft(t, p)

IsLeft(t, n) == t.heap[t.heap[n].parent].llink = n

\* The parent is the root
Zig ==
  /\ op # "clear" /\ at # NULL
  /\ Up[at] # NULL /\ Up[Up[at]] = NULL
  /\ tree' = RotUp(tree, at)
  /\ UNCHANGED <<op, at, added>>

\* A wrong ZigZig, for mutation tests: rotates the node twice and not its parent first
ZigZig_NodeTwice ==
  /\ op # "clear" /\ at # NULL
  /\ Up[at] # NULL /\ Up[Up[at]] # NULL
  /\ IsLeft(tree, at) = IsLeft(tree, Up[at])
  /\ tree' = RotUp(RotUp(tree, at), at)
  /\ UNCHANGED <<op, at, added>>

\* Node and parent are on the same side: the parent is rotated first
ZigZig ==
  /\ op # "clear" /\ at # NULL
  /\ Up[at] # NULL /\ Up[Up[at]] # NULL
  /\ IsLeft(tree, at) = IsLeft(tree, Up[at])
  /\ tree' = RotUp(RotUp(tree, Up[at]), at)
  /\ UNCHANGED <<op, at, added>>

ZigZag ==
  /\ op # "clear" /\ at # NULL
  /\ Up[at] # NULL /\ Up[Up[at]] # NULL
  /\ IsLeft(tree, at) # IsLeft(tree, Up[at])
  /\ tree' = RotUp(RotUp(tree, at), at)
  /\ UNCHANGED <<op, at, added>>

\* The node is at the root, and the call that splayed it returns
SplayReturns ==
  /\ op \in {"insert", "search", "remove"}
  /\ at # NULL => Up[at] = NULL
  /\ tree' = CASE op = "insert" -> Grown(tree)
               [] op = "search" -> tree
               [] op = "remove" -> [tree EXCEPT !.count = @ - 1]
  /\ op' = "none"
  /\ at' = NULL
  /\ added' = NULL

----------------------------------------------------------------------------
(* Calls *)

SpInsert(k) == Plant(k, <<>>) /\ at' = added'

\* A search that returns without splaying
SearchMisses ==
  /\ op = "none"
  /\ UNCHANGED shared

Splays(n) ==
  /\ op = "none"
  /\ n # NULL
  /\ op' = "search"
  /\ at' = n
  /\ UNCHANGED <<tree, added>>

\* sp_tree_search splays the last node on its way when the key is not there
Search(k) ==
  LET n == SearchNode(tree, k)
  IN  Splays(IF n # NULL THEN n ELSE InsertionParent(tree, k))

\* The near-searches splay what they find
SearchNear(k) ==
  \E n \in {SearchLE(tree, k), SearchLT(tree, k), SearchGE(tree, k), SearchGT(tree, k)} :
    Splays(n)

\* The parent of the node that goes is splayed
SpRemoveNode(n) ==
  LET e == Emptied(tree, n, Leftmost(tree, tree.heap[n].rlink))
  IN  /\ op = "none"
      /\ tree' = Splice(e[1], e[2])
      /\ op' = "remove"
      /\ at' = e[1].heap[e[2]].parent
      /\ UNCHANGED added

----------------------------------------------------------------------------
sp_tree_verify(t) == NodesVerified(t)

sp_itor(n, call, x) == tree_iterator(n, call, x)

SpCall == \/ InsertKeeps \/ SearchMisses
          \/ \E k \in Keys : SpInsert(k) \/ RemoveMisses(k) \/ Search(k) \/ SearchNear(k)
          \/ \E n \in DOMAIN tree.heap : SpRemoveNode(n)

sp_tree_clear == Clear \/ ClearNode \/ ClearReturns

SpLoop == Zig \/ ZigZig \/ ZigZag \/ SplayReturns

SpNext == SpCall \/ sp_tree_clear \/ SpLoop

SpSpec == SpInit /\ [][SpNext]_shared

----------------------------------------------------------------------------
\* A node has no more than the shared fields.
SpTypeOK ==
  /\ SharedTypeOK
  /\ \A n \in DOMAIN tree.heap :
       DOMAIN tree.heap[n] = {"key", "datum", "parent", "llink", "rlink"}

\* Every pass of splay lifts the node by two levels, or by one to the root; while it is
\* not at the top everything below the node rises too, which is what halves the depth of
\* the nodes that earlier passes left there; and no other node sinks by more than two
SpAdvances ==
  /\ Depth(tree', at) = Max({1, Depth(tree, at) - 2})
  /\ \A n \in Subtree(tree, at) \ {at} :
       Depth(tree', n) <= Depth(tree, n) - (IF Depth(tree, at) > 2 THEN 1 ELSE 0)
  /\ \A n \in DOMAIN tree.heap : Depth(tree', n) <= Depth(tree, n) + 2
===================================================================================
