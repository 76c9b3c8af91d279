----------------------------- MODULE TrSpTree_proofs ------------------------------
(***************************************************************************)
(* The properties of the treap, for every set of keys, of addresses and of *)
(* priorities, and those of the splay tree, for every set of keys and      *)
(* addresses.  In every state of both the nodes form a search tree (IsTree *)
(* of SearchTree_proofs): their calls change it by a new leaf, by          *)
(* rotations or by a splice, where the node that goes is, with two         *)
(* children, the successor whose contents the node inherits.  In the treap *)
(* the order of the priorities around the node that a call moves is what   *)
(* each rotation needs to keep it everywhere else.                         *)
(***************************************************************************)
EXTENDS TrTree, SpTree, SearchTree_proofs

----------------------------------------------------------------------------
(* The priorities of the treap *)

HasPrios(t) == \A n \in DOMAIN t.heap : "prio" \in DOMAIN t.heap[n] /\ Prio(t, n) \in Prios

\* No node is above its parent's priority, but for low, which may be too low in the tree,
\* and around high, which may be too high.
Ordered(t, low, high) ==
  \A n \in DOMAIN t.heap :
    \/ t.heap[n].parent = NULL
    \/ n = low
    \/ high \in {n, t.heap[n].parent}
    \/ Prio(t, n) <= Prio(t, t.heap[n].parent)

\* The children of m would be in order below its parent.
Around(t, m) ==
  m # NULL /\ t.heap[m].parent # NULL =>
    \A c \in DOMAIN t.heap : t.heap[c].parent = m => Prio(t, c) <= Prio(t, t.heap[m].parent)

\* The children of a node are at the ends of its two pointers.
LEMMA ChildIs ==
  ASSUME NEW t, NEW sub, IsTree(t, sub), NEW m, NEW c \in DOMAIN t.heap, t.heap[c].parent = m, m # NULL
  PROVE  m \in DOMAIN t.heap /\ \E s \in Sides : t.heap[m][s] = c
BY DEF IsTree, Linked

LEMMA SamePrios ==
  ASSUME NEW t, NEW u, HasPrios(t), DOMAIN u.heap \subseteq DOMAIN t.heap,
         \A x \in DOMAIN u.heap : SameNode(t, u, x)
  PROVE  HasPrios(u) /\ \A x \in DOMAIN u.heap : Prio(u, x) = Prio(t, x)
BY DEF HasPrios, Prio, SameNode

\* A rotation that lifts the new node above a parent of a lower priority.
LEMMA LiftKeepsOrder ==
  ASSUME Prios \subseteq Int,
         NEW t, NEW sub, IsTree(t, sub), HasPrios(t), NEW n \in DOMAIN t.heap, NEW s \in Sides,
         t.heap[n][s] # NULL, Prio(t, n) < Prio(t, t.heap[n][s]),
         Ordered(t, t.heap[n][s], NULL), Around(t, t.heap[n][s]),
         NEW u, Rotated(t, u, n, s)
  PROVE  Ordered(u, t.heap[n][s], NULL) /\ Around(u, t.heap[n][s])
<1> DEFINE m == t.heap[n][s]
           b == t.heap[m][Other(s)]
           p == t.heap[n].parent
           D == DOMAIN t.heap
<1>1. /\ m \in D /\ m # n /\ t.heap[m].parent = n /\ m # NULL
      /\ b # NULL => b \in D /\ b # n /\ b # m /\ b # p /\ t.heap[b].parent = m
      /\ p # NULL => p \in D /\ p # n /\ p # m
  BY AroundRotation
<1>2. /\ DOMAIN u.heap = D
      /\ \A x \in D : SameNode(t, u, x)
      /\ \A x \in D : u.heap[x].parent = IF x = n THEN m ELSE IF x = m THEN p
                                         ELSE IF x = b THEN n ELSE t.heap[x].parent
  BY DEF Rotated
<1>3. \A x \in D : Prio(u, x) = Prio(t, x) /\ Prio(t, x) \in Int
  <2> TAKE x \in D
  <2>1. "prio" \in DOMAIN t.heap[x] /\ t.heap[x].prio \in Int
    BY DEF HasPrios, Prio
  <2>2. u.heap[x].prio = t.heap[x].prio
    BY <1>2, <2>1 DEF SameNode
  <2> QED BY <2>1, <2>2 DEF Prio
<1>4. n # NULL /\ NULL \notin D
  BY PointerAssumption DEF IsTree, IsHeap
<1>5. \A x \in D : t.heap[x].parent # NULL => t.heap[x].parent \in D
  BY DEF IsTree, Linked
<1>6. \A x \in D : x # m /\ t.heap[x].parent # NULL => Prio(t, x) <= Prio(t, t.heap[x].parent)
  BY <1>4 DEF Ordered
<1>7. \A c \in D : t.heap[c].parent = m => Prio(t, c) <= Prio(t, n)
  BY <1>1, <1>4 DEF Around
<1>8. Prio(t, n) < Prio(t, m)
  OBVIOUS
<1> HIDE DEF m, b, p, D
<1>9. Ordered(u, m, NULL)
  <2> SUFFICES ASSUME NEW x \in D, u.heap[x].parent # NULL, x # m
               PROVE  Prio(u, x) <= Prio(u, u.heap[x].parent)
    BY <1>2 DEF Ordered
  <2>1. CASE x = n
    BY <1>1, <1>2, <1>3, <1>8, <2>1
  <2>2. CASE x # n /\ x = b
    <3>1. t.heap[x].parent = m
      BY <1>1, <1>4, <2>2 DEF D
    <3> QED BY <1>2, <1>3, <1>7, <2>2, <3>1 DEF D
  <2>3. CASE x # n /\ x # b
    BY <1>2, <1>3, <1>5, <1>6, <2>3
  <2> QED BY <2>1, <2>2, <2>3
<1>10. Around(u, m)
  <2> SUFFICES ASSUME u.heap[m].parent # NULL, NEW c \in D, u.heap[c].parent = m
               PROVE  Prio(u, c) <= Prio(u, u.heap[m].parent)
    BY <1>2 DEF Around
  <2>1. u.heap[m].parent = p /\ p # NULL /\ p \in D
    BY <1>1, <1>2
  <2>2. Prio(t, n) <= Prio(t, p)
    BY <1>1, <1>6, <2>1 DEF p, D
  <2>3. c = n \/ t.heap[c].parent = m
    BY <1>1, <1>2
  <2>4. n \in D
    BY DEF D
  <2>5. Prio(t, c) <= Prio(t, n)
    BY <1>3, <1>7, <2>3, <2>4
  <2> QED BY <1>3, <2>1, <2>2, <2>4, <2>5
<1> QED BY <1>9, <1>10 DEF m

\* A rotation that lowers the node that is to go below the heavier of its children.
LEMMA LowerKeepsOrder ==
  ASSUME Prios \subseteq Int,
         NEW t, NEW sub, IsTree(t, sub), HasPrios(t), NEW n \in DOMAIN t.heap, NEW s \in Sides,
         t.heap[n][s] # NULL, t.heap[n][Other(s)] # NULL,
         Prio(t, t.heap[n][Other(s)]) <= Prio(t, t.heap[n][s]),
         Ordered(t, NULL, n), Around(t, n),
         NEW u, Rotated(t, u, n, s)
  PROVE  Ordered(u, NULL, n) /\ Around(u, n)
<1> DEFINE m == t.heap[n][s]
           b == t.heap[m][Other(s)]
           c2 == t.heap[n][Other(s)]
           p == t.heap[n].parent
           D == DOMAIN t.heap
<1>1. /\ m \in D /\ m # n /\ t.heap[m].parent = n /\ m # NULL
      /\ b # NULL => b \in D /\ b # n /\ b # m /\ b # p /\ t.heap[b].parent = m
      /\ p # NULL => p \in D /\ p # n /\ p # m
  BY AroundRotation
<1>2. /\ DOMAIN u.heap = D
      /\ \A x \in D : SameNode(t, u, x)
      /\ \A x \in D : u.heap[x].parent = IF x = n THEN m ELSE IF x = m THEN p
                                         ELSE IF x = b THEN n ELSE t.heap[x].parent
  BY DEF Rotated
<1>3. \A x \in D : Prio(u, x) = Prio(t, x) /\ Prio(t, x) \in Int
  <2> TAKE x \in D
  <2>1. "prio" \in DOMAIN t.heap[x] /\ t.heap[x].prio \in Int
    BY DEF HasPrios, Prio
  <2>2. u.heap[x].prio = t.heap[x].prio
    BY <1>2, <2>1 DEF SameNode
  <2> QED BY <2>1, <2>2 DEF Prio
<1>4. n # NULL /\ NULL \notin D /\ n \in D
  BY PointerAssumption DEF IsTree, IsHeap
<1>5. \A x \in D : t.heap[x].parent # NULL => t.heap[x].parent \in D
  BY DEF IsTree, Linked
<1>6. \A x \in D : x # n /\ t.heap[x].parent \notin {NULL, n} => Prio(t, x) <= Prio(t, t.heap[x].parent)
  BY <1>4 DEF Ordered
<1>7. p # NULL => Prio(t, m) <= Prio(t, p)
  BY <1>1, <1>4 DEF Around
<1>8. \A c \in D : t.heap[c].parent = n => c = m \/ c = c2
  BY <1>4, ChildIs DEF Sides, Other
<1>9. Prio(t, c2) <= Prio(t, m)
  OBVIOUS
<1> HIDE DEF m, b, p, D, c2
<1>10. Ordered(u, NULL, n)
  <2> SUFFICES ASSUME NEW x \in D, u.heap[x].parent \notin {NULL, n}, x # n
               PROVE  Prio(u, x) <= Prio(u, u.heap[x].parent)
    BY <1>2 DEF Ordered
  <2>1. CASE x = m
    BY <1>1, <1>2, <1>3, <1>7, <2>1
  <2>2. CASE x # m
    <3>1. x # b /\ u.heap[x].parent = t.heap[x].parent
      BY <1>2, <2>2
    <3> QED BY <1>3, <1>5, <1>6, <3>1
  <2> QED BY <2>1, <2>2
<1>11. Around(u, n)
  <2> SUFFICES ASSUME NEW c \in D, u.heap[c].parent = n
               PROVE  Prio(u, c) <= Prio(u, u.heap[n].parent)
    BY <1>2 DEF Around
  <2>1. u.heap[n].parent = m
    BY <1>2, <1>4
  <2>2. c # n /\ c # m /\ (c = b \/ c = c2)
    <3>1. c # n /\ c # m
      BY <1>1, <1>2, <1>4
    <3>2. c # b => t.heap[c].parent = n
      BY <1>2, <3>1
    <3> QED BY <1>8, <3>1, <3>2
  <2>3. CASE c = b
    <3>1. t.heap[c].parent = m /\ m \notin {NULL, n}
      BY <1>1, <1>4, <2>3
    <3>2. Prio(t, c) <= Prio(t, m)
      BY <1>6, <2>2, <3>1
    <3> QED BY <1>1, <1>3, <2>1, <3>2
  <2>4. CASE c = c2
    BY <1>1, <1>3, <1>9, <2>1, <2>4
  <2> QED BY <2>2, <2>3, <2>4
<1> QED BY <1>10, <1>11


----------------------------------------------------------------------------
(* The invariant of the treap *)

\* The nodes form a search tree, the data and the priorities are what callers gave.
TrTreeInv == /\ \E sub : IsTree(tree, sub)
             /\ Filled(tree, added)
             /\ HasPrios(tree)

\* Where a call is, and what the count says meanwhile.
TrCallInv ==
  LET N == DOMAIN tree.heap
  IN  /\ tree.count \in Nat
      /\ \/ op = "none" /\ at = NULL /\ added = NULL /\ tree.count = Cardinality(N)
         \/ /\ op = "insert" /\ added \in N /\ at = tree.heap[added].parent
            /\ tree.count + 1 = Cardinality(N)
         \/ op = "remove" /\ at \in N /\ added = NULL /\ tree.count = Cardinality(N)
         \/ op = "clear" /\ added = NULL /\ at \in N \cup {NULL} /\ (at = NULL => N = {})

\* The order of the priorities, but for the node that a call moves.
Low  == IF op = "insert" THEN added ELSE NULL
High == IF op = "remove" THEN at ELSE NULL

OrderInv == Ordered(tree, Low, High) /\ Around(tree, Low) /\ Around(tree, High)

TrIInv == TrTreeInv /\ TrCallInv /\ OrderInv


LEMMA TrInitHolds ==
  ASSUME TrInit
  PROVE  TrIInv
<1>1. /\ tree.root = NULL /\ tree.count = 0 /\ DOMAIN tree.heap = {}
      /\ DOMAIN tree = {"root", "count", "heap"}
      /\ op = "none" /\ at = NULL /\ added = NULL
  BY DEF TrInit, StartsEmpty, EmptyTree
<1>2. IsTree(tree, [n \in {} |-> {}])
  BY <1>1, FS_EmptySet DEF IsTree, IsHeap, Linked, Spans, Sorted
<1>3. TrTreeInv
  BY <1>1, <1>2 DEF TrTreeInv, Filled, HasPrios
<1>4. TrCallInv
  BY <1>1, FS_EmptySet DEF TrCallInv
<1>5. OrderInv
  BY <1>1 DEF OrderInv, Ordered, Around, Low, High
<1> QED BY <1>3, <1>4, <1>5 DEF TrIInv

LEMMA TrInsertStep ==
  ASSUME Prios \subseteq Int, TrIInv, NEW k \in Keys, NEW prio \in Prios, TrInsert(k, prio)
  PROVE  TrIInv' /\ KeepsPointers /\ MapStep
<1> DEFINE D == DOMAIN tree.heap
           a == Fresh(tree)
           p == InsertionParent(tree, k)
           extra == [prio |-> prio]
           u == Attach(tree, a, node_new(k, p, extra))
<1>1. PICK sub : IsTree(tree, sub)
  BY DEF TrIInv, TrTreeInv
<1>2. /\ op = "none" /\ SearchNode(tree, k) = NULL /\ Addresses \ D # {}
      /\ tree' = u /\ op' = "insert" /\ added' = a /\ at' = u.heap[a].parent
  BY DEF TrInsert, Plant
<1>3. at = NULL /\ added = NULL /\ tree.count = Cardinality(D) /\ tree.count \in Nat
  BY <1>2 DEF TrIInv, TrCallInv
<1>4. Filled(tree, NULL) /\ HasPrios(tree)
  BY <1>3 DEF TrIInv, TrTreeInv
<1>5. DOMAIN extra = {"prio"} /\ extra.prio = prio
  OBVIOUS
<1> HIDE DEF extra
<1>6. /\ \E sub2 : IsTree(u, sub2)
      /\ a \in Addresses /\ a \notin D /\ a # NULL
      /\ p \in D \cup {NULL}
      /\ u.count = tree.count /\ DOMAIN u.heap = D \cup {a}
      /\ u.heap[a] = node_new(k, p, extra)
      /\ \A x \in D : SameNode(tree, u, x) /\ u.heap[x].parent = tree.heap[x].parent
      /\ Filled(u, a) /\ MapOf(u) = MapOf(tree)
  <2>1. DOMAIN extra \cap {"key", "datum", "parent", "llink", "rlink"} = {}
    BY <1>5
  <2> HIDE DEF a, p, u, D
  <2> QED BY <1>1, <1>2, <1>4, <2>1, PlantGrowsTree DEF a, p, u, D
<1> HIDE DEF u, p, a
<1>7. /\ "prio" \in DOMAIN u.heap[a] /\ Prio(u, a) = prio /\ u.heap[a].parent = p
  BY <1>5, <1>6 DEF node_new, Prio
<1>8. HasPrios(u) /\ \A x \in D : Prio(u, x) = Prio(tree, x)
  BY <1>4, <1>6, <1>7 DEF HasPrios, Prio, SameNode
<1>9. \A x \in D : tree.heap[x].parent # NULL => tree.heap[x].parent \in D
  BY <1>1 DEF IsTree, Linked
<1>10. NULL \notin D /\ IsFiniteSet(D)
  BY <1>1, PointerAssumption DEF IsTree, IsHeap
<1>11. TrTreeInv'
  BY <1>2, <1>6, <1>8 DEF TrTreeInv
<1>12. TrCallInv'
  <2>1. Cardinality(D \cup {a}) = Cardinality(D) + 1
    BY <1>6, <1>10, FS_AddElement
  <2> QED BY <1>2, <1>3, <1>6, <1>7, <2>1 DEF TrCallInv
<1>13. OrderInv'
  <2>1. Ordered(tree, NULL, NULL)
    BY <1>2 DEF TrIInv, OrderInv, Low, High
  <2>2. Ordered(u, a, NULL)
    <3> SUFFICES ASSUME NEW x \in D, u.heap[x].parent # NULL
                 PROVE  Prio(u, x) <= Prio(u, u.heap[x].parent)
      BY <1>6 DEF Ordered
    <3>1. u.heap[x].parent = tree.heap[x].parent /\ tree.heap[x].parent \in D
      BY <1>6, <1>9
    <3>2. Prio(tree, x) <= Prio(tree, tree.heap[x].parent)
      BY <1>10, <2>1, <3>1 DEF Ordered
    <3> QED BY <1>8, <3>1, <3>2
  <2>3. \A c \in D \cup {a} : u.heap[c].parent # a
    BY <1>6, <1>7, <1>9
  <2>4. Around(u, a) /\ Around(u, NULL)
    BY <1>6, <2>3 DEF Around
  <2> QED BY <1>2, <2>2, <2>4 DEF OrderInv, Low, High
<1>14. KeepsPointers
  BY <1>1, <1>2, <1>6, SameNodesKeepPointers
<1>15. MapStep
  BY <1>2, <1>6 DEF MapStep
<1> QED BY <1>11, <1>12, <1>13, <1>14, <1>15 DEF TrIInv


LEMMA SiftUpStep ==
  ASSUME Prios \subseteq Int, TrIInv, SiftUp
  PROVE  TrIInv' /\ KeepsPointers /\ MapStep
<1> DEFINE D == DOMAIN tree.heap
           s == IF tree.heap[at].llink = added THEN "llink" ELSE "rlink"
<1>1. PICK sub : IsTree(tree, sub)
  BY DEF TrIInv, TrTreeInv
<1>2. /\ op = "insert" /\ at # NULL /\ Prio(tree, at) < Prio(tree, added)
      /\ tree' = IF tree.heap[at].llink = added THEN RotRight(tree, at) ELSE RotLeft(tree, at)
      /\ at' = tree'.heap[added].parent /\ op' = op /\ added' = added
  BY DEF SiftUp, TooLow
<1>3. /\ added \in D /\ at = tree.heap[added].parent
      /\ tree.count \in Nat /\ tree.count + 1 = Cardinality(D)
  BY <1>2 DEF TrIInv, TrCallInv
<1>4. added # NULL
  BY <1>1, <1>3, PointerAssumption DEF IsTree, IsHeap
<1>5. at \in D /\ s \in Sides /\ tree.heap[at][s] = added
  BY <1>1, <1>2, <1>3, ChildIs DEF Sides
<1>6. Rotated(tree, tree', at, s)
  <2>1. CASE tree.heap[at].llink = added
    <3>1. tree' = RotRight(tree, at) /\ s = "llink"
      BY <1>2, <2>1
    <3> QED BY <1>1, <1>4, <1>5, <2>1, <3>1, RotRightRotates
  <2>2. CASE tree.heap[at].llink # added
    <3>1. tree' = RotLeft(tree, at) /\ s = "rlink"
      BY <1>2, <2>2
    <3>2. tree.heap[at].rlink # NULL
      BY <1>4, <1>5, <3>1
    <3> QED BY <1>1, <1>5, <3>1, <3>2, RotLeftRotates
  <2> QED BY <2>1, <2>2
<1> HIDE DEF s
<1>7. /\ \E sub2 : IsTree(tree', sub2)
      /\ tree'.count = tree.count /\ DOMAIN tree'.heap = D
      /\ \A x \in D : SameNode(tree, tree', x)
      /\ MapOf(tree') = MapOf(tree)
      /\ \A a : Filled(tree, a) => Filled(tree', a)
  BY <1>1, <1>4, <1>5, <1>6, RotationIsTree
<1>8. HasPrios(tree) /\ Filled(tree, added)
  BY DEF TrIInv, TrTreeInv
<1>9. HasPrios(tree')
  BY <1>7, <1>8, SamePrios
<1>10. TrTreeInv'
  <2>1. added' = added
    BY <1>2, Zenon
  <2> QED BY <1>7, <1>8, <1>9, <2>1 DEF TrTreeInv
<1>11. TrCallInv'
  BY <1>2, <1>3, <1>7 DEF TrCallInv
<1>12. Ordered(tree', added, NULL) /\ Around(tree', added)
  <2>1. Ordered(tree, added, NULL) /\ Around(tree, added)
    BY <1>2 DEF TrIInv, OrderInv, Low, High
  <2> QED BY <1>1, <1>2, <1>4, <1>5, <1>6, <1>8, <2>1, LiftKeepsOrder
<1>13. OrderInv'
  BY <1>2, <1>12 DEF OrderInv, Low, High, Around
<1>14. KeepsPointers
  BY <1>1, <1>7, SameNodesKeepPointers
<1>15. MapStep
  BY <1>7 DEF MapStep
<1> QED BY <1>10, <1>11, <1>13, <1>14, <1>15 DEF TrIInv

LEMMA InsertReturnsStep ==
  ASSUME Prios \subseteq Int, TrIInv, InsertReturns
  PROVE  TrIInv' /\ KeepsPointers /\ MapStep
<1> DEFINE D == DOMAIN tree.heap
           k == tree.heap[added].key
<1>1. PICK sub : IsTree(tree, sub)
  BY DEF TrIInv, TrTreeInv
<1>2. /\ op = "insert" /\ ~TooLow
      /\ tree' = Returned(tree, added)
      /\ op' = "none" /\ at' = NULL /\ added' = NULL
  BY DEF InsertReturns, Grown, Returned
<1>3. /\ added \in D /\ at = tree.heap[added].parent
      /\ tree.count \in Nat /\ tree.count + 1 = Cardinality(D)
  BY <1>2 DEF TrIInv, TrCallInv
<1>4. HasPrios(tree) /\ Filled(tree, added)
  BY DEF TrIInv, TrTreeInv
<1>5. /\ IsTree(tree', sub) /\ Filled(tree', NULL)
      /\ tree'.count = tree.count + 1 /\ DOMAIN tree'.heap = D
      /\ \A x \in D :
           /\ DOMAIN tree'.heap[x] = DOMAIN tree.heap[x]
           /\ \A f \in DOMAIN tree.heap[x] \ {"datum"} : tree'.heap[x][f] = tree.heap[x][f]
           /\ x # added => tree'.heap[x].datum = tree.heap[x].datum
      /\ k \in Keys /\ k \notin DOMAIN MapOf(tree)
      /\ MapOf(tree') = [x \in DOMAIN MapOf(tree) \cup {k} |->
                           IF x = k THEN Datum(k) ELSE MapOf(tree)[x]]
  <2>1. HasGrown(tree, tree', added, sub)
    BY <1>1, <1>2, <1>3, <1>4, GrownPutsKey
  <2> QED BY <2>1 DEF HasGrown, PutsKey
<1>6. /\ \A x \in D : {"key", "parent", "prio", "datum"} \subseteq DOMAIN tree.heap[x]
      /\ NULL \notin D
  BY <1>1, <1>4, PointerAssumption DEF IsTree, IsHeap, HasPrios
<1>7. \A x \in D : /\ tree'.heap[x].key = tree.heap[x].key
                   /\ tree'.heap[x].parent = tree.heap[x].parent
                   /\ tree'.heap[x].prio = tree.heap[x].prio
  BY <1>5, <1>6
<1> HIDE DEF D
<1>8. HasPrios(tree')
  BY <1>4, <1>5, <1>7 DEF HasPrios, Prio, D
<1>9. TrTreeInv'
  BY <1>2, <1>5, <1>8 DEF TrTreeInv
<1>10. TrCallInv'
  BY <1>2, <1>3, <1>5 DEF TrCallInv
<1>11. OrderInv'
  <2>1. Ordered(tree, added, NULL)
    BY <1>2 DEF TrIInv, OrderInv, Low, High
  <2>2. \A x \in D : tree.heap[x].parent # NULL => tree.heap[x].parent \in D
    BY <1>1 DEF IsTree, Linked, D
  <2>3. \A x \in D : Prio(tree, x) \in Int /\ Prio(tree', x) = Prio(tree, x)
    BY <1>4, <1>7 DEF HasPrios, Prio, D
  <2>4. tree.heap[added].parent = NULL \/ Prio(tree, added) <= Prio(tree, tree.heap[added].parent)
    BY <1>2, <1>3, <2>2, <2>3 DEF TooLow
  <2>5. Ordered(tree', NULL, NULL)
    <3> SUFFICES ASSUME NEW x \in D, tree'.heap[x].parent # NULL
                 PROVE  Prio(tree', x) <= Prio(tree', tree'.heap[x].parent)
      BY <1>5 DEF Ordered
    <3>1. tree'.heap[x].parent = tree.heap[x].parent /\ tree.heap[x].parent \in D
      BY <1>7, <2>2
    <3>2. Prio(tree, x) <= Prio(tree, tree.heap[x].parent)
      BY <1>6, <2>1, <2>4, <3>1 DEF Ordered, D
    <3> QED BY <2>3, <3>1, <3>2
  <2> QED BY <1>2, <2>5 DEF OrderInv, Low, High, Around
<1>12. KeepsPointers
  BY <1>4, <1>5, <1>7 DEF KeepsPointers, Filled, D
<1>13. MapStep
  BY <1>5 DEF MapStep, Map!Put
<1> QED BY <1>9, <1>10, <1>11, <1>12, <1>13 DEF TrIInv


LEMMA TrRemoveNodeStep ==
  ASSUME Prios \subseteq Int, TrIInv, NEW n \in DOMAIN tree.heap, TrRemoveNode(n)
  PROVE  TrIInv' /\ KeepsPointers /\ MapStep
<1>1. PICK sub : IsTree(tree, sub)
  BY DEF TrIInv, TrTreeInv
<1>2. op = "none" /\ op' = "remove" /\ at' = n /\ tree' = tree /\ added' = added
  BY DEF TrRemoveNode
<1>3. TrTreeInv'
  BY <1>2 DEF TrIInv, TrTreeInv
<1>4. TrCallInv'
  BY <1>2 DEF TrIInv, TrCallInv
<1>5. OrderInv'
  <2> DEFINE D == DOMAIN tree.heap
             p == tree.heap[n].parent
  <2>1. Ordered(tree, NULL, NULL)
    BY <1>2 DEF TrIInv, OrderInv, Low, High
  <2>2. NULL \notin D /\ HasPrios(tree)
    BY <1>1, PointerAssumption DEF IsTree, IsHeap, TrIInv, TrTreeInv
  <2>3. \A x \in D : Prio(tree, x) \in Int
    BY <2>2 DEF HasPrios
  <2>4. \A x \in D : tree.heap[x].parent # NULL => Prio(tree, x) <= Prio(tree, tree.heap[x].parent)
    BY <2>1, <2>2 DEF Ordered
  <2>5. Ordered(tree, NULL, n)
    BY <2>4 DEF Ordered
  <2>6. p # NULL => p \in D
    BY <1>1 DEF IsTree, Linked
  <2>7. Around(tree, n)
    <3> SUFFICES ASSUME p # NULL, NEW c \in D, tree.heap[c].parent = n
                 PROVE  Prio(tree, c) <= Prio(tree, p)
      BY DEF Around
    <3>1. Prio(tree, c) <= Prio(tree, n) /\ Prio(tree, n) <= Prio(tree, p)
      BY <2>2, <2>4
    <3>2. Prio(tree, c) \in Int /\ Prio(tree, n) \in Int /\ Prio(tree, p) \in Int
      BY <2>3, <2>6
    <3> HIDE DEF p
    <3> QED BY <3>1, <3>2
  <2> QED BY <1>2, <2>5, <2>7 DEF OrderInv, Low, High, Around
<1>6. KeepsPointers
  BY <1>2 DEF KeepsPointers
<1>7. MapStep
  BY <1>2 DEF MapStep
<1> QED BY <1>3, <1>4, <1>5, <1>6, <1>7 DEF TrIInv

LEMMA SiftDownStep ==
  ASSUME Prios \subseteq Int, TrIInv, SiftDown
  PROVE  TrIInv' /\ KeepsPointers /\ MapStep
<1> DEFINE D == DOMAIN tree.heap
           s == IF Heavier(tree, tree.heap[at].llink, tree.heap[at].rlink) THEN "llink" ELSE "rlink"
<1>1. PICK sub : IsTree(tree, sub)
  BY DEF TrIInv, TrTreeInv
<1>2. /\ op = "remove" /\ tree.heap[at].llink # NULL /\ tree.heap[at].rlink # NULL
      /\ tree' = IF Heavier(tree, tree.heap[at].llink, tree.heap[at].rlink)
                 THEN RotRight(tree, at) ELSE RotLeft(tree, at)
      /\ op' = op /\ at' = at /\ added' = added
  BY DEF SiftDown, TwoChildren
<1>3. /\ at \in D /\ added = NULL
      /\ tree.count \in Nat /\ tree.count = Cardinality(D)
  BY <1>2 DEF TrIInv, TrCallInv
<1>4. HasPrios(tree) /\ Filled(tree, added)
  BY DEF TrIInv, TrTreeInv
<1>5. \A c \in {tree.heap[at].llink, tree.heap[at].rlink} : c \in D /\ Prio(tree, c) \in Int
  BY <1>1, <1>2, <1>3, <1>4 DEF IsTree, Linked, Sides, HasPrios
<1>6. s \in Sides /\ tree.heap[at][s] # NULL /\ tree.heap[at][Other(s)] # NULL
      /\ Prio(tree, tree.heap[at][Other(s)]) <= Prio(tree, tree.heap[at][s])
  <2>1. CASE s = "llink"
    <3>1. Prio(tree, tree.heap[at].rlink) < Prio(tree, tree.heap[at].llink)
      BY <1>5, <2>1 DEF Heavier
    <3> QED BY <1>2, <1>5, <2>1, <3>1 DEF Sides, Other
  <2>2. CASE s # "llink"
    <3>1. Prio(tree, tree.heap[at].llink) <= Prio(tree, tree.heap[at].rlink) /\ s = "rlink"
      BY <1>5, <2>2 DEF Heavier
    <3> QED BY <1>2, <1>5, <3>1 DEF Sides, Other
  <2> QED BY <2>1, <2>2
<1>7. Rotated(tree, tree', at, s)
  <2>1. CASE Heavier(tree, tree.heap[at].llink, tree.heap[at].rlink)
    <3>1. tree' = RotRight(tree, at) /\ s = "llink"
      BY <1>2, <2>1
    <3> QED BY <1>1, <1>2, <1>3, <3>1, RotRightRotates
  <2>2. CASE ~Heavier(tree, tree.heap[at].llink, tree.heap[at].rlink)
    <3>1. tree' = RotLeft(tree, at) /\ s = "rlink"
      BY <1>2, <2>2
    <3> QED BY <1>1, <1>2, <1>3, <3>1, RotLeftRotates
  <2> QED BY <2>1, <2>2
<1> HIDE DEF s
<1>8. /\ \E sub2 : IsTree(tree', sub2)
      /\ tree'.count = tree.count /\ DOMAIN tree'.heap = D
      /\ \A x \in D : SameNode(tree, tree', x)
      /\ MapOf(tree') = MapOf(tree)
      /\ \A a : Filled(tree, a) => Filled(tree', a)
  BY <1>1, <1>3, <1>6, <1>7, RotationIsTree
<1>9. HasPrios(tree')
  BY <1>4, <1>8, SamePrios
<1>10. TrTreeInv'
  BY <1>2, <1>4, <1>8, <1>9 DEF TrTreeInv
<1>11. TrCallInv'
  BY <1>2, <1>3, <1>8 DEF TrCallInv
<1>12. Ordered(tree', NULL, at) /\ Around(tree', at)
  <2>1. Ordered(tree, NULL, at) /\ Around(tree, at)
    BY <1>2 DEF TrIInv, OrderInv, Low, High
  <2> QED BY <1>1, <1>3, <1>4, <1>6, <1>7, <2>1, LowerKeepsOrder
<1>13. OrderInv'
  BY <1>2, <1>12 DEF OrderInv, Low, High, Around
<1>14. KeepsPointers
  BY <1>1, <1>8, SameNodesKeepPointers
<1>15. MapStep
  BY <1>8 DEF MapStep
<1> QED BY <1>10, <1>11, <1>13, <1>14, <1>15 DEF TrIInv

LEMMA RemoveReturnsStep ==
  ASSUME Prios \subseteq Int, TrIInv, RemoveReturns
  PROVE  TrIInv' /\ KeepsPointers /\ MapStep
<1> DEFINE D == DOMAIN tree.heap
           u == Splice(tree, at)
           k == tree.heap[at].key
           c == OnlyChild(tree, at)
           p == tree.heap[at].parent
<1>1. PICK sub : IsTree(tree, sub)
  BY DEF TrIInv, TrTreeInv
<1>2. /\ op = "remove" /\ NULL \in {tree.heap[at].llink, tree.heap[at].rlink}
      /\ tree' = [u EXCEPT !.count = @ - 1]
      /\ op' = "none" /\ at' = NULL /\ added' = added
  BY DEF RemoveReturns, TwoChildren
<1>3. /\ at \in D /\ added = NULL
      /\ tree.count \in Nat /\ tree.count = Cardinality(D)
  BY <1>2 DEF TrIInv, TrCallInv
<1>4. HasPrios(tree) /\ Filled(tree, NULL)
  BY <1>3 DEF TrIInv, TrTreeInv
<1>5. /\ IsTree(u, WithoutNode(tree, sub, at))
      /\ u.count = tree.count /\ DOMAIN u.heap = D \ {at}
      /\ \A x \in D \ {at} : /\ SameNode(tree, u, x)
                             /\ u.heap[x].parent = IF x = c THEN p ELSE tree.heap[x].parent
  BY <1>1, <1>2, <1>3, SpliceKeepsTree
<1>6. /\ Filled(u, NULL)
      /\ k \in DOMAIN MapOf(tree) /\ MapOf(u) = Restrict(MapOf(tree), DOMAIN MapOf(tree) \ {k})
  BY <1>1, <1>2, <1>3, <1>4, SpliceTakesKey
<1>7. NULL \notin D /\ IsFiniteSet(D)
  BY <1>1, PointerAssumption DEF IsTree, IsHeap
<1>8. \A x \in D : tree.heap[x].parent = at => x = c
  BY <1>1, <1>2, <1>3, <1>7, ChildIs DEF OnlyChild, Sides
<1>9. p # NULL => p \in D /\ p # at
  <2>1. p # NULL => p \in D
    BY <1>1, <1>3 DEF IsTree, Linked
  <2>2. ASSUME p # NULL PROVE p # at
    <3>1. PICK s \in Sides : tree.heap[p][s] = at
      BY <1>1, <1>3, <2>2 DEF IsTree, Linked
    <3> QED BY <1>1, <1>3, <1>7, <2>1, <2>2, <3>1, TreeFacts
  <2> QED BY <2>1, <2>2
<1> HIDE DEF u, c, p
<1>10. /\ tree'.root = u.root /\ tree'.heap = u.heap /\ tree'.count = u.count - 1
       /\ DOMAIN tree' = DOMAIN u
  <2>1. DOMAIN u = {"root", "count", "heap"}
    BY <1>5 DEF IsTree, IsHeap
  <2> QED BY <1>2, <2>1
<1>11. IsTree(tree', WithoutNode(tree, sub, at))
  BY <1>5, <1>10, SameLinksTree
<1>12. HasPrios(u) /\ \A x \in D \ {at} : Prio(u, x) = Prio(tree, x)
  BY <1>4, <1>5 DEF HasPrios, Prio, SameNode
<1>13. TrTreeInv'
  BY <1>2, <1>3, <1>6, <1>10, <1>11, <1>12 DEF TrTreeInv, Filled, HasPrios, Prio
<1>14. TrCallInv'
  <2>1. Cardinality(D \ {at}) = Cardinality(D) - 1 /\ Cardinality(D) # 0
    BY <1>3, <1>7, FS_RemoveElement, FS_EmptySet
  <2>2. DOMAIN tree'.heap = D \ {at} /\ tree'.count = tree.count - 1
    BY <1>5, <1>10
  <2>3. tree'.count = Cardinality(D \ {at}) /\ tree'.count \in Nat
    <3> HIDE DEF D
    <3> QED BY <1>3, <2>1, <2>2
  <2> QED BY <1>2, <1>3, <2>2, <2>3 DEF TrCallInv
<1>15. OrderInv'
  <2>1. Ordered(tree, NULL, at) /\ Around(tree, at)
    BY <1>2 DEF TrIInv, OrderInv, Low, High
  <2>2. Ordered(u, NULL, NULL)
    <3> SUFFICES ASSUME NEW x \in D \ {at}, u.heap[x].parent # NULL
                 PROVE  Prio(u, x) <= Prio(u, u.heap[x].parent)
      BY <1>5 DEF Ordered
    <3>1. CASE x = c
      <4>1. u.heap[x].parent = p /\ p \in D \ {at}
        BY <1>5, <1>9, <3>1
      <4>2. tree.heap[c].parent = at
        BY <1>1, <1>3, <1>7, <3>1 DEF c, OnlyChild, IsTree, Linked, Sides
      <4>3. Prio(tree, x) <= Prio(tree, p)
        BY <1>3, <1>7, <2>1, <3>1, <4>1, <4>2 DEF Around, p
      <4> QED BY <1>12, <4>1, <4>3
    <3>2. CASE x # c
      <4>1. u.heap[x].parent = tree.heap[x].parent /\ tree.heap[x].parent # at
        BY <1>5, <1>8, <3>2
      <4>2. tree.heap[x].parent \in D \ {at}
        BY <1>1, <4>1 DEF IsTree, Linked
      <4>3. Prio(tree, x) <= Prio(tree, tree.heap[x].parent)
        BY <1>7, <2>1, <4>1, <4>2 DEF Ordered
      <4> QED BY <1>12, <4>1, <4>2, <4>3
    <3> QED BY <3>1, <3>2
  <2>3. Ordered(tree', NULL, NULL)
    BY <1>10, <2>2 DEF Ordered, Prio
  <2> QED BY <1>2, <1>3, <2>3 DEF OrderInv, Low, High, Around
<1>16. KeepsPointers
  <2>1. \A x \in D \cap DOMAIN tree'.heap : SameNode(tree, tree', x)
    BY <1>5, <1>10 DEF SameNode
  <2> QED BY <1>1, <2>1, SameNodesKeepPointers
<1>17. MapStep
  <2>1. MapOf(tree') = MapOf(u)
    BY <1>10 DEF MapOf, NodeOf
  <2>2. k \in Keys
    BY <1>3, <1>4 DEF Filled
  <2> QED BY <1>6, <2>1, <2>2 DEF MapStep, Map!Delete, Map!Restrict, Restrict
<1> QED BY <1>13, <1>14, <1>15, <1>16, <1>17 DEF TrIInv

LEMMA TrClearStep ==
  ASSUME TrIInv, Clear
  PROVE  TrIInv' /\ KeepsPointers /\ MapStep
<1>1. PICK sub : IsTree(tree, sub)
  BY DEF TrIInv, TrTreeInv
<1>2. op = "none" /\ op' = "clear" /\ at' = tree.root /\ tree' = tree /\ added' = added
  BY DEF Clear
<1>3. tree.root \in DOMAIN tree.heap \cup {NULL} /\ (tree.root = NULL => DOMAIN tree.heap = {})
  BY <1>1 DEF IsTree, Linked
<1>4. TrTreeInv'
  BY <1>2 DEF TrIInv, TrTreeInv
<1>5. TrCallInv'
  BY <1>2, <1>3 DEF TrIInv, TrCallInv
<1>6. OrderInv'
  BY <1>2 DEF TrIInv, OrderInv, Low, High
<1>7. KeepsPointers /\ MapStep
  BY <1>2 DEF KeepsPointers, MapStep
<1> QED BY <1>4, <1>5, <1>6, <1>7 DEF TrIInv

LEMMA TrClearNodeStep ==
  ASSUME Prios \subseteq Int, TrIInv, ClearNode
  PROVE  TrIInv' /\ KeepsPointers /\ MapStep
<1> DEFINE D == DOMAIN tree.heap
           N == DOMAIN tree'.heap
           k == tree.heap[at].key
<1>1. PICK sub : IsTree(tree, sub)
  BY DEF TrIInv, TrTreeInv
<1>2. /\ op = "clear" /\ at # NULL
      /\ tree' = Cleared(tree, at) /\ at' = ClearGoes(tree, at)
      /\ op' = op /\ added' = added
  BY DEF ClearNode
<1>3. at \in D /\ added = NULL /\ tree.count \in Nat
  BY <1>2 DEF TrIInv, TrCallInv
<1>4. HasPrios(tree) /\ Filled(tree, NULL)
  BY <1>3 DEF TrIInv, TrTreeInv
<1>5. /\ \E sub2 : IsTree(tree', sub2)
      /\ Filled(tree', NULL) /\ tree'.count = tree.count
      /\ N = D \/ N = D \ {at}
      /\ \A x \in N : SameNode(tree, tree', x) /\ tree'.heap[x].parent = tree.heap[x].parent
      /\ at' \in N \cup {NULL} /\ (at' = NULL => N = {})
      /\ k \in DOMAIN MapOf(tree)
      /\ \/ MapOf(tree') = MapOf(tree)
         \/ MapOf(tree') = Restrict(MapOf(tree), DOMAIN MapOf(tree) \ {k})
  <2>1. HasCleared(tree, tree', at, at')
    BY <1>1, <1>2, <1>3, <1>4, ClearedIsTree
  <2> QED BY <2>1 DEF HasCleared
<1> HIDE DEF N
<1>6. HasPrios(tree') /\ \A x \in N : Prio(tree', x) = Prio(tree, x)
  BY <1>4, <1>5, SamePrios DEF N
<1>7. TrTreeInv'
  BY <1>2, <1>3, <1>5, <1>6 DEF TrTreeInv
<1>8. TrCallInv'
  BY <1>2, <1>3, <1>5 DEF TrCallInv, N
<1>9. OrderInv'
  <2>1. Ordered(tree, NULL, NULL)
    BY <1>2 DEF TrIInv, OrderInv, Low, High
  <2>2. NULL \notin D /\ N \subseteq D
    BY <1>1, <1>5, PointerAssumption DEF IsTree, IsHeap
  <2>3. \A x \in N : tree'.heap[x].parent # NULL => tree'.heap[x].parent \in N
    BY <1>5 DEF IsTree, Linked, N
  <2>4. Ordered(tree', NULL, NULL)
    <3> SUFFICES ASSUME NEW x \in N, tree'.heap[x].parent # NULL
                 PROVE  Prio(tree', x) <= Prio(tree', tree'.heap[x].parent)
      BY DEF Ordered, N
    <3>1. tree'.heap[x].parent = tree.heap[x].parent
      BY <1>5
    <3>2. Prio(tree, x) <= Prio(tree, tree.heap[x].parent)
      BY <2>1, <2>2, <3>1 DEF Ordered
    <3> QED BY <1>6, <2>3, <3>1, <3>2
  <2> QED BY <1>2, <2>4 DEF OrderInv, Low, High, Around
<1>10. KeepsPointers
  <2>1. \A x \in D \cap N : SameNode(tree, tree', x)
    BY <1>5
  <2> QED BY <1>1, <2>1, SameNodesKeepPointers DEF N
<1>11. MapStep
  <2>1. k \in Keys
    BY <1>3, <1>4 DEF Filled
  <2> QED BY <1>5, <2>1 DEF MapStep, Map!Delete, Map!Restrict, Restrict
<1> QED BY <1>7, <1>8, <1>9, <1>10, <1>11 DEF TrIInv

LEMMA TrClearReturnsStep ==
  ASSUME TrIInv, ClearReturns
  PROVE  TrIInv' /\ KeepsPointers /\ MapStep
<1>1. PICK sub : IsTree(tree, sub)
  BY DEF TrIInv, TrTreeInv
<1>2. /\ op = "clear" /\ at = NULL /\ tree' = [tree EXCEPT !.count = 0]
      /\ op' = "none" /\ at' = at /\ added' = added
  BY DEF ClearReturns
<1>3. DOMAIN tree.heap = {} /\ added = NULL
  BY <1>2, <1>1, PointerAssumption DEF TrIInv, TrCallInv, IsTree, IsHeap
<1>4. /\ DOMAIN tree' = DOMAIN tree /\ tree'.root = tree.root /\ tree'.heap = tree.heap
      /\ tree'.count = 0
  BY <1>1, <1>2 DEF IsTree, IsHeap
<1>5. IsTree(tree', sub)
  BY <1>1, <1>4, SameLinksTree
<1>6. TrTreeInv'
  BY <1>3, <1>4, <1>5 DEF TrTreeInv, Filled, HasPrios
<1>7. TrCallInv'
  BY <1>2, <1>3, <1>4, FS_EmptySet DEF TrCallInv
<1>8. OrderInv'
  BY <1>2, <1>3, <1>4 DEF OrderInv, Ordered, Around, Low, High
<1>9. KeepsPointers
  BY <1>4 DEF KeepsPointers
<1>10. MapStep
  BY <1>4 DEF MapStep, MapOf, NodeOf
<1> QED BY <1>6, <1>7, <1>8, <1>9, <1>10 DEF TrIInv

LEMMA TrNothingStep ==
  ASSUME TrIInv, UNCHANGED shared
  PROVE  TrIInv' /\ KeepsPointers /\ MapStep
<1>1. tree' = tree /\ op' = op /\ at' = at /\ added' = added
  BY DEF shared
<1>2. TrTreeInv' /\ TrCallInv' /\ OrderInv'
  BY <1>1 DEF TrIInv, TrTreeInv, TrCallInv, OrderInv, Low, High
<1> QED BY <1>1, <1>2 DEF TrIInv, KeepsPointers, MapStep

LEMMA TrNextStep ==
  ASSUME Prios \subseteq Int, TrIInv, [TrNext]_shared
  PROVE  TrIInv' /\ KeepsPointers /\ MapStep
<1>1. ASSUME NEW k \in Keys, NEW prio \in Prios, TrInsert(k, prio)
      PROVE  TrIInv' /\ KeepsPointers /\ MapStep
  BY <1>1, TrInsertStep
<1>2. CASE SiftUp BY <1>2, SiftUpStep
<1>3. CASE InsertReturns BY <1>3, InsertReturnsStep
<1>4. ASSUME NEW n \in DOMAIN tree.heap, TrRemoveNode(n)
      PROVE  TrIInv' /\ KeepsPointers /\ MapStep
  BY <1>4, TrRemoveNodeStep
<1>5. CASE SiftDown BY <1>5, SiftDownStep
<1>6. CASE RemoveReturns BY <1>6, RemoveReturnsStep
<1>7. CASE Clear BY <1>7, TrClearStep
<1>8. CASE ClearNode BY <1>8, TrClearNodeStep
<1>9. CASE ClearReturns BY <1>9, TrClearReturnsStep
<1>10. CASE UNCHANGED shared BY <1>10, TrNothingStep
<1>11. CASE InsertKeeps \/ \E k \in Keys : RemoveMisses(k)
  BY <1>10, <1>11 DEF InsertKeeps, RemoveMisses, shared
<1> QED BY <1>1, <1>2, <1>3, <1>4, <1>5, <1>6, <1>7, <1>8, <1>9, <1>10, <1>11
        DEF TrNext, TrCall, tr_tree_clear, TrLoop


----------------------------------------------------------------------------
(* The properties *)

LEMMA TrInvariantHolds ==
  ASSUME Prios \subseteq Int
  PROVE  TrSpec => []TrIInv
<1>1. TrInit => TrIInv
  BY TrInitHolds
<1>2. TrIInv /\ [TrNext]_shared => TrIInv'
  BY TrNextStep
<1> QED BY <1>1, <1>2, PTL DEF TrSpec

\* Every pointer is NULL or to a node, a call resets what it uses, and every node has the
\* priority it was given.
THEOREM TrTypeCorrect ==
  ASSUME Prios \subseteq Int
  PROVE  TrSpec => []TrTypeOK
<1>1. TrIInv => TrTypeOK
  <2> SUFFICES ASSUME TrIInv PROVE TrTypeOK
    OBVIOUS
  <2>1. PICK sub : IsTree(tree, sub)
    BY DEF TrIInv, TrTreeInv
  <2>2. /\ DOMAIN tree.heap \subseteq Addresses /\ NULL \notin DOMAIN tree.heap
        /\ tree.root \in DOMAIN tree.heap \cup {NULL}
    BY <2>1, PointerAssumption DEF IsTree, IsHeap, Linked
  <2>3. \A n \in DOMAIN tree.heap :
          /\ tree.heap[n].parent \in DOMAIN tree.heap \cup {NULL}
          /\ tree.heap[n].llink \in DOMAIN tree.heap \cup {NULL}
          /\ tree.heap[n].rlink \in DOMAIN tree.heap \cup {NULL}
    BY <2>1 DEF IsTree, Linked, Sides
  <2>4. \A n \in DOMAIN tree.heap :
          /\ tree.heap[n].key \in Keys
          /\ tree.heap[n].datum \in {NULL, Datum(tree.heap[n].key)}
          /\ Prio(tree, n) \in Prios
    BY DEF TrIInv, TrTreeInv, Filled, HasPrios
  <2>5. /\ tree.count \in Nat
        /\ {at, added} \subseteq DOMAIN tree.heap \cup {NULL}
        /\ op \in {"none", "insert", "remove", "search", "clear"}
        /\ op = "none" => at = NULL
        /\ added # NULL <=> op = "insert"
    BY <2>2, <2>3 DEF TrIInv, TrCallInv
  <2> QED BY <2>2, <2>3, <2>4, <2>5 DEF TrTypeOK, SharedTypeOK
<1> QED BY <1>1, TrInvariantHolds, PTL

\* Between calls every search, for keys that are there and keys that are not, finds
\* the node that its name says.
THEOREM TrSearchesAlwaysRight ==
  ASSUME Prios \subseteq Int
  PROVE  TrSpec => []SearchesRight
<1>1. TrIInv => SearchesRight
  BY TreeSearches, KeysAssumption DEF TrIInv, TrTreeInv, SearchesRight
<1> QED BY <1>1, TrInvariantHolds, PTL

\* In every state, in the middle of a call too, parents and children agree, the nodes that can be
\* reached from the root are all that is allocated, and the walks of tree_traverse and of the
\* iterators visit every key once, in order, in both directions.
THEOREM TrWalksAlwaysInOrder ==
  ASSUME Prios \subseteq Int
  PROVE  TrSpec => []WalksInOrder
<1>1. TrIInv => WalksInOrder
  BY TreeWalks DEF TrIInv, TrTreeInv
<1> QED BY <1>1, TrInvariantHolds, PTL

\* Between calls, from wherever an iterator stands, every call on it takes it where its name says
\* in the order of the keys, and iterators compare like their keys.
THEOREM TrIteratorsAlwaysRight ==
  ASSUME Prios \subseteq Int
  PROVE  TrSpec => []IteratorsRight(tr_itor, Always)
<1>1. TrIInv => IteratorsRight(tr_itor, Always)
  <2> SUFFICES ASSUME TrIInv, op = "none" PROVE IteratorsRight(tr_itor, Always)
    BY DEF IteratorsRight
  <2>1. PICK sub : IsTree(tree, sub)
    BY DEF TrIInv, TrTreeInv
  <2>2. tree.count = Cardinality(DOMAIN tree.heap)
    BY DEF TrIInv, TrCallInv
  <2>3. IteratorsRight(tree_iterator, Always)
    BY <2>1, <2>2, IteratorsAreRight
  <2> QED BY <2>3 DEF IteratorsRight, tr_itor
<1> QED BY <1>1, TrInvariantHolds, PTL

\* Between calls dict_select answers the n-th key, counted from the nearer end, and beyond the
\* last there is none.
TrNth(i) == SelectNode(tree, i, Up)

THEOREM TrSelectsAlwaysRight ==
  ASSUME Prios \subseteq Int
  PROVE  TrSpec => [](op = "none" => SelectsRight(TrNth))
<1>1. TrIInv => (op = "none" => SelectsRight(TrNth))
  <2> SUFFICES ASSUME TrIInv, op = "none", NEW i \in 0 .. tree.count
               PROVE  TrNth(i) = IF i = tree.count THEN NULL
                               ELSE NodeOf(tree, Traverse(tree, Up)[i + 1])
    BY DEF SelectsRight
  <2>1. PICK sub : IsTree(tree, sub)
    BY DEF TrIInv, TrTreeInv
  <2>2. PICK keys : keys = Traverse(tree, Up)
    OBVIOUS
  <2>3. Parents(tree, Up)
    BY DEF Parents, Up
  <2>4. KeysInOrder(tree, keys)
    BY <2>1, <2>2, <2>3, TraverseOrdered
  <2>5. tree.count = Len(keys)
    BY <2>4 DEF TrIInv, TrCallInv, KeysInOrder
  <2>6. TrNth(i) = NodeAt(tree, keys, i + 1)
    BY <2>1, <2>3, <2>4, <2>5, SelectIsNode DEF TrNth
  <2> QED BY <2>2, <2>4, <2>5, <2>6, SelectsByPlace
<1> QED BY <1>1, TrInvariantHolds, PTL

\* No node has a greater priority than its parent, even between steps, except in the one
\* place that a call is working on.
THEOREM HeapAlwaysOrdered ==
  ASSUME Prios \subseteq Int
  PROVE  TrSpec => []HeapOrdered
<1>1. TrIInv => HeapOrdered
  <2> SUFFICES ASSUME TrIInv, NEW n \in DOMAIN tree.heap, Up[n] # NULL
               PROVE  \/ op = "insert" /\ n = added
                      \/ op = "remove" /\ at \in {n, Up[n]}
                      \/ Prio(tree, n) <= Prio(tree, Up[n])
    BY DEF HeapOrdered
  <2>1. Up[n] = tree.heap[n].parent
    BY DEF Up
  <2>2. n # NULL
    BY PointerAssumption DEF TrIInv, TrTreeInv, IsTree, IsHeap
  <2>3. Ordered(tree, Low, High)
    BY DEF TrIInv, OrderInv
  <2> QED BY <2>1, <2>2, <2>3 DEF Ordered, Low, High
<1> QED BY <1>1, TrInvariantHolds, PTL

\* When a call returns, tr_tree_verify finds nothing wrong: keys, links, the count and the
\* order of the priorities.
THEOREM TrAlwaysVerified ==
  ASSUME Prios \subseteq Int
  PROVE  TrSpec => [](op = "none" => tr_tree_verify(tree))
<1>1. TrIInv => (op = "none" => tr_tree_verify(tree))
  <2> SUFFICES ASSUME TrIInv, op = "none" PROVE tr_tree_verify(tree)
    OBVIOUS
  <2>1. PICK sub : IsTree(tree, sub)
    BY DEF TrIInv, TrTreeInv
  <2>2. tree.count = Cardinality(DOMAIN tree.heap)
    BY DEF TrIInv, TrCallInv
  <2>3. NodesVerified(tree)
    BY <2>1, <2>2, TreeVerified
  <2>4. Subtree(tree, tree.root) \subseteq DOMAIN tree.heap
    BY <2>1, TreeLinksAgree DEF LinksAgree
  <2>5. ASSUME NEW n \in DOMAIN tree.heap, n # tree.root
        PROVE  Prio(tree, n) <= Prio(tree, tree.heap[n].parent)
    <3>1. tree.heap[n].parent # NULL /\ n # NULL
      BY <2>1, <2>5, PointerAssumption DEF IsTree, IsHeap, Linked
    <3>2. Ordered(tree, NULL, NULL)
      BY DEF TrIInv, OrderInv, Low, High
    <3> QED BY <3>1, <3>2 DEF Ordered
  <2> QED BY <2>3, <2>4, <2>5 DEF tr_tree_verify
<1> QED BY <1>1, TrInvariantHolds, PTL

\* No call moves another key to a node or changes its datum: the iterators and the
\* pointers to data that callers hold stay good until their own key goes.
THEOREM TrPointersAlwaysStay ==
  ASSUME Prios \subseteq Int
  PROVE  TrSpec => PointersStay
<1>1. ASSUME KeepsPointers
      PROVE  LET kept  == DOMAIN tree.heap \cap DOMAIN tree'.heap
                 moved == {n \in kept : tree'.heap[n].key # tree.heap[n].key}
             IN  /\ moved # {} => op = "none" /\ op' # "insert" /\ op' # "search"
                 /\ Cardinality(moved) <= 1
                 /\ \A n \in kept \ moved : tree.heap[n].datum # NULL =>
                      tree'.heap[n].datum = tree.heap[n].datum
  <2> DEFINE kept  == DOMAIN tree.heap \cap DOMAIN tree'.heap
             moved == {n \in kept : tree'.heap[n].key # tree.heap[n].key}
  <2>1. moved = {} /\ Cardinality({}) = 0
    BY <1>1, FS_EmptySet DEF KeepsPointers
  <2>2. \A n \in kept : tree.heap[n].datum # NULL => tree'.heap[n].datum = tree.heap[n].datum
    BY <1>1 DEF KeepsPointers
  <2> HIDE DEF moved, kept
  <2>3. Cardinality(moved) <= 1
    BY <2>1
  <2> QED BY <2>1, <2>2, <2>3 DEF moved, kept
<1>2. TrIInv /\ [TrNext]_shared =>
        [LET kept  == DOMAIN tree.heap \cap DOMAIN tree'.heap
             moved == {n \in kept : tree'.heap[n].key # tree.heap[n].key}
         IN  /\ moved # {} => op = "none" /\ op' # "insert" /\ op' # "search"
             /\ Cardinality(moved) <= 1
             /\ \A n \in kept \ moved : tree.heap[n].datum # NULL =>
                  tree'.heap[n].datum = tree.heap[n].datum]_tree
  BY <1>1, TrNextStep
<1> QED BY <1>2, TrInvariantHolds, PTL DEF TrSpec, PointersStay

\* The treap is a map: rotations lose no key and give none another's datum, the datum that
\* is set when an insertion returns belongs to the new key, and a removal takes its key.
THEOREM TrImplements ==
  ASSUME Prios \subseteq Int
  PROVE  TrSpec => ImplementsMap
<1>1. TrInit => Map!Init
  BY DEF TrInit, StartsEmpty, EmptyTree, Map!Init, MapOf
<1>2. TrIInv /\ [TrNext]_shared => [Map!Next]_(MapOf(tree))
  <2> SUFFICES ASSUME TrIInv, [TrNext]_shared, MapOf(tree)' # MapOf(tree) PROVE Map!Next
    OBVIOUS
  <2>1. MapStep
    BY TrNextStep
  <2>2. MapOf(tree') = MapOf(tree)'
    BY DEF MapOf, NodeOf
  <2>3. PICK k \in Keys : Map!Put(k) \/ Map!Delete(k)
    BY <2>1, <2>2 DEF MapStep
  <2>4. DOMAIN MapOf(tree)' # DOMAIN MapOf(tree)
    <3>1. CASE Map!Put(k)
      BY <3>1 DEF Map!Put
    <3>2. CASE Map!Delete(k)
      <4>1. k \in DOMAIN MapOf(tree) /\ k \notin DOMAIN MapOf(tree)'
        BY <3>2 DEF Map!Delete, Map!Restrict
      <4> QED BY <4>1
    <3> QED BY <2>3, <3>1, <3>2
  <2> QED BY <2>3, <2>4 DEF Map!Next
<1> QED BY <1>1, <1>2, TrInvariantHolds, PTL DEF TrSpec, ImplementsMap, Map!Spec

----------------------------------------------------------------------------
(* The invariant of the splay tree *)

Fields == {"key", "datum", "parent", "llink", "rlink"}

\* The nodes form a search tree, and the data are what callers gave.
SpTreeInv == /\ \E sub : IsTree(tree, sub)
             /\ Filled(tree, added)
             /\ \A n \in DOMAIN tree.heap : DOMAIN tree.heap[n] = Fields

\* Where a call is, and what the count says meanwhile.
SpCallInv ==
  LET N == DOMAIN tree.heap
  IN  /\ tree.count \in Nat
      /\ \/ op = "none" /\ at = NULL /\ added = NULL /\ tree.count = Cardinality(N)
         \/ op = "insert" /\ added \in N /\ at = added /\ tree.count + 1 = Cardinality(N)
         \/ op = "search" /\ at \in N /\ added = NULL /\ tree.count = Cardinality(N)
         \/ /\ op = "remove" /\ at \in N \cup {NULL} /\ added = NULL
            /\ tree.count = Cardinality(N) + 1
         \/ op = "clear" /\ added = NULL /\ at \in N \cup {NULL} /\ (at = NULL => N = {})

SpIInv == SpTreeInv /\ SpCallInv

\* What a step may do to the pointers that callers hold: a removal may move the contents of
\* one node, and nothing else is moved.
SpMovesOnly(n) ==
  \A x \in DOMAIN tree.heap \cap DOMAIN tree'.heap :
    IF x = n
    THEN tree'.heap[x].key # tree.heap[x].key
    ELSE /\ tree'.heap[x].key = tree.heap[x].key
         /\ tree.heap[x].datum # NULL => tree'.heap[x].datum = tree.heap[x].datum

SpPointerStep ==
  \/ KeepsPointers
  \/ op = "none" /\ op' = "remove" /\ \E n \in DOMAIN tree.heap : SpMovesOnly(n)

SpStepIsRight == SpIInv' /\ SpPointerStep /\ MapStep

LEMMA SpInitHolds ==
  ASSUME SpInit
  PROVE  SpIInv
<1>1. /\ tree.root = NULL /\ tree.count = 0 /\ DOMAIN tree.heap = {}
      /\ DOMAIN tree = {"root", "count", "heap"}
      /\ op = "none" /\ at = NULL /\ added = NULL
  BY DEF SpInit, StartsEmpty, EmptyTree
<1>2. IsTree(tree, [n \in {} |-> {}])
  BY <1>1, FS_EmptySet DEF IsTree, IsHeap, Linked, Spans, Sorted
<1>3. SpTreeInv
  BY <1>1, <1>2 DEF SpTreeInv, Filled
<1>4. SpCallInv
  BY <1>1, FS_EmptySet DEF SpCallInv
<1> QED BY <1>3, <1>4 DEF SpIInv

----------------------------------------------------------------------------
(* The passes of splay *)

\* What rotations do, seen from the node n that they lift.
Lifted(t, u, n) ==
  /\ \E sub : IsTree(u, sub)
  /\ u.count = t.count /\ DOMAIN u.heap = DOMAIN t.heap
  /\ \A x \in DOMAIN t.heap : SameNode(t, u, x)
  /\ MapOf(u) = MapOf(t)
  /\ \A a : Filled(t, a) => Filled(u, a)

LEMMA LiftedTwice ==
  ASSUME NEW t, NEW u, NEW v, NEW m, NEW n, Lifted(t, u, m), Lifted(u, v, n)
  PROVE  Lifted(t, v, n)
<1>1. \A x \in DOMAIN t.heap : SameNode(t, v, x)
  BY DEF Lifted, SameNode
<1> QED BY <1>1 DEF Lifted

\* RotUp rotates, and leaves a parent to all nodes that had one but the child of the root
\* that it lifts.
LEMMA RotUpLifts ==
  ASSUME NEW t, NEW sub, IsTree(t, sub), NEW n \in DOMAIN t.heap, t.heap[n].parent # NULL
  PROVE  LET u == RotUp(t, n)
             p == t.heap[n].parent
         IN  /\ Lifted(t, u, n)
             /\ p \in DOMAIN t.heap
             /\ u.heap[n].parent = t.heap[p].parent
             /\ \A x \in DOMAIN t.heap \ {n} :
                  t.heap[x].parent # NULL => u.heap[x].parent # NULL
<1> DEFINE u == RotUp(t, n)
           p == t.heap[n].parent
           s == IF t.heap[p].llink = n THEN "llink" ELSE "rlink"
<1>1. p \in DOMAIN t.heap /\ \E r \in Sides : t.heap[p][r] = n
  BY DEF IsTree, Linked
<1>2. s \in Sides /\ t.heap[p][s] = n /\ n # NULL /\ p # NULL
  BY <1>1, PointerAssumption DEF IsTree, IsHeap, Sides
<1>3. Rotated(t, u, p, s)
  <2>1. CASE t.heap[p].llink = n
    <3>1. u = RotRight(t, p) /\ s = "llink"
      BY <2>1 DEF RotUp
    <3> QED BY <1>1, <1>2, <2>1, <3>1, RotRightRotates
  <2>2. CASE t.heap[p].llink # n
    <3>1. u = RotLeft(t, p) /\ s = "rlink"
      BY <2>2 DEF RotUp
    <3>2. t.heap[p].rlink # NULL
      BY <1>2, <3>1
    <3> QED BY <1>1, <3>1, <3>2, RotLeftRotates
  <2> QED BY <2>1, <2>2
<1> HIDE DEF u, s
<1>4. Lifted(t, u, n)
  BY <1>1, <1>2, <1>3, RotationIsTree DEF Lifted
<1>5. n # p
  BY <1>1, <1>2, TreeFacts
<1>6. \A x \in DOMAIN t.heap :
        u.heap[x].parent = IF x = p THEN n ELSE IF x = n THEN t.heap[p].parent
                           ELSE IF x = t.heap[n][Other(s)] THEN p ELSE t.heap[x].parent
  BY <1>2, <1>3 DEF Rotated
<1> HIDE DEF p
<1>7. u.heap[n].parent = t.heap[p].parent
  BY <1>5, <1>6
<1>8. \A x \in DOMAIN t.heap \ {n} : t.heap[x].parent # NULL => u.heap[x].parent # NULL
  BY <1>2, <1>6
<1> QED BY <1>1, <1>4, <1>7, <1>8 DEF u, p

\* Any such step in the middle of a call keeps the invariant and the map.
LEMMA LiftStep ==
  ASSUME SpIInv, op # "clear", at # NULL, NEW n, Lifted(tree, tree', n), UNCHANGED <<op, at, added>>
  PROVE  SpStepIsRight
<1>1. /\ \E sub : IsTree(tree', sub)
      /\ tree'.count = tree.count /\ DOMAIN tree'.heap = DOMAIN tree.heap
      /\ \A x \in DOMAIN tree.heap : SameNode(tree, tree', x)
      /\ MapOf(tree') = MapOf(tree)
      /\ \A a : Filled(tree, a) => Filled(tree', a)
  BY DEF Lifted
<1>2. SpTreeInv'
  BY <1>1 DEF SpIInv, SpTreeInv, SameNode
<1>3. SpCallInv'
  BY <1>1 DEF SpIInv, SpCallInv
<1>4. KeepsPointers
  BY <1>1, SameNodesKeepPointers DEF SpIInv, SpTreeInv
<1>5. MapStep
  BY <1>1 DEF MapStep
<1> QED BY <1>2, <1>3, <1>4, <1>5 DEF SpStepIsRight, SpIInv, SpPointerStep

\* Where splay is, in the middle of a call.
LEMMA SplayIsAtNode ==
  ASSUME SpIInv, op # "clear", at # NULL
  PROVE  /\ at \in DOMAIN tree.heap /\ Up[at] = tree.heap[at].parent
         /\ Up[at] # NULL => /\ Up[at] \in DOMAIN tree.heap
                             /\ Up[Up[at]] = tree.heap[tree.heap[at].parent].parent
<1>1. at \in DOMAIN tree.heap
  BY DEF SpIInv, SpCallInv
<1>2. Up[at] = tree.heap[at].parent
  BY <1>1 DEF Up
<1>3. tree.heap[at].parent # NULL => tree.heap[at].parent \in DOMAIN tree.heap
  BY <1>1 DEF SpIInv, SpTreeInv, IsTree, Linked
<1> QED BY <1>1, <1>2, <1>3 DEF Up

LEMMA ZigStep ==
  ASSUME SpIInv, Zig
  PROVE  SpStepIsRight
<1>1. /\ op # "clear" /\ at # NULL /\ Up[at] # NULL
      /\ tree' = RotUp(tree, at) /\ UNCHANGED <<op, at, added>>
  BY DEF Zig
<1>2. at \in DOMAIN tree.heap /\ tree.heap[at].parent # NULL
  BY <1>1, SplayIsAtNode
<1>3. Lifted(tree, tree', at)
  BY <1>1, <1>2, RotUpLifts DEF SpIInv, SpTreeInv
<1> QED BY <1>1, <1>3, LiftStep

LEMMA ZigZigStep ==
  ASSUME SpIInv, ZigZig
  PROVE  SpStepIsRight
<1> DEFINE p == tree.heap[at].parent
           u == RotUp(tree, p)
<1>1. /\ op # "clear" /\ at # NULL /\ Up[at] # NULL /\ Up[Up[at]] # NULL
      /\ tree' = RotUp(RotUp(tree, Up[at]), at) /\ UNCHANGED <<op, at, added>>
  BY DEF ZigZig
<1>2. /\ at \in DOMAIN tree.heap /\ Up[at] = p /\ p # NULL
      /\ p \in DOMAIN tree.heap /\ tree.heap[p].parent # NULL
  BY <1>1, SplayIsAtNode
<1>3. PICK sub : IsTree(tree, sub)
  BY DEF SpIInv, SpTreeInv
<1>4. at # p
  <2>1. \E r \in Sides : tree.heap[p][r] = at
    BY <1>2, <1>3 DEF IsTree, Linked
  <2> QED BY <1>1, <1>2, <1>3, <2>1, TreeFacts
<1> HIDE DEF p
<1>5. /\ Lifted(tree, u, p)
      /\ \A x \in DOMAIN tree.heap \ {p} : tree.heap[x].parent # NULL => u.heap[x].parent # NULL
  BY <1>2, <1>3, RotUpLifts
<1>6. u.heap[at].parent # NULL
  BY <1>2, <1>4, <1>5 DEF p
<1> HIDE DEF u
<1>7. Lifted(u, RotUp(u, at), at)
  BY <1>2, <1>5, <1>6, RotUpLifts DEF Lifted
<1>8. Lifted(tree, tree', at)
  BY <1>1, <1>2, <1>5, <1>7, LiftedTwice DEF u
<1> QED BY <1>1, <1>8, LiftStep

LEMMA ZigZagStep ==
  ASSUME SpIInv, ZigZag
  PROVE  SpStepIsRight
<1> DEFINE p == tree.heap[at].parent
           u == RotUp(tree, at)
<1>1. /\ op # "clear" /\ at # NULL /\ Up[at] # NULL /\ Up[Up[at]] # NULL
      /\ tree' = RotUp(u, at) /\ UNCHANGED <<op, at, added>>
  BY DEF ZigZag
<1>2. at \in DOMAIN tree.heap /\ p # NULL /\ tree.heap[p].parent # NULL
  BY <1>1, SplayIsAtNode
<1>3. Lifted(tree, u, at) /\ u.heap[at].parent = tree.heap[p].parent
  BY <1>2, RotUpLifts DEF SpIInv, SpTreeInv
<1> HIDE DEF u
<1>4. Lifted(u, RotUp(u, at), at)
  BY <1>2, <1>3, RotUpLifts DEF Lifted
<1>5. Lifted(tree, tree', at)
  BY <1>1, <1>3, <1>4, LiftedTwice
<1> QED BY <1>1, <1>5, LiftStep

LEMMA SplayReturnsStep ==
  ASSUME SpIInv, SplayReturns
  PROVE  SpStepIsRight
<1> DEFINE D == DOMAIN tree.heap
           k == tree.heap[added].key
<1>1. PICK sub : IsTree(tree, sub)
  BY DEF SpIInv, SpTreeInv
<1>2. /\ op \in {"insert", "search", "remove"} /\ op' = "none" /\ at' = NULL /\ added' = NULL
      /\ op = "insert" => tree' = Returned(tree, added)
      /\ op = "search" => tree' = tree
      /\ op = "remove" => tree' = [tree EXCEPT !.count = @ - 1]
  BY DEF SplayReturns, Grown, Returned
<1>3. Filled(tree, added) /\ \A x \in D : DOMAIN tree.heap[x] = Fields
  BY DEF SpIInv, SpTreeInv
<1>4. IsFiniteSet(D)
  BY <1>1 DEF IsTree, IsHeap
<1>5. CASE op = "insert"
  <2>1. added \in D /\ tree.count \in Nat /\ tree.count + 1 = Cardinality(D)
    BY <1>5 DEF SpIInv, SpCallInv
  <2>2. HasGrown(tree, tree', added, sub)
    BY <1>1, <1>2, <1>3, <1>5, <2>1, GrownPutsKey
  <2>3. /\ IsTree(tree', sub) /\ Filled(tree', NULL)
        /\ tree'.count = tree.count + 1 /\ DOMAIN tree'.heap = D
        /\ \A x \in D :
             /\ DOMAIN tree'.heap[x] = DOMAIN tree.heap[x]
             /\ \A f \in DOMAIN tree.heap[x] \ {"datum"} : tree'.heap[x][f] = tree.heap[x][f]
             /\ x # added => tree'.heap[x].datum = tree.heap[x].datum
        /\ k \in Keys /\ k \notin DOMAIN MapOf(tree)
        /\ MapOf(tree') = [x \in DOMAIN MapOf(tree) \cup {k} |->
                             IF x = k THEN Datum(k) ELSE MapOf(tree)[x]]
    BY <2>2 DEF HasGrown, PutsKey
  <2>4. SpTreeInv'
    BY <1>2, <1>3, <2>3 DEF SpTreeInv
  <2>5. SpCallInv'
    BY <1>2, <2>1, <2>3 DEF SpCallInv
  <2>6. KeepsPointers
    BY <1>3, <2>3 DEF KeepsPointers, Filled, Fields
  <2>7. MapStep
    BY <2>3 DEF MapStep, Map!Put
  <2> QED BY <2>4, <2>5, <2>6, <2>7 DEF SpStepIsRight, SpIInv, SpPointerStep
<1>6. CASE op = "search"
  <2>1. tree' = tree /\ added = NULL /\ tree.count \in Nat /\ tree.count = Cardinality(D)
    BY <1>2, <1>6 DEF SpIInv, SpCallInv
  <2>2. SpTreeInv' /\ SpCallInv'
    BY <1>2, <2>1 DEF SpIInv, SpTreeInv, SpCallInv
  <2> QED BY <2>1, <2>2 DEF SpStepIsRight, SpIInv, SpPointerStep, KeepsPointers, MapStep
<1>7. CASE op = "remove"
  <2>1. added = NULL /\ tree.count \in Nat /\ tree.count = Cardinality(D) + 1
    BY <1>7 DEF SpIInv, SpCallInv
  <2>2. /\ DOMAIN tree' = DOMAIN tree /\ tree'.root = tree.root /\ tree'.heap = tree.heap
        /\ tree'.count = tree.count - 1
    BY <1>1, <1>2, <1>7 DEF IsTree, IsHeap
  <2>3. IsTree(tree', sub)
    BY <1>1, <2>2, SameLinksTree
  <2>4. SpTreeInv'
    BY <1>2, <1>3, <2>1, <2>2, <2>3 DEF SpTreeInv, Filled
  <2>5. Cardinality(D) \in Nat
    BY <1>4, FS_CardinalityType
  <2>6. tree'.count = Cardinality(D) /\ tree'.count \in Nat
    <3> HIDE DEF D
    <3> QED BY <2>1, <2>2, <2>5
  <2>7. SpCallInv'
    BY <1>2, <2>2, <2>6 DEF SpCallInv
  <2>8. KeepsPointers /\ MapStep
    BY <2>2 DEF KeepsPointers, MapStep, MapOf, NodeOf
  <2> QED BY <2>4, <2>7, <2>8 DEF SpStepIsRight, SpIInv, SpPointerStep
<1> QED BY <1>2, <1>5, <1>6, <1>7


----------------------------------------------------------------------------
(* Calls *)

LEMMA SpInsertStep ==
  ASSUME SpIInv, NEW k \in Keys, SpInsert(k)
  PROVE  SpStepIsRight
<1> DEFINE D == DOMAIN tree.heap
           a == Fresh(tree)
           p == InsertionParent(tree, k)
           extra == <<>>
           u == Attach(tree, a, node_new(k, p, extra))
<1>1. PICK sub : IsTree(tree, sub)
  BY DEF SpIInv, SpTreeInv
<1>2. /\ op = "none" /\ SearchNode(tree, k) = NULL /\ Addresses \ D # {}
      /\ tree' = u /\ op' = "insert" /\ added' = a /\ at' = a
  BY DEF SpInsert, Plant
<1>3. at = NULL /\ added = NULL /\ tree.count = Cardinality(D) /\ tree.count \in Nat
  BY <1>2 DEF SpIInv, SpCallInv
<1>4. Filled(tree, NULL) /\ \A x \in D : DOMAIN tree.heap[x] = Fields
  BY <1>3 DEF SpIInv, SpTreeInv
<1>5. DOMAIN extra = {}
  OBVIOUS
<1> HIDE DEF extra
<1>6. /\ \E sub2 : IsTree(u, sub2)
      /\ a \in Addresses /\ a \notin D
      /\ u.count = tree.count /\ DOMAIN u.heap = D \cup {a}
      /\ u.heap[a] = node_new(k, p, extra)
      /\ \A x \in D : SameNode(tree, u, x)
      /\ Filled(u, a) /\ MapOf(u) = MapOf(tree)
  <2>1. DOMAIN extra \cap {"key", "datum", "parent", "llink", "rlink"} = {}
    BY <1>5
  <2> HIDE DEF a, p, u, D
  <2> QED BY <1>1, <1>2, <1>4, <2>1, PlantGrowsTree DEF a, p, u, D
<1> HIDE DEF u, p, a
<1>7. \A x \in D \cup {a} : DOMAIN u.heap[x] = Fields
  <2>1. DOMAIN node_new(k, p, extra) = Fields
    BY <1>5 DEF node_new, Fields
  <2> QED BY <1>4, <1>6, <2>1 DEF SameNode
<1>8. SpTreeInv'
  BY <1>2, <1>6, <1>7 DEF SpTreeInv
<1>9. SpCallInv'
  <2>1. IsFiniteSet(D)
    BY <1>1 DEF IsTree, IsHeap
  <2>2. Cardinality(D \cup {a}) = Cardinality(D) + 1
    BY <1>6, <2>1, FS_AddElement
  <2> QED BY <1>2, <1>3, <1>6, <2>2 DEF SpCallInv
<1>10. KeepsPointers
  BY <1>1, <1>2, <1>6, SameNodesKeepPointers
<1>11. MapStep
  BY <1>2, <1>6 DEF MapStep
<1> QED BY <1>8, <1>9, <1>10, <1>11 DEF SpStepIsRight, SpIInv, SpPointerStep

\* A search that splays goes on in the tree as it is.
LEMMA SplaysStep ==
  ASSUME SpIInv, NEW n \in DOMAIN tree.heap \cup {NULL}, Splays(n)
  PROVE  SpStepIsRight
<1>1. /\ op = "none" /\ n \in DOMAIN tree.heap /\ op' = "search" /\ at' = n
      /\ tree' = tree /\ added' = added
  BY DEF Splays
<1>2. SpTreeInv'
  BY <1>1 DEF SpIInv, SpTreeInv
<1>3. SpCallInv'
  BY <1>1 DEF SpIInv, SpCallInv
<1> QED BY <1>1, <1>2, <1>3 DEF SpStepIsRight, SpIInv, SpPointerStep, KeepsPointers, MapStep

LEMMA SearchStep ==
  ASSUME SpIInv, NEW k \in Keys, Search(k)
  PROVE  SpStepIsRight
<1> DEFINE n == SearchNode(tree, k)
<1>1. PICK sub : IsTree(tree, sub)
  BY DEF SpIInv, SpTreeInv
<1>2. k \in Int
  BY KeysAssumption
<1>3. CASE n # NULL
  <2>1. Finds(tree, k, TRUE, "none", n)
    BY <1>1, <1>2, DescendFinds, Zenon DEF SearchNode
  <2>2. n \in DOMAIN tree.heap
    BY <1>3, <2>1 DEF Finds, Wanted
  <2> QED BY <1>3, <2>2, SplaysStep DEF Search
<1>4. CASE n = NULL
  <2>1. \A m \in DOMAIN tree.heap : tree.heap[m].key # k
    BY <1>1, <1>2, <1>4, NotFoundIsAbsent
  <2>2. IsPlaceOf(tree, sub, k, InsertionParent(tree, k))
    BY <1>1, <1>2, <2>1, InsertionParentIsPlace
  <2>3. InsertionParent(tree, k) \in DOMAIN tree.heap \cup {NULL}
    BY <2>2 DEF IsPlaceOf
  <2> QED BY <1>4, <2>3, SplaysStep DEF Search
<1> QED BY <1>3, <1>4

LEMMA SearchNearStep ==
  ASSUME SpIInv, NEW k \in Keys, SearchNear(k)
  PROVE  SpStepIsRight
<1>1. PICK sub : IsTree(tree, sub)
  BY DEF SpIInv, SpTreeInv
<1>2. k \in Int
  BY KeysAssumption
<1>3. /\ Finds(tree, k, TRUE, "below", SearchLE(tree, k))
      /\ Finds(tree, k, FALSE, "below", SearchLT(tree, k))
      /\ Finds(tree, k, TRUE, "above", SearchGE(tree, k))
      /\ Finds(tree, k, FALSE, "above", SearchGT(tree, k))
  BY <1>1, <1>2, DescendFinds, Zenon DEF SearchLE, SearchLT, SearchGE, SearchGT
<1>4. {SearchLE(tree, k), SearchLT(tree, k), SearchGE(tree, k), SearchGT(tree, k)}
        \subseteq DOMAIN tree.heap \cup {NULL}
  BY <1>3 DEF Finds, Wanted
<1> QED BY <1>4, SplaysStep DEF SearchNear

LEMMA SpRemoveNodeStep ==
  ASSUME SpIInv, NEW n \in DOMAIN tree.heap, SpRemoveNode(n)
  PROVE  SpStepIsRight
<1> DEFINE D == DOMAIN tree.heap
           N == DOMAIN tree'.heap
           k == tree.heap[n].key
           out == Leftmost(tree, tree.heap[n].rlink)
           e == Emptied(tree, n, out)
<1>1. PICK sub : IsTree(tree, sub)
  BY DEF SpIInv, SpTreeInv
<1>2. /\ op = "none" /\ op' = "remove" /\ added' = added
      /\ tree' = Splice(e[1], e[2]) /\ at' = e[1].heap[e[2]].parent
  BY DEF SpRemoveNode
<1>3. at = NULL /\ added = NULL /\ tree.count = Cardinality(D) /\ tree.count \in Nat
  BY <1>2 DEF SpIInv, SpCallInv
<1>4. Filled(tree, NULL) /\ \A x \in D : DOMAIN tree.heap[x] = Fields
  BY <1>3 DEF SpIInv, SpTreeInv
<1>5. IsFiniteSet(D) /\ NULL \notin D
  BY <1>1, PointerAssumption DEF IsTree, IsHeap
<1>6. ASSUME NEW m \in D
      PROVE  tree.heap[m].parent \in (D \ {m}) \cup {NULL}
  BY <1>1, AroundSplice DEF SplicePlace
<1>7. \E m \in D :
        /\ \E sub2 : IsTree(tree', sub2)
        /\ tree'.count = tree.count /\ N = D \ {m}
        /\ \A x \in D \ {m} : DOMAIN tree'.heap[x] = Fields
        /\ \A x \in D \ {m} : x # n => SameNode(tree, tree', x)
        /\ Filled(tree', NULL)
        /\ k \in DOMAIN MapOf(tree)
        /\ MapOf(tree') = Restrict(MapOf(tree), DOMAIN MapOf(tree) \ {k})
        /\ at' \in N \cup {NULL}
  <2>1. CASE NULL \in {tree.heap[n].llink, tree.heap[n].rlink}
    <3>1. e = <<tree, n>>
      BY <2>1 DEF Emptied
    <3>2. tree' = Splice(tree, n) /\ at' = tree.heap[n].parent
      BY <1>2, <3>1
    <3>3. /\ IsTree(tree', WithoutNode(tree, sub, n))
          /\ tree'.count = tree.count /\ N = D \ {n}
          /\ \A x \in D \ {n} : SameNode(tree, tree', x)
      BY <1>1, <2>1, <3>2, SpliceKeepsTree
    <3>4. /\ Filled(tree', NULL) /\ k \in DOMAIN MapOf(tree)
          /\ MapOf(tree') = Restrict(MapOf(tree), DOMAIN MapOf(tree) \ {k})
      BY <1>1, <1>4, <2>1, <3>2, SpliceTakesKey
    <3>5. at' \in N \cup {NULL}
      BY <1>6, <3>2, <3>3
    <3>6. \A x \in D \ {n} : DOMAIN tree'.heap[x] = Fields
      BY <1>4, <3>3 DEF SameNode
    <3> HIDE DEF N, D
    <3> QED BY <3>3, <3>4, <3>5, <3>6 DEF D
  <2>2. CASE NULL \notin {tree.heap[n].llink, tree.heap[n].rlink}
    <3>1. tree.heap[n].rlink \in D /\ tree.heap[n]["rlink"] # NULL
          /\ "rlink" \in Sides /\ Other("rlink") = "llink"
      BY <1>1, <2>2 DEF IsTree, Linked, Sides, Other
    <3>2. IsEnd(tree, sub, tree.heap[n]["rlink"], Other("rlink"), out)
      BY <1>1, <3>1, LeftmostIs
    <3>3. out \in D /\ out # n
      BY <1>1, <3>1, <3>2, NeighbourIsNext
    <3>4. e = <<SwapContents(tree, n, out), out>>
      BY <2>2 DEF Emptied
    <3> HIDE DEF out, e
    <3>5. HasInherited(tree, Splice(SwapContents(tree, n, out), out), n, out)
      BY <1>1, <1>4, <3>1, <3>2, HeirKeepsTree
    <3>6. /\ tree' = Splice(SwapContents(tree, n, out), out)
          /\ at' = SwapContents(tree, n, out).heap[out].parent
      BY <1>2, <3>4
    <3>7. /\ \E sub2 : IsTree(tree', sub2)
          /\ tree'.count = tree.count /\ N = D \ {out}
          /\ \A x \in D \ {out} : /\ DOMAIN tree'.heap[x] = DOMAIN tree.heap[x]
                                  /\ x # n => SameNode(tree, tree', x)
          /\ Filled(tree', NULL)
          /\ k \in DOMAIN MapOf(tree)
          /\ MapOf(tree') = Restrict(MapOf(tree), DOMAIN MapOf(tree) \ {k})
      BY <3>5, <3>6 DEF HasInherited
    <3>8. at' = tree.heap[out].parent
      BY <1>1, <3>3, <3>6 DEF SwapContents, IsTree, IsHeap
    <3>9. at' \in N \cup {NULL}
      BY <1>6, <3>3, <3>7, <3>8
    <3>10. \A x \in D \ {out} : DOMAIN tree'.heap[x] = Fields
      BY <1>4, <3>7
    <3> HIDE DEF N, D
    <3> QED BY <3>3, <3>7, <3>9, <3>10
  <2> QED BY <2>1, <2>2
<1> HIDE DEF N, e
<1>8. PICK m \in D :
        /\ \E sub2 : IsTree(tree', sub2)
        /\ tree'.count = tree.count /\ N = D \ {m}
        /\ \A x \in D \ {m} : DOMAIN tree'.heap[x] = Fields
        /\ \A x \in D \ {m} : x # n => SameNode(tree, tree', x)
        /\ Filled(tree', NULL)
        /\ k \in DOMAIN MapOf(tree)
        /\ MapOf(tree') = Restrict(MapOf(tree), DOMAIN MapOf(tree) \ {k})
        /\ at' \in N \cup {NULL}
  BY <1>7
<1>9. SpTreeInv'
  BY <1>2, <1>3, <1>8 DEF SpTreeInv, N
<1>10. SpCallInv'
  <2>1. Cardinality(D \ {m}) = Cardinality(D) - 1 /\ Cardinality(D) \in Nat
    BY <1>3, <1>5, FS_RemoveElement
  <2>2. tree'.count = Cardinality(N) + 1 /\ tree'.count \in Nat
    <3> HIDE DEF D
    <3> QED BY <1>3, <1>8, <2>1
  <2> QED BY <1>2, <1>3, <1>8, <2>2 DEF SpCallInv, N
<1>11. SpPointerStep
  <2>1. k \notin DOMAIN MapOf(tree')
    BY <1>8 DEF Restrict
  <2>2. n \in N => tree'.heap[n].key # k
    <3> SUFFICES ASSUME n \in N, tree'.heap[n].key = k PROVE FALSE
      OBVIOUS
    <3>1. tree'.heap[n].datum # NULL
      BY <1>5, <1>8, DatumAssumption DEF Filled, N
    <3>2. k \in DOMAIN MapOf(tree')
      BY <3>1 DEF MapOf, N
    <3> QED BY <2>1, <3>2
  <2>3. SpMovesOnly(n)
    BY <1>4, <1>8, <2>2 DEF SpMovesOnly, SameNode, Fields, N
  <2> QED BY <1>2, <2>3 DEF SpPointerStep
<1>12. MapStep
  <2>1. k \in Keys
    BY <1>4 DEF Filled
  <2> QED BY <1>8, <2>1 DEF MapStep, Map!Delete, Map!Restrict, Restrict
<1> QED BY <1>9, <1>10, <1>11, <1>12 DEF SpStepIsRight, SpIInv

LEMMA SpClearStep ==
  ASSUME SpIInv, Clear
  PROVE  SpStepIsRight
<1>1. PICK sub : IsTree(tree, sub)
  BY DEF SpIInv, SpTreeInv
<1>2. op = "none" /\ op' = "clear" /\ at' = tree.root /\ tree' = tree /\ added' = added
  BY DEF Clear
<1>3. tree.root \in DOMAIN tree.heap \cup {NULL} /\ (tree.root = NULL => DOMAIN tree.heap = {})
  BY <1>1 DEF IsTree, Linked
<1>4. SpTreeInv'
  BY <1>2 DEF SpIInv, SpTreeInv
<1>5. SpCallInv'
  BY <1>2, <1>3 DEF SpIInv, SpCallInv
<1> QED BY <1>2, <1>4, <1>5 DEF SpStepIsRight, SpIInv, SpPointerStep, KeepsPointers, MapStep

LEMMA SpClearNodeStep ==
  ASSUME SpIInv, ClearNode
  PROVE  SpStepIsRight
<1> DEFINE D == DOMAIN tree.heap
           N == DOMAIN tree'.heap
           k == tree.heap[at].key
<1>1. PICK sub : IsTree(tree, sub)
  BY DEF SpIInv, SpTreeInv
<1>2. /\ op = "clear" /\ at # NULL
      /\ tree' = Cleared(tree, at) /\ at' = ClearGoes(tree, at)
      /\ op' = op /\ added' = added
  BY DEF ClearNode
<1>3. at \in D /\ added = NULL /\ tree.count \in Nat
  BY <1>2 DEF SpIInv, SpCallInv
<1>4. Filled(tree, NULL) /\ \A x \in D : DOMAIN tree.heap[x] = Fields
  BY <1>3 DEF SpIInv, SpTreeInv
<1>5. /\ \E sub2 : IsTree(tree', sub2)
      /\ Filled(tree', NULL) /\ tree'.count = tree.count
      /\ N = D \/ N = D \ {at}
      /\ \A x \in N : SameNode(tree, tree', x)
      /\ at' \in N \cup {NULL} /\ (at' = NULL => N = {})
      /\ k \in DOMAIN MapOf(tree)
      /\ \/ MapOf(tree') = MapOf(tree)
         \/ MapOf(tree') = Restrict(MapOf(tree), DOMAIN MapOf(tree) \ {k})
  <2>1. HasCleared(tree, tree', at, at')
    BY <1>1, <1>2, <1>3, <1>4, ClearedIsTree
  <2> QED BY <2>1 DEF HasCleared
<1> HIDE DEF N
<1>6. SpTreeInv'
  BY <1>2, <1>3, <1>4, <1>5 DEF SpTreeInv, SameNode, N
<1>7. SpCallInv'
  BY <1>2, <1>3, <1>5 DEF SpCallInv, N
<1>8. KeepsPointers
  <2>1. \A x \in D \cap N : SameNode(tree, tree', x)
    BY <1>5
  <2> QED BY <1>1, <2>1, SameNodesKeepPointers DEF N
<1>9. MapStep
  <2>1. k \in Keys
    BY <1>3, <1>4 DEF Filled
  <2> QED BY <1>5, <2>1 DEF MapStep, Map!Delete, Map!Restrict, Restrict
<1> QED BY <1>6, <1>7, <1>8, <1>9 DEF SpStepIsRight, SpIInv, SpPointerStep

LEMMA SpClearReturnsStep ==
  ASSUME SpIInv, ClearReturns
  PROVE  SpStepIsRight
<1>1. PICK sub : IsTree(tree, sub)
  BY DEF SpIInv, SpTreeInv
<1>2. /\ op = "clear" /\ at = NULL /\ tree' = [tree EXCEPT !.count = 0]
      /\ op' = "none" /\ at' = at /\ added' = added
  BY DEF ClearReturns
<1>3. DOMAIN tree.heap = {} /\ added = NULL
  BY <1>2, <1>1, PointerAssumption DEF SpIInv, SpCallInv, IsTree, IsHeap
<1>4. /\ DOMAIN tree' = DOMAIN tree /\ tree'.root = tree.root /\ tree'.heap = tree.heap
      /\ tree'.count = 0
  BY <1>1, <1>2 DEF IsTree, IsHeap
<1>5. IsTree(tree', sub)
  BY <1>1, <1>4, SameLinksTree
<1>6. SpTreeInv'
  BY <1>3, <1>4, <1>5 DEF SpTreeInv, Filled
<1>7. SpCallInv'
  BY <1>2, <1>3, <1>4, FS_EmptySet DEF SpCallInv
<1>8. KeepsPointers /\ MapStep
  BY <1>4 DEF KeepsPointers, MapStep, MapOf, NodeOf
<1> QED BY <1>6, <1>7, <1>8 DEF SpStepIsRight, SpIInv, SpPointerStep

LEMMA SpNothingStep ==
  ASSUME SpIInv, UNCHANGED shared
  PROVE  SpStepIsRight
<1>1. tree' = tree /\ op' = op /\ at' = at /\ added' = added
  BY DEF shared
<1>2. SpTreeInv' /\ SpCallInv'
  BY <1>1 DEF SpIInv, SpTreeInv, SpCallInv
<1> QED BY <1>1, <1>2 DEF SpStepIsRight, SpIInv, SpPointerStep, KeepsPointers, MapStep

LEMMA SpNextStep ==
  ASSUME SpIInv, [SpNext]_shared
  PROVE  SpStepIsRight
<1>1. ASSUME NEW k \in Keys, SpInsert(k) PROVE SpStepIsRight
  BY <1>1, SpInsertStep
<1>2. ASSUME NEW k \in Keys, Search(k) PROVE SpStepIsRight
  BY <1>2, SearchStep
<1>3. ASSUME NEW k \in Keys, SearchNear(k) PROVE SpStepIsRight
  BY <1>3, SearchNearStep
<1>4. ASSUME NEW n \in DOMAIN tree.heap, SpRemoveNode(n) PROVE SpStepIsRight
  BY <1>4, SpRemoveNodeStep
<1>5. CASE Zig BY <1>5, ZigStep
<1>6. CASE ZigZig BY <1>6, ZigZigStep
<1>7. CASE ZigZag BY <1>7, ZigZagStep
<1>8. CASE SplayReturns BY <1>8, SplayReturnsStep
<1>9. CASE Clear BY <1>9, SpClearStep
<1>10. CASE ClearNode BY <1>10, SpClearNodeStep
<1>11. CASE ClearReturns BY <1>11, SpClearReturnsStep
<1>12. CASE UNCHANGED shared BY <1>12, SpNothingStep
<1>13. CASE InsertKeeps \/ SearchMisses \/ \E k \in Keys : RemoveMisses(k)
  BY <1>12, <1>13 DEF InsertKeeps, SearchMisses, RemoveMisses, shared
<1> QED BY <1>1, <1>2, <1>3, <1>4, <1>5, <1>6, <1>7, <1>8, <1>9, <1>10, <1>11, <1>12, <1>13
        DEF SpNext, SpCall, sp_tree_clear, SpLoop

----------------------------------------------------------------------------
(* The properties *)

LEMMA SpInvariantHolds == SpSpec => []SpIInv
<1>1. SpInit => SpIInv
  BY SpInitHolds
<1>2. SpIInv /\ [SpNext]_shared => SpIInv'
  BY SpNextStep DEF SpStepIsRight
<1> QED BY <1>1, <1>2, PTL DEF SpSpec

\* Every pointer is NULL or to a node, a call resets what it uses, and a node has only the
\* fields that the libraries' other trees share.
THEOREM SpTypeCorrect == SpSpec => []SpTypeOK
<1>1. SpIInv => SpTypeOK
  <2> SUFFICES ASSUME SpIInv PROVE SpTypeOK
    OBVIOUS
  <2>1. PICK sub : IsTree(tree, sub)
    BY DEF SpIInv, SpTreeInv
  <2>2. /\ DOMAIN tree.heap \subseteq Addresses /\ NULL \notin DOMAIN tree.heap
        /\ tree.root \in DOMAIN tree.heap \cup {NULL}
    BY <2>1, PointerAssumption DEF IsTree, IsHeap, Linked
  <2>3. \A n \in DOMAIN tree.heap :
          /\ tree.heap[n].parent \in DOMAIN tree.heap \cup {NULL}
          /\ tree.heap[n].llink \in DOMAIN tree.heap \cup {NULL}
          /\ tree.heap[n].rlink \in DOMAIN tree.heap \cup {NULL}
    BY <2>1 DEF IsTree, Linked, Sides
  <2>4. \A n \in DOMAIN tree.heap :
          /\ tree.heap[n].key \in Keys
          /\ tree.heap[n].datum \in {NULL, Datum(tree.heap[n].key)}
          /\ DOMAIN tree.heap[n] = {"key", "datum", "parent", "llink", "rlink"}
    BY DEF SpIInv, SpTreeInv, Filled, Fields
  <2>5. /\ tree.count \in Nat
        /\ {at, added} \subseteq DOMAIN tree.heap \cup {NULL}
        /\ op \in {"none", "insert", "remove", "search", "clear"}
        /\ op = "none" => at = NULL
        /\ added # NULL <=> op = "insert"
    BY <2>2 DEF SpIInv, SpCallInv
  <2> QED BY <2>2, <2>3, <2>4, <2>5 DEF SpTypeOK, SharedTypeOK
<1> QED BY <1>1, SpInvariantHolds, PTL

\* Between calls every search, for keys that are there and keys that are not, finds
\* the node that its name says, whatever the splaying of earlier searches did to the tree.
THEOREM SpSearchesAlwaysRight == SpSpec => []SearchesRight
<1>1. SpIInv => SearchesRight
  BY TreeSearches, KeysAssumption DEF SpIInv, SpTreeInv, SearchesRight
<1> QED BY <1>1, SpInvariantHolds, PTL

\* In every state, between two passes of splay too, parents and children agree, the nodes that can be
\* reached from the root are all that is allocated, and the walks of tree_traverse and of the
\* iterators visit every key once, in order, in both directions.
THEOREM SpWalksAlwaysInOrder == SpSpec => []WalksInOrder
<1>1. SpIInv => WalksInOrder
  BY TreeWalks DEF SpIInv, SpTreeInv
<1> QED BY <1>1, SpInvariantHolds, PTL

\* Between calls, from wherever an iterator stands, every call on it takes it where its name says
\* in the order of the keys, and iterators compare like their keys.
THEOREM SpIteratorsAlwaysRight == SpSpec => []IteratorsRight(sp_itor, Always)
<1>1. SpIInv => IteratorsRight(sp_itor, Always)
  <2> SUFFICES ASSUME SpIInv, op = "none" PROVE IteratorsRight(sp_itor, Always)
    BY DEF IteratorsRight
  <2>1. PICK sub : IsTree(tree, sub)
    BY DEF SpIInv, SpTreeInv
  <2>2. tree.count = Cardinality(DOMAIN tree.heap)
    BY DEF SpIInv, SpCallInv
  <2>3. IteratorsRight(tree_iterator, Always)
    BY <2>1, <2>2, IteratorsAreRight
  <2> QED BY <2>3 DEF IteratorsRight, sp_itor
<1> QED BY <1>1, SpInvariantHolds, PTL

\* Between calls dict_select answers the n-th key, counted from the nearer end, and beyond the
\* last there is none.
SpNth(i) == SelectNode(tree, i, Up)

THEOREM SpSelectsAlwaysRight == SpSpec => [](op = "none" => SelectsRight(SpNth))
<1>1. SpIInv => (op = "none" => SelectsRight(SpNth))
  <2> SUFFICES ASSUME SpIInv, op = "none", NEW i \in 0 .. tree.count
               PROVE  SpNth(i) = IF i = tree.count THEN NULL
                               ELSE NodeOf(tree, Traverse(tree, Up)[i + 1])
    BY DEF SelectsRight
  <2>1. PICK sub : IsTree(tree, sub)
    BY DEF SpIInv, SpTreeInv
  <2>2. PICK keys : keys = Traverse(tree, Up)
    OBVIOUS
  <2>3. Parents(tree, Up)
    BY DEF Parents, Up
  <2>4. KeysInOrder(tree, keys)
    BY <2>1, <2>2, <2>3, TraverseOrdered
  <2>5. tree.count = Len(keys)
    BY <2>4 DEF SpIInv, SpCallInv, KeysInOrder
  <2>6. SpNth(i) = NodeAt(tree, keys, i + 1)
    BY <2>1, <2>3, <2>4, <2>5, SelectIsNode DEF SpNth
  <2> QED BY <2>2, <2>4, <2>5, <2>6, SelectsByPlace
<1> QED BY <1>1, SpInvariantHolds, PTL

\* When a call returns, sp_tree_verify finds nothing wrong: keys, links and the count.
THEOREM SpAlwaysVerified == SpSpec => [](op = "none" => sp_tree_verify(tree))
<1>1. SpIInv => (op = "none" => sp_tree_verify(tree))
  <2> SUFFICES ASSUME SpIInv, op = "none" PROVE sp_tree_verify(tree)
    OBVIOUS
  <2>1. PICK sub : IsTree(tree, sub)
    BY DEF SpIInv, SpTreeInv
  <2>2. tree.count = Cardinality(DOMAIN tree.heap)
    BY DEF SpIInv, SpCallInv
  <2> QED BY <2>1, <2>2, TreeVerified DEF sp_tree_verify
<1> QED BY <1>1, SpInvariantHolds, PTL

\* Splaying moves nodes, never their contents; only a removal moves the contents of a node,
\* of one node, so the pointers that callers hold to the data of other nodes stay good.
THEOREM SpPointersAlwaysStay == SpSpec => PointersStay
<1>1. ASSUME SpPointerStep
      PROVE  LET kept  == DOMAIN tree.heap \cap DOMAIN tree'.heap
                 moved == {n \in kept : tree'.heap[n].key # tree.heap[n].key}
             IN  /\ moved # {} => op = "none" /\ op' # "insert" /\ op' # "search"
                 /\ Cardinality(moved) <= 1
                 /\ \A n \in kept \ moved : tree.heap[n].datum # NULL =>
                      tree'.heap[n].datum = tree.heap[n].datum
  <2> DEFINE kept  == DOMAIN tree.heap \cap DOMAIN tree'.heap
             moved == {n \in kept : tree'.heap[n].key # tree.heap[n].key}
  <2>1. CASE KeepsPointers
    <3>1. moved = {} /\ Cardinality({}) = 0
      BY <2>1, FS_EmptySet DEF KeepsPointers
    <3>2. \A n \in kept : tree.heap[n].datum # NULL => tree'.heap[n].datum = tree.heap[n].datum
      BY <2>1 DEF KeepsPointers
    <3> HIDE DEF moved, kept
    <3>3. Cardinality(moved) <= 1
      BY <3>1
    <3> QED BY <3>1, <3>2, <3>3 DEF moved, kept
  <2>2. CASE op = "none" /\ op' = "remove" /\ \E n \in DOMAIN tree.heap : SpMovesOnly(n)
    <3>1. PICK x \in DOMAIN tree.heap : SpMovesOnly(x)
      BY <2>2
    <3>2. moved \subseteq {x}
      BY <3>1 DEF SpMovesOnly
    <3>3. \A n \in kept \ moved : tree.heap[n].datum # NULL =>
            tree'.heap[n].datum = tree.heap[n].datum
      BY <3>1 DEF SpMovesOnly
    <3> HIDE DEF moved, kept
    <3>4. Cardinality(moved) <= 1
      <4>1. IsFiniteSet({x}) /\ Cardinality({x}) = 1
        BY FS_Singleton
      <4>2. Cardinality(moved) <= Cardinality({x})
        BY <3>2, <4>1, FS_Subset
      <4> QED BY <4>1, <4>2
    <3> QED BY <2>2, <3>3, <3>4 DEF moved, kept
  <2> QED BY <1>1, <2>1, <2>2 DEF SpPointerStep
<1>2. SpIInv /\ [SpNext]_shared =>
        [LET kept  == DOMAIN tree.heap \cap DOMAIN tree'.heap
             moved == {n \in kept : tree'.heap[n].key # tree.heap[n].key}
         IN  /\ moved # {} => op = "none" /\ op' # "insert" /\ op' # "search"
             /\ Cardinality(moved) <= 1
             /\ \A n \in kept \ moved : tree.heap[n].datum # NULL =>
                  tree'.heap[n].datum = tree.heap[n].datum]_tree
  BY <1>1, SpNextStep DEF SpStepIsRight
<1> QED BY <1>2, SpInvariantHolds, PTL DEF SpSpec, PointersStay

\* The splay tree is a map: splaying loses no key and gives none another's datum, the datum
\* that is set when an insertion returns belongs to the new key, and a removal takes its key.
THEOREM SpImplements == SpSpec => ImplementsMap
<1>1. SpInit => Map!Init
  BY DEF SpInit, StartsEmpty, EmptyTree, Map!Init, MapOf
<1>2. SpIInv /\ [SpNext]_shared => [Map!Next]_(MapOf(tree))
  <2> SUFFICES ASSUME SpIInv, [SpNext]_shared, MapOf(tree)' # MapOf(tree) PROVE Map!Next
    OBVIOUS
  <2>1. MapStep
    BY SpNextStep DEF SpStepIsRight
  <2>2. MapOf(tree') = MapOf(tree)'
    BY DEF MapOf, NodeOf
  <2>3. PICK k \in Keys : Map!Put(k) \/ Map!Delete(k)
    BY <2>1, <2>2 DEF MapStep
  <2>4. DOMAIN MapOf(tree)' # DOMAIN MapOf(tree)
    <3>1. CASE Map!Put(k)
      BY <3>1 DEF Map!Put
    <3>2. CASE Map!Delete(k)
      <4>1. k \in DOMAIN MapOf(tree) /\ k \notin DOMAIN MapOf(tree)'
        BY <3>2 DEF Map!Delete, Map!Restrict
      <4> QED BY <4>1
    <3> QED BY <2>3, <3>1, <3>2
  <2> QED BY <2>3, <2>4 DEF Map!Next
<1> QED BY <1>1, <1>2, SpInvariantHolds, PTL DEF SpSpec, ImplementsMap, Map!Spec

===================================================================================
