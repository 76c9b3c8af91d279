------------------------------- MODULE WbTree_proofs -------------------------------
(***************************************************************************)
(* The properties of the weight-balanced tree, for every set of keys and   *)
(* of addresses.  In every state the nodes form a search tree (IsTree of   *)
(* SearchTree_proofs), and on the way back to the root only the node that  *)
(* the loop has reached has a weight that lags behind those below it.  The *)
(* bounds that wb_tree_verify tests, 292 and 708 of 1000, are inductive:   *)
(* where one side became too light by one node, fixup's rotation leaves    *)
(* every node it touches within them.                                      *)
(***************************************************************************)
EXTENDS WbTree, SearchTree_proofs

----------------------------------------------------------------------------
(* The invariant *)

Fields == {"key", "datum", "parent", "llink", "rlink", "weight"}

Positive == Nat \ {0}

\* The nodes form a search tree, the data are what callers gave, and weights are positive.
TreeInv == /\ \E sub : IsTree(tree, sub)
           /\ Filled(tree, added)
           /\ \A n \in DOMAIN tree.heap :
                DOMAIN tree.heap[n] = Fields /\ tree.heap[n].weight \in Positive

\* Where a call is, and what the count says meanwhile.
CallInv ==
  LET N == DOMAIN tree.heap
  IN  /\ tree.count \in Nat
      /\ \/ op = "none" /\ at = NULL /\ added = NULL /\ tree.count = Cardinality(N)
         \/ /\ op = "insert" /\ added \in N /\ at \in N \cup {NULL}
            /\ tree.count + 1 = Cardinality(N)
         \/ /\ op = "remove" /\ added = NULL /\ at \in N \cup {NULL}
            /\ tree.count = Cardinality(N)
         \/ op = "clear" /\ added = NULL /\ at \in N \cup {NULL} /\ (at = NULL => N = {})

\* The bounds of wb_tree_verify for the weights of two siblings.
Even(l, r) == 292 * (l + r) <= 1000 * l /\ 292 * (l + r) <= 1000 * r

\* The weight w of a node with children of weights l and r, and one that lags behind by d:
\* one of the children was lighter by d when w was right.
Sound(w, l, r)    == w = l + r /\ Even(l, r)
Lags(w, l, r, d)  == w + d = l + r /\ (Even(l - d, r) \/ Even(l, r - d))

Weighed(t, x) == Sound(t.heap[x].weight, Weight(t, t.heap[x].llink), Weight(t, t.heap[x].rlink))

Lagging(t, x, d) ==
  Lags(t.heap[x].weight, Weight(t, t.heap[x].llink), Weight(t, t.heap[x].rlink), d)

\* All nodes but p are right.
WeighedBut(t, p, d) ==
  \A x \in DOMAIN t.heap : IF x = p THEN Lagging(t, x, d) ELSE Weighed(t, x)

WeightInv == op # "clear" => WeighedBut(tree, at, Step)

IInv == TreeInv /\ CallInv /\ WeightInv

\* What a step may do to the pointers that callers hold: a removal may move the contents of
\* one node, and nothing else is moved.
MovesOnly(n) ==
  \A x \in DOMAIN tree.heap \cap DOMAIN tree'.heap :
    IF x = n
    THEN tree'.heap[x].key # tree.heap[x].key
    ELSE /\ tree'.heap[x].key = tree.heap[x].key
         /\ tree.heap[x].datum # NULL => tree'.heap[x].datum = tree.heap[x].datum

PointerStep ==
  \/ KeepsPointers
  \/ op = "none" /\ op' = "remove" /\ \E n \in DOMAIN tree.heap : MovesOnly(n)

StepIsRight == IInv' /\ PointerStep /\ MapStep

LEMMA InitHolds ==
  ASSUME Init
  PROVE  IInv
<1>1. /\ tree.root = NULL /\ tree.count = 0 /\ DOMAIN tree.heap = {}
      /\ DOMAIN tree = {"root", "count", "heap"}
      /\ op = "none" /\ at = NULL /\ added = NULL
  BY DEF Init, StartsEmpty, EmptyTree
<1>2. IsTree(tree, [n \in {} |-> {}])
  BY <1>1, FS_EmptySet DEF IsTree, IsHeap, Linked, Spans, Sorted
<1>3. TreeInv
  BY <1>1, <1>2 DEF TreeInv, Filled
<1>4. CallInv
  BY <1>1, FS_EmptySet DEF CallInv
<1>5. WeightInv
  BY <1>1 DEF WeightInv, WeighedBut
<1> QED BY <1>3, <1>4, <1>5 DEF IInv

----------------------------------------------------------------------------
(* The arithmetic of rotations: a is the light child of a node, whose other *)
(* child has become too heavy by one node.                                  *)

\* Sides do not matter.
LEMMA EvenIsSymmetric ==
  ASSUME NEW l \in Int, NEW r \in Int
  PROVE  Even(l, r) <=> Even(r, l)
BY DEF Even

LEMMA SingleIsEven ==
  ASSUME NEW a \in Positive, NEW b \in Positive, NEW c \in Positive, NEW d \in {1, -1},
         Even(a - d, b + c) \/ Even(a, b + c - d), Even(b, c),
         1000 * a < 293 * (a + b + c), 1000 * b < 586 * (b + c)
  PROVE  Even(a, b) /\ Even(a + b, c)
BY DEF Even, Positive

\* A heavy child is there, and so is its inner child if that is heavy.
LEMMA HeavyIsNode ==
  ASSUME NEW a \in Positive, NEW m \in Positive, 1000 * a < 293 * (a + m)
  PROVE  m # 1
BY DEF Positive

LEMMA InnerIsNode ==
  ASSUME NEW b \in Positive, NEW c \in Positive, ~(1000 * b < 586 * (b + c))
  PROVE  b # 1
BY DEF Positive

----------------------------------------------------------------------------
(* Weights *)

\* Every node has a weight.
HasWeights(t) == \A x \in DOMAIN t.heap : "weight" \in DOMAIN t.heap[x] /\ t.heap[x].weight \in Positive

LEMMA WeightIsPositive ==
  ASSUME NEW t, NEW sub, IsTree(t, sub), HasWeights(t), NEW c \in DOMAIN t.heap \cup {NULL}
  PROVE  Weight(t, c) \in Positive
BY DEF Weight, HasWeights, Positive

\* The children of a node, and what they weigh.
LEMMA ChildWeights ==
  ASSUME NEW t, NEW sub, IsTree(t, sub), HasWeights(t), NEW x \in DOMAIN t.heap
  PROVE  \A s \in Sides : /\ t.heap[x][s] \in DOMAIN t.heap \cup {NULL}
                          /\ Weight(t, t.heap[x][s]) \in Positive
<1>1. \A s \in Sides : t.heap[x][s] \in DOMAIN t.heap \cup {NULL}
  BY DEF IsTree, Linked
<1> QED BY <1>1, WeightIsPositive

LEMMA WeighedOnSides ==
  ASSUME NEW t, NEW x, NEW s \in Sides,
         \A r \in Sides : Weight(t, t.heap[x][r]) \in Positive
  PROVE  /\ Weighed(t, x) <=> Sound(t.heap[x].weight, Weight(t, t.heap[x][Other(s)]),
                                    Weight(t, t.heap[x][s]))
         /\ \A d \in Int :
              Lagging(t, x, d) <=> Lags(t.heap[x].weight, Weight(t, t.heap[x][Other(s)]),
                                        Weight(t, t.heap[x][s]), d)
<1> DEFINE l == Weight(t, t.heap[x].llink)
           r == Weight(t, t.heap[x].rlink)
<1>1. l \in Int /\ r \in Int
  BY DEF Sides, Positive
<1>2. CASE s = "rlink"
  BY <1>2 DEF Other, Weighed, Lagging
<1>3. CASE s = "llink"
  <2>1. Weight(t, t.heap[x][Other(s)]) = r /\ Weight(t, t.heap[x][s]) = l
    BY <1>3 DEF Other
  <2> HIDE DEF l, r
  <2>2. Sound(t.heap[x].weight, l, r) <=> Sound(t.heap[x].weight, r, l)
    BY <1>1 DEF Sound, Even
  <2>3. \A d \in Int : Lags(t.heap[x].weight, l, r, d) <=> Lags(t.heap[x].weight, r, l, d)
    BY <1>1 DEF Lags, Even
  <2> QED BY <2>1, <2>2, <2>3 DEF Weighed, Lagging, l, r
<1> QED BY <1>2, <1>3 DEF Sides

\* Reweigh corrects one weight and leaves the rest.
Reweighed(t, u, x) ==
  /\ DOMAIN u = DOMAIN t /\ u.root = t.root /\ u.count = t.count
  /\ DOMAIN u.heap = DOMAIN t.heap
  /\ \A y \in DOMAIN t.heap :
       /\ DOMAIN u.heap[y] = DOMAIN t.heap[y]
       /\ \A f \in DOMAIN t.heap[y] \ {"weight"} : u.heap[y][f] = t.heap[y][f]
       /\ u.heap[y].weight = IF y = x THEN Weight(t, t.heap[x].llink) + Weight(t, t.heap[x].rlink)
                             ELSE t.heap[y].weight

LEMMA ReweighIs ==
  ASSUME NEW t, DOMAIN t = {"root", "count", "heap"}, NEW x \in DOMAIN t.heap,
         \A y \in DOMAIN t.heap : "weight" \in DOMAIN t.heap[y]
  PROVE  Reweighed(t, Reweigh(t, x), x)
<1> DEFINE w == Weight(t, t.heap[x].llink) + Weight(t, t.heap[x].rlink)
           u == [t EXCEPT !.heap[x].weight = w]
<1> HIDE DEF w
<1>1. /\ DOMAIN u = DOMAIN t /\ u.root = t.root /\ u.count = t.count
      /\ DOMAIN u.heap = DOMAIN t.heap
      /\ \A y \in DOMAIN t.heap :
           /\ DOMAIN u.heap[y] = DOMAIN t.heap[y]
           /\ \A f \in DOMAIN t.heap[y] \ {"weight"} : u.heap[y][f] = t.heap[y][f]
           /\ u.heap[y].weight = IF y = x THEN w ELSE t.heap[y].weight
  OBVIOUS
<1>2. u = Reweigh(t, x)
  BY DEF Reweigh, u, w
<1> HIDE DEF u
<1> QED BY <1>1, <1>2 DEF Reweighed, w

\* What fixup does at n, which it may turn together with other nodes of R below it: one of
\* them, g, takes its place with its weight, and all of R have the right weights.
Turned(t, u, n, R, g) ==
  /\ R \subseteq DOMAIN t.heap /\ n \in R /\ g \in R
  /\ t.heap[n].parent \notin R
  /\ \A y \in R \ {n} : t.heap[y].parent \in R
  /\ DOMAIN u.heap = DOMAIN t.heap
  /\ \A x \in DOMAIN t.heap \ R :
       /\ u.heap[x].weight = t.heap[x].weight
       /\ \A r \in Sides : u.heap[x][r] = IF t.heap[x][r] = n THEN g ELSE t.heap[x][r]
  /\ u.heap[g].weight = t.heap[n].weight
  /\ \A x \in R : Weighed(u, x) /\ u.heap[x].weight \in Positive

\* Then only the parent lags behind.
LEMMA TurnedWeights ==
  ASSUME NEW t, NEW sub, IsTree(t, sub), HasWeights(t), NEW n \in DOMAIN t.heap, NEW d \in {1, -1},
         WeighedBut(t, n, d),
         NEW t1, DOMAIN t1.heap = DOMAIN t.heap,
         t1.heap[n].weight = t.heap[n].weight + d,
         \A x \in DOMAIN t.heap : /\ x # n => t1.heap[x].weight = t.heap[x].weight
                                  /\ t1.heap[x].parent = t.heap[x].parent
                                  /\ \A r \in Sides : t1.heap[x][r] = t.heap[x][r],
         NEW u, NEW R, NEW g, Turned(t1, u, n, R, g)
  PROVE  WeighedBut(u, t.heap[n].parent, d)
<1> DEFINE D == DOMAIN t.heap
           p == t.heap[n].parent
<1>1. /\ R \subseteq D /\ n \in R /\ g \in R /\ p \notin R
      /\ \A y \in R \ {n} : t.heap[y].parent \in R
      /\ DOMAIN u.heap = D
      /\ u.heap[g].weight = t.heap[n].weight + d
      /\ \A x \in R : Weighed(u, x)
      /\ \A x \in D \ R : /\ u.heap[x].weight = t.heap[x].weight
                          /\ \A r \in Sides : u.heap[x][r] = IF t.heap[x][r] = n THEN g ELSE t.heap[x][r]
  BY DEF Turned
<1>2. NULL \notin D
  BY PointerAssumption DEF IsTree, IsHeap
<1>3. ASSUME NEW x \in D \ R, NEW r \in Sides
      PROVE  LET c == t.heap[x][r]
             IN  IF c = n THEN x = p /\ Weight(u, u.heap[x][r]) = Weight(t, c) + d
                 ELSE Weight(u, u.heap[x][r]) = Weight(t, c)
  <2> DEFINE c == t.heap[x][r]
  <2>1. c # NULL => c \in D /\ t.heap[c].parent = x
    BY DEF IsTree, Linked
  <2>2. u.heap[x][r] = IF c = n THEN g ELSE c
    BY <1>1
  <2> SUFFICES IF c = n THEN x = p /\ Weight(u, u.heap[x][r]) = Weight(t, c) + d
               ELSE Weight(u, u.heap[x][r]) = Weight(t, c)
    OBVIOUS
  <2> HIDE DEF c
  <2>3. CASE c = n
    <3>1. u.heap[x][r] = g /\ g # NULL /\ n # NULL /\ x = p
      BY <1>1, <1>2, <2>1, <2>2, <2>3
    <3> QED BY <1>1, <2>3, <3>1 DEF Weight
  <2>4. CASE c # n /\ c # NULL
    <3>1. c \in D \ R
      BY <1>1, <2>1, <2>4
    <3> QED BY <1>1, <1>2, <2>2, <2>4, <3>1 DEF Weight
  <2>5. CASE c # n /\ c = NULL
    BY <1>2, <2>2, <2>5 DEF Weight
  <2> QED BY <2>3, <2>4, <2>5
<1>4. ASSUME NEW x \in D, x # p PROVE Weighed(u, x)
  <2>1. CASE x \in R
    BY <1>1, <2>1
  <2>2. CASE x \notin R
    <3>1. Weighed(t, x)
      BY <1>1, <2>2 DEF WeighedBut
    <3>2. "llink" \in Sides /\ "rlink" \in Sides
      BY DEF Sides
    <3>3. /\ Weight(u, u.heap[x].llink) = Weight(t, t.heap[x].llink)
          /\ Weight(u, u.heap[x].rlink) = Weight(t, t.heap[x].rlink)
      BY <1>3, <1>4, <2>2, <3>2
    <3> QED BY <1>1, <2>2, <3>1, <3>3 DEF Weighed
  <2> QED BY <2>1, <2>2
<1>5. ASSUME p \in D PROVE Lagging(u, p, d)
  <2>1. PICK s \in Sides : t.heap[p][s] = n
    BY <1>2, <1>5 DEF IsTree, Linked
  <2>2. Other(s) \in Sides /\ t.heap[p][Other(s)] # n
    <3>1. Other(s) \in Sides
      BY DEF Sides, Other
    <3> QED BY <1>2, <1>5, <2>1, <3>1, TreeFacts
  <2>3. /\ Weight(u, u.heap[p][s]) = Weight(t, t.heap[p][s]) + d
        /\ Weight(u, u.heap[p][Other(s)]) = Weight(t, t.heap[p][Other(s)])
        /\ u.heap[p].weight = t.heap[p].weight
    BY <1>1, <1>3, <1>5, <2>1, <2>2
  <2>4. Weighed(t, p)
    BY <1>1, <1>5 DEF WeighedBut
  <2>5. \A r \in Sides : Weight(t, t.heap[p][r]) \in Positive
    BY <1>5, ChildWeights
  <2>6. t.heap[p].weight \in Positive
    BY <1>5 DEF HasWeights
  <2>7. \A r \in Sides : r = s \/ r = Other(s)
    BY DEF Sides, Other
  <2>8. Sound(t.heap[p].weight, Weight(t, t.heap[p][Other(s)]), Weight(t, t.heap[p][s]))
    BY <2>4, <2>5, WeighedOnSides
  <2>9. \A r \in Sides : Weight(u, u.heap[p][r]) \in Positive
    <3>1. Weight(u, u.heap[p][s]) = u.heap[g].weight
      <4>1. u.heap[p][s] = g /\ g # NULL
        BY <1>1, <1>2, <1>5, <2>1
      <4> QED BY <4>1 DEF Weight
    <3>2. u.heap[g].weight \in Positive
      BY DEF Turned
    <3>3. Weight(u, u.heap[p][Other(s)]) \in Positive
      BY <2>2, <2>3, <2>5, Zenon
    <3> QED BY <2>7, <3>1, <3>2, <3>3
  <2> HIDE DEF p
  <2>10. Lags(u.heap[p].weight, Weight(u, u.heap[p][Other(s)]), Weight(u, u.heap[p][s]), d)
    <3> DEFINE w == t.heap[p].weight
               l == Weight(t, t.heap[p][Other(s)])
               r == Weight(t, t.heap[p][s])
    <3>1. w \in Int /\ l \in Int /\ r \in Int /\ Sound(w, l, r)
      BY <2>2, <2>5, <2>6, <2>8 DEF Positive
    <3> HIDE DEF w, l, r
    <3>2. Lags(w, l, r + d, d)
      BY <3>1 DEF Sound, Lags, Even
    <3> QED BY <2>3, <3>2 DEF w, l, r
  <2> QED BY <2>9, <2>10, WeighedOnSides
<1> QED BY <1>1, <1>4, <1>5 DEF WeighedBut

----------------------------------------------------------------------------
(* fixup *)

\* What rotations and corrected weights keep.
Kept(t, u) ==
  /\ \E sub : IsTree(u, sub)
  /\ u.count = t.count /\ DOMAIN u.heap = DOMAIN t.heap
  /\ \A x \in DOMAIN t.heap :
       /\ DOMAIN u.heap[x] = DOMAIN t.heap[x]
       /\ \A f \in DOMAIN t.heap[x] \ {"parent", "llink", "rlink", "weight"} :
            u.heap[x][f] = t.heap[x][f]

LEMMA KeptTwice ==
  ASSUME NEW t, NEW u, NEW v, Kept(t, u), Kept(u, v)
  PROVE  Kept(t, v)
BY DEF Kept

LEMMA RotatedKeeps ==
  ASSUME NEW t, NEW sub, IsTree(t, sub), NEW n \in DOMAIN t.heap, NEW s \in Sides,
         t.heap[n][s] # NULL, NEW u, Rotated(t, u, n, s)
  PROVE  Kept(t, u)
BY RotationIsTree DEF Kept, SameNode

LEMMA ReweighKeeps ==
  ASSUME NEW t, NEW sub, IsTree(t, sub), HasWeights(t), NEW x \in DOMAIN t.heap
  PROVE  Kept(t, Reweigh(t, x)) /\ Reweighed(t, Reweigh(t, x), x)
<1> DEFINE u == Reweigh(t, x)
<1>1. Reweighed(t, u, x)
  BY ReweighIs DEF IsTree, IsHeap, HasWeights
<1> HIDE DEF u
<1>2. \A y \in DOMAIN t.heap : {"key", "datum", "parent", "llink", "rlink"} \subseteq DOMAIN t.heap[y]
  BY DEF IsTree, IsHeap
<1>3. IsTree(u, sub)
  BY <1>1, <1>2, SameLinksTree DEF Reweighed
<1>4. Kept(t, u)
  BY <1>1, <1>3 DEF Kept, Reweighed
<1> QED BY <1>1, <1>4 DEF u

LEMMA KeptSameMap ==
  ASSUME NEW t, NEW sub, IsTree(t, sub), NEW u, Kept(t, u)
  PROVE  /\ MapOf(u) = MapOf(t)
         /\ \A a : Filled(t, a) => Filled(u, a)
         /\ \A x \in DOMAIN t.heap : u.heap[x].key = t.heap[x].key /\ u.heap[x].datum = t.heap[x].datum
<1>1. \A x \in DOMAIN t.heap : u.heap[x].key = t.heap[x].key /\ u.heap[x].datum = t.heap[x].datum
  BY DEF Kept, IsTree, IsHeap
<1>2. DOMAIN u.heap = DOMAIN t.heap /\ \E sub2 : IsTree(u, sub2)
  BY DEF Kept
<1>3. Present(u) = Present(t) /\ Present(t) \subseteq DOMAIN t.heap
  BY <1>1, <1>2 DEF Present
<1>4. MapOf(u) = MapOf(t)
  BY <1>1, <1>2, <1>3, MapStays
<1> QED BY <1>1, <1>2, <1>4 DEF Filled

\* The links after a rotation that lifts m, the child of n on side s.
SingleLinks(t, v, n, m, s) ==
  LET o == Other(s)
  IN  /\ DOMAIN v.heap = DOMAIN t.heap
      /\ \A x \in DOMAIN t.heap : v.heap[x].weight = t.heap[x].weight
      /\ v.heap[n][s] = t.heap[m][o] /\ v.heap[n][o] = t.heap[n][o]
      /\ v.heap[m][s] = t.heap[m][s] /\ v.heap[m][o] = n
      /\ \A x \in DOMAIN t.heap \ {n, m}, r \in Sides :
           v.heap[x][r] = IF t.heap[x][r] = n THEN m ELSE t.heap[x][r]

\* None of the nodes that are turned is below another of them than its own parent.
Apart(t, n, m, s) ==
  LET o == Other(s)
      p == t.heap[n].parent
      others == (DOMAIN t.heap \cup {NULL}) \ {n, m}
  IN  /\ m \in DOMAIN t.heap /\ m # n /\ t.heap[m].parent = n /\ p # n /\ p # m
      /\ t.heap[n][o] \in others /\ t.heap[m][o] \in others /\ t.heap[m][s] \in others
      /\ t.heap[m][s] # NULL => t.heap[m][s] # t.heap[m][o]

\* The child c of x on the side r.
ChildAt(t, x, r, c) == t.heap[x][r] = c /\ c # NULL

LEMMA NodesApart ==
  ASSUME NEW t, NEW sub, IsTree(t, sub), NEW n \in DOMAIN t.heap, NEW s \in Sides,
         t.heap[n][s] # NULL
  PROVE  Apart(t, n, t.heap[n][s], s)
<1> DEFINE D == DOMAIN t.heap
           o == Other(s)
           m == t.heap[n][s]
           p == t.heap[n].parent
<1>1. o \in Sides /\ Other(o) = s
  BY DEF Sides, Other
<1>2. NULL \notin D
  BY PointerAssumption DEF IsTree, IsHeap
<1>3. /\ m \in D /\ m # n /\ t.heap[m].parent = n /\ t.heap[n][o] # m
      /\ p # NULL => p \in D /\ p # n /\ p # m
  BY AroundRotation
<1>4. p # n /\ p # m
  BY <1>2, <1>3
<1>5. t.heap[n][o] # n /\ t.heap[n][o] \in D \cup {NULL}
  BY <1>1, <1>2, TreeFacts
<1> HIDE DEF m, o, p
<1>6. ASSUME NEW r \in Sides
      PROVE  /\ t.heap[m][r] # m /\ t.heap[m][r] \in D \cup {NULL}
             /\ t.heap[m][r] # NULL => t.heap[t.heap[m][r]].parent = m /\ t.heap[m][r] # t.heap[m][Other(r)]
  BY <1>2, <1>3, TreeFacts
<1>7. \A r \in Sides : t.heap[m][r] # n
  BY <1>2, <1>4, <1>6 DEF p
<1> QED BY <1>1, <1>3, <1>4, <1>5, <1>6, <1>7 DEF Apart, m, o, p

LEMMA RotatedLinks ==
  ASSUME NEW t, NEW sub, IsTree(t, sub), HasWeights(t), NEW n \in DOMAIN t.heap, NEW s \in Sides,
         t.heap[n][s] # NULL, NEW v, Rotated(t, v, n, s)
  PROVE  SingleLinks(t, v, n, t.heap[n][s], s)
<1> DEFINE D == DOMAIN t.heap
           o == Other(s)
           m == t.heap[n][s]
           p == t.heap[n].parent
<1>1. o \in Sides /\ s # o /\ (\A r \in Sides : r = s \/ r = o)
  BY DEF Sides, Other
<1>2. m \in D /\ m # n /\ p # n /\ p # m
  BY NodesApart DEF Apart
<1>3. /\ DOMAIN v.heap = D
      /\ \A x \in D :
           /\ v.heap[x].weight = t.heap[x].weight
           /\ v.heap[x][o] = IF x = m THEN n
                             ELSE IF x = p /\ t.heap[p][o] = n THEN m ELSE t.heap[x][o]
           /\ v.heap[x][s] = IF x = n THEN t.heap[m][o]
                             ELSE IF x = p /\ t.heap[p][s] = n THEN m ELSE t.heap[x][s]
  BY DEF Rotated, SameNode, HasWeights
<1>4. \A x \in D, r \in Sides : t.heap[x][r] = n => x = p
  <2>1. n # NULL
    BY TreeFacts
  <2> QED BY <2>1 DEF IsTree, Linked
<1> HIDE DEF m, o, p
<1>5. ASSUME NEW x \in D \ {n, m}, NEW r \in Sides
      PROVE  v.heap[x][r] = IF t.heap[x][r] = n THEN m ELSE t.heap[x][r]
  BY <1>1, <1>3, <1>4
<1> QED BY <1>2, <1>3, <1>5 DEF SingleLinks, m, o

\* What Reweigh does, on sides.
Corrected(t, u, x, s) ==
  /\ Kept(t, u) /\ HasWeights(u) /\ DOMAIN u.heap = DOMAIN t.heap
  /\ \A y \in DOMAIN t.heap : /\ u.heap[y].parent = t.heap[y].parent
                              /\ \A r \in Sides : u.heap[y][r] = t.heap[y][r]
                              /\ y # x => u.heap[y].weight = t.heap[y].weight
  /\ u.heap[x].weight = Weight(t, t.heap[x][Other(s)]) + Weight(t, t.heap[x][s])

LEMMA ReweighCorrects ==
  ASSUME NEW t, NEW sub, IsTree(t, sub), HasWeights(t), NEW x \in DOMAIN t.heap, NEW s \in Sides
  PROVE  Corrected(t, Reweigh(t, x), x, s)
<1> DEFINE u == Reweigh(t, x)
<1>1. Kept(t, u) /\ Reweighed(t, u, x)
  BY ReweighKeeps
<1>2. \A y \in DOMAIN t.heap : {"parent", "llink", "rlink"} \subseteq DOMAIN t.heap[y]
  BY DEF IsTree, IsHeap
<1>3. \A r \in Sides : Weight(t, t.heap[x][r]) \in Positive
  BY ChildWeights
<1> HIDE DEF u
<1>4. /\ DOMAIN u.heap = DOMAIN t.heap
      /\ \A y \in DOMAIN t.heap :
           /\ DOMAIN u.heap[y] = DOMAIN t.heap[y]
           /\ u.heap[y].parent = t.heap[y].parent
           /\ \A r \in Sides : u.heap[y][r] = t.heap[y][r]
           /\ y # x => u.heap[y].weight = t.heap[y].weight
  BY <1>1, <1>2 DEF Reweighed, Sides
<1>5. u.heap[x].weight = Weight(t, t.heap[x].llink) + Weight(t, t.heap[x].rlink)
  BY <1>1 DEF Reweighed
<1>6. /\ "llink" \in Sides /\ "rlink" \in Sides
      /\ (s = "llink" /\ Other(s) = "rlink") \/ (s = "rlink" /\ Other(s) = "llink")
  BY DEF Sides, Other
<1>7. u.heap[x].weight = Weight(t, t.heap[x][Other(s)]) + Weight(t, t.heap[x][s])
      /\ u.heap[x].weight \in Positive
  <2>1. Weight(t, t.heap[x].llink) \in Positive /\ Weight(t, t.heap[x].rlink) \in Positive
    BY <1>3, <1>6
  <2> QED BY <1>5, <1>6, <2>1 DEF Positive
<1>8. HasWeights(u)
  BY <1>4, <1>7 DEF HasWeights
<1>9. Corrected(t, u, x, s)
  BY <1>1, <1>4, <1>7, <1>8 DEF Corrected
<1> QED BY <1>9 DEF u

LEMMA PositiveSum ==
  ASSUME NEW a \in Positive, NEW b \in Positive
  PROVE  a + b \in Positive
BY DEF Positive

\* Where a node's children have the right weights, it is within the bounds.
LEMMA WeighedIf ==
  ASSUME NEW u, NEW x, NEW s \in Sides, NEW l \in Positive, NEW r \in Positive,
         Weight(u, u.heap[x][Other(s)]) = l, Weight(u, u.heap[x][s]) = r,
         u.heap[x].weight = l + r, Even(l, r)
  PROVE  Weighed(u, x) /\ u.heap[x].weight \in Positive
<1>1. \A q \in Sides : q = s \/ q = Other(s)
  BY DEF Sides, Other
<1>2. \A q \in Sides : Weight(u, u.heap[x][q]) \in Positive
  BY <1>1
<1>3. Sound(u.heap[x].weight, Weight(u, u.heap[x][Other(s)]), Weight(u, u.heap[x][s]))
  BY DEF Sound
<1>4. u.heap[x].weight \in Positive
  BY DEF Positive
<1> QED BY <1>2, <1>3, <1>4, WeighedOnSides

\* A rotation of n and the corrections after it, with what stays: all that fixup does.
Turns(t, u, n, R, g) == Kept(t, u) /\ Turned(t, u, n, R, g)

\* The weights of what a single rotation of n moves are such that it evens them.
SingleFits(t, n, m, s, a, b, c) ==
  /\ a \in Positive /\ b \in Positive /\ c \in Positive
  /\ a = Weight(t, t.heap[n][Other(s)])
  /\ b = Weight(t, t.heap[m][Other(s)])
  /\ c = Weight(t, t.heap[m][s])
  /\ t.heap[n].weight = (a + b) + c
  /\ Even(a, b) /\ Even(a + b, c)

LEMMA SingleTurns ==
  ASSUME NEW t, NEW sub, IsTree(t, sub), HasWeights(t), NEW n \in DOMAIN t.heap, NEW s \in Sides,
         NEW m, ChildAt(t, n, s, m),
         NEW a, NEW b, NEW c, SingleFits(t, n, m, s, a, b, c),
         NEW v, Rotated(t, v, n, s)
  PROVE  Turns(t, Reweigh(Reweigh(v, n), m), n, {n, m}, m)
<1> DEFINE D == DOMAIN t.heap
           Elsewhere == (D \cup {NULL}) \ {n, m}
           o == Other(s)
           w == Reweigh(v, n)
           u == Reweigh(w, m)
           ab == a + b
           abc == ab + c
<1>1. o \in Sides /\ Other(o) = s
  BY DEF Sides, Other
<1>2. Apart(t, n, m, s)
  BY NodesApart DEF ChildAt
<1>3. /\ m \in D /\ m # n /\ t.heap[m].parent = n
      /\ t.heap[n].parent \notin {n, m} /\ NULL \notin {n, m}
      /\ t.heap[n][o] \in Elsewhere /\ t.heap[m][o] \in Elsewhere /\ t.heap[m][s] \in Elsewhere
  <2>1. NULL \notin D
    BY PointerAssumption DEF IsTree, IsHeap
  <2> QED BY <1>2, <2>1, Zenon DEF Apart
<1> HIDE DEF Elsewhere
<1>4. /\ a \in Positive /\ b \in Positive /\ c \in Positive /\ ab \in Positive
      /\ Even(a, b) /\ Even(ab, c) /\ t.heap[n].weight = abc
  BY PositiveSum, Zenon DEF SingleFits
<1> HIDE DEF ab, abc
<1>5. SingleLinks(t, v, n, m, s)
  BY RotatedLinks DEF ChildAt
<1>6. Kept(t, v)
  BY RotatedKeeps DEF ChildAt
<1>7. PICK sub1 : IsTree(v, sub1)
  BY <1>6 DEF Kept
<1>8. HasWeights(v) /\ DOMAIN v.heap = D
  BY <1>5, <1>6 DEF HasWeights, SingleLinks, Kept
<1>9. Corrected(v, w, n, s)
  BY <1>7, <1>8, ReweighCorrects
<1> HIDE DEF w
<1>10. PICK sub2 : IsTree(w, sub2)
  BY <1>9 DEF Corrected, Kept
<1>11. Corrected(w, u, m, s)
  <2>1. HasWeights(w) /\ m \in DOMAIN w.heap
    BY <1>3, <1>8, <1>9 DEF Corrected
  <2> QED BY <1>10, <2>1, ReweighCorrects
<1> HIDE DEF u, o
<1>12. /\ v.heap[n][s] = t.heap[m][o] /\ v.heap[n][o] = t.heap[n][o]
       /\ v.heap[m][s] = t.heap[m][s] /\ v.heap[m][o] = n
       /\ \A x \in D : v.heap[x].weight = t.heap[x].weight
       /\ \A x \in D \ {n, m}, r \in Sides :
            v.heap[x][r] = IF t.heap[x][r] = n THEN m ELSE t.heap[x][r]
  BY <1>5 DEF SingleLinks, o
<1>13. /\ DOMAIN w.heap = D /\ DOMAIN u.heap = D
       /\ \A x \in D, r \in Sides : w.heap[x][r] = v.heap[x][r] /\ u.heap[x][r] = v.heap[x][r]
       /\ \A x \in D \ {n} : w.heap[x].weight = t.heap[x].weight
       /\ \A x \in D \ {m} : u.heap[x].weight = w.heap[x].weight
       /\ w.heap[n].weight = Weight(v, v.heap[n][o]) + Weight(v, v.heap[n][s])
       /\ u.heap[m].weight = Weight(w, w.heap[m][o]) + Weight(w, w.heap[m][s])
  <2>1. /\ DOMAIN w.heap = D
        /\ \A x \in D, r \in Sides : w.heap[x][r] = v.heap[x][r]
        /\ \A x \in D \ {n} : w.heap[x].weight = v.heap[x].weight
        /\ w.heap[n].weight = Weight(v, v.heap[n][o]) + Weight(v, v.heap[n][s])
    BY <1>8, <1>9 DEF Corrected, o
  <2>2. /\ DOMAIN u.heap = D
        /\ \A x \in D, r \in Sides : u.heap[x][r] = w.heap[x][r]
        /\ \A x \in D \ {m} : u.heap[x].weight = w.heap[x].weight
        /\ u.heap[m].weight = Weight(w, w.heap[m][o]) + Weight(w, w.heap[m][s])
    BY <1>11, <2>1 DEF Corrected, o
  <2>3. \A x \in D, r \in Sides : w.heap[x][r] = v.heap[x][r] /\ u.heap[x][r] = v.heap[x][r]
    BY <2>1, <2>2
  <2>4. \A x \in D \ {n} : w.heap[x].weight = t.heap[x].weight
    BY <1>12, <2>1
  <2> HIDE DEF D
  <2> QED BY <2>1, <2>2, <2>3, <2>4
<1>14. \A x \in Elsewhere :
         /\ Weight(v, x) = Weight(t, x) /\ Weight(w, x) = Weight(t, x) /\ Weight(u, x) = Weight(t, x)
  <2> SUFFICES ASSUME NEW x \in Elsewhere
               PROVE  Weight(v, x) = Weight(t, x) /\ Weight(w, x) = Weight(t, x)
                      /\ Weight(u, x) = Weight(t, x)
    OBVIOUS
  <2>1. x # NULL => x \in D \ {n} /\ x \in D \ {m} /\ x \in D
    BY DEF Elsewhere
  <2> HIDE DEF D
  <2>2. x # NULL => /\ v.heap[x].weight = t.heap[x].weight
                    /\ w.heap[x].weight = t.heap[x].weight
                    /\ u.heap[x].weight = t.heap[x].weight
    BY <1>12, <1>13, <2>1
  <2> QED BY <2>2, Zenon DEF Weight
<1>15. a = Weight(t, t.heap[n][o]) /\ b = Weight(t, t.heap[m][o]) /\ c = Weight(t, t.heap[m][s])
  BY DEF SingleFits, o
<1>16. Weight(v, v.heap[n][o]) = a /\ Weight(v, v.heap[n][s]) = b
  BY <1>3, <1>12, <1>14, <1>15
<1>17. w.heap[n].weight = ab /\ u.heap[n].weight = ab
  BY <1>3, <1>13, <1>16 DEF ab
<1>18. Weight(w, w.heap[m][o]) = ab /\ Weight(w, w.heap[m][s]) = c
  <2>1. w.heap[m][o] = n /\ w.heap[m][s] = t.heap[m][s]
    BY <1>1, <1>3, <1>12, <1>13
  <2>2. Weight(w, n) = ab
    BY <1>3, <1>17 DEF Weight
  <2> QED BY <1>3, <1>14, <1>15, <2>1, <2>2
<1>19. u.heap[m].weight = abc
  BY <1>13, <1>18 DEF abc
<1>20. Weighed(u, n) /\ u.heap[n].weight \in Positive
  <2>0. u.heap[n][o] = t.heap[n][o] /\ u.heap[n][s] = t.heap[m][o]
    BY <1>1, <1>12, <1>13
  <2>1. Weight(u, u.heap[n][o]) = a /\ Weight(u, u.heap[n][s]) = b
    BY <1>3, <1>14, <1>15, <2>0
  <2>2. u.heap[n].weight = a + b
    BY <1>17 DEF ab
  <2> QED BY <1>4, <2>1, <2>2, WeighedIf DEF o
<1>21. Weighed(u, m) /\ u.heap[m].weight \in Positive
  <2>1. u.heap[m][o] = n /\ u.heap[m][s] = t.heap[m][s]
    BY <1>1, <1>3, <1>12, <1>13
  <2>2. Weight(u, n) = ab
    BY <1>3, <1>17 DEF Weight
  <2>3. Weight(u, u.heap[m][o]) = ab /\ Weight(u, u.heap[m][s]) = c
    BY <1>3, <1>14, <1>15, <2>1, <2>2, Zenon
  <2>4. u.heap[m].weight = ab + c
    BY <1>19 DEF abc
  <2> QED BY <1>4, <2>3, <2>4, WeighedIf DEF o
<1>22. \A x \in D \ {n, m} : /\ u.heap[x].weight = t.heap[x].weight
                             /\ \A r \in Sides : u.heap[x][r] = IF t.heap[x][r] = n THEN m ELSE t.heap[x][r]
  <2>1. \A x \in D \ {n, m} : x \in D \ {n} /\ x \in D \ {m}
    OBVIOUS
  <2> HIDE DEF D
  <2>2. \A x \in D \ {n, m} : u.heap[x].weight = t.heap[x].weight
    BY <1>13, <2>1
  <2>3. \A x \in D \ {n, m}, r \in Sides : u.heap[x][r] = v.heap[x][r]
    BY <1>13, <2>1
  <2>4. ASSUME NEW x \in D \ {n, m}, NEW r \in Sides
        PROVE  u.heap[x][r] = IF t.heap[x][r] = n THEN m ELSE t.heap[x][r]
    <3>1. v.heap[x][r] = IF t.heap[x][r] = n THEN m ELSE t.heap[x][r]
      BY <1>12
    <3>2. u.heap[x][r] = v.heap[x][r]
      BY <2>3
    <3> QED BY <3>1, <3>2, Zenon
  <2> QED BY <2>2, <2>4
<1>23. u.heap[m].weight = t.heap[n].weight
  BY <1>4, <1>19
<1>24. Turned(t, u, n, {n, m}, m)
  BY <1>3, <1>13, <1>20, <1>21, <1>22, <1>23, Zenon DEF Turned
<1>25. Kept(t, u)
  BY <1>6, <1>9, <1>11, KeptTwice DEF Corrected
<1> QED BY <1>24, <1>25 DEF u, w, Turns

\* The links after two rotations: k, the child of m on the inner side, is lifted above m, and
\* then above n.
DoubleLinks(t, v, n, m, k, s) ==
  LET o == Other(s)
  IN  /\ DOMAIN v.heap = DOMAIN t.heap
      /\ \A x \in DOMAIN t.heap : v.heap[x].weight = t.heap[x].weight
      /\ v.heap[n][s] = t.heap[k][o] /\ v.heap[n][o] = t.heap[n][o]
      /\ v.heap[m][s] = t.heap[m][s] /\ v.heap[m][o] = t.heap[k][s]
      /\ v.heap[k][s] = m /\ v.heap[k][o] = n
      /\ \A x \in DOMAIN t.heap \ {n, m, k} : \A r \in Sides :
           v.heap[x][r] = IF t.heap[x][r] = n THEN k ELSE t.heap[x][r]

Apart3(t, n, m, k, s) ==
  LET o == Other(s)
      p == t.heap[n].parent
      others == (DOMAIN t.heap \cup {NULL}) \ {n, m, k}
  IN  /\ m \in DOMAIN t.heap /\ k \in DOMAIN t.heap /\ m # n /\ k # m /\ k # n
      /\ t.heap[m].parent = n /\ t.heap[k].parent = m
      /\ p # n /\ p # m /\ p # k
      /\ t.heap[n][o] \in others /\ t.heap[m][s] \in others
      /\ t.heap[k][o] \in others /\ t.heap[k][s] \in others

LEMMA ChildFacts ==
  ASSUME NEW t, NEW sub, IsTree(t, sub), NEW x \in DOMAIN t.heap, NEW r \in Sides,
         NEW c, t.heap[x][r] = c, c # NULL
  PROVE  /\ c \in DOMAIN t.heap /\ t.heap[c].parent = x
         /\ c \in sub[c] /\ sub[c] \subseteq sub[x] /\ x \notin sub[c]
BY TreeFacts

LEMMA ThreeApart ==
  ASSUME NEW t, NEW sub, IsTree(t, sub), NEW n \in DOMAIN t.heap, NEW s \in Sides,
         NEW m, ChildAt(t, n, s, m), NEW k, ChildAt(t, m, Other(s), k)
  PROVE  Apart3(t, n, m, k, s)
<1> DEFINE D == DOMAIN t.heap
           o == Other(s)
           p == t.heap[n].parent
<1>1. o \in Sides /\ Other(o) = s
  BY DEF Sides, Other
<1>0. t.heap[n][s] = m /\ m # NULL /\ t.heap[m][o] = k /\ k # NULL
  BY Zenon DEF ChildAt
<1>2. NULL \notin D /\ n # NULL
  BY PointerAssumption DEF IsTree, IsHeap
<1>3. Apart(t, n, m, s)
  BY <1>0, NodesApart
<1>4. /\ m \in D /\ m # n /\ t.heap[m].parent = n /\ p # n /\ p # m
      /\ t.heap[n][o] \in (D \cup {NULL}) \ {n, m}
      /\ t.heap[m][o] \in (D \cup {NULL}) \ {n, m}
      /\ t.heap[m][s] \in (D \cup {NULL}) \ {n, m}
      /\ t.heap[m][s] # NULL => t.heap[m][s] # t.heap[m][o]
  BY <1>3 DEF Apart
<1>5. Apart(t, m, k, o)
  <2>1. t.heap[m][o] # NULL /\ k = t.heap[m][o]
    BY <1>0
  <2> HIDE DEF o
  <2> QED BY <1>1, <1>4, <2>1, NodesApart
<1>6. /\ k \in D /\ k # m /\ t.heap[k].parent = m /\ k # n
      /\ t.heap[k][o] \in (D \cup {NULL}) \ {m, k}
      /\ t.heap[k][s] \in (D \cup {NULL}) \ {m, k}
      /\ t.heap[m][s] # k
  <2> HIDE DEF o
  <2> QED BY <1>1, <1>2, <1>4, <1>5, Zenon DEF Apart, o
<1>7. t.heap[n][o] # k
  <2> SUFFICES ASSUME t.heap[n][o] = k PROVE FALSE
    OBVIOUS
  <2>1. t.heap[k].parent = n
    <3> HIDE DEF o
    <3> QED BY <1>0, <1>1, <1>2, <1>6, ChildFacts
  <2> QED BY <1>4, <1>6, <2>1
<1>8. n \notin sub[k]
  <2>1. n \notin sub[m] /\ m # NULL /\ k # NULL /\ t.heap[n][s] = m /\ t.heap[m][o] = k
    BY <1>0, ChildFacts
  <2>2. sub[k] \subseteq sub[m]
    <3> HIDE DEF o
    <3> QED BY <1>1, <1>4, <2>1, ChildFacts
  <2> QED BY <2>1, <2>2
<1>9. ASSUME NEW r \in Sides PROVE t.heap[k][r] # n
  <2> SUFFICES ASSUME t.heap[k][r] = n PROVE FALSE
    OBVIOUS
  <2>1. k \in D
    BY <1>6
  <2>2. n \in sub[n] /\ sub[n] \subseteq sub[k]
    BY <1>2, <2>1, ChildFacts
  <2> QED BY <1>8, <2>2
<1>10. p # k
  <2>1. p # NULL => \E r \in Sides : t.heap[p][r] = n
    BY DEF IsTree, Linked
  <2>2. k # NULL
    BY <1>0
  <2> HIDE DEF p
  <2> QED BY <1>9, <2>1, <2>2
<1>11. t.heap[k][o] # n /\ t.heap[k][s] # n
  <2> HIDE DEF o
  <2> QED BY <1>1, <1>9
<1> DEFINE others == (D \cup {NULL}) \ {n, m, k}
<1>12. /\ t.heap[n][o] \in others /\ t.heap[m][s] \in others
       /\ t.heap[k][o] \in others /\ t.heap[k][s] \in others
  <2>1. t.heap[n][o] \in others
    BY <1>4, <1>7
  <2>2. t.heap[m][s] \in others
    BY <1>4, <1>6
  <2>3. t.heap[k][o] \in others /\ t.heap[k][s] \in others
    BY <1>6, <1>11
  <2> HIDE DEF others
  <2> QED BY <2>1, <2>2, <2>3
<1> HIDE DEF o, p, D, others
<1> QED BY <1>4, <1>6, <1>10, <1>12, Zenon DEF Apart3, o, p, D, others

LEMMA DoubleRotatedLinks ==
  ASSUME NEW t, NEW sub, IsTree(t, sub), HasWeights(t), NEW n \in DOMAIN t.heap, NEW s \in Sides,
         NEW m, ChildAt(t, n, s, m), NEW k, ChildAt(t, m, Other(s), k),
         NEW v1, Rotated(t, v1, m, Other(s)), NEW v, Rotated(v1, v, n, s)
  PROVE  DoubleLinks(t, v, n, m, k, s) /\ Kept(t, v)
<1> DEFINE D == DOMAIN t.heap
           o == Other(s)
<1>1. o \in Sides /\ Other(o) = s /\ s # o
  BY DEF Sides, Other
<1>2. Apart3(t, n, m, k, s)
  BY ThreeApart
<1>3. /\ m \in D /\ k \in D /\ m # n /\ k # m /\ k # n
      /\ t.heap[m].parent = n
      /\ t.heap[n][o] # m /\ t.heap[m][s] # n /\ t.heap[k][s] # n
  BY <1>2, Zenon DEF Apart3
<1>4. SingleLinks(t, v1, m, k, o) /\ Kept(t, v1)
  <2>1. t.heap[m][o] # NULL /\ k = t.heap[m][o] /\ Rotated(t, v1, m, o)
    BY Zenon DEF ChildAt
  <2> HIDE DEF o
  <2> QED BY <1>1, <1>3, <2>1, RotatedLinks, RotatedKeeps
<1> HIDE DEF o
<1>5. /\ DOMAIN v1.heap = D
      /\ \A x \in D : v1.heap[x].weight = t.heap[x].weight
      /\ v1.heap[m][o] = t.heap[k][s] /\ v1.heap[m][s] = t.heap[m][s]
      /\ v1.heap[k][o] = t.heap[k][o] /\ v1.heap[k][s] = m
      /\ \A x \in D \ {m, k}, r \in Sides :
           v1.heap[x][r] = IF t.heap[x][r] = m THEN k ELSE t.heap[x][r]
  BY <1>1, <1>4, Zenon DEF SingleLinks
<1>6. v1.heap[n][s] = k /\ v1.heap[n][o] = t.heap[n][o]
  <2>1. n \in D \ {m, k} /\ t.heap[n][s] = m /\ t.heap[n][o] # m
    BY <1>3, Zenon DEF ChildAt
  <2> QED BY <1>1, <1>5, <2>1
<1>7. HasWeights(v1)
  BY <1>4, <1>5, Zenon DEF HasWeights, Kept
<1>8. PICK sub1 : IsTree(v1, sub1)
  BY <1>4 DEF Kept
<1>9. k # NULL
  BY DEF ChildAt
<1>10. SingleLinks(v1, v, n, k, s) /\ Kept(v1, v)
  <2>1. n \in DOMAIN v1.heap /\ v1.heap[n][s] # NULL
    BY <1>5, <1>6, <1>9, Zenon
  <2> QED BY <1>6, <1>7, <1>8, <2>1, RotatedLinks, RotatedKeeps
<1>11. /\ DOMAIN v.heap = D
       /\ \A x \in D : v.heap[x].weight = t.heap[x].weight
       /\ v.heap[n][s] = t.heap[k][o] /\ v.heap[n][o] = t.heap[n][o]
       /\ v.heap[k][s] = m /\ v.heap[k][o] = n
       /\ \A x \in D \ {n, k}, r \in Sides :
            v.heap[x][r] = IF v1.heap[x][r] = n THEN k ELSE v1.heap[x][r]
  <2>1. /\ DOMAIN v.heap = DOMAIN v1.heap
        /\ v.heap[n][s] = v1.heap[k][o] /\ v.heap[n][o] = v1.heap[n][o]
        /\ v.heap[k][s] = v1.heap[k][s] /\ v.heap[k][o] = n
    BY <1>10, Zenon DEF SingleLinks, o
  <2>2. \A x \in DOMAIN v1.heap : v.heap[x].weight = v1.heap[x].weight
    BY <1>10, Zenon DEF SingleLinks
  <2>3. \A x \in DOMAIN v1.heap \ {n, k}, r \in Sides :
          v.heap[x][r] = IF v1.heap[x][r] = n THEN k ELSE v1.heap[x][r]
    BY <1>10, Zenon DEF SingleLinks
  <2>4. DOMAIN v1.heap = D /\ \A x \in D : v1.heap[x].weight = t.heap[x].weight
    BY <1>5, Zenon
  <2> HIDE DEF D
  <2>5. \A x \in D : v.heap[x].weight = t.heap[x].weight
    BY <2>2, <2>4
  <2>6. \A x \in D \ {n, k}, r \in Sides :
          v.heap[x][r] = IF v1.heap[x][r] = n THEN k ELSE v1.heap[x][r]
    BY <2>3, <2>4, Zenon
  <2> QED BY <1>5, <1>6, <2>1, <2>4, <2>5, <2>6, Zenon
<1>12. v.heap[m][s] = t.heap[m][s] /\ v.heap[m][o] = t.heap[k][s]
  <2>1. m \in D \ {n, k} /\ v1.heap[m][s] # n /\ v1.heap[m][o] # n
    BY <1>3, <1>5
  <2> QED BY <1>1, <1>5, <1>11, <2>1, Zenon
<1>13. ASSUME NEW x \in D \ {n, m, k}, NEW r \in Sides
       PROVE  v.heap[x][r] = IF t.heap[x][r] = n THEN k ELSE t.heap[x][r]
  <2>1. t.heap[x][r] # m
    <3>1. m # NULL
      BY DEF ChildAt
    <3>2. t.heap[x][r] = m => t.heap[m].parent = x
      BY <3>1, ChildFacts
    <3> QED BY <1>3, <3>2
  <2>2. x \in D \ {m, k} /\ x \in D \ {n, k}
    OBVIOUS
  <2>3. v1.heap[x][r] = t.heap[x][r]
    BY <1>5, <2>1, <2>2, Zenon
  <2>4. v.heap[x][r] = IF v1.heap[x][r] = n THEN k ELSE v1.heap[x][r]
    BY <1>11, <2>2, Zenon
  <2> QED BY <2>3, <2>4, Zenon
<1>14. DoubleLinks(t, v, n, m, k, s)
  BY <1>11, <1>12, <1>13 DEF DoubleLinks, o
<1>15. Kept(t, v)
  BY <1>4, <1>10, KeptTwice
<1> QED BY <1>14, <1>15

\* The same in terms of Weight.
Rest(t, u, x, s) ==
  /\ DOMAIN u.heap = DOMAIN t.heap
  /\ \A y \in DOMAIN t.heap, r \in Sides : u.heap[y][r] = t.heap[y][r]
  /\ \A y \in (DOMAIN t.heap \cup {NULL}) \ {x} : Weight(u, y) = Weight(t, y)
  /\ u.heap[x].weight = Weight(t, t.heap[x][Other(s)]) + Weight(t, t.heap[x][s])

LEMMA CorrectedRest ==
  ASSUME NEW t, NEW u, NEW x, NEW s, Corrected(t, u, x, s)
  PROVE  Rest(t, u, x, s)
BY DEF Corrected, Weight, Rest

\* Those of what a double rotation moves are such that it evens them.
DoubleFits(t, n, m, k, s, a, b1, b2, c) ==
  /\ a \in Positive /\ b1 \in Positive /\ b2 \in Positive /\ c \in Positive
  /\ a = Weight(t, t.heap[n][Other(s)])
  /\ b1 = Weight(t, t.heap[k][Other(s)]) /\ b2 = Weight(t, t.heap[k][s])
  /\ c = Weight(t, t.heap[m][s])
  /\ t.heap[n].weight = (a + b1) + (b2 + c)
  /\ Even(a, b1) /\ Even(b2, c) /\ Even(a + b1, b2 + c)

LEMMA DoubleTurns ==
  ASSUME NEW t, NEW sub, IsTree(t, sub), HasWeights(t), NEW n \in DOMAIN t.heap, NEW s \in Sides,
         NEW m, ChildAt(t, n, s, m), NEW k, ChildAt(t, m, Other(s), k),
         NEW a, NEW b1, NEW b2, NEW c, DoubleFits(t, n, m, k, s, a, b1, b2, c),
         NEW v, Kept(t, v), DoubleLinks(t, v, n, m, k, s)
  PROVE  Turns(t, Reweigh(Reweigh(Reweigh(v, n), m), k), n, {n, m, k}, k)
<1> DEFINE D == DOMAIN t.heap
           Elsewhere == (D \cup {NULL}) \ {n, m, k}
           o == Other(s)
           w1 == Reweigh(v, n)
           w2 == Reweigh(w1, m)
           u == Reweigh(w2, k)
           l == a + b1
           r2 == b2 + c
<1>1. o \in Sides /\ Other(o) = s
  BY DEF Sides, Other
<1>2. Apart3(t, n, m, k, s)
  BY ThreeApart
<1>3. /\ m \in D /\ k \in D /\ m # n /\ k # m /\ k # n
      /\ t.heap[m].parent = n /\ t.heap[k].parent = m
      /\ t.heap[n].parent \notin {n, m, k} /\ NULL \notin {n, m, k}
      /\ t.heap[n][o] \in Elsewhere /\ t.heap[m][s] \in Elsewhere
      /\ t.heap[k][o] \in Elsewhere /\ t.heap[k][s] \in Elsewhere
  <2>1. NULL \notin D
    BY PointerAssumption DEF IsTree, IsHeap
  <2> QED BY <1>2, <2>1, Zenon DEF Apart3
<1> HIDE DEF Elsewhere
<1>4. /\ a \in Positive /\ b1 \in Positive /\ b2 \in Positive /\ c \in Positive
      /\ l \in Positive /\ r2 \in Positive /\ Even(a, b1) /\ Even(b2, c) /\ Even(l, r2)
      /\ t.heap[n].weight = l + r2
  BY PositiveSum, Zenon DEF DoubleFits
<1> HIDE DEF l, r2
<1>5. HasWeights(v) /\ DOMAIN v.heap = D
  BY DEF HasWeights, DoubleLinks, Kept
<1>6. PICK sub1 : IsTree(v, sub1)
  BY DEF Kept
<1>7. Corrected(v, w1, n, s)
  BY <1>5, <1>6, ReweighCorrects
<1> HIDE DEF w1
<1>8. PICK sub2 : IsTree(w1, sub2)
  BY <1>7 DEF Corrected, Kept
<1>9. Corrected(w1, w2, m, s)
  <2>1. HasWeights(w1) /\ m \in DOMAIN w1.heap
    BY <1>3, <1>5, <1>7 DEF Corrected
  <2> QED BY <1>8, <2>1, ReweighCorrects
<1> HIDE DEF w2
<1>10. PICK sub3 : IsTree(w2, sub3)
  BY <1>9 DEF Corrected, Kept
<1>11. Corrected(w2, u, k, s)
  <2>1. HasWeights(w2) /\ DOMAIN w2.heap = DOMAIN w1.heap /\ DOMAIN w1.heap = DOMAIN v.heap
    BY <1>7, <1>9 DEF Corrected
  <2>2. k \in DOMAIN w2.heap
    BY <1>3, <1>5, <2>1, Zenon
  <2> QED BY <1>10, <2>1, <2>2, ReweighCorrects
<1> HIDE DEF u, o
<1>12. /\ v.heap[n][s] = t.heap[k][o] /\ v.heap[n][o] = t.heap[n][o]
       /\ v.heap[m][s] = t.heap[m][s] /\ v.heap[m][o] = t.heap[k][s]
       /\ v.heap[k][s] = m /\ v.heap[k][o] = n
       /\ \A x \in D : v.heap[x].weight = t.heap[x].weight
  BY Zenon DEF DoubleLinks, o
<1>13. \A x \in D \ {n, m, k} : \A r \in Sides :
         v.heap[x][r] = IF t.heap[x][r] = n THEN k ELSE t.heap[x][r]
  BY Zenon DEF DoubleLinks
<1>14. /\ DOMAIN w1.heap = D
       /\ \A x \in D, r \in Sides : w1.heap[x][r] = v.heap[x][r]
       /\ \A x \in (D \cup {NULL}) \ {n} : Weight(w1, x) = Weight(v, x)
       /\ w1.heap[n].weight = Weight(v, v.heap[n][o]) + Weight(v, v.heap[n][s])
  <2>1. Rest(v, w1, n, s)
    BY <1>7, CorrectedRest
  <2>2. DOMAIN v.heap = D
    BY <1>5
  <2> HIDE DEF D
  <2> QED BY <2>1, <2>2, Zenon DEF Rest, o
<1>15. /\ DOMAIN w2.heap = D
       /\ \A x \in D, r \in Sides : w2.heap[x][r] = w1.heap[x][r]
       /\ \A x \in (D \cup {NULL}) \ {m} : Weight(w2, x) = Weight(w1, x)
       /\ w2.heap[m].weight = Weight(w1, w1.heap[m][o]) + Weight(w1, w1.heap[m][s])
  <2>1. /\ DOMAIN w2.heap = DOMAIN w1.heap
        /\ \A x \in DOMAIN w1.heap, r \in Sides : w2.heap[x][r] = w1.heap[x][r]
        /\ \A x \in (DOMAIN w1.heap \cup {NULL}) \ {m} : Weight(w2, x) = Weight(w1, x)
        /\ w2.heap[m].weight = Weight(w1, w1.heap[m][o]) + Weight(w1, w1.heap[m][s])
    <3>1. Rest(w1, w2, m, s)
      BY <1>9, CorrectedRest
    <3> QED BY <3>1, Zenon DEF Rest, o
  <2>2. DOMAIN w1.heap = D
    BY <1>14
  <2> HIDE DEF D
  <2> QED BY <2>1, <2>2, Zenon
<1>16. /\ DOMAIN u.heap = D
       /\ \A x \in D, r \in Sides : u.heap[x][r] = w2.heap[x][r]
       /\ \A x \in (D \cup {NULL}) \ {k} : Weight(u, x) = Weight(w2, x)
       /\ u.heap[k].weight = Weight(w2, w2.heap[k][o]) + Weight(w2, w2.heap[k][s])
  <2>1. /\ DOMAIN u.heap = DOMAIN w2.heap
        /\ \A x \in DOMAIN w2.heap, r \in Sides : u.heap[x][r] = w2.heap[x][r]
        /\ \A x \in (DOMAIN w2.heap \cup {NULL}) \ {k} : Weight(u, x) = Weight(w2, x)
        /\ u.heap[k].weight = Weight(w2, w2.heap[k][o]) + Weight(w2, w2.heap[k][s])
    <3>1. Rest(w2, u, k, s)
      BY <1>11, CorrectedRest
    <3> QED BY <3>1, Zenon DEF Rest, o
  <2>2. DOMAIN w2.heap = D
    BY <1>15
  <2> HIDE DEF D
  <2> QED BY <2>1, <2>2, Zenon
<1>17. \A x \in Elsewhere :
         /\ Weight(v, x) = Weight(t, x) /\ Weight(w1, x) = Weight(t, x)
         /\ Weight(w2, x) = Weight(t, x) /\ Weight(u, x) = Weight(t, x)
  <2> SUFFICES ASSUME NEW x \in Elsewhere
               PROVE  /\ Weight(v, x) = Weight(t, x) /\ Weight(w1, x) = Weight(t, x)
                      /\ Weight(w2, x) = Weight(t, x) /\ Weight(u, x) = Weight(t, x)
    OBVIOUS
  <2>0. x # NULL => x \in D
    BY DEF Elsewhere
  <2>2. /\ x \in (D \cup {NULL}) \ {n} /\ x \in (D \cup {NULL}) \ {m}
        /\ x \in (D \cup {NULL}) \ {k}
    BY DEF Elsewhere
  <2> HIDE DEF D
  <2>1. Weight(v, x) = Weight(t, x)
    BY <1>12, <2>0, Zenon DEF Weight
  <2>3. Weight(w1, x) = Weight(v, x)
    BY <1>14, <2>2
  <2>4. Weight(w2, x) = Weight(w1, x)
    BY <1>15, <2>2
  <2>5. Weight(u, x) = Weight(w2, x)
    BY <1>16, <2>2, Zenon
  <2> QED BY <2>1, <2>3, <2>4, <2>5
<1>18. \A x \in D, r \in Sides : u.heap[x][r] = v.heap[x][r]
  <2> HIDE DEF D
  <2> QED BY <1>14, <1>15, <1>16
<1>19. \A x \in D : w1.heap[x][o] = v.heap[x][o] /\ w1.heap[x][s] = v.heap[x][s]
                    /\ w2.heap[x][o] = v.heap[x][o] /\ w2.heap[x][s] = v.heap[x][s]
                    /\ u.heap[x][o] = v.heap[x][o] /\ u.heap[x][s] = v.heap[x][s]
  <2> SUFFICES ASSUME NEW x \in D
               PROVE  /\ w1.heap[x][o] = v.heap[x][o] /\ w1.heap[x][s] = v.heap[x][s]
                      /\ w2.heap[x][o] = v.heap[x][o] /\ w2.heap[x][s] = v.heap[x][s]
                      /\ u.heap[x][o] = v.heap[x][o] /\ u.heap[x][s] = v.heap[x][s]
    OBVIOUS
  <2> HIDE DEF D
  <2>1. w1.heap[x][o] = v.heap[x][o] /\ w1.heap[x][s] = v.heap[x][s]
    BY <1>1, <1>14
  <2>2. w2.heap[x][o] = w1.heap[x][o] /\ w2.heap[x][s] = w1.heap[x][s]
    BY <1>1, <1>15
  <2>3. u.heap[x][o] = v.heap[x][o] /\ u.heap[x][s] = v.heap[x][s]
    BY <1>1, <1>18
  <2> QED BY <2>1, <2>2, <2>3
<1>20. a = Weight(t, t.heap[n][o]) /\ b1 = Weight(t, t.heap[k][o]) /\ b2 = Weight(t, t.heap[k][s])
       /\ c = Weight(t, t.heap[m][s])
  BY Zenon DEF DoubleFits, o
<1>21. n \in D /\ n # NULL /\ m # NULL /\ k # NULL
  BY <1>3, Zenon
<1> HIDE DEF D
<1>22. w1.heap[n].weight = l
  <2>1. Weight(v, v.heap[n][o]) = a /\ Weight(v, v.heap[n][s]) = b1
    BY <1>3, <1>12, <1>17, <1>20, Zenon
  <2> QED BY <1>14, <2>1 DEF l
<1>23. Weight(w2, n) = l /\ Weight(u, n) = l
  <2>1. Weight(w1, n) = l
    BY <1>21, <1>22 DEF Weight
  <2>2. Weight(w2, n) = Weight(w1, n)
    BY <1>3, <1>15, <1>21, Zenon
  <2>3. Weight(u, n) = Weight(w2, n)
    BY <1>3, <1>16, <1>21
  <2> QED BY <2>1, <2>2, <2>3
<1>24. w2.heap[m].weight = r2
  <2>0. w1.heap[m][o] = t.heap[k][s] /\ w1.heap[m][s] = t.heap[m][s]
    BY <1>3, <1>12, <1>19, Zenon
  <2>1. Weight(w1, w1.heap[m][o]) = b2 /\ Weight(w1, w1.heap[m][s]) = c
    BY <1>3, <1>17, <1>20, <2>0, Zenon
  <2> QED BY <1>15, <2>1 DEF r2
<1>25. Weight(w2, m) = r2 /\ Weight(u, m) = r2
  <2>1. Weight(w2, m) = r2
    BY <1>21, <1>24 DEF Weight
  <2>2. Weight(u, m) = Weight(w2, m)
    BY <1>3, <1>16, Zenon
  <2> QED BY <2>1, <2>2
<1>26. u.heap[k].weight = l + r2
  <2>1. w2.heap[k][o] = n /\ w2.heap[k][s] = m
    BY <1>3, <1>12, <1>19
  <2> QED BY <1>16, <1>23, <1>25, <2>1, Zenon
<1>27. Weighed(u, n) /\ u.heap[n].weight \in Positive
  <2>0. u.heap[n][o] = t.heap[n][o] /\ u.heap[n][s] = t.heap[k][o]
    BY <1>12, <1>19, <1>21, Zenon
  <2>1. Weight(u, u.heap[n][o]) = a /\ Weight(u, u.heap[n][s]) = b1
    BY <1>3, <1>17, <1>20, <2>0
  <2>2. u.heap[n].weight = a + b1
    BY <1>21, <1>23 DEF Weight, l
  <2> QED BY <1>4, <2>1, <2>2, WeighedIf DEF o
<1>28. Weighed(u, m) /\ u.heap[m].weight \in Positive
  <2>0. u.heap[m][o] = t.heap[k][s] /\ u.heap[m][s] = t.heap[m][s]
    BY <1>3, <1>12, <1>19, Zenon
  <2>1. Weight(u, u.heap[m][o]) = b2 /\ Weight(u, u.heap[m][s]) = c
    BY <1>3, <1>17, <1>20, <2>0
  <2>2. u.heap[m].weight = b2 + c
    BY <1>21, <1>25 DEF Weight, r2
  <2> QED BY <1>4, <2>1, <2>2, WeighedIf DEF o
<1>29. Weighed(u, k) /\ u.heap[k].weight \in Positive
  <2>1. u.heap[k][o] = n /\ u.heap[k][s] = m
    BY <1>3, <1>12, <1>19, Zenon
  <2>2. Weight(u, u.heap[k][o]) = l /\ Weight(u, u.heap[k][s]) = r2
    BY <1>23, <1>25, <2>1, Zenon
  <2> QED BY <1>4, <1>26, <2>2, WeighedIf, Zenon DEF o
<1>30. \A x \in D \ {n, m, k} :
         /\ u.heap[x].weight = t.heap[x].weight
         /\ \A r \in Sides : u.heap[x][r] = IF t.heap[x][r] = n THEN k ELSE t.heap[x][r]
  <2> SUFFICES ASSUME NEW x \in D \ {n, m, k}
               PROVE  /\ u.heap[x].weight = t.heap[x].weight
                      /\ \A r \in Sides : u.heap[x][r] = IF t.heap[x][r] = n THEN k ELSE t.heap[x][r]
    OBVIOUS
  <2>1. x # NULL
    BY PointerAssumption DEF D, IsTree, IsHeap
  <2>2. u.heap[x].weight = t.heap[x].weight
    <3>0. x \in Elsewhere
      BY DEF Elsewhere
    <3>1. Weight(u, x) = Weight(t, x)
      BY <1>17, <3>0, Zenon
    <3> QED BY <2>1, <3>1 DEF Weight
  <2>3. \A r \in Sides : u.heap[x][r] = v.heap[x][r]
    BY <1>18
  <2>4. \A r \in Sides : v.heap[x][r] = IF t.heap[x][r] = n THEN k ELSE t.heap[x][r]
    BY <1>13
  <2> QED BY <2>2, <2>3, <2>4, Zenon
<1>31. u.heap[k].weight = t.heap[n].weight
  BY <1>4, <1>26
<1>32. Turned(t, u, n, {n, m, k}, k)
  <2>1. {n, m, k} \subseteq D /\ n \in {n, m, k} /\ k \in {n, m, k}
    BY <1>3, <1>21, Zenon
  <2>2. \A y \in {n, m, k} \ {n} : t.heap[y].parent \in {n, m, k}
    BY <1>3, Zenon
  <2>3. \A x \in {n, m, k} : Weighed(u, x) /\ u.heap[x].weight \in Positive
    BY <1>27, <1>28, <1>29, Zenon
  <2> QED BY <1>3, <1>16, <1>30, <1>31, <2>1, <2>2, <2>3, Zenon DEF Turned, D
<1>33. Kept(t, u)
  BY <1>7, <1>9, <1>11, KeptTwice, Zenon DEF Corrected
<1> QED BY <1>32, <1>33 DEF u, w2, w1, Turns

\* The node that fixup is given: its weight is right, but one of its children weighed d less
\* when it was within the bounds.
Due(w, l, r, d) == w = l + r /\ (Even(l - d, r) \/ Even(l, r - d))

DueAt(t, n, d) ==
  Due(t.heap[n].weight, Weight(t, t.heap[n].llink), Weight(t, t.heap[n].rlink), d)

LEMMA DueOnSides ==
  ASSUME NEW t, NEW n, NEW s \in Sides, NEW d \in {1, -1}, DueAt(t, n, d),
         \A r \in Sides : Weight(t, t.heap[n][r]) \in Positive
  PROVE  Due(t.heap[n].weight, Weight(t, t.heap[n][Other(s)]), Weight(t, t.heap[n][s]), d)
<1> DEFINE l == Weight(t, t.heap[n].llink)
           r == Weight(t, t.heap[n].rlink)
<1>1. l \in Int /\ r \in Int
  BY DEF Sides, Positive
<1>2. CASE s = "rlink"
  BY <1>2 DEF Other, DueAt
<1>3. CASE s = "llink"
  <2>1. Weight(t, t.heap[n][Other(s)]) = r /\ Weight(t, t.heap[n][s]) = l
    BY <1>3 DEF Other
  <2>2. Due(t.heap[n].weight, l, r, d)
    BY DEF DueAt
  <2> HIDE DEF l, r
  <2>3. Due(t.heap[n].weight, r, l, d)
    BY <1>1, <2>2 DEF Due, Even
  <2> QED BY <2>1, <2>3
<1> QED BY <1>2, <1>3 DEF Sides

\* The side of n other than s is too light, so its child on side s is there.  The rotation
\* is single if the inner child of that is light enough, and else that child is there too.
TooLight(t, n, s) == 1000 * Weight(t, t.heap[n][Other(s)]) < 293 * t.heap[n].weight
Outer(t, m, s)    == 1000 * Weight(t, t.heap[m][Other(s)]) < 586 * t.heap[m].weight

\* The light part of a node has weight a and its other part w; the weight v of the node is
\* right, and before the change by d at one of its parts both were heavy enough.
HeavyAt(a, w, v, d) ==
  /\ a \in Positive /\ w \in Positive
  /\ v = a + w
  /\ Even(a - d, w) \/ Even(a, w - d)
  /\ 1000 * a < 293 * (a + w)

LEMMA HeavySide ==
  ASSUME NEW t, NEW sub, IsTree(t, sub), HasWeights(t), NEW n \in DOMAIN t.heap, NEW s \in Sides,
         NEW d \in {1, -1}, DueAt(t, n, d), TooLight(t, n, s),
         NEW m, m = t.heap[n][s], NEW a, a = Weight(t, t.heap[n][Other(s)])
  PROVE  /\ m \in DOMAIN t.heap /\ m # NULL
         /\ HeavyAt(a, t.heap[m].weight, t.heap[n].weight, d)
<1> DEFINE w == Weight(t, m)
           v == t.heap[n].weight
<1>1. \A r \in Sides : t.heap[n][r] \in DOMAIN t.heap \cup {NULL} /\ Weight(t, t.heap[n][r]) \in Positive
  BY ChildWeights
<1>2. Other(s) \in Sides
  BY DEF Sides, Other
<1>3. a \in Positive /\ w \in Positive /\ m \in DOMAIN t.heap \cup {NULL}
  BY <1>1, <1>2
<1>4. Due(v, a, w, d)
  BY <1>1, DueOnSides
<1>5. 1000 * a < 293 * v
  BY DEF TooLight
<1> HIDE DEF w, v
<1>6. v = a + w /\ (Even(a - d, w) \/ Even(a, w - d)) /\ 1000 * a < 293 * (a + w)
  BY <1>4, <1>5 DEF Due
<1>7. w # 1
  BY <1>3, <1>6, HeavyIsNode
<1>8. m # NULL
  BY <1>7 DEF Weight, w
<1>9. w = t.heap[m].weight
  BY <1>8 DEF Weight, w
<1>10. m \in DOMAIN t.heap
  BY <1>3, <1>8
<1>11. HeavyAt(a, w, v, d)
  BY <1>3, <1>6 DEF HeavyAt
<1> QED BY <1>8, <1>9, <1>10, <1>11, Zenon DEF v

\* The weights at a heavy child: a is the light side, b and c are below the heavy one.
Heavy(a, b, c, d) ==
  /\ a \in Positive /\ b \in Positive /\ c \in Positive
  /\ Even(b, c)
  /\ Even(a - d, b + c) \/ Even(a, b + c - d)
  /\ 1000 * a < 293 * (a + b + c)

LEMMA HeavyArithmetic ==
  ASSUME NEW a, NEW b \in Positive, NEW c \in Positive, NEW d \in {1, -1},
         NEW w, Sound(w, b, c), NEW v, HeavyAt(a, w, v, d)
  PROVE  w = b + c /\ Heavy(a, b, c, d) /\ v = (a + b) + c
<1>1. a \in Positive /\ w \in Positive /\ w = b + c /\ Even(b, c)
  BY DEF HeavyAt, Sound
<1>2. v = a + w /\ (Even(a - d, w) \/ Even(a, w - d)) /\ 1000 * a < 293 * (a + w)
  BY DEF HeavyAt
<1>3. Even(a - d, b + c) \/ Even(a, b + c - d)
  BY <1>1, <1>2
<1>4. v = (a + b) + c /\ 1000 * a < 293 * (a + b + c)
  BY <1>1, <1>2 DEF Positive
<1> QED BY <1>1, <1>3, <1>4 DEF Heavy

LEMMA HeavyIsSingle ==
  ASSUME NEW a, NEW b, NEW c, NEW d \in {1, -1}, Heavy(a, b, c, d),
         NEW w \in Positive, w = b + c, 1000 * b < 586 * w
  PROVE  a \in Positive /\ b \in Positive /\ c \in Positive /\ Even(a, b) /\ Even(a + b, c)
<1>1. a \in Positive /\ b \in Positive /\ c \in Positive
  BY DEF Heavy
<1>2. /\ Even(b, c) /\ (Even(a - d, b + c) \/ Even(a, b + c - d))
      /\ 1000 * a < 293 * (a + b + c)
  BY DEF Heavy
<1>3. 1000 * b < 586 * (b + c)
  BY <1>1
<1> QED BY <1>1, <1>2, <1>3, SingleIsEven

LEMMA HeavyIsDouble ==
  ASSUME NEW a, NEW b, NEW c, NEW d \in {1, -1}, Heavy(a, b, c, d),
         NEW w \in Positive, w = b + c, ~(1000 * b < 586 * w),
         NEW b1 \in Positive, NEW b2 \in Positive, Sound(b, b1, b2),
         NEW v \in Positive, v = (a + b) + c
  PROVE  /\ a \in Positive /\ c \in Positive
         /\ Even(a, b1) /\ Even(b2, c) /\ Even(a + b1, b2 + c)
         /\ v = (a + b1) + (b2 + c)
<1>1. a \in Positive /\ b \in Positive /\ c \in Positive
  BY DEF Heavy
<1>2. /\ Even(b, c) /\ (Even(a - d, b + c) \/ Even(a, b + c - d))
      /\ 1000 * a < 293 * (a + b + c)
  BY DEF Heavy
<1>3. ~(1000 * b < 586 * (b + c))
  BY <1>1
<1>4. b = b1 + b2 /\ Even(b1, b2)
  BY DEF Sound
<1>5. Even(a, b1) /\ Even(b2, c) /\ Even(a + b1, b2 + c)
  BY <1>1, <1>2, <1>3, <1>4 DEF Even, Positive
<1>6. v = (a + b1) + (b2 + c)
  BY <1>1, <1>4 DEF Positive
<1> QED BY <1>1, <1>5, <1>6

LEMMA HeavyHasInner ==
  ASSUME NEW a, NEW b, NEW c, NEW d \in {1, -1}, Heavy(a, b, c, d),
         NEW w \in Positive, w = b + c, ~(1000 * b < 586 * w)
  PROVE  b # 1
<1>1. b \in Positive /\ c \in Positive
  BY DEF Heavy
<1>2. ~(1000 * b < 586 * (b + c))
  BY <1>1
<1> QED BY <1>1, <1>2, InnerIsNode

\* The child m of n on a side that is too heavy, with the weights it comes with.
HeavyChild(t, n, m, s, d) ==
  LET a == Weight(t, t.heap[n][Other(s)])
      b == Weight(t, t.heap[m][Other(s)])
      c == Weight(t, t.heap[m][s])
  IN  /\ m \in DOMAIN t.heap /\ m # NULL /\ t.heap[m].weight \in Positive
      /\ t.heap[m].weight = b + c /\ t.heap[n].weight \in Positive
      /\ Heavy(a, b, c, d) /\ t.heap[n].weight = (a + b) + c

LEMMA HasHeavyChild ==
  ASSUME NEW t, NEW sub, IsTree(t, sub), HasWeights(t), NEW n \in DOMAIN t.heap, NEW s \in Sides,
         NEW d \in {1, -1}, DueAt(t, n, d), TooLight(t, n, s),
         NEW m, ChildAt(t, n, s, m), Weighed(t, m)
  PROVE  HeavyChild(t, n, m, s, d)
<1> DEFINE a == Weight(t, t.heap[n][Other(s)])
           b == Weight(t, t.heap[m][Other(s)])
           c == Weight(t, t.heap[m][s])
           w == t.heap[m].weight
           v == t.heap[n].weight
<1>1. /\ m \in DOMAIN t.heap /\ m # NULL
      /\ HeavyAt(a, w, v, d)
  BY HeavySide DEF ChildAt
<1>2. \A r \in Sides : Weight(t, t.heap[m][r]) \in Positive
  BY <1>1, ChildWeights
<1>3. Other(s) \in Sides
  BY DEF Sides, Other
<1>4. b \in Positive /\ c \in Positive
  BY <1>2, <1>3
<1>5. Sound(w, b, c)
  BY <1>2, WeighedOnSides
<1>6. w \in Positive /\ v \in Positive
  BY <1>1 DEF HasWeights
<1> HIDE DEF a, b, c, w, v
<1>7. w = b + c /\ Heavy(a, b, c, d) /\ v = (a + b) + c
  BY <1>1, <1>4, <1>5, HeavyArithmetic
<1> QED BY <1>1, <1>6, <1>7, Zenon DEF a, b, c, w, v, HeavyChild

LEMMA HeavySingle ==
  ASSUME NEW t, NEW sub, IsTree(t, sub), HasWeights(t), NEW n \in DOMAIN t.heap, NEW s \in Sides,
         NEW d \in {1, -1}, DueAt(t, n, d), TooLight(t, n, s),
         NEW m, ChildAt(t, n, s, m), Weighed(t, m), Outer(t, m, s), NEW v, Rotated(t, v, n, s)
  PROVE  Turns(t, Reweigh(Reweigh(v, n), m), n, {n, m}, m)
<1> DEFINE a == Weight(t, t.heap[n][Other(s)])
           b == Weight(t, t.heap[m][Other(s)])
           c == Weight(t, t.heap[m][s])
           w == t.heap[m].weight
<1>0. HeavyChild(t, n, m, s, d)
  BY HasHeavyChild
<1>1. /\ m # NULL /\ w \in Positive /\ w = b + c
      /\ Heavy(a, b, c, d) /\ t.heap[n].weight = (a + b) + c
  BY <1>0, Zenon DEF HeavyChild
<1>2. 1000 * b < 586 * w
  BY DEF Outer
<1> HIDE DEF a, b, c, w
<1>3. a \in Positive /\ b \in Positive /\ c \in Positive /\ Even(a, b) /\ Even(a + b, c)
  BY <1>1, <1>2, HeavyIsSingle
<1>4. /\ a = Weight(t, t.heap[n][Other(s)]) /\ b = Weight(t, t.heap[m][Other(s)])
      /\ c = Weight(t, t.heap[m][s])
  BY DEF a, b, c
<1>5. SingleFits(t, n, m, s, a, b, c)
  BY <1>1, <1>3, <1>4, Zenon DEF SingleFits
<1> QED BY <1>5, SingleTurns

LEMMA HeavyInner ==
  ASSUME NEW t, NEW sub, IsTree(t, sub), HasWeights(t), NEW n \in DOMAIN t.heap, NEW s \in Sides,
         NEW d \in {1, -1}, DueAt(t, n, d), TooLight(t, n, s),
         NEW m, ChildAt(t, n, s, m), Weighed(t, m), ~Outer(t, m, s)
  PROVE  t.heap[m][Other(s)] # NULL /\ t.heap[m][Other(s)] \in DOMAIN t.heap
<1> DEFINE a == Weight(t, t.heap[n][Other(s)])
           b == Weight(t, t.heap[m][Other(s)])
           c == Weight(t, t.heap[m][s])
           w == t.heap[m].weight
<1>0. HeavyChild(t, n, m, s, d)
  BY HasHeavyChild
<1>1. m \in DOMAIN t.heap /\ w \in Positive /\ w = b + c /\ Heavy(a, b, c, d)
  BY <1>0, Zenon DEF HeavyChild
<1>2. ~(1000 * b < 586 * w)
  BY DEF Outer
<1> HIDE DEF a, b, c, w
<1>3. b # 1
  BY <1>1, <1>2, HeavyHasInner
<1>4. t.heap[m][Other(s)] # NULL
  BY <1>3 DEF Weight, b
<1>5. t.heap[m][Other(s)] \in DOMAIN t.heap \cup {NULL}
  BY <1>1, ChildWeights DEF Sides, Other
<1> QED BY <1>4, <1>5

LEMMA HeavyDouble ==
  ASSUME NEW t, NEW sub, IsTree(t, sub), HasWeights(t), NEW n \in DOMAIN t.heap, NEW s \in Sides,
         NEW d \in {1, -1}, DueAt(t, n, d), TooLight(t, n, s),
         NEW m, ChildAt(t, n, s, m), Weighed(t, m), ~Outer(t, m, s),
         NEW k, ChildAt(t, m, Other(s), k), Weighed(t, k),
         NEW v, Kept(t, v), DoubleLinks(t, v, n, m, k, s)
  PROVE  Turns(t, Reweigh(Reweigh(Reweigh(v, n), m), k), n, {n, m, k}, k)
<1> DEFINE a  == Weight(t, t.heap[n][Other(s)])
           b  == Weight(t, k)
           c  == Weight(t, t.heap[m][s])
           b1 == Weight(t, t.heap[k][Other(s)])
           b2 == Weight(t, t.heap[k][s])
           w  == t.heap[m].weight
           v0 == t.heap[n].weight
<1>0. HeavyChild(t, n, m, s, d) /\ t.heap[m][Other(s)] = k
  BY HasHeavyChild DEF ChildAt
<1>1. /\ m # NULL /\ w \in Positive /\ w = b + c /\ v0 \in Positive
      /\ Heavy(a, b, c, d) /\ v0 = (a + b) + c
  BY <1>0, Zenon DEF HeavyChild
<1>2. ~(1000 * b < 586 * w)
  BY <1>0, Zenon DEF Outer
<1>3. k # NULL /\ k \in DOMAIN t.heap
  BY HeavyInner DEF ChildAt
<1>4. b = t.heap[k].weight
  BY <1>3 DEF Weight
<1>5. \A r \in Sides : Weight(t, t.heap[k][r]) \in Positive
  BY <1>3, ChildWeights
<1>6. b1 \in Positive /\ b2 \in Positive
  BY <1>5, Zenon DEF Sides, Other
<1>7. Sound(b, b1, b2)
  BY <1>4, <1>5, WeighedOnSides, Zenon
<1> HIDE DEF a, b, c, b1, b2, w, v0
<1>8. /\ a \in Positive /\ c \in Positive
      /\ Even(a, b1) /\ Even(b2, c) /\ Even(a + b1, b2 + c)
      /\ v0 = (a + b1) + (b2 + c)
  BY <1>1, <1>2, <1>6, <1>7, HeavyIsDouble
<1>9. /\ a = Weight(t, t.heap[n][Other(s)]) /\ b1 = Weight(t, t.heap[k][Other(s)])
      /\ b2 = Weight(t, t.heap[k][s]) /\ c = Weight(t, t.heap[m][s])
      /\ t.heap[n].weight = (a + b1) + (b2 + c)
  BY <1>8, Zenon DEF a, b1, b2, c, v0
<1>10. DoubleFits(t, n, m, k, s, a, b1, b2, c)
  BY <1>6, <1>8, <1>9, Zenon DEF DoubleFits
<1> QED BY <1>10, DoubleTurns

----------------------------------------------------------------------------
(* fixup *)

\* Its tests on the weights l and r of the children of a node, seen from either side.
LEMMA SameTests ==
  ASSUME NEW l \in Positive, NEW r \in Positive, NEW w \in Positive, w = l + r
  PROVE  /\ l * 1000 < w * 293 <=> 1000 * l < 293 * w
         /\ l * 1000 > w * 707 <=> 1000 * r < 293 * w
         /\ l * 1000 < w * 586 <=> 1000 * l < 586 * w
         /\ l * 1000 > w * 414 <=> 1000 * r < 586 * w
BY DEF Positive

LEMMA NodeTests ==
  ASSUME NEW t, NEW sub, IsTree(t, sub), HasWeights(t), NEW x \in DOMAIN t.heap,
         t.heap[x].weight = Weight(t, t.heap[x].llink) + Weight(t, t.heap[x].rlink)
  PROVE  /\ LeftTooLight(t, x) <=> TooLight(t, x, "rlink")
         /\ LeftTooHeavy(t, x) <=> TooLight(t, x, "llink")
         /\ OuterLeft(t, x)    <=> Outer(t, x, "rlink")
         /\ OuterRight(t, x)   <=> Outer(t, x, "llink")
<1> DEFINE l == Weight(t, t.heap[x].llink)
           r == Weight(t, t.heap[x].rlink)
           w == t.heap[x].weight
<1>1. l \in Positive /\ r \in Positive /\ w \in Positive
  BY ChildWeights DEF HasWeights, Sides
<1>2. Other("rlink") = "llink" /\ Other("llink") = "rlink"
  BY DEF Other
<1>3. w = l + r
  OBVIOUS
<1>4. LeftTooLight(t, x) <=> l * 1000 < w * 293
  BY DEF LeftTooLight
<1>5. LeftTooHeavy(t, x) <=> l * 1000 > w * 707
  BY DEF LeftTooHeavy
<1>6. OuterLeft(t, x) <=> l * 1000 < w * 586
  BY DEF OuterLeft
<1>7. OuterRight(t, x) <=> l * 1000 > w * 414
  BY DEF OuterRight
<1>8. TooLight(t, x, "rlink") <=> 1000 * l < 293 * w
  BY <1>2 DEF TooLight
<1>9. TooLight(t, x, "llink") <=> 1000 * r < 293 * w
  BY <1>2 DEF TooLight
<1>10. Outer(t, x, "rlink") <=> 1000 * l < 586 * w
  BY <1>2 DEF Outer
<1>11. Outer(t, x, "llink") <=> 1000 * r < 586 * w
  BY <1>2 DEF Outer
<1> HIDE DEF l, r, w
<1>12. /\ l * 1000 < w * 293 <=> 1000 * l < 293 * w
       /\ l * 1000 > w * 707 <=> 1000 * r < 293 * w
       /\ l * 1000 < w * 586 <=> 1000 * l < 586 * w
       /\ l * 1000 > w * 414 <=> 1000 * r < 586 * w
  BY <1>1, <1>3, SameTests
<1>13. LeftTooLight(t, x) <=> TooLight(t, x, "rlink")
  BY <1>4, <1>8, <1>12
<1>14. LeftTooHeavy(t, x) <=> TooLight(t, x, "llink")
  BY <1>5, <1>9, <1>12
<1>15. OuterLeft(t, x) <=> Outer(t, x, "rlink")
  BY <1>6, <1>10, <1>12
<1>16. OuterRight(t, x) <=> Outer(t, x, "llink")
  BY <1>7, <1>11, <1>12
<1> QED BY <1>13, <1>14, <1>15, <1>16, Zenon

\* Where the sides are neither too light nor too heavy, they are even.
LEMMA NeitherIsEven ==
  ASSUME NEW l \in Positive, NEW r \in Positive, NEW w, w = l + r,
         ~(1000 * l < 293 * w), ~(1000 * r < 293 * w)
  PROVE  Even(l, r)
BY DEF Even, Positive

\* What fixup needs: n is due and nothing below it is.
FixupReady(t, n, d) ==
  /\ n \in DOMAIN t.heap /\ HasWeights(t) /\ DueAt(t, n, d)
  /\ \A x \in DOMAIN t.heap \ {n, t.heap[n].parent} : Weighed(t, x)

\* The child of a node and its children are below that node, so they are neither the node nor
\* its parent.
LEMMA ChildIsWeighed ==
  ASSUME NEW t, NEW sub, IsTree(t, sub), NEW n, NEW d, FixupReady(t, n, d),
         NEW s \in Sides, NEW m, ChildAt(t, n, s, m)
  PROVE  /\ m \in DOMAIN t.heap /\ Weighed(t, m)
         /\ \A r \in Sides : t.heap[m][r] # NULL => Weighed(t, t.heap[m][r])
<1>1. n \in DOMAIN t.heap /\ t.heap[n][s] = m /\ m # NULL
  BY Zenon DEF FixupReady, ChildAt
<1>2. /\ n # NULL /\ n \in sub[n] /\ m \in DOMAIN t.heap /\ m # n
      /\ m \in At(sub, m) /\ n \notin At(sub, m)
  <2>1. n # NULL /\ n \in sub[n]
    BY <1>1, TreeFacts
  <2>2. m \in DOMAIN t.heap /\ m \in sub[m] /\ n \notin sub[m]
    BY <1>1, ChildFacts
  <2> QED BY <1>1, <2>1, <2>2 DEF At
<1> DEFINE p == t.heap[n].parent
<1>3. p \notin At(sub, m) /\ p # m
  <2>1. CASE p = NULL
    <3>1. NULL \notin DOMAIN t.heap /\ At(sub, m) \subseteq DOMAIN t.heap
      BY <1>2, TreeFacts, PointerAssumption DEF IsTree, IsHeap, At
    <3> QED BY <1>2, <2>1, <3>1
  <2>2. CASE p # NULL
    <3>1. p \in DOMAIN t.heap /\ \E r \in Sides : t.heap[p][r] = n
      BY <1>1, <2>2 DEF IsTree, Linked
    <3>2. PICK r \in Sides : t.heap[p][r] = n
      BY <3>1
    <3>3. p \notin At(sub, n) /\ At(sub, m) \subseteq sub[n]
      BY <1>1, <1>2, <3>1, <3>2, TreeFacts
    <3>4. At(sub, n) = sub[n]
      BY <1>2 DEF At
    <3> QED BY <1>2, <3>3, <3>4
  <2> QED BY <2>1, <2>2
<1>4. Weighed(t, m)
  BY <1>2, <1>3 DEF FixupReady
<1>5. ASSUME NEW r \in Sides, t.heap[m][r] # NULL PROVE Weighed(t, t.heap[m][r])
  <2> DEFINE k == t.heap[m][r]
  <2>1. k \in DOMAIN t.heap /\ At(sub, k) \subseteq sub[m]
    BY <1>2, <1>5, TreeFacts
  <2>2. k \in sub[k]
    BY <2>1, TreeFacts
  <2>3. k \in At(sub, m)
    BY <1>2, <1>5, <2>1, <2>2, PointerAssumption DEF At, IsTree, IsHeap
  <2>4. k # n /\ k # p
    BY <1>2, <1>3, <2>3
  <2> QED BY <2>1, <2>4 DEF FixupReady
<1> QED BY <1>2, <1>4, <1>5

LEMMA BelowIsWeighed ==
  ASSUME NEW t, NEW sub, IsTree(t, sub), NEW n, NEW d, FixupReady(t, n, d),
         NEW s \in Sides, NEW m, m = t.heap[n][s], m # NULL
  PROVE  /\ m \in DOMAIN t.heap /\ Weighed(t, m)
         /\ \A r \in Sides : t.heap[m][r] # NULL => Weighed(t, t.heap[m][r])
BY ChildIsWeighed, Zenon DEF ChildAt

\* The rotations of fixup on side s, when that side is too heavy: with what they turn, and with
\* the node that comes to the top.
LEMMA SingleRotation ==
  ASSUME NEW t, NEW sub, IsTree(t, sub), NEW n, NEW d \in {1, -1}, FixupReady(t, n, d),
         NEW s \in Sides, TooLight(t, n, s), NEW m, ChildAt(t, n, s, m), Outer(t, m, s),
         NEW v, Rotated(t, v, n, s)
  PROVE  Turns(t, Reweigh(Reweigh(v, n), m), n, {n, m}, m)
<1>1. n \in DOMAIN t.heap /\ HasWeights(t) /\ DueAt(t, n, d)
  BY DEF FixupReady
<1>2. Weighed(t, m)
  BY ChildIsWeighed, Zenon
<1> QED BY <1>1, <1>2, HeavySingle, Zenon

LEMMA DoubleRotation ==
  ASSUME NEW t, NEW sub, IsTree(t, sub), NEW n, NEW d \in {1, -1}, FixupReady(t, n, d),
         NEW s \in Sides, TooLight(t, n, s), NEW m, m = t.heap[n][s], ~Outer(t, m, s),
         NEW k, k = t.heap[m][Other(s)],
         NEW v1, Rotated(t, v1, m, Other(s)), NEW v, Rotated(v1, v, n, s)
  PROVE  Turns(t, Reweigh(Reweigh(Reweigh(v, n), m), k), n, {n, m, k}, k)
<1>1. n \in DOMAIN t.heap /\ HasWeights(t) /\ DueAt(t, n, d)
  BY DEF FixupReady
<1>2. m # NULL
  BY <1>1, HeavySide
<1>3. Weighed(t, m) /\ (k # NULL => Weighed(t, k))
  BY <1>2, BelowIsWeighed DEF Sides, Other
<1>4. ChildAt(t, n, s, m)
  BY <1>2 DEF ChildAt
<1>5. k # NULL
  BY <1>1, <1>3, <1>4, HeavyInner
<1>6. ChildAt(t, m, Other(s), k)
  BY <1>5 DEF ChildAt
<1>7. DoubleLinks(t, v, n, m, k, s) /\ Kept(t, v)
  BY <1>1, <1>4, <1>6, DoubleRotatedLinks
<1> QED BY <1>1, <1>3, <1>4, <1>5, <1>6, <1>7, HeavyDouble

\* The nodes that the rotations lift are there.
Lifts(t, n, s) ==
  LET m == t.heap[n][s]
  IN  TooLight(t, n, s) =>
        /\ m # NULL
        /\ ~Outer(t, m, s) => t.heap[m][Other(s)] # NULL

LEMMA FixupHasNodes ==
  ASSUME NEW t, NEW sub, IsTree(t, sub), NEW n, NEW d \in {1, -1}, FixupReady(t, n, d),
         NEW s \in Sides
  PROVE  Lifts(t, n, s)
<1> SUFFICES ASSUME TooLight(t, n, s) PROVE Lifts(t, n, s)
  BY DEF Lifts
<1> DEFINE m == t.heap[n][s]
<1>1. n \in DOMAIN t.heap /\ HasWeights(t) /\ DueAt(t, n, d)
  BY DEF FixupReady
<1>2. m # NULL
  BY <1>1, HeavySide
<1>3. Weighed(t, m)
  BY <1>2, BelowIsWeighed
<1>4. ~Outer(t, m, s) => t.heap[m][Other(s)] # NULL
  <2>1. ChildAt(t, n, s, m)
    BY <1>2 DEF ChildAt
  <2> HIDE DEF m
  <2> QED BY <1>1, <1>3, <2>1, HeavyInner
<1> QED BY <1>2, <1>4 DEF Lifts

\* The first of two rotations brings k, the inner child of m, to the side of n where m was.
LEMMA InnerComesUp ==
  ASSUME NEW t, NEW sub, IsTree(t, sub), NEW n \in DOMAIN t.heap, NEW s \in Sides,
         NEW m, ChildAt(t, n, s, m), NEW k, ChildAt(t, m, Other(s), k),
         NEW v, Rotated(t, v, m, Other(s))
  PROVE  n \in DOMAIN v.heap /\ v.heap[n][s] = k
<1> DEFINE o == Other(s)
<1>1. o \in Sides /\ Other(o) = s
  BY DEF Sides, Other
<1>2. t.heap[n][s] = m /\ m # NULL /\ t.heap[m][o] = k /\ k # NULL
  BY Zenon DEF ChildAt
<1>3. Rotated(t, v, m, o)
  OBVIOUS
<1> HIDE DEF o
<1>4. m \in DOMAIN t.heap /\ m # n /\ t.heap[m].parent = n /\ n \notin sub[m]
  BY <1>2, ChildFacts
<1>5. k \in sub[k] /\ sub[k] \subseteq sub[m]
  BY <1>1, <1>2, <1>4, ChildFacts
<1>6. n # k
  BY <1>4, <1>5
<1>7. /\ DOMAIN v.heap = DOMAIN t.heap
      /\ v.heap[n][s] = IF n = k THEN m
                        ELSE IF n = t.heap[m].parent /\ t.heap[t.heap[m].parent][s] = m
                             THEN k ELSE t.heap[n][s]
  BY <1>1, <1>2, <1>3, Zenon DEF Rotated
<1> QED BY <1>2, <1>4, <1>6, <1>7

LEMMA FixupTurns ==
  ASSUME NEW t, NEW sub, IsTree(t, sub), NEW n, NEW d \in {1, -1}, FixupReady(t, n, d)
  PROVE  \E R, g : Turns(t, fixup(t, n), n, R, g)
<1>1. n \in DOMAIN t.heap /\ HasWeights(t) /\ DueAt(t, n, d) /\ n # NULL
  BY TreeFacts DEF FixupReady
<1>2. t.heap[n].weight = Weight(t, t.heap[n].llink) + Weight(t, t.heap[n].rlink)
  BY <1>1 DEF DueAt, Due
<1>3. /\ LeftTooLight(t, n) <=> TooLight(t, n, "rlink")
      /\ LeftTooHeavy(t, n) <=> TooLight(t, n, "llink")
  BY <1>1, <1>2, NodeTests
<1>4. "rlink" \in Sides /\ "llink" \in Sides /\ Other("rlink") = "llink" /\ Other("llink") = "rlink"
  BY DEF Sides, Other
<1>5. ASSUME NEW x \in DOMAIN t.heap, Weighed(t, x)
      PROVE  /\ OuterLeft(t, x)  <=> Outer(t, x, "rlink")
             /\ OuterRight(t, x) <=> Outer(t, x, "llink")
  <2>1. t.heap[x].weight = Weight(t, t.heap[x].llink) + Weight(t, t.heap[x].rlink)
    BY <1>5 DEF Weighed, Sound
  <2> QED BY <1>1, <2>1, NodeTests
<1>6. CASE LeftTooLight(t, n)
  <2> DEFINE m == t.heap[n].rlink
             k == t.heap[m].llink
  <2>1. TooLight(t, n, "rlink") /\ Lifts(t, n, "rlink")
    BY <1>3, <1>4, <1>6, FixupHasNodes
  <2>2. m # NULL /\ (~Outer(t, m, "rlink") => k # NULL)
    BY <1>4, <2>1 DEF Lifts
  <2>3. m \in DOMAIN t.heap /\ Weighed(t, m)
    BY <1>4, <2>2, BelowIsWeighed
  <2>4. CASE OuterLeft(t, m)
    <3>1. Rotated(t, RotLeft(t, n), n, "rlink")
      BY <1>1, <2>2, RotLeftRotates
    <3>2. Outer(t, m, "rlink")
      BY <1>5, <2>3, <2>4
    <3>3. fixup(t, n) = Reweigh(Reweigh(RotLeft(t, n), n), m)
      BY <1>6, <2>4, Zenon DEF fixup, RotateLL
    <3>4. ChildAt(t, n, "rlink", m)
      BY <2>2 DEF ChildAt
    <3> HIDE DEF m
    <3>5. Turns(t, Reweigh(Reweigh(RotLeft(t, n), n), m), n, {n, m}, m)
      BY <1>4, <2>1, <3>1, <3>2, <3>4, SingleRotation
    <3> QED BY <3>3, <3>5
  <2>5. CASE ~OuterLeft(t, m)
    <3>1. ~Outer(t, m, "rlink") /\ k # NULL
      BY <1>5, <2>2, <2>3, <2>5
    <3>2. Rotated(t, RotRight(t, m), m, "llink")
      BY <2>3, <3>1, RotRightRotates
    <3> DEFINE v == RotRight(t, m)
    <3>3. \E sub2 : IsTree(v, sub2)
      BY <1>4, <2>3, <3>1, <3>2, RotationIsTree
    <3>4. n \in DOMAIN v.heap /\ v.heap[n].rlink # NULL
      <4>1. ChildAt(t, n, "rlink", m) /\ ChildAt(t, m, Other("rlink"), k)
        BY <1>4, <2>2, <3>1 DEF ChildAt
      <4>2. Rotated(t, v, m, Other("rlink"))
        BY <1>4, <3>2
      <4> HIDE DEF m, k, v
      <4>3. n \in DOMAIN v.heap /\ v.heap[n]["rlink"] = k
        BY <1>1, <1>4, <4>1, <4>2, InnerComesUp
      <4> QED BY <3>1, <4>3
    <3> HIDE DEF v
    <3>5. Rotated(v, RotLeft(v, n), n, "rlink")
      BY <3>3, <3>4, RotLeftRotates
    <3>6. fixup(t, n) = Reweigh(Reweigh(Reweigh(RotLeft(v, n), n), m), k)
      BY <1>6, <2>5, Zenon DEF fixup, RotateRL, v
    <3>7. Turns(t, Reweigh(Reweigh(Reweigh(RotLeft(v, n), n), m), k), n, {n, m, k}, k)
      BY <1>4, <2>1, <3>1, <3>2, <3>5, DoubleRotation DEF v
    <3> QED BY <3>6, <3>7
  <2> QED BY <2>4, <2>5
<1>7. CASE ~LeftTooLight(t, n) /\ LeftTooHeavy(t, n)
  <2> DEFINE m == t.heap[n].llink
             k == t.heap[m].rlink
  <2>1. TooLight(t, n, "llink") /\ Lifts(t, n, "llink")
    BY <1>3, <1>4, <1>7, FixupHasNodes
  <2>2. m # NULL /\ (~Outer(t, m, "llink") => k # NULL)
    BY <1>4, <2>1 DEF Lifts
  <2>3. m \in DOMAIN t.heap /\ Weighed(t, m)
    BY <1>4, <2>2, BelowIsWeighed
  <2>4. CASE OuterRight(t, m)
    <3>1. Rotated(t, RotRight(t, n), n, "llink")
      BY <1>1, <2>2, RotRightRotates
    <3>2. Outer(t, m, "llink")
      BY <1>5, <2>3, <2>4
    <3>3. fixup(t, n) = Reweigh(Reweigh(RotRight(t, n), n), m)
      BY <1>7, <2>4, Zenon DEF fixup, RotateRR
    <3>4. ChildAt(t, n, "llink", m)
      BY <2>2 DEF ChildAt
    <3> HIDE DEF m
    <3>5. Turns(t, Reweigh(Reweigh(RotRight(t, n), n), m), n, {n, m}, m)
      BY <1>4, <2>1, <3>1, <3>2, <3>4, SingleRotation
    <3> QED BY <3>3, <3>5
  <2>5. CASE ~OuterRight(t, m)
    <3>1. ~Outer(t, m, "llink") /\ k # NULL
      BY <1>5, <2>2, <2>3, <2>5
    <3>2. Rotated(t, RotLeft(t, m), m, "rlink")
      BY <2>3, <3>1, RotLeftRotates
    <3> DEFINE v == RotLeft(t, m)
    <3>3. \E sub2 : IsTree(v, sub2)
      BY <1>4, <2>3, <3>1, <3>2, RotationIsTree
    <3>4. n \in DOMAIN v.heap /\ v.heap[n].llink # NULL
      <4>1. ChildAt(t, n, "llink", m) /\ ChildAt(t, m, Other("llink"), k)
        BY <1>4, <2>2, <3>1 DEF ChildAt
      <4>2. Rotated(t, v, m, Other("llink"))
        BY <1>4, <3>2
      <4> HIDE DEF m, k, v
      <4>3. n \in DOMAIN v.heap /\ v.heap[n]["llink"] = k
        BY <1>1, <1>4, <4>1, <4>2, InnerComesUp
      <4> QED BY <3>1, <4>3
    <3> HIDE DEF v
    <3>5. Rotated(v, RotRight(v, n), n, "llink")
      BY <3>3, <3>4, RotRightRotates
    <3>6. fixup(t, n) = Reweigh(Reweigh(Reweigh(RotRight(v, n), n), m), k)
      BY <1>7, <2>5, Zenon DEF fixup, RotateLR, v
    <3>7. Turns(t, Reweigh(Reweigh(Reweigh(RotRight(v, n), n), m), k), n, {n, m, k}, k)
      BY <1>4, <2>1, <3>1, <3>2, <3>5, DoubleRotation DEF v
    <3> QED BY <3>6, <3>7
  <2> QED BY <2>4, <2>5
<1>8. CASE ~LeftTooLight(t, n) /\ ~LeftTooHeavy(t, n)
  <2>1. fixup(t, n) = t
    BY <1>8, Zenon DEF fixup
  <2>2. Turned(t, t, n, {n}, n)
    <3> DEFINE l == Weight(t, t.heap[n].llink)
               r == Weight(t, t.heap[n].rlink)
               w == t.heap[n].weight
    <3>1. l \in Positive /\ r \in Positive /\ w \in Positive /\ w = l + r
      BY <1>1, <1>2, <1>4, ChildWeights DEF HasWeights
    <3>2. ~(1000 * l < 293 * w) /\ ~(1000 * r < 293 * w)
      <4>1. ~TooLight(t, n, "rlink") /\ ~TooLight(t, n, "llink")
        BY <1>3, <1>8
      <4> QED BY <1>4, <4>1 DEF TooLight
    <3> HIDE DEF l, r, w
    <3>3. Sound(w, l, r)
      BY <3>1, <3>2, NeitherIsEven DEF Sound
    <3>4. Weighed(t, n) /\ t.heap[n].weight \in Positive
      BY <3>1, <3>3 DEF Weighed, l, r, w
    <3>5. t.heap[n].parent # n
      <4>1. t.heap[n].parent = NULL \/ \E s \in Sides : t.heap[t.heap[n].parent][s] = n
        BY <1>1 DEF IsTree, Linked
      <4> QED BY <1>1, <4>1, TreeFacts
    <3>6. \A x \in DOMAIN t.heap, s \in Sides :
            t.heap[x][s] = IF t.heap[x][s] = n THEN n ELSE t.heap[x][s]
      OBVIOUS
    <3> QED BY <1>1, <3>4, <3>5, <3>6 DEF Turned
  <2>3. Kept(t, t)
    BY DEF Kept, SameNode
  <2> QED BY <2>1, <2>2, <2>3 DEF Turns
<1> QED BY <1>6, <1>7, <1>8

\* A pass of the loop corrects the weight of the node n it has reached, and fixup can go on.
HasAdjusted(t, t1, n, d) ==
  /\ Kept(t, t1) /\ FixupReady(t1, n, d)
  /\ t1.heap[n].weight = t.heap[n].weight + d
  /\ \A x \in DOMAIN t.heap : /\ x # n => t1.heap[x].weight = t.heap[x].weight
                              /\ t1.heap[x].parent = t.heap[x].parent
                              /\ \A r \in Sides : t1.heap[x][r] = t.heap[x][r]

LEMMA LagsIsDue ==
  ASSUME NEW w \in Int, NEW l \in Positive, NEW r \in Positive, NEW d \in {1, -1}, Lags(w, l, r, d)
  PROVE  Due(w + d, l, r, d) /\ w + d \in Positive
BY DEF Lags, Due, Positive

LEMMA AdjustIsReady ==
  ASSUME NEW t, NEW sub, IsTree(t, sub), HasWeights(t), NEW n \in DOMAIN t.heap, NEW d \in {1, -1},
         WeighedBut(t, n, d), NEW t1, t1 = [t EXCEPT !.heap[n].weight = @ + d]
  PROVE  HasAdjusted(t, t1, n, d)
<1> DEFINE D == DOMAIN t.heap
           w == t.heap[n].weight + d
<1>1. DOMAIN t = {"root", "count", "heap"}
  BY DEF IsTree, IsHeap
<1>2. \A x \in D : {"key", "datum", "parent", "llink", "rlink", "weight"} \subseteq DOMAIN t.heap[x]
  BY DEF IsTree, IsHeap, HasWeights
<1> HIDE DEF w
<1>3. /\ DOMAIN t1 = DOMAIN t /\ t1.root = t.root /\ t1.count = t.count /\ DOMAIN t1.heap = D
      /\ \A x \in D : /\ DOMAIN t1.heap[x] = DOMAIN t.heap[x]
                      /\ \A f \in DOMAIN t.heap[x] \ {"weight"} : t1.heap[x][f] = t.heap[x][f]
                      /\ t1.heap[x].weight = IF x = n THEN w ELSE t.heap[x].weight
  <2>1. t1 = [t EXCEPT !.heap[n].weight = w]
    BY DEF w
  <2> QED BY <1>1, <1>2, <2>1
<1>4. \A x \in D : /\ t1.heap[x].key = t.heap[x].key /\ t1.heap[x].parent = t.heap[x].parent
                   /\ t1.heap[x].datum = t.heap[x].datum
                   /\ t1.heap[x].llink = t.heap[x].llink /\ t1.heap[x].rlink = t.heap[x].rlink
  BY <1>2, <1>3
<1>5. IsTree(t1, sub)
  <2>1. \A x \in D : /\ DOMAIN t1.heap[x] = DOMAIN t.heap[x]
                     /\ \A f \in {"key", "parent", "llink", "rlink"} : t1.heap[x][f] = t.heap[x][f]
    BY <1>3, <1>4
  <2> QED BY <1>3, <2>1, SameLinksTree
<1>6. Kept(t, t1)
  BY <1>3, <1>5 DEF Kept
<1>7. NULL \notin D
  BY PointerAssumption DEF IsTree, IsHeap
<1>8. \A c \in D \cup {NULL} : c # n => Weight(t1, c) = Weight(t, c)
  BY <1>3 DEF Weight
<1>9. \A x \in D, s \in Sides :
        /\ t.heap[x][s] \in D \cup {NULL}
        /\ t.heap[x][s] = n => t.heap[n].parent = x
        /\ t.heap[n][s] # n
  BY <1>7, TreeFacts DEF IsTree, Linked
<1>10. ASSUME NEW x \in D, x # t.heap[n].parent, NEW s \in Sides
       PROVE  Weight(t1, t1.heap[x][s]) = Weight(t, t.heap[x][s])
  <2>1. t1.heap[x][s] = t.heap[x][s]
    BY <1>4 DEF Sides
  <2>2. t.heap[x][s] \in D \cup {NULL} /\ t.heap[x][s] # n
    BY <1>9, <1>10
  <2> QED BY <1>8, <2>1, <2>2
<1>11. t.heap[n].parent # n
  BY <1>7, TreeFacts DEF IsTree, Linked
<1>12. DueAt(t1, n, d) /\ w \in Positive
  <2> DEFINE l == Weight(t, t.heap[n].llink)
             r == Weight(t, t.heap[n].rlink)
             w0 == t.heap[n].weight
  <2>1. Lags(w0, l, r, d)
    BY DEF WeighedBut, Lagging
  <2>2. w0 \in Int /\ l \in Positive /\ r \in Positive
    BY ChildWeights DEF HasWeights, Sides, Positive
  <2>3. Weight(t1, t1.heap[n].llink) = l /\ Weight(t1, t1.heap[n].rlink) = r
    BY <1>10, <1>11 DEF Sides
  <2> HIDE DEF l, r, w0
  <2>4. Due(w0 + d, l, r, d) /\ w0 + d \in Positive
    BY <2>1, <2>2, LagsIsDue
  <2>5. t1.heap[n].weight = w0 + d /\ w = w0 + d
    BY <1>3 DEF w, w0
  <2> QED BY <2>3, <2>4, <2>5, Zenon DEF DueAt
<1>13. HasWeights(t1)
  BY <1>2, <1>3, <1>12 DEF HasWeights
<1>14. ASSUME NEW x \in D \ {n, t1.heap[n].parent} PROVE Weighed(t1, x)
  <2>1. Weighed(t, x)
    BY <1>14 DEF WeighedBut
  <2>2. /\ Weight(t1, t1.heap[x].llink) = Weight(t, t.heap[x].llink)
        /\ Weight(t1, t1.heap[x].rlink) = Weight(t, t.heap[x].rlink)
        /\ t1.heap[x].weight = t.heap[x].weight
    BY <1>3, <1>4, <1>10, <1>14 DEF Sides
  <2> QED BY <2>1, <2>2, Zenon DEF Weighed
<1>15. FixupReady(t1, n, d)
  BY <1>3, <1>12, <1>13, <1>14 DEF FixupReady
<1>16. t1.heap[n].weight = t.heap[n].weight + d
  BY <1>3 DEF w
<1> QED BY <1>3, <1>4, <1>6, <1>15, <1>16 DEF HasAdjusted, Sides

\* ... so after fixup only the parent of n lags behind.
LEMMA ClimbWeighs ==
  ASSUME NEW t, NEW sub, IsTree(t, sub), HasWeights(t), NEW n \in DOMAIN t.heap, NEW d \in {1, -1},
         WeighedBut(t, n, d), NEW t1, t1 = [t EXCEPT !.heap[n].weight = @ + d]
  PROVE  LET u == fixup(t1, n)
         IN  Kept(t, u) /\ HasWeights(u) /\ WeighedBut(u, t.heap[n].parent, d)
<1> DEFINE u == fixup(t1, n)
<1>1. HasAdjusted(t, t1, n, d)
  BY AdjustIsReady
<1>2. PICK sub1 : IsTree(t1, sub1)
  BY <1>1 DEF HasAdjusted, Kept
<1>3. FixupReady(t1, n, d) /\ Kept(t, t1) /\ HasWeights(t1) /\ DOMAIN t1.heap = DOMAIN t.heap
  BY <1>1 DEF HasAdjusted, Kept, FixupReady
<1>4. PICK R, g : Turns(t1, u, n, R, g)
  BY <1>2, <1>3, FixupTurns
<1> HIDE DEF u
<1>5. Kept(t1, u) /\ Turned(t1, u, n, R, g)
  BY <1>4 DEF Turns
<1>6. Kept(t, u)
  BY <1>3, <1>5, KeptTwice
<1>7. WeighedBut(u, t.heap[n].parent, d)
  BY <1>1, <1>3, <1>5, TurnedWeights DEF HasAdjusted
<1>8. HasWeights(u)
  <2>1. \A x \in DOMAIN t1.heap : u.heap[x].weight \in Positive
    BY <1>3, <1>5 DEF Turned, HasWeights
  <2> QED BY <1>3, <1>5, <2>1 DEF HasWeights, Kept
<1> QED BY <1>6, <1>7, <1>8 DEF u

----------------------------------------------------------------------------
(* The way back to the root *)

LEMMA TreeHasWeights ==
  ASSUME TreeInv
  PROVE  HasWeights(tree)
BY DEF TreeInv, HasWeights, Fields

LEMMA KeptFields ==
  ASSUME TreeInv, NEW u, Kept(tree, u), HasWeights(u)
  PROVE  \A x \in DOMAIN u.heap : DOMAIN u.heap[x] = Fields /\ u.heap[x].weight \in Positive
BY DEF TreeInv, Kept, HasWeights

LEMMA ClimbStep ==
  ASSUME IInv, Climb
  PROVE  StepIsRight
<1> DEFINE D == DOMAIN tree.heap
           d == Step
<1>1. PICK sub : IsTree(tree, sub)
  BY DEF IInv, TreeInv
<1>2. /\ op \in {"insert", "remove"} /\ at # NULL
      /\ tree' = fixup(Adjusted, at) /\ at' = tree.heap[at].parent
      /\ op' = op /\ added' = added
  BY DEF Climb
<1>3. at \in D /\ d \in {1, -1} /\ Step' = Step
  BY <1>2 DEF IInv, CallInv, Step
<1>4. HasWeights(tree) /\ WeighedBut(tree, at, d)
  BY <1>2, TreeHasWeights DEF IInv, WeightInv
<1>5. Adjusted = [tree EXCEPT !.heap[at].weight = @ + d]
  BY DEF Adjusted
<1> HIDE DEF d
<1>6. Kept(tree, tree') /\ HasWeights(tree') /\ WeighedBut(tree', tree.heap[at].parent, d)
  BY <1>1, <1>2, <1>3, <1>4, <1>5, ClimbWeighs
<1>7. /\ MapOf(tree') = MapOf(tree)
      /\ \A a : Filled(tree, a) => Filled(tree', a)
      /\ \A x \in D : tree'.heap[x].key = tree.heap[x].key /\ tree'.heap[x].datum = tree.heap[x].datum
  BY <1>1, <1>6, KeptSameMap
<1>8. TreeInv'
  <2>1. \A x \in DOMAIN tree'.heap : DOMAIN tree'.heap[x] = Fields /\ tree'.heap[x].weight \in Positive
    BY <1>6, KeptFields DEF IInv
  <2>2. Filled(tree', added')
    BY <1>2, <1>7 DEF IInv, TreeInv
  <2> QED BY <1>6, <2>1, <2>2 DEF TreeInv, Kept
<1>9. CallInv'
  <2>1. tree'.count = tree.count /\ DOMAIN tree'.heap = D
    BY <1>6 DEF Kept
  <2>2. at' \in D \cup {NULL}
    BY <1>1, <1>2, <1>3 DEF IsTree, Linked
  <2> QED BY <1>2, <2>1, <2>2 DEF IInv, CallInv
<1>10. WeightInv'
  BY <1>2, <1>3, <1>6 DEF WeightInv, d
<1>11. KeepsPointers
  BY <1>6, <1>7 DEF KeepsPointers, Kept
<1>12. MapStep
  BY <1>7 DEF MapStep
<1> QED BY <1>8, <1>9, <1>10, <1>11, <1>12 DEF StepIsRight, IInv, PointerStep

----------------------------------------------------------------------------
(* A leaf that comes, a node that goes *)

\* A subtree of x became heavier by d, and the weight of x does not say so yet.
LEMMA OneSideLags ==
  ASSUME NEW t, NEW u, NEW x, NEW s \in Sides, NEW d \in {1, -1},
         Weighed(t, x), u.heap[x].weight = t.heap[x].weight,
         \A r \in Sides : Weight(t, t.heap[x][r]) \in Positive,
         \A r \in Sides : Weight(u, u.heap[x][r]) \in Positive,
         Weight(u, u.heap[x][Other(s)]) = Weight(t, t.heap[x][Other(s)]),
         Weight(u, u.heap[x][s]) = Weight(t, t.heap[x][s]) + d
  PROVE  Lagging(u, x, d)
<1> DEFINE w == t.heap[x].weight
           o == Weight(t, t.heap[x][Other(s)])
           c == Weight(t, t.heap[x][s])
<1>1. Sound(w, o, c)
  BY WeighedOnSides
<1>2. o \in Int /\ c \in Int
  BY DEF Sides, Other, Positive
<1>3. d \in Int
  OBVIOUS
<1>4. Lagging(u, x, d) <=> Lags(u.heap[x].weight, Weight(u, u.heap[x][Other(s)]),
                                Weight(u, u.heap[x][s]), d)
  BY <1>3, WeighedOnSides
<1>5. Lags(u.heap[x].weight, Weight(u, u.heap[x][Other(s)]), Weight(u, u.heap[x][s]), d)
        <=> Lags(w, o, c + d, d)
  OBVIOUS
<1> HIDE DEF w, o, c
<1>6. w = o + c /\ Even(o, c)
  BY <1>1 DEF Sound
<1>7. w + d = o + (c + d) /\ (c + d) - d = c
  BY <1>2, <1>3, <1>6
<1>8. Lags(w, o, c + d, d)
  BY <1>6, <1>7 DEF Lags
<1> QED BY <1>4, <1>5, <1>8

\* Where nothing changed, the weights stay right.
LEMMA SameSidesWeighed ==
  ASSUME NEW t, NEW u, NEW x, Weighed(t, x), u.heap[x].weight = t.heap[x].weight,
         \A r \in Sides : Weight(u, u.heap[x][r]) = Weight(t, t.heap[x][r])
  PROVE  Weighed(u, x)
<1>1. /\ Weight(u, u.heap[x].llink) = Weight(t, t.heap[x].llink)
      /\ Weight(u, u.heap[x].rlink) = Weight(t, t.heap[x].rlink)
  BY DEF Sides
<1> QED BY <1>1, Zenon DEF Weighed

LEMMA LeafLags ==
  ASSUME NEW t, NEW sub, IsTree(t, sub), HasWeights(t), \A x \in DOMAIN t.heap : Weighed(t, x),
         NEW a, a \notin DOMAIN t.heap, a # NULL, NEW p \in DOMAIN t.heap \cup {NULL}, NEW k,
         NEW u, NEW sub2, IsTree(u, sub2), DOMAIN u.heap = DOMAIN t.heap \cup {a}, HasWeights(u),
         LeafLinks(t, u, a, k, p),
         u.heap[a].llink = NULL, u.heap[a].rlink = NULL, u.heap[a].weight = 2,
         \A x \in DOMAIN t.heap : u.heap[x].weight = t.heap[x].weight
  PROVE  WeighedBut(u, p, 1)
<1> DEFINE D == DOMAIN t.heap
           s == SideOf(t, k, p)
<1>1. s \in Sides /\ Other(s) \in Sides /\ Other(s) # s
  BY DEF SideOf, Sides, Other
<1>2. NULL \notin D
  BY PointerAssumption DEF IsTree, IsHeap
<1>3. Weight(u, NULL) = 1 /\ Weight(t, NULL) = 1 /\ Weight(u, a) = 2
  BY DEF Weight
<1>4. \A c \in D \cup {NULL} : Weight(u, c) = Weight(t, c)
  BY DEF Weight
<1>5. \A x \in D, r \in Sides : t.heap[x][r] \in D \cup {NULL}
  BY DEF IsTree, Linked
<1>6. /\ p # NULL => t.heap[p][s] = NULL
      /\ \A x \in D, r \in Sides : u.heap[x][r] = IF x = p /\ r = s THEN a ELSE t.heap[x][r]
  BY DEF LeafLinks
<1> HIDE DEF s
<1>7. \A x \in D, r \in Sides : ~(x = p /\ r = s) =>
        Weight(u, u.heap[x][r]) = Weight(t, t.heap[x][r])
  BY <1>4, <1>5, <1>6
<1>8. ASSUME NEW x \in D, x # p PROVE Weighed(u, x)
  <2>1. \A r \in Sides : Weight(u, u.heap[x][r]) = Weight(t, t.heap[x][r])
    BY <1>7, <1>8
  <2> QED BY <2>1, SameSidesWeighed
<1>9. Weighed(u, a)
  <2>1. Sound(2, 1, 1)
    BY DEF Sound, Even
  <2>2. u.heap[a].weight = 2 /\ Weight(u, u.heap[a].llink) = 1 /\ Weight(u, u.heap[a].rlink) = 1
    BY <1>3
  <2> QED BY <2>1, <2>2, Zenon DEF Weighed
<1>10. ASSUME p \in D PROVE Lagging(u, p, 1)
  <2>1. \A r \in Sides : Weight(t, t.heap[p][r]) \in Positive
    BY <1>10, ChildWeights
  <2>2. \A r \in Sides : Weight(u, u.heap[p][r]) \in Positive
    BY <1>10, ChildWeights
  <2>3. Weight(u, u.heap[p][Other(s)]) = Weight(t, t.heap[p][Other(s)])
    BY <1>1, <1>7, <1>10
  <2>4. u.heap[p][s] = a /\ t.heap[p][s] = NULL
    BY <1>1, <1>2, <1>6, <1>10
  <2>5. Weight(u, u.heap[p][s]) = Weight(t, t.heap[p][s]) + 1
    BY <1>3, <2>4
  <2>6. Weighed(t, p) /\ u.heap[p].weight = t.heap[p].weight
    BY <1>10
  <2> QED BY <1>1, <2>1, <2>2, <2>3, <2>5, <2>6, OneSideLags
<1>11. \A x \in D \cup {a} : IF x = p THEN Lagging(u, x, 1) ELSE Weighed(u, x)
  BY <1>8, <1>9, <1>10
<1> QED BY <1>11 DEF WeighedBut

LEMMA GoneLags ==
  ASSUME NEW t, NEW sub, IsTree(t, sub), HasWeights(t), \A x \in DOMAIN t.heap : Weighed(t, x),
         NEW e \in DOMAIN t.heap, NULL \in {t.heap[e].llink, t.heap[e].rlink},
         NEW u, NEW sub2, IsTree(u, sub2), DOMAIN u.heap = DOMAIN t.heap \ {e}, HasWeights(u),
         LinkPast(t, u, e),
         \A x \in DOMAIN t.heap \ {e} : u.heap[x].weight = t.heap[x].weight
  PROVE  WeighedBut(u, t.heap[e].parent, -1)
<1> DEFINE D == DOMAIN t.heap
           p == t.heap[e].parent
           c == OnlyChild(t, e)
<1>1. NULL \notin D
  BY PointerAssumption DEF IsTree, IsHeap
<1>2. \A x \in D, r \in Sides : /\ t.heap[x][r] \in D \cup {NULL}
                                /\ t.heap[x][r] = e => x = p
                                /\ t.heap[x][r] # x
                                /\ t.heap[x][r] = e => t.heap[x][Other(r)] # e
  BY <1>1, TreeFacts DEF IsTree, Linked
<1>3. "llink" \in Sides /\ "rlink" \in Sides
  BY DEF Sides
<1>4. c \in (D \cup {NULL}) \ {e}
  BY <1>1, <1>2, <1>3 DEF OnlyChild
<1>5. \A x \in (D \cup {NULL}) \ {e} : Weight(u, x) = Weight(t, x)
  BY DEF Weight
<1>6. Weight(t, e) = Weight(t, c) + 1
  <2> DEFINE l == Weight(t, t.heap[e].llink)
             r == Weight(t, t.heap[e].rlink)
  <2>1. l \in Positive /\ r \in Positive
    BY <1>3, ChildWeights
  <2>2. t.heap[e].weight = l + r
    BY DEF Weighed, Sound
  <2>3. Weight(t, e) = t.heap[e].weight
    BY <1>1 DEF Weight
  <2>4. Weight(t, NULL) = 1
    BY DEF Weight
  <2>5. (l = Weight(t, c) /\ r = 1) \/ (r = Weight(t, c) /\ l = 1)
    BY <2>4 DEF OnlyChild
  <2> HIDE DEF l, r
  <2>6. l \in Int /\ r \in Int
    BY <2>1 DEF Positive
  <2> QED BY <2>2, <2>3, <2>5, <2>6
<1>7. \A x \in D \ {e}, r \in Sides :
        u.heap[x][r] = IF x = p /\ t.heap[p][r] = e THEN c ELSE t.heap[x][r]
  BY DEF LinkPast
<1> HIDE DEF c, p
<1>8. \A x \in D \ {e}, r \in Sides : t.heap[x][r] # e =>
        Weight(u, u.heap[x][r]) = Weight(t, t.heap[x][r])
  <2> SUFFICES ASSUME NEW x \in D \ {e}, NEW r \in Sides, t.heap[x][r] # e
               PROVE  Weight(u, u.heap[x][r]) = Weight(t, t.heap[x][r])
    OBVIOUS
  <2>1. u.heap[x][r] = t.heap[x][r] /\ t.heap[x][r] \in (D \cup {NULL}) \ {e}
    BY <1>2, <1>7
  <2> QED BY <1>5, <2>1
<1>9. ASSUME NEW x \in D \ {e}, x # p PROVE Weighed(u, x)
  <2>1. \A r \in Sides : Weight(u, u.heap[x][r]) = Weight(t, t.heap[x][r])
    BY <1>2, <1>8, <1>9
  <2> QED BY <2>1, SameSidesWeighed
<1>10. ASSUME p \in D \ {e} PROVE Lagging(u, p, -1)
  <2>1. PICK s \in Sides : t.heap[p][s] = e
    BY <1>1, <1>10 DEF IsTree, Linked, p
  <2>2. Other(s) \in Sides /\ t.heap[p][Other(s)] # e
    BY <1>2, <1>10, <2>1 DEF Sides, Other
  <2>3. \A r \in Sides : Weight(t, t.heap[p][r]) \in Positive
    BY <1>10, ChildWeights
  <2>4. \A r \in Sides : Weight(u, u.heap[p][r]) \in Positive
    BY <1>10, ChildWeights
  <2>5. Weight(u, u.heap[p][Other(s)]) = Weight(t, t.heap[p][Other(s)])
    BY <1>8, <1>10, <2>2
  <2>6. Weight(u, u.heap[p][s]) = Weight(t, c)
    BY <1>4, <1>5, <1>7, <1>10, <2>1
  <2>7. Weight(u, u.heap[p][s]) = Weight(t, t.heap[p][s]) + (-1)
    <3>1. Weight(u, u.heap[p][s]) \in Int
      BY <2>4 DEF Positive
    <3> QED BY <1>6, <2>1, <2>6, <3>1
  <2>8. Weighed(t, p) /\ u.heap[p].weight = t.heap[p].weight
    BY <1>10
  <2> QED BY <2>1, <2>3, <2>4, <2>5, <2>7, <2>8, OneSideLags
<1>11. \A x \in D \ {e} : IF x = p THEN Lagging(u, x, -1) ELSE Weighed(u, x)
  BY <1>9, <1>10
<1> QED BY <1>11 DEF WeighedBut, p

----------------------------------------------------------------------------
(* Calls *)

\* Between calls all weights are right.
LEMMA IdleIsWeighed ==
  ASSUME IInv, op = "none"
  PROVE  /\ at = NULL /\ added = NULL /\ Filled(tree, NULL)
         /\ tree.count \in Nat /\ tree.count = Cardinality(DOMAIN tree.heap)
         /\ HasWeights(tree) /\ \A x \in DOMAIN tree.heap : Weighed(tree, x)
<1>1. /\ at = NULL /\ added = NULL
      /\ tree.count \in Nat /\ tree.count = Cardinality(DOMAIN tree.heap)
  BY DEF IInv, CallInv
<1>2. NULL \notin DOMAIN tree.heap
  BY PointerAssumption DEF IInv, TreeInv, IsTree, IsHeap
<1>3. \A x \in DOMAIN tree.heap : Weighed(tree, x)
  BY <1>1, <1>2 DEF IInv, WeightInv, WeighedBut
<1> QED BY <1>1, <1>3, TreeHasWeights DEF IInv, TreeInv

LEMMA InsertStep ==
  ASSUME IInv, NEW k \in Keys, Insert(k)
  PROVE  StepIsRight
<1> DEFINE D == DOMAIN tree.heap
           a == Fresh(tree)
           p == InsertionParent(tree, k)
           extra == [weight |-> 2]
           u == Attach(tree, a, node_new(k, p, extra))
<1>1. PICK sub : IsTree(tree, sub)
  BY DEF IInv, TreeInv
<1>2. /\ op = "none" /\ SearchNode(tree, k) = NULL /\ Addresses \ D # {}
      /\ tree' = u /\ op' = "insert" /\ added' = a /\ at' = u.heap[a].parent
  BY DEF Insert, Plant
<1>3. /\ at = NULL /\ added = NULL /\ tree.count = Cardinality(D) /\ tree.count \in Nat
      /\ Filled(tree, NULL) /\ HasWeights(tree) /\ \A x \in D : Weighed(tree, x)
  BY <1>2, IdleIsWeighed
<1>4. \A x \in D : DOMAIN tree.heap[x] = Fields
  BY DEF IInv, TreeInv
<1>5. DOMAIN extra = {"weight"} /\ extra.weight = 2
  OBVIOUS
<1> HIDE DEF extra
<1>6. /\ \E sub2 : IsTree(u, sub2)
      /\ a \notin D /\ a # NULL /\ p \in D \cup {NULL}
      /\ u.count = tree.count /\ DOMAIN u.heap = D \cup {a}
      /\ u.heap[a] = node_new(k, p, extra)
      /\ \A x \in D : SameNode(tree, u, x)
      /\ Filled(u, a) /\ MapOf(u) = MapOf(tree)
      /\ LeafLinks(tree, u, a, k, p)
  <2>1. DOMAIN extra \cap {"key", "datum", "parent", "llink", "rlink"} = {}
    BY <1>5
  <2> HIDE DEF a, p, u, D
  <2> QED BY <1>1, <1>2, <1>3, <2>1, PlantGrowsTree DEF a, p, u, D
<1> HIDE DEF u, p, a
<1>7. /\ DOMAIN u.heap[a] = Fields /\ u.heap[a].weight = 2
      /\ u.heap[a].llink = NULL /\ u.heap[a].rlink = NULL /\ u.heap[a].parent = p
  BY <1>5, <1>6 DEF node_new, Fields
<1>8. \A x \in D : DOMAIN u.heap[x] = Fields /\ u.heap[x].weight = tree.heap[x].weight
  BY <1>4, <1>6 DEF SameNode, Fields
<1>9. HasWeights(u)
  BY <1>3, <1>6, <1>7, <1>8 DEF HasWeights, Fields, Positive
<1>10. TreeInv'
  BY <1>2, <1>6, <1>7, <1>8, <1>9 DEF TreeInv, HasWeights
<1>11. CallInv'
  <2>1. IsFiniteSet(D)
    BY <1>1 DEF IsTree, IsHeap
  <2>2. Cardinality(D \cup {a}) = Cardinality(D) + 1
    BY <1>6, <2>1, FS_AddElement
  <2> QED BY <1>2, <1>3, <1>6, <1>7, <2>2 DEF CallInv
<1>12. WeightInv'
  <2>1. WeighedBut(u, p, 1)
    BY <1>1, <1>3, <1>6, <1>7, <1>8, <1>9, LeafLags
  <2>2. Step' = 1
    BY <1>2 DEF Step
  <2> QED BY <1>2, <1>7, <2>1, <2>2 DEF WeightInv
<1>13. KeepsPointers
  BY <1>1, <1>2, <1>6, SameNodesKeepPointers
<1>14. MapStep
  BY <1>2, <1>6 DEF MapStep
<1> QED BY <1>10, <1>11, <1>12, <1>13, <1>14 DEF StepIsRight, IInv, PointerStep

\* What changes neither links nor weights.
LEMMA SameWeights ==
  ASSUME NEW t, NEW u, DOMAIN u.heap = DOMAIN t.heap,
         \A x \in DOMAIN t.heap : /\ u.heap[x].weight = t.heap[x].weight
                                  /\ u.heap[x].llink = t.heap[x].llink
                                  /\ u.heap[x].rlink = t.heap[x].rlink
                                  /\ {t.heap[x].llink, t.heap[x].rlink} \subseteq DOMAIN t.heap \cup {NULL},
         NEW p, NEW d, WeighedBut(t, p, d)
  PROVE  WeighedBut(u, p, d)
<1>1. \A c \in DOMAIN t.heap \cup {NULL} : Weight(u, c) = Weight(t, c)
  BY DEF Weight
<1>2. ASSUME NEW x \in DOMAIN t.heap
      PROVE  /\ Weight(u, u.heap[x].llink) = Weight(t, t.heap[x].llink)
             /\ Weight(u, u.heap[x].rlink) = Weight(t, t.heap[x].rlink)
             /\ u.heap[x].weight = t.heap[x].weight
  BY <1>1, <1>2
<1>3. ASSUME NEW x \in DOMAIN t.heap
      PROVE  IF x = p THEN Lagging(u, x, d) ELSE Weighed(u, x)
  <2>1. IF x = p THEN Lagging(t, x, d) ELSE Weighed(t, x)
    BY DEF WeighedBut
  <2>2. Lagging(t, x, d) => Lagging(u, x, d)
    BY <1>2, Zenon DEF Lagging
  <2>3. Weighed(t, x) => Weighed(u, x)
    BY <1>2, Zenon DEF Weighed
  <2> QED BY <2>1, <2>2, <2>3
<1> QED BY <1>3 DEF WeighedBut

LEMMA InsertReturnsStep ==
  ASSUME IInv, InsertReturns
  PROVE  StepIsRight
<1> DEFINE D == DOMAIN tree.heap
           k == tree.heap[added].key
<1>1. PICK sub : IsTree(tree, sub)
  BY DEF IInv, TreeInv
<1>2. /\ op = "insert" /\ at = NULL /\ op' = "none" /\ added' = NULL /\ at' = at
      /\ tree' = Returned(tree, added)
  BY DEF InsertReturns, Grown, Returned
<1>3. Filled(tree, added) /\ \A x \in D : DOMAIN tree.heap[x] = Fields /\ tree.heap[x].weight \in Positive
  BY DEF IInv, TreeInv
<1>4. added \in D /\ tree.count \in Nat /\ tree.count + 1 = Cardinality(D)
  BY <1>2 DEF IInv, CallInv
<1>5. HasGrown(tree, tree', added, sub)
  BY <1>1, <1>2, <1>3, <1>4, GrownPutsKey
<1>6. /\ IsTree(tree', sub) /\ Filled(tree', NULL)
      /\ tree'.count = tree.count + 1 /\ DOMAIN tree'.heap = D
      /\ \A x \in D :
           /\ DOMAIN tree'.heap[x] = DOMAIN tree.heap[x]
           /\ \A f \in DOMAIN tree.heap[x] \ {"datum"} : tree'.heap[x][f] = tree.heap[x][f]
           /\ x # added => tree'.heap[x].datum = tree.heap[x].datum
      /\ k \in Keys /\ k \notin DOMAIN MapOf(tree)
      /\ MapOf(tree') = [x \in DOMAIN MapOf(tree) \cup {k} |->
                           IF x = k THEN Datum(k) ELSE MapOf(tree)[x]]
  BY <1>5 DEF HasGrown, PutsKey
<1>7. \A x \in D : /\ DOMAIN tree'.heap[x] = Fields
                   /\ tree'.heap[x].weight = tree.heap[x].weight
                   /\ tree'.heap[x].llink = tree.heap[x].llink
                   /\ tree'.heap[x].rlink = tree.heap[x].rlink
  BY <1>3, <1>6 DEF Fields
<1>8. TreeInv'
  BY <1>2, <1>3, <1>6, <1>7 DEF TreeInv
<1>9. CallInv'
  BY <1>2, <1>4, <1>6 DEF CallInv
<1>10. WeightInv'
  <2>1. NULL \notin D
    BY <1>1, PointerAssumption DEF IsTree, IsHeap
  <2>2. WeighedBut(tree, NULL, Step)
    BY <1>2 DEF IInv, WeightInv
  <2>3. \A x \in D : {tree.heap[x].llink, tree.heap[x].rlink} \subseteq D \cup {NULL}
    BY <1>1 DEF IsTree, Linked, Sides
  <2>4. WeighedBut(tree', NULL, Step)
    BY <1>6, <1>7, <2>2, <2>3, SameWeights
  <2>5. WeighedBut(tree', NULL, Step')
    BY <1>6, <2>1, <2>4 DEF WeighedBut
  <2> QED BY <1>2, <2>5 DEF WeightInv
<1>11. KeepsPointers
  BY <1>3, <1>6 DEF KeepsPointers, Filled, Fields
<1>12. MapStep
  BY <1>6 DEF MapStep, Map!Put
<1> QED BY <1>8, <1>9, <1>10, <1>11, <1>12 DEF StepIsRight, IInv, PointerStep

\* A removal of n splices out m: n itself, or the neighbour whose contents n got.
Gone(t, u, n, m) ==
  LET k == t.heap[n].key
  IN  /\ m \in DOMAIN t.heap /\ NULL \in {t.heap[m].llink, t.heap[m].rlink}
      /\ \E sub : IsTree(u, sub)
      /\ u.count = t.count /\ DOMAIN u.heap = DOMAIN t.heap \ {m}
      /\ \A x \in DOMAIN t.heap \ {m} :
           /\ DOMAIN u.heap[x] = DOMAIN t.heap[x] /\ u.heap[x].weight = t.heap[x].weight
           /\ x # n => SameNode(t, u, x)
      /\ LinkPast(t, u, m)
      /\ Filled(u, NULL)
      /\ k \in DOMAIN MapOf(t) /\ MapOf(u) = Restrict(MapOf(t), DOMAIN MapOf(t) \ {k})

LEMMA SelfGoes ==
  ASSUME NEW t, NEW sub, IsTree(t, sub), HasWeights(t), Filled(t, NULL), NEW n \in DOMAIN t.heap,
         NULL \in {t.heap[n].llink, t.heap[n].rlink}
  PROVE  Gone(t, Splice(t, n), n, n)
<1> DEFINE u == Splice(t, n)
<1>1. /\ IsTree(u, WithoutNode(t, sub, n))
      /\ u.count = t.count /\ DOMAIN u.heap = DOMAIN t.heap \ {n}
      /\ \A x \in DOMAIN t.heap \ {n} : SameNode(t, u, x)
  BY SpliceKeepsTree
<1>2. /\ Filled(u, NULL) /\ t.heap[n].key \in DOMAIN MapOf(t)
      /\ MapOf(u) = Restrict(MapOf(t), DOMAIN MapOf(t) \ {t.heap[n].key})
  BY SpliceTakesKey
<1>3. Spliced(t, u, n)
  BY AroundSplice, SpliceIs DEF IsTree
<1> HIDE DEF u
<1>4. LinkPast(t, u, n)
  BY <1>3 DEF Spliced, LinkPast
<1>5. \A x \in DOMAIN t.heap \ {n} :
        DOMAIN u.heap[x] = DOMAIN t.heap[x] /\ u.heap[x].weight = t.heap[x].weight
  BY <1>1 DEF SameNode, HasWeights
<1>6. Gone(t, u, n, n)
  BY <1>1, <1>2, <1>4, <1>5 DEF Gone
<1> QED BY <1>6 DEF u

LEMMA HeirGoes ==
  ASSUME NEW t, NEW sub, IsTree(t, sub), HasWeights(t), Filled(t, NULL), NEW n \in DOMAIN t.heap,
         NEW s \in Sides, t.heap[n][s] # NULL, NEW e, IsEnd(t, sub, t.heap[n][s], Other(s), e)
  PROVE  /\ Gone(t, Splice(SwapContents(t, n, e), e), n, e)
         /\ SwapContents(t, n, e).heap[e].parent = t.heap[e].parent
<1> DEFINE u == Splice(SwapContents(t, n, e), e)
<1>1. e \in DOMAIN t.heap /\ e # n /\ t.heap[e][Other(s)] = NULL
  BY NeighbourIsNext
<1>2. NULL \in {t.heap[e].llink, t.heap[e].rlink}
  BY <1>1 DEF Sides, Other
<1>3. SwapContents(t, n, e).heap[e].parent = t.heap[e].parent
  BY <1>1 DEF SwapContents, IsTree, IsHeap
<1>4. HasInherited(t, u, n, e)
  BY HeirKeepsTree
<1> HIDE DEF u
<1>5. \A x \in DOMAIN t.heap \ {e} :
        DOMAIN u.heap[x] = DOMAIN t.heap[x] /\ u.heap[x].weight = t.heap[x].weight
  BY <1>4 DEF HasInherited, HasWeights
<1>6. Gone(t, u, n, e)
  BY <1>1, <1>2, <1>4, <1>5 DEF HasInherited, Gone
<1> QED BY <1>3, <1>6 DEF u

LEMMA SameHeapSameMap ==
  ASSUME NEW t, NEW u, u.heap = t.heap
  PROVE  MapOf(u) = MapOf(t)
BY DEF MapOf, NodeOf

LEMMA RemovalGoes ==
  ASSUME NEW t, NEW sub, IsTree(t, sub), HasWeights(t), Filled(t, NULL), NEW n \in DOMAIN t.heap,
         NEW e, e = Emptied(t, n, Neighbour(t, n))
  PROVE  \E m : Gone(t, Splice(e[1], e[2]), n, m) /\ e[1].heap[e[2]].parent = t.heap[m].parent
<1>1. CASE NULL \in {t.heap[n].llink, t.heap[n].rlink}
  <2>1. e[1] = t /\ e[2] = n
    BY <1>1 DEF Emptied
  <2> QED BY <1>1, <2>1, SelfGoes
<1>2. CASE NULL \notin {t.heap[n].llink, t.heap[n].rlink}
  <2> DEFINE l == t.heap[n].llink
             r == t.heap[n].rlink
             out == Neighbour(t, n)
  <2>1. "llink" \in Sides /\ "rlink" \in Sides /\ Other("llink") = "rlink" /\ Other("rlink") = "llink"
    BY DEF Sides, Other
  <2>2. l \in DOMAIN t.heap /\ r \in DOMAIN t.heap /\ l # NULL /\ r # NULL
    BY <1>2, <2>1 DEF IsTree, Linked
  <2>3. e[1] = SwapContents(t, n, out) /\ e[2] = out
    BY <1>2 DEF Emptied
  <2>4. IsEnd(t, sub, l, "rlink", out) \/ IsEnd(t, sub, r, "llink", out)
    BY <2>2, LeftmostIs, RightmostIs DEF Neighbour
  <2> HIDE DEF out
  <2>5. \E s \in Sides : t.heap[n][s] # NULL /\ IsEnd(t, sub, t.heap[n][s], Other(s), out)
    BY <2>1, <2>2, <2>4
  <2>6. /\ Gone(t, Splice(SwapContents(t, n, out), out), n, out)
        /\ SwapContents(t, n, out).heap[out].parent = t.heap[out].parent
    BY <2>5, HeirGoes
  <2> QED BY <2>3, <2>6
<1> QED BY <1>1, <1>2

LEMMA RemoveNodeStep ==
  ASSUME IInv, NEW n \in DOMAIN tree.heap, RemoveNode(n)
  PROVE  StepIsRight
<1> DEFINE D == DOMAIN tree.heap
           k == tree.heap[n].key
           e == Emptied(tree, n, Neighbour(tree, n))
           u == Splice(e[1], e[2])
<1>1. PICK sub : IsTree(tree, sub)
  BY DEF IInv, TreeInv
<1>2. /\ op = "none" /\ op' = "remove" /\ added' = added
      /\ tree' = [u EXCEPT !.count = @ - 1] /\ at' = e[1].heap[e[2]].parent
  BY DEF RemoveNode
<1>3. /\ at = NULL /\ added = NULL /\ tree.count = Cardinality(D) /\ tree.count \in Nat
      /\ Filled(tree, NULL) /\ HasWeights(tree) /\ \A x \in D : Weighed(tree, x)
  BY <1>2, IdleIsWeighed
<1>4. \A x \in D : DOMAIN tree.heap[x] = Fields /\ tree.heap[x].weight \in Positive
  BY DEF IInv, TreeInv
<1>5. IsFiniteSet(D) /\ NULL \notin D
  BY <1>1, PointerAssumption DEF IsTree, IsHeap
<1>6. PICK m : Gone(tree, u, n, m) /\ at' = tree.heap[m].parent
  BY <1>1, <1>2, <1>3, RemovalGoes
<1> HIDE DEF u, e
<1>7. /\ m \in D /\ NULL \in {tree.heap[m].llink, tree.heap[m].rlink}
      /\ \E sub2 : IsTree(u, sub2)
      /\ u.count = tree.count /\ DOMAIN u.heap = D \ {m}
      /\ \A x \in D \ {m} : /\ DOMAIN u.heap[x] = DOMAIN tree.heap[x]
                            /\ u.heap[x].weight = tree.heap[x].weight
                            /\ x # n => SameNode(tree, u, x)
      /\ LinkPast(tree, u, m)
      /\ Filled(u, NULL)
      /\ k \in DOMAIN MapOf(tree) /\ MapOf(u) = Restrict(MapOf(tree), DOMAIN MapOf(tree) \ {k})
  BY <1>6 DEF Gone
<1>8. PICK sub2 : IsTree(u, sub2)
  BY <1>7
<1>9. /\ DOMAIN tree' = DOMAIN u /\ tree'.root = u.root /\ tree'.heap = u.heap
      /\ tree'.count = tree.count - 1
  BY <1>2, <1>7, <1>8 DEF IsTree, IsHeap
<1>10. IsTree(tree', sub2)
  BY <1>8, <1>9, SameLinksTree
<1>11. HasWeights(u)
  BY <1>4, <1>7 DEF HasWeights, Fields
<1>12. MapOf(tree') = MapOf(u) /\ Filled(tree', NULL)
  <2>1. tree'.heap = u.heap
    BY <1>9
  <2>2. MapOf(tree') = MapOf(u)
    BY <2>1, SameHeapSameMap
  <2>3. Filled(tree', NULL)
    BY <1>7, <2>1, Zenon DEF Filled
  <2> QED BY <2>2, <2>3
<1>13. TreeInv'
  BY <1>2, <1>3, <1>4, <1>7, <1>9, <1>10, <1>12 DEF TreeInv
<1>14. at' \in (D \ {m}) \cup {NULL}
  BY <1>1, <1>6, <1>7, AroundSplice DEF SplicePlace
<1>15. CallInv'
  <2>1. Cardinality(D \ {m}) = Cardinality(D) - 1 /\ Cardinality(D \ {m}) \in Nat
    BY <1>5, <1>7, FS_RemoveElement, FS_CardinalityType
  <2> HIDE DEF D
  <2>2. tree'.count = Cardinality(D \ {m}) /\ tree'.count \in Nat
    BY <1>3, <1>9, <2>1
  <2> QED BY <1>2, <1>3, <1>7, <1>9, <1>14, <2>2 DEF CallInv
<1>16. WeightInv'
  <2>1. WeighedBut(u, tree.heap[m].parent, -1)
    BY <1>1, <1>3, <1>7, <1>8, <1>11, GoneLags
  <2>2. WeighedBut(tree', at', -1)
    BY <1>6, <1>9, <2>1 DEF WeighedBut, Lagging, Weighed, Weight
  <2>3. Step' = -1
    BY <1>2 DEF Step
  <2> QED BY <2>2, <2>3 DEF WeightInv
<1>17. PointerStep
  <2>1. k \notin DOMAIN MapOf(tree')
    BY <1>7, <1>12 DEF Restrict
  <2>2. n \in D \ {m} => tree'.heap[n].key # k
    <3> SUFFICES ASSUME n \in D \ {m}, tree'.heap[n].key = k PROVE FALSE
      OBVIOUS
    <3>1. tree'.heap[n].datum # NULL
      BY <1>5, <1>7, <1>9, <1>12, DatumAssumption DEF Filled
    <3>2. k \in DOMAIN MapOf(tree')
      BY <1>7, <1>9, <3>1 DEF MapOf
    <3> QED BY <2>1, <3>2
  <2>3. MovesOnly(n)
    BY <1>4, <1>7, <1>9, <2>2 DEF MovesOnly, SameNode, Fields
  <2> QED BY <1>2, <2>3 DEF PointerStep
<1>18. MapStep
  <2>1. k \in Keys
    BY <1>3 DEF Filled
  <2> QED BY <1>7, <1>12, <2>1 DEF MapStep, Map!Delete, Map!Restrict, Restrict
<1> QED BY <1>13, <1>15, <1>16, <1>17, <1>18 DEF StepIsRight, IInv

LEMMA ClearStep ==
  ASSUME IInv, Clear
  PROVE  StepIsRight
<1>1. PICK sub : IsTree(tree, sub)
  BY DEF IInv, TreeInv
<1>2. op = "none" /\ op' = "clear" /\ at' = tree.root /\ tree' = tree /\ added' = added
  BY DEF Clear
<1>3. tree.root \in DOMAIN tree.heap \cup {NULL} /\ (tree.root = NULL => DOMAIN tree.heap = {})
  BY <1>1 DEF IsTree, Linked
<1>4. TreeInv'
  BY <1>2 DEF IInv, TreeInv
<1>5. CallInv'
  BY <1>2, <1>3 DEF IInv, CallInv
<1>6. WeightInv'
  BY <1>2 DEF WeightInv
<1> QED BY <1>2, <1>4, <1>5, <1>6 DEF StepIsRight, IInv, PointerStep, KeepsPointers, MapStep

LEMMA ClearNodeStep ==
  ASSUME IInv, ClearNode
  PROVE  StepIsRight
<1> DEFINE D == DOMAIN tree.heap
           N == DOMAIN tree'.heap
           k == tree.heap[at].key
<1>1. PICK sub : IsTree(tree, sub)
  BY DEF IInv, TreeInv
<1>2. /\ op = "clear" /\ at # NULL
      /\ tree' = Cleared(tree, at) /\ at' = ClearGoes(tree, at)
      /\ op' = op /\ added' = added
  BY DEF ClearNode
<1>3. at \in D /\ added = NULL /\ tree.count \in Nat
  BY <1>2 DEF IInv, CallInv
<1>4. /\ Filled(tree, NULL)
      /\ \A x \in D : DOMAIN tree.heap[x] = Fields /\ tree.heap[x].weight \in Positive
  BY <1>3 DEF IInv, TreeInv
<1>5. /\ \E sub2 : IsTree(tree', sub2)
      /\ Filled(tree', NULL) /\ tree'.count = tree.count
      /\ N = D \/ N = D \ {at}
      /\ \A x \in N : SameNode(tree, tree', x)
      /\ at' \in N \cup {NULL} /\ (at' = NULL => N = {})
      /\ k \in DOMAIN MapOf(tree)
      /\ \/ MapOf(tree') = MapOf(tree)
         \/ MapOf(tree') = Restrict(MapOf(tree), DOMAIN MapOf(tree) \ {k})
  <2>1. HasCleared(tree, tree', at, at')
    BY <1>1, <1>2, <1>3, <1>4, ClearedIsTree
  <2> QED BY <2>1 DEF HasCleared
<1> HIDE DEF N
<1>6. TreeInv'
  <2>1. \A x \in N : DOMAIN tree'.heap[x] = Fields /\ tree'.heap[x].weight \in Positive
    BY <1>4, <1>5 DEF SameNode, Fields
  <2> QED BY <1>2, <1>3, <1>5, <2>1 DEF TreeInv, N
<1>7. CallInv'
  BY <1>2, <1>3, <1>5 DEF CallInv, N
<1>8. KeepsPointers
  <2>1. \A x \in D \cap N : SameNode(tree, tree', x)
    BY <1>5
  <2> QED BY <1>1, <2>1, SameNodesKeepPointers DEF N
<1>9. MapStep
  <2>1. k \in Keys
    BY <1>3, <1>4 DEF Filled
  <2> QED BY <1>5, <2>1 DEF MapStep, Map!Delete, Map!Restrict, Restrict
<1>10. WeightInv'
  BY <1>2 DEF WeightInv
<1> QED BY <1>6, <1>7, <1>8, <1>9, <1>10 DEF StepIsRight, IInv, PointerStep

LEMMA ClearReturnsStep ==
  ASSUME IInv, ClearReturns
  PROVE  StepIsRight
<1>1. PICK sub : IsTree(tree, sub)
  BY DEF IInv, TreeInv
<1>2. /\ op = "clear" /\ at = NULL /\ tree' = [tree EXCEPT !.count = 0]
      /\ op' = "none" /\ at' = at /\ added' = added
  BY DEF ClearReturns
<1>3. DOMAIN tree.heap = {} /\ added = NULL
  BY <1>2, <1>1, PointerAssumption DEF IInv, CallInv, IsTree, IsHeap
<1>4. /\ DOMAIN tree' = DOMAIN tree /\ tree'.root = tree.root /\ tree'.heap = tree.heap
      /\ tree'.count = 0
  BY <1>1, <1>2 DEF IsTree, IsHeap
<1>5. IsTree(tree', sub)
  BY <1>1, <1>4, SameLinksTree
<1>6. TreeInv'
  BY <1>3, <1>4, <1>5 DEF TreeInv, Filled
<1>7. CallInv'
  BY <1>2, <1>3, <1>4, FS_EmptySet DEF CallInv
<1>8. WeightInv'
  BY <1>3, <1>4 DEF WeightInv, WeighedBut
<1>9. KeepsPointers /\ MapStep
  BY <1>4, SameHeapSameMap DEF KeepsPointers, MapStep
<1> QED BY <1>6, <1>7, <1>8, <1>9 DEF StepIsRight, IInv, PointerStep

\* A removal returns as the tree is.
LEMMA RemoveReturnsStep ==
  ASSUME IInv, RemoveReturns
  PROVE  StepIsRight
<1>1. /\ op = "remove" /\ at = NULL /\ op' = "none"
      /\ tree' = tree /\ at' = at /\ added' = added
  BY DEF RemoveReturns
<1>2. TreeInv' /\ CallInv'
  BY <1>1 DEF IInv, TreeInv, CallInv
<1>3. WeightInv'
  <2>1. WeighedBut(tree, NULL, Step) /\ NULL \notin DOMAIN tree.heap
    BY <1>1, PointerAssumption DEF IInv, WeightInv, TreeInv, IsTree, IsHeap
  <2>2. WeighedBut(tree, NULL, Step')
    BY <2>1 DEF WeighedBut
  <2> QED BY <1>1, <2>2 DEF WeightInv
<1> QED BY <1>1, <1>2, <1>3 DEF StepIsRight, IInv, PointerStep, KeepsPointers, MapStep

LEMMA NothingStep ==
  ASSUME IInv, UNCHANGED vars
  PROVE  StepIsRight
<1>1. tree' = tree /\ op' = op /\ at' = at /\ added' = added
  BY DEF vars, shared
<1>2. TreeInv' /\ CallInv'
  BY <1>1 DEF IInv, TreeInv, CallInv
<1>3. WeightInv'
  BY <1>1 DEF IInv, WeightInv, Step
<1> QED BY <1>1, <1>2, <1>3 DEF StepIsRight, IInv, PointerStep, KeepsPointers, MapStep

LEMMA NextStep ==
  ASSUME IInv, [Next]_vars
  PROVE  StepIsRight
<1>1. ASSUME NEW k \in Keys, Insert(k) PROVE StepIsRight
  BY <1>1, InsertStep
<1>2. ASSUME NEW n \in DOMAIN tree.heap, RemoveNode(n) PROVE StepIsRight
  BY <1>2, RemoveNodeStep
<1>3. CASE Climb BY <1>3, ClimbStep
<1>4. CASE InsertReturns BY <1>4, InsertReturnsStep
<1>5. CASE RemoveReturns BY <1>5, RemoveReturnsStep
<1>6. CASE Clear BY <1>6, ClearStep
<1>7. CASE ClearNode BY <1>7, ClearNodeStep
<1>8. CASE ClearReturns BY <1>8, ClearReturnsStep
<1>9. CASE UNCHANGED vars BY <1>9, NothingStep
<1>10. CASE InsertKeeps \/ \E k \in Keys : RemoveMisses(k)
  BY <1>9, <1>10 DEF InsertKeeps, RemoveMisses, vars
<1> QED BY <1>1, <1>2, <1>3, <1>4, <1>5, <1>6, <1>7, <1>8, <1>9, <1>10
        DEF Next, Call, wb_tree_clear, Loop

----------------------------------------------------------------------------
(* The properties *)

LEMMA InvariantHolds == Spec => []IInv
<1>1. Init => IInv
  BY InitHolds
<1>2. IInv /\ [Next]_vars => IInv'
  BY NextStep DEF StepIsRight
<1> QED BY <1>1, <1>2, PTL DEF Spec

\* Every pointer is NULL or to a node, a call resets what it uses, and weights are
\* positive.
THEOREM TypeCorrect == Spec => []TypeOK
<1>1. IInv => TypeOK
  <2> SUFFICES ASSUME IInv PROVE TypeOK
    OBVIOUS
  <2>1. PICK sub : IsTree(tree, sub)
    BY DEF IInv, TreeInv
  <2>2. /\ DOMAIN tree.heap \subseteq Addresses /\ NULL \notin DOMAIN tree.heap
        /\ tree.root \in DOMAIN tree.heap \cup {NULL}
    BY <2>1, PointerAssumption DEF IsTree, IsHeap, Linked
  <2>3. \A n \in DOMAIN tree.heap :
          /\ tree.heap[n].parent \in DOMAIN tree.heap \cup {NULL}
          /\ tree.heap[n].llink \in DOMAIN tree.heap \cup {NULL}
          /\ tree.heap[n].rlink \in DOMAIN tree.heap \cup {NULL}
    BY <2>1 DEF IsTree, Linked, Sides
  <2>4. \A n \in DOMAIN tree.heap :
          /\ tree.heap[n].key \in Keys
          /\ tree.heap[n].datum \in {NULL, Datum(tree.heap[n].key)}
          /\ tree.heap[n].weight \in Nat \ {0}
    BY DEF IInv, TreeInv, Filled, Positive
  <2>5. /\ tree.count \in Nat
        /\ {at, added} \subseteq DOMAIN tree.heap \cup {NULL}
        /\ op \in {"none", "insert", "remove", "search", "clear"}
        /\ op = "none" => at = NULL
        /\ added # NULL <=> op = "insert"
    BY <2>2 DEF IInv, CallInv
  <2> QED BY <2>2, <2>3, <2>4, <2>5 DEF TypeOK, SharedTypeOK
<1> QED BY <1>1, InvariantHolds, PTL

\* Between calls every search, for keys that are there and keys that are not, finds
\* the node that its name says, whatever rotations made of the tree.
THEOREM SearchesAlwaysRight == Spec => []SearchesRight
<1>1. IInv => SearchesRight
  BY TreeSearches, KeysAssumption DEF IInv, TreeInv, SearchesRight
<1> QED BY <1>1, InvariantHolds, PTL

\* In every state, on the way back to the root too, parents and children agree, the nodes that can be
\* reached from the root are all that is allocated, and the walks of tree_traverse and of the
\* iterators visit every key once, in order, in both directions.
THEOREM WalksAlwaysInOrder == Spec => []WalksInOrder
<1>1. IInv => WalksInOrder
  BY TreeWalks DEF IInv, TreeInv
<1> QED BY <1>1, InvariantHolds, PTL

\* Between calls, from wherever an iterator stands, every call on it takes it where its name says
\* in the order of the keys, and iterators compare like their keys.
THEOREM IteratorsAlwaysRight == Spec => []IteratorsRight(wb_itor, Always)
<1>1. IInv => IteratorsRight(wb_itor, Always)
  <2> SUFFICES ASSUME IInv, op = "none" PROVE IteratorsRight(wb_itor, Always)
    BY DEF IteratorsRight
  <2>1. PICK sub : IsTree(tree, sub)
    BY DEF IInv, TreeInv
  <2>2. tree.count = Cardinality(DOMAIN tree.heap)
    BY DEF IInv, CallInv
  <2>3. IteratorsRight(tree_iterator, Always)
    BY <2>1, <2>2, IteratorsAreRight
  <2> QED BY <2>3 DEF IteratorsRight, wb_itor
<1> QED BY <1>1, InvariantHolds, PTL

\* What the subtree at c still has to be told of the node p, which is not counted yet.
Owed(sub, c, p, d) == IF p \in At(sub, c) THEN d ELSE 0

\* The weight of c and what it is owed count its external nodes.
Counts(t, sub, c, p, d) ==
  Weight(t, c) + Owed(sub, c, p, d) = Cardinality(At(sub, c)) + 1

\* The subtree at x is x and two sides that share nothing.
Parted(sub, x, A, B) ==
  /\ sub[x] = {x} \cup A \cup B /\ At(sub, x) = sub[x]
  /\ x \notin A /\ x \notin B /\ A \cap B = {}
  /\ Cardinality(A) \in Nat /\ Cardinality(B) \in Nat
  /\ Cardinality(sub[x]) = Cardinality(A) + Cardinality(B) + 1

LEMMA SidesAreApart ==
  ASSUME NEW t, NEW sub, IsTree(t, sub), NEW x \in DOMAIN t.heap,
         NEW A, A = At(sub, t.heap[x].llink), NEW B, B = At(sub, t.heap[x].rlink)
  PROVE  Parted(sub, x, A, B)
<1>1. /\ x \notin A /\ x \notin B /\ A \cap B = {}
      /\ A \subseteq DOMAIN t.heap /\ B \subseteq DOMAIN t.heap
  <2>1. Other("llink") = "rlink" /\ "llink" \in Sides /\ "rlink" \in Sides
    BY DEF Sides, Other
  <2>2. sub[x] \subseteq DOMAIN t.heap
    BY TreeFacts
  <2>3. /\ At(sub, t.heap[x]["llink"]) \subseteq sub[x] /\ x \notin At(sub, t.heap[x]["llink"])
        /\ At(sub, t.heap[x]["llink"]) \cap At(sub, t.heap[x][Other("llink")]) = {}
        /\ At(sub, t.heap[x]["rlink"]) \subseteq sub[x] /\ x \notin At(sub, t.heap[x]["rlink"])
    BY <2>1, TreeFacts
  <2> QED BY <2>1, <2>2, <2>3
<1>2. sub[x] = {x} \cup A \cup B /\ At(sub, x) = sub[x]
  BY PointerAssumption DEF IsTree, IsHeap, Spans, At
<1>3. IsFiniteSet(A) /\ IsFiniteSet(B)
  BY <1>1, FS_Subset DEF IsTree, IsHeap
<1>4. Cardinality(A) \in Nat /\ Cardinality(B) \in Nat
  BY <1>3, FS_CardinalityType
<1>5. IsFiniteSet(A \cup B) /\ Cardinality(A \cup B) = Cardinality(A) + Cardinality(B)
  <2>1. IsFiniteSet(A \cup B)
        /\ Cardinality(A \cup B) = Cardinality(A) + Cardinality(B) - Cardinality(A \cap B)
    BY <1>3, FS_Union
  <2>2. Cardinality(A \cap B) = 0
    BY <1>1, FS_EmptySet
  <2> QED BY <1>4, <2>1, <2>2
<1>6. sub[x] = (A \cup B) \cup {x} /\ x \notin A \cup B
  BY <1>1, <1>2
<1>7. Cardinality((A \cup B) \cup {x}) = Cardinality(A \cup B) + 1
  BY <1>5, <1>6, FS_AddElement
<1> QED BY <1>1, <1>2, <1>4, <1>5, <1>6, <1>7 DEF Parted

\* One sum for the cases of a node: what it is owed is owed to one of its sides, unless it is p.
LEMMA OwedOnce ==
  ASSUME NEW w \in Int, NEW l \in Int, NEW r \in Int, NEW ol \in Int, NEW or \in Int, NEW o \in Int,
         NEW cl \in Nat, NEW cr \in Nat, NEW c \in Int,
         l + ol = cl + 1, r + or = cr + 1, c = cl + cr + 1,
         w + o = l + r + ol + or
  PROVE  w + o = c + 1
OBVIOUS

\* The weights are exact because they are sums at every node but p.
LEMMA WeightsCount ==
  ASSUME NEW t, NEW sub, IsTree(t, sub), HasWeights(t), NEW p, NEW d \in {1, -1},
         WeighedBut(t, p, d)
  PROVE  \A c \in DOMAIN t.heap \cup {NULL} : Counts(t, sub, c, p, d)
<1>1. Counts(t, sub, NULL, p, d)
  BY FS_EmptySet DEF Counts, Weight, Owed, At
<1> DEFINE S == {x \in DOMAIN t.heap : Counts(t, sub, x, p, d)}
<1>2. ASSUME NEW x \in DOMAIN t.heap,
             \A s \in Sides : t.heap[x][s] # NULL => t.heap[x][s] \in S
      PROVE  x \in S
  <2> DEFINE L == t.heap[x].llink
             R == t.heap[x].rlink
             l == Weight(t, L)
             r == Weight(t, R)
             w == t.heap[x].weight
             A == At(sub, L)
             B == At(sub, R)
             ol == Owed(sub, L, p, d)
             or == Owed(sub, R, p, d)
             o == Owed(sub, x, p, d)
  <2>1. Counts(t, sub, L, p, d) /\ Counts(t, sub, R, p, d)
    BY <1>1, <1>2 DEF Sides
  <2>2. l \in Positive /\ r \in Positive /\ w \in Positive
    BY ChildWeights DEF HasWeights, Sides
  <2>3. l + ol = Cardinality(A) + 1 /\ r + or = Cardinality(B) + 1
    BY <2>1 DEF Counts
  <2>4. /\ sub[x] = {x} \cup A \cup B /\ At(sub, x) = sub[x]
        /\ x \notin A /\ x \notin B /\ A \cap B = {}
        /\ Cardinality(A) \in Nat /\ Cardinality(B) \in Nat
        /\ Cardinality(sub[x]) = Cardinality(A) + Cardinality(B) + 1
    <3>1. Parted(sub, x, A, B)
      BY SidesAreApart
    <3> HIDE DEF A, B
    <3> QED BY <3>1 DEF Parted
  <2>5. ol \in Int /\ or \in Int /\ o \in Int
    BY DEF Owed
  <2>6. w + o = l + r + ol + or
    <3>1. CASE x = p
      <4>1. w + d = l + r
        BY <3>1 DEF WeighedBut, Lagging, Lags
      <4>2. o = d /\ ol = 0 /\ or = 0
        BY <2>4, <3>1 DEF Owed
      <4> HIDE DEF w, l, r, o, ol, or
      <4> QED BY <2>2, <4>1, <4>2 DEF Positive
    <3>2. CASE x # p
      <4>1. w = l + r
        BY <3>2 DEF WeighedBut, Weighed, Sound
      <4>2. o = ol + or
        <5>1. o = IF p \in A \cup B THEN d ELSE 0
          BY <2>4, <3>2 DEF Owed
        <5>2. ol = (IF p \in A THEN d ELSE 0) /\ or = (IF p \in B THEN d ELSE 0)
          BY DEF Owed
        <5>3. ~(p \in A /\ p \in B)
          BY <2>4
        <5> HIDE DEF o, ol, or, A, B
        <5> QED BY <5>1, <5>2, <5>3
      <4> HIDE DEF w, l, r, o, ol, or
      <4> QED BY <2>2, <2>5, <4>1, <4>2 DEF Positive
    <3> QED BY <3>1, <3>2
  <2>7. w + o = Cardinality(sub[x]) + 1
    <3>1. w \in Int /\ l \in Int /\ r \in Int /\ Cardinality(sub[x]) \in Int
      BY <2>2, <2>4 DEF Positive
    <3> HIDE DEF w, l, r, o, ol, or, A, B
    <3> QED BY <2>3, <2>4, <2>5, <2>6, <3>1, OwedOnce
  <2>8. Weight(t, x) = w
    BY PointerAssumption DEF Weight, IsTree, IsHeap
  <2> QED BY <2>4, <2>7, <2>8 DEF Counts
<1> HIDE DEF S
<1>3. DOMAIN t.heap \subseteq S
  BY <1>2, TreeInduction
<1> QED BY <1>1, <1>3 DEF S

\* In every state but while the tree is cleared, the weight of every node counts the external
\* nodes below it; on the way back to the root the nodes that are not reached yet lag behind by one.
THEOREM WeightsAlwaysExact == Spec => []WeightsExact
<1>1. IInv => WeightsExact
  <2> SUFFICES ASSUME IInv, op # "clear", NEW n \in DOMAIN tree.heap
               PROVE  tree.heap[n].weight + (IF at \in Subtree(tree, n) THEN Step ELSE 0)
                        = Cardinality(Subtree(tree, n)) + 1
    BY DEF WeightsExact
  <2>1. PICK sub : IsTree(tree, sub)
    BY DEF IInv, TreeInv
  <2>2. WeighedBut(tree, at, Step) /\ HasWeights(tree) /\ Step \in {1, -1}
    BY TreeHasWeights DEF IInv, WeightInv, Step
  <2>3. Counts(tree, sub, n, at, Step)
    BY <2>1, <2>2, WeightsCount
  <2>4. Subtree(tree, n) = At(sub, n)
    BY <2>1, SubtreeIs
  <2>5. Weight(tree, n) = tree.heap[n].weight
    BY <2>1, PointerAssumption DEF Weight, IsTree, IsHeap
  <2> QED BY <2>3, <2>4, <2>5 DEF Counts, Owed
<1> QED BY <1>1, InvariantHolds, PTL

\* The assertions of fixup never fail and no NULL pointer is followed: on the way back from every
\* insertion and removal, the heavy child is there, and so is its inner child when that is lifted.
THEOREM RotationsAlwaysHaveNodes == Spec => []RotationsHaveNodes
<1>1. IInv => RotationsHaveNodes
  <2> SUFFICES ASSUME IInv, op \in {"insert", "remove"}, at # NULL PROVE RotationsHaveNodes
    BY DEF RotationsHaveNodes
  <2> DEFINE u == Adjusted
             D == DOMAIN tree.heap
  <2>1. at \in D /\ Step \in {1, -1} /\ WeighedBut(tree, at, Step) /\ HasWeights(tree)
    BY TreeHasWeights DEF IInv, CallInv, WeightInv, Step
  <2>2. PICK sub : IsTree(tree, sub)
    BY DEF IInv, TreeInv
  <2>3. u = [tree EXCEPT !.heap[at].weight = @ + Step]
    BY DEF Adjusted
  <2> HIDE DEF u
  <2>4. HasAdjusted(tree, u, at, Step)
    BY <2>1, <2>2, <2>3, AdjustIsReady
  <2>5. PICK usub : IsTree(u, usub)
    BY <2>4 DEF HasAdjusted, Kept
  <2>6. /\ FixupReady(u, at, Step) /\ HasWeights(u) /\ DOMAIN u.heap = D
        /\ \A x \in D : u.heap[x].llink = tree.heap[x].llink /\ u.heap[x].rlink = tree.heap[x].rlink
    BY <2>4 DEF HasAdjusted, FixupReady, Kept, Sides
  <2>7. Lifts(u, at, "llink") /\ Lifts(u, at, "rlink")
    BY <2>1, <2>5, <2>6, FixupHasNodes DEF Sides
  <2>8. u.heap[at].weight = Weight(u, u.heap[at].llink) + Weight(u, u.heap[at].rlink)
    BY <2>6 DEF FixupReady, DueAt, Due
  <2>9. /\ LeftTooLight(u, at) <=> TooLight(u, at, "rlink")
        /\ LeftTooHeavy(u, at) <=> TooLight(u, at, "llink")
    BY <2>1, <2>5, <2>6, <2>8, NodeTests
  <2>10. ASSUME NEW s \in Sides, NEW m, m = u.heap[at][s], m # NULL
         PROVE  /\ m \in D
                /\ OuterLeft(u, m)  <=> Outer(u, m, "rlink")
                /\ OuterRight(u, m) <=> Outer(u, m, "llink")
    <3>1. m \in D /\ Weighed(u, m)
      BY <2>5, <2>6, <2>10, BelowIsWeighed
    <3>2. u.heap[m].weight = Weight(u, u.heap[m].llink) + Weight(u, u.heap[m].rlink)
      BY <3>1 DEF Weighed, Sound
    <3> QED BY <2>5, <2>6, <3>1, <3>2, NodeTests
  <2>11. ASSUME LeftTooLight(u, at)
         PROVE  /\ tree.heap[at].rlink # NULL
                /\ ~OuterLeft(u, tree.heap[at].rlink) => tree.heap[tree.heap[at].rlink].llink # NULL
    <3> DEFINE m == u.heap[at].rlink
    <3>1. m # NULL /\ (~Outer(u, m, "rlink") => u.heap[m].llink # NULL)
      BY <2>7, <2>9, <2>11 DEF Lifts, Other
    <3>2. m \in D /\ (OuterLeft(u, m) <=> Outer(u, m, "rlink"))
      BY <2>10, <3>1 DEF Sides
    <3> QED BY <2>1, <2>6, <3>1, <3>2
  <2>12. ASSUME LeftTooHeavy(u, at)
         PROVE  /\ tree.heap[at].llink # NULL
                /\ ~OuterRight(u, tree.heap[at].llink) => tree.heap[tree.heap[at].llink].rlink # NULL
    <3> DEFINE m == u.heap[at].llink
    <3>1. m # NULL /\ (~Outer(u, m, "llink") => u.heap[m].rlink # NULL)
      BY <2>7, <2>9, <2>12 DEF Lifts, Other
    <3>2. m \in D /\ (OuterRight(u, m) <=> Outer(u, m, "llink"))
      BY <2>10, <3>1 DEF Sides
    <3> QED BY <2>1, <2>6, <3>1, <3>2
  <2> QED BY <2>11, <2>12 DEF RotationsHaveNodes, u
<1> QED BY <1>1, InvariantHolds, PTL

\* The test of wb_tree_verify, as the weights' sides give it.
LEMMA EvenIsVerified ==
  ASSUME NEW l \in Positive, NEW r \in Positive, NEW w, Sound(w, l, r)
  PROVE  w = l + r /\ l * 1000 >= w * 292 /\ l * 1000 <= w * 708
BY DEF Sound, Even, Positive

\* Between calls wb_tree_verify finds nothing wrong: the keys are in order, the count and the
\* weights are right, and no side of a node is lighter than 292 thousandths of it, whatever
\* insertions and removals there were: one fixup per level is enough.
THEOREM AlwaysVerified == Spec => [](op = "none" => wb_tree_verify(tree))
<1>1. IInv => (op = "none" => wb_tree_verify(tree))
  <2> SUFFICES ASSUME IInv, op = "none" PROVE wb_tree_verify(tree)
    OBVIOUS
  <2>1. PICK sub : IsTree(tree, sub)
    BY DEF IInv, TreeInv
  <2>2. /\ at = NULL /\ tree.count = Cardinality(DOMAIN tree.heap)
        /\ HasWeights(tree) /\ \A x \in DOMAIN tree.heap : Weighed(tree, x)
    BY IdleIsWeighed
  <2>3. NodesVerified(tree)
    BY <2>1, <2>2, TreeVerified
  <2>4. tree.root \in DOMAIN tree.heap \cup {NULL} /\ DOMAIN tree.heap = At(sub, tree.root)
    BY <2>1 DEF IsTree, Linked, Spans, At
  <2>5. tree.count + 1 = Weight(tree, tree.root)
    <3>1. WeighedBut(tree, NULL, 1)
      BY <2>1, <2>2, PointerAssumption DEF WeighedBut, IsTree, IsHeap
    <3>2. Counts(tree, sub, tree.root, NULL, 1)
      BY <2>1, <2>2, <2>4, <3>1, WeightsCount
    <3>3. NULL \notin At(sub, tree.root)
      BY <2>1, <2>4, PointerAssumption DEF IsTree, IsHeap
    <3>4. Weight(tree, tree.root) \in Positive
      BY <2>1, <2>2, <2>4, WeightIsPositive
    <3> QED BY <2>2, <2>4, <3>2, <3>3, <3>4 DEF Counts, Owed, Positive
  <2>6. Subtree(tree, tree.root) = DOMAIN tree.heap
    BY <2>1, <2>4, SubtreeIs
  <2>7. ASSUME NEW n \in DOMAIN tree.heap
        PROVE  LET left == Weight(tree, tree.heap[n].llink)
               IN  /\ tree.heap[n].weight = left + Weight(tree, tree.heap[n].rlink)
                   /\ left * 1000 >= tree.heap[n].weight * 292
                   /\ left * 1000 <= tree.heap[n].weight * 708
    <3> DEFINE l == Weight(tree, tree.heap[n].llink)
               r == Weight(tree, tree.heap[n].rlink)
               w == tree.heap[n].weight
    <3>1. Sound(w, l, r)
      BY <2>2 DEF Weighed
    <3>2. l \in Positive /\ r \in Positive
      BY <2>1, <2>2, ChildWeights DEF Sides
    <3> HIDE DEF l, r, w
    <3>3. w = l + r /\ l * 1000 >= w * 292 /\ l * 1000 <= w * 708
      BY <3>1, <3>2, EvenIsVerified
    <3> QED BY <3>3 DEF l, r, w
  <2> QED BY <2>3, <2>5, <2>6, <2>7 DEF wb_tree_verify
<1> QED BY <1>1, InvariantHolds, PTL

\* Rotations move nodes, never their contents; only a removal moves the contents of a node,
\* of one node, so the pointers that callers hold to the data of other nodes stay good.
THEOREM PointersAlwaysStay == Spec => PointersStay
<1>1. ASSUME PointerStep
      PROVE  LET kept  == DOMAIN tree.heap \cap DOMAIN tree'.heap
                 moved == {n \in kept : tree'.heap[n].key # tree.heap[n].key}
             IN  /\ moved # {} => op = "none" /\ op' # "insert" /\ op' # "search"
                 /\ Cardinality(moved) <= 1
                 /\ \A n \in kept \ moved : tree.heap[n].datum # NULL =>
                      tree'.heap[n].datum = tree.heap[n].datum
  <2> DEFINE kept  == DOMAIN tree.heap \cap DOMAIN tree'.heap
             moved == {n \in kept : tree'.heap[n].key # tree.heap[n].key}
  <2>1. CASE KeepsPointers
    <3>1. moved = {} /\ Cardinality({}) = 0
      BY <2>1, FS_EmptySet DEF KeepsPointers
    <3>2. \A n \in kept : tree.heap[n].datum # NULL => tree'.heap[n].datum = tree.heap[n].datum
      BY <2>1 DEF KeepsPointers
    <3> HIDE DEF moved, kept
    <3>3. Cardinality(moved) <= 1
      BY <3>1
    <3> QED BY <3>1, <3>2, <3>3 DEF moved, kept
  <2>2. CASE op = "none" /\ op' = "remove" /\ \E n \in DOMAIN tree.heap : MovesOnly(n)
    <3>1. PICK x \in DOMAIN tree.heap : MovesOnly(x)
      BY <2>2
    <3>2. moved \subseteq {x}
      BY <3>1 DEF MovesOnly
    <3>3. \A n \in kept \ moved : tree.heap[n].datum # NULL =>
            tree'.heap[n].datum = tree.heap[n].datum
      BY <3>1 DEF MovesOnly
    <3> HIDE DEF moved, kept
    <3>4. Cardinality(moved) <= 1
      <4>1. IsFiniteSet({x}) /\ Cardinality({x}) = 1
        BY FS_Singleton
      <4>2. Cardinality(moved) <= Cardinality({x})
        BY <3>2, <4>1, FS_Subset
      <4> QED BY <4>1, <4>2
    <3> QED BY <2>2, <3>3, <3>4 DEF moved, kept
  <2> QED BY <1>1, <2>1, <2>2 DEF PointerStep
<1>2. IInv /\ [Next]_vars =>
        [LET kept  == DOMAIN tree.heap \cap DOMAIN tree'.heap
             moved == {n \in kept : tree'.heap[n].key # tree.heap[n].key}
         IN  /\ moved # {} => op = "none" /\ op' # "insert" /\ op' # "search"
             /\ Cardinality(moved) <= 1
             /\ \A n \in kept \ moved : tree.heap[n].datum # NULL =>
                  tree'.heap[n].datum = tree.heap[n].datum]_tree
  BY <1>1, NextStep DEF StepIsRight
<1> QED BY <1>2, InvariantHolds, PTL DEF Spec, PointersStay

\* The weight-balanced tree is a map: rebalancing loses no key and gives none another's datum, the datum
\* that is set when an insertion returns belongs to the new key, and a removal takes its key.
THEOREM Implements == Spec => ImplementsMap
<1>1. Init => Map!Init
  BY DEF Init, StartsEmpty, EmptyTree, Map!Init, MapOf
<1>2. IInv /\ [Next]_vars => [Map!Next]_(MapOf(tree))
  <2> SUFFICES ASSUME IInv, [Next]_vars, MapOf(tree)' # MapOf(tree) PROVE Map!Next
    OBVIOUS
  <2>1. MapStep
    BY NextStep DEF StepIsRight
  <2>2. MapOf(tree') = MapOf(tree)'
    BY DEF MapOf, NodeOf
  <2>3. PICK k \in Keys : Map!Put(k) \/ Map!Delete(k)
    BY <2>1, <2>2 DEF MapStep
  <2>4. DOMAIN MapOf(tree)' # DOMAIN MapOf(tree)
    <3>1. CASE Map!Put(k)
      BY <3>1 DEF Map!Put
    <3>2. CASE Map!Delete(k)
      <4>1. k \in DOMAIN MapOf(tree) /\ k \notin DOMAIN MapOf(tree)'
        BY <3>2 DEF Map!Delete, Map!Restrict
      <4> QED BY <4>1
    <3> QED BY <2>3, <3>1, <3>2
  <2> QED BY <2>3, <2>4 DEF Map!Next
<1> QED BY <1>1, <1>2, InvariantHolds, PTL DEF Spec, ImplementsMap, Map!Spec


\* How tree_select goes down: what is left to pass of the place i, when the keys before those
\* below x are passed.
Passed(t, sub, x) ==
  {y \in DOMAIN t.heap \ sub[x] : \A z \in sub[x] : t.heap[y].key < t.heap[z].key}

SelectInv(t, sub, i, x, j) ==
  /\ x \in DOMAIN t.heap /\ j \in Nat /\ j < Cardinality(sub[x])
  /\ i = Cardinality(Passed(t, sub, x)) + j
  /\ \A y \in DOMAIN t.heap \ (sub[x] \cup Passed(t, sub, x)) :
       \A z \in sub[x] : t.heap[z].key < t.heap[y].key

\* What is passed on the way to a child.
LEMMA PassedBelow ==
  ASSUME NEW t, NEW sub, IsTree(t, sub), NEW i, NEW x, NEW j, SelectInv(t, sub, i, x, j),
         NEW A, A = At(sub, t.heap[x].llink), NEW B, B = At(sub, t.heap[x].rlink),
         NEW P, P = Passed(t, sub, x)
  PROVE  /\ {y \in DOMAIN t.heap : t.heap[y].key < t.heap[x].key} = P \cup A
         /\ A # {} => /\ Passed(t, sub, t.heap[x].llink) = P
                      /\ \A y \in DOMAIN t.heap \ (A \cup P) :
                           \A z \in A : t.heap[z].key < t.heap[y].key
         /\ B # {} => /\ Passed(t, sub, t.heap[x].rlink) = P \cup A \cup {x}
                      /\ \A y \in DOMAIN t.heap \ (B \cup P \cup A \cup {x}) :
                           \A z \in B : t.heap[z].key < t.heap[y].key
<1> DEFINE D == DOMAIN t.heap
           key(y) == t.heap[y].key
<1>1. /\ sub[x] = {x} \cup A \cup B /\ x \notin A /\ x \notin B /\ A \cap B = {}
      /\ x \in D /\ sub[x] \subseteq D
  <2>1. x \in D
    BY DEF SelectInv
  <2>2. Parted(sub, x, A, B)
    BY <2>1, SidesAreApart
  <2>3. sub[x] \subseteq D
    BY <2>1, TreeFacts
  <2> QED BY <2>1, <2>2, <2>3 DEF Parted
<1>2. /\ \A y \in A : key(y) < key(x)
      /\ \A y \in B : key(x) < key(y)
  <2>1. /\ \A y \in At(sub, t.heap[x]["llink"]) : Less("llink", key(y), key(x))
        /\ \A y \in At(sub, t.heap[x]["rlink"]) : Less("rlink", key(y), key(x))
    <3>1. "llink" \in Sides /\ "rlink" \in Sides
      BY DEF Sides
    <3> HIDE DEF key
    <3> QED BY <1>1, <3>1 DEF IsTree, Sorted, D, key
  <2> QED BY <2>1 DEF Less
<1>3. \A y \in D : key(y) \in Int
  BY DEF IsTree, IsHeap
<1>4. /\ P \subseteq D \ sub[x]
      /\ \A y \in P : \A z \in sub[x] : key(y) < key(z)
      /\ \A y \in D \ (sub[x] \cup P) : \A z \in sub[x] : key(z) < key(y)
  BY DEF Passed, SelectInv
<1>5. /\ A # {} => t.heap[x].llink # NULL /\ sub[t.heap[x].llink] = A
      /\ B # {} => t.heap[x].rlink # NULL /\ sub[t.heap[x].rlink] = B
  BY DEF At
<1>6. \A l : sub[l] = A => Passed(t, sub, l) = {y \in D \ A : \A z \in A : key(y) < key(z)}
  BY DEF Passed
<1>7. \A l : sub[l] = B => Passed(t, sub, l) = {y \in D \ B : \A z \in B : key(y) < key(z)}
  BY DEF Passed
<1> HIDE DEF D, key
<1>8. \A y, z \in D : key(y) < key(z) => ~(key(z) < key(y))
  BY <1>3
<1>9. \A y, z, v \in D : key(y) < key(z) /\ key(z) < key(v) => key(y) < key(v)
  BY <1>3
<1>10. ~(key(x) < key(x))
  BY <1>1, <1>8
<1>11. {y \in D : key(y) < key(x)} = P \cup A
  <2>1. ASSUME NEW y \in D, key(y) < key(x) PROVE y \in P \cup A
    BY <1>1, <1>2, <1>4, <1>8, <1>10, <2>1
  <2>2. ASSUME NEW y \in P \cup A PROVE y \in D /\ key(y) < key(x)
    BY <1>1, <1>2, <1>4
  <2> QED BY <2>1, <2>2
<1>12. A # {} => /\ {y \in D \ A : \A z \in A : key(y) < key(z)} = P
                 /\ \A y \in D \ (A \cup P) : \A z \in A : key(z) < key(y)
  <2> SUFFICES ASSUME A # {} PROVE /\ {y \in D \ A : \A z \in A : key(y) < key(z)} = P
                                   /\ \A y \in D \ (A \cup P) : \A z \in A : key(z) < key(y)
    OBVIOUS
  <2>1. PICK a : a \in A
    OBVIOUS
  <2>2. \A y \in D \ (A \cup P) : \A z \in A : key(z) < key(y)
    BY <1>1, <1>2, <1>4, <1>9
  <2>3. \A y \in P : y \in D \ A /\ \A z \in A : key(y) < key(z)
    BY <1>1, <1>4
  <2>4. ASSUME NEW y \in D \ A, \A z \in A : key(y) < key(z) PROVE y \in P
    BY <1>1, <1>8, <2>1, <2>2, <2>4
  <2> QED BY <2>2, <2>3, <2>4
<1>13. B # {} => /\ {y \in D \ B : \A z \in B : key(y) < key(z)} = P \cup A \cup {x}
                 /\ \A y \in D \ (B \cup P \cup A \cup {x}) : \A z \in B : key(z) < key(y)
  <2> SUFFICES ASSUME B # {}
               PROVE  /\ {y \in D \ B : \A z \in B : key(y) < key(z)} = P \cup A \cup {x}
                      /\ \A y \in D \ (B \cup P \cup A \cup {x}) : \A z \in B : key(z) < key(y)
    OBVIOUS
  <2>1. PICK b : b \in B
    OBVIOUS
  <2>2. \A y \in D \ (B \cup P \cup A \cup {x}) : \A z \in B : key(z) < key(y)
    BY <1>1, <1>4
  <2>3. \A y \in P \cup A \cup {x} : y \in D \ B /\ \A z \in B : key(y) < key(z)
    BY <1>1, <1>2, <1>4, <1>9
  <2>4. ASSUME NEW y \in D \ B, \A z \in B : key(y) < key(z) PROVE y \in P \cup A \cup {x}
    BY <1>1, <1>8, <2>1, <2>2, <2>4
  <2> QED BY <2>2, <2>3, <2>4
<1> QED BY <1>5, <1>6, <1>7, <1>11, <1>12, <1>13 DEF D, key

\* A node is in its subtree, which holds those of its children.
LEMMA NodeHolds ==
  ASSUME NEW t, NEW sub, IsTree(t, sub), NEW x \in DOMAIN t.heap
  PROVE  /\ At(sub, x) = sub[x] /\ x \in sub[x]
         /\ \A c \in {t.heap[x].llink, t.heap[x].rlink} :
              At(sub, c) \subseteq sub[x] /\ x \notin At(sub, c)
<1> DEFINE A == At(sub, t.heap[x].llink)
           B == At(sub, t.heap[x].rlink)
<1>1. Parted(sub, x, A, B)
  BY SidesAreApart
<1> HIDE DEF A, B
<1>2. /\ A \subseteq sub[x] /\ B \subseteq sub[x] /\ x \in sub[x] /\ At(sub, x) = sub[x]
      /\ x \notin A /\ x \notin B
  BY <1>1 DEF Parted
<1> QED BY <1>2 DEF A, B

\* The weights lead one node further towards the place, ...
LEMMA SelectGoesOn ==
  ASSUME NEW t, NEW sub, IsTree(t, sub), NEW i, NEW x, NEW j, SelectInv(t, sub, i, x, j),
         NEW nw, nw = Cardinality(At(sub, t.heap[x].llink)) + 1
  PROVE  /\ nw \in Nat
         /\ j + 1 < nw => SelectInv(t, sub, i, t.heap[x].llink, j)
         /\ j + 1 > nw => SelectInv(t, sub, i, t.heap[x].rlink, j - nw)
<1> DEFINE A == At(sub, t.heap[x].llink)
           B == At(sub, t.heap[x].rlink)
           P == Passed(t, sub, x)
<1>1. Parted(sub, x, A, B) /\ x \in DOMAIN t.heap /\ j \in Nat /\ j < Cardinality(sub[x])
      /\ i = Cardinality(P) + j
  BY SidesAreApart DEF SelectInv
<1>2. /\ A # {} => /\ Passed(t, sub, t.heap[x].llink) = P
                   /\ \A y \in DOMAIN t.heap \ (A \cup P) :
                        \A z \in A : t.heap[z].key < t.heap[y].key
      /\ B # {} => /\ Passed(t, sub, t.heap[x].rlink) = P \cup A \cup {x}
                   /\ \A y \in DOMAIN t.heap \ (B \cup P \cup A \cup {x}) :
                        \A z \in B : t.heap[z].key < t.heap[y].key
  BY PassedBelow
<1>3. /\ A # {} => t.heap[x].llink \in DOMAIN t.heap /\ sub[t.heap[x].llink] = A
      /\ B # {} => t.heap[x].rlink \in DOMAIN t.heap /\ sub[t.heap[x].rlink] = B
  <2>1. \A s \in Sides : t.heap[x][s] # NULL => t.heap[x][s] \in DOMAIN t.heap
    BY <1>1 DEF IsTree, Linked
  <2> QED BY <2>1 DEF At, Sides
<1>4. P \subseteq DOMAIN t.heap \ sub[x] /\ sub[x] \subseteq DOMAIN t.heap /\ IsFiniteSet(DOMAIN t.heap)
  BY <1>1, TreeFacts DEF Passed, IsTree, IsHeap
<1> HIDE DEF A, B, P
<1>5. /\ sub[x] = {x} \cup A \cup B /\ x \notin A /\ x \notin B /\ A \cap B = {}
      /\ Cardinality(A) \in Nat /\ Cardinality(B) \in Nat
      /\ Cardinality(sub[x]) = Cardinality(A) + Cardinality(B) + 1
  BY <1>1 DEF Parted
<1>6. nw \in Nat /\ nw = Cardinality(A) + 1
  BY <1>5 DEF A
<1>7. ASSUME j + 1 < nw PROVE SelectInv(t, sub, i, t.heap[x].llink, j)
  <2>1. j < Cardinality(A)
    BY <1>1, <1>5, <1>6, <1>7
  <2>2. A # {}
    BY <1>1, <2>1, FS_EmptySet
  <2>3. \A y \in DOMAIN t.heap \ (A \cup P) : \A z \in A : t.heap[z].key < t.heap[y].key
    BY <1>2, <2>2
  <2> QED BY <1>1, <1>2, <1>3, <2>1, <2>2, <2>3 DEF SelectInv
<1>8. ASSUME j + 1 > nw PROVE SelectInv(t, sub, i, t.heap[x].rlink, j - nw)
  <2>1. j - nw \in Nat /\ j - nw < Cardinality(B)
    BY <1>1, <1>5, <1>6, <1>8
  <2>2. B # {}
    <3>1. Cardinality(B) # 0
      BY <2>1
    <3> QED BY <3>1, FS_EmptySet
  <2> DEFINE Q == P \cup A \cup {x}
  <2>3. Cardinality(Q) = Cardinality(P) + nw
    <3>1. IsFiniteSet(P) /\ IsFiniteSet(A)
      BY <1>4, <1>5, FS_Subset
    <3>2. P \cap A = {} /\ x \notin P \cup A
      BY <1>4, <1>5
    <3>3. IsFiniteSet(P \cup A) /\ Cardinality(P \cup A) = Cardinality(P) + Cardinality(A)
      <4>1. /\ IsFiniteSet(P \cup A)
            /\ Cardinality(P \cup A) = Cardinality(P) + Cardinality(A) - Cardinality(P \cap A)
        BY <3>1, FS_Union
      <4>2. Cardinality(P \cap A) = 0 /\ Cardinality(P) \in Nat
        BY <3>1, <3>2, FS_EmptySet, FS_CardinalityType
      <4> QED BY <1>5, <4>1, <4>2
    <3>4. Cardinality((P \cup A) \cup {x}) = Cardinality(P \cup A) + 1
      BY <3>2, <3>3, FS_AddElement
    <3>5. Cardinality(P) \in Nat
      BY <3>1, FS_CardinalityType
    <3> QED BY <1>5, <1>6, <3>3, <3>4, <3>5
  <2>4. Cardinality(P) \in Nat
    BY <1>4, FS_Subset, FS_CardinalityType
  <2>5. i = Cardinality(Q) + (j - nw)
    <3> HIDE DEF Q
    <3> QED BY <1>1, <1>6, <2>3, <2>4
  <2>6. \A y \in DOMAIN t.heap \ (B \cup Q) : \A z \in B : t.heap[z].key < t.heap[y].key
    BY <1>2, <2>2
  <2>7. Passed(t, sub, t.heap[x].rlink) = Q
    BY <1>2, <2>2
  <2> HIDE DEF Q
  <2> QED BY <1>3, <2>1, <2>2, <2>5, <2>6, <2>7 DEF SelectInv
<1> QED BY <1>6, <1>7, <1>8

\* ... and where they say that it is found it is.
LEMMA SelectArrives ==
  ASSUME NEW t, NEW sub, IsTree(t, sub), NEW i, NEW x, NEW j, SelectInv(t, sub, i, x, j),
         j + 1 = Cardinality(At(sub, t.heap[x].llink)) + 1
  PROVE  Cardinality({y \in DOMAIN t.heap : t.heap[y].key < t.heap[x].key}) = i
<1> DEFINE A == At(sub, t.heap[x].llink)
           B == At(sub, t.heap[x].rlink)
           P == Passed(t, sub, x)
<1>1. Parted(sub, x, A, B) /\ x \in DOMAIN t.heap /\ j \in Nat /\ i = Cardinality(P) + j
  BY SidesAreApart DEF SelectInv
<1>2. {y \in DOMAIN t.heap : t.heap[y].key < t.heap[x].key} = P \cup A
  BY PassedBelow
<1>3. P \subseteq DOMAIN t.heap \ sub[x] /\ sub[x] \subseteq DOMAIN t.heap /\ IsFiniteSet(DOMAIN t.heap)
  BY <1>1, TreeFacts DEF Passed, IsTree, IsHeap
<1>4. j + 1 = Cardinality(A) + 1
  OBVIOUS
<1> HIDE DEF A, B, P
<1>5. A \subseteq sub[x] /\ Cardinality(A) \in Nat
  BY <1>1 DEF Parted
<1>6. IsFiniteSet(P) /\ IsFiniteSet(A) /\ P \cap A = {}
  BY <1>3, <1>5, FS_Subset
<1>7. Cardinality(P \cup A) = Cardinality(P) + Cardinality(A) - Cardinality(P \cap A)
  BY <1>6, FS_Union
<1>8. Cardinality(P \cap A) = 0 /\ Cardinality(P) \in Nat
  BY <1>6, FS_EmptySet, FS_CardinalityType
<1>9. Cardinality(P \cup A) = i
  BY <1>1, <1>4, <1>5, <1>7, <1>8
<1> QED BY <1>2, <1>9


\* The weights of a tree that nothing is owed to.
ExactWeights(t, sub) ==
  \A c \in DOMAIN t.heap \cup {NULL} : Weight(t, c) = Cardinality(At(sub, c)) + 1

LEMMA SelectEnds ==
  ASSUME NEW t, NEW sub, IsTree(t, sub), ExactWeights(t, sub), t.count = Cardinality(DOMAIN t.heap),
         NEW i \in 0 .. t.count - 1
  PROVE  \E x \in DOMAIN t.heap :
           /\ Select(t, i) = x
           /\ Cardinality({y \in DOMAIN t.heap : t.heap[y].key < t.heap[x].key}) = i
<1> DEFINE D == DOMAIN t.heap
           X == (D \cup {NULL}) \X (0 .. t.count)
           nw(w) == Weight(t, t.heap[w[1]].llink)
           Final == {w \in X : w[1] = NULL \/ w[2] + 1 = nw(w)}
           out == [w \in X |-> IF w[1] = NULL THEN Wild ELSE w[1]]
           next == [w \in X |-> IF w[2] + 1 > nw(w) THEN <<t.heap[w[1]].rlink, w[2] - nw(w)>>
                                ELSE <<t.heap[w[1]].llink, w[2]>>]
           left == [w \in X |-> At(sub, w[1])]
           S == {w \in X : SelectInv(t, sub, i, w[1], w[2])}
           Body(w, f) == LET x   == w[1]
                             lw == Weight(t, t.heap[x].llink)
                         IN  IF x = NULL THEN Wild
                             ELSE IF w[2] + 1 = lw THEN x
                             ELSE IF w[2] + 1 > lw THEN f[<<t.heap[x].rlink, w[2] - lw>>]
                             ELSE f[<<t.heap[x].llink, w[2]>>]
           Eqn(f) == f = [w \in X |-> Body(w, f)]
           walk == CHOOSE f : Eqn(f)
<1>1. PICK N \in Nat : N = t.count /\ N = Cardinality(D)
  BY FS_CardinalityType DEF IsTree, IsHeap
<1>2. ASSUME NEW w \in X, w \notin Final
      PROVE  /\ w[1] \in D /\ w[2] \in 0 .. N /\ nw(w) \in Nat /\ nw(w) > 0 /\ w[2] + 1 # nw(w)
             /\ t.heap[w[1]].llink \in D \cup {NULL} /\ t.heap[w[1]].rlink \in D \cup {NULL}
             /\ nw(w) = Cardinality(At(sub, t.heap[w[1]].llink)) + 1
             /\ w[2] + 1 > nw(w) => next[w] = <<t.heap[w[1]].rlink, w[2] - nw(w)>>
             /\ ~(w[2] + 1 > nw(w)) => next[w] = <<t.heap[w[1]].llink, w[2]>>
             /\ next[w] \in X
  <2>1. w[1] \in D /\ w[2] \in 0 .. N /\ w[2] + 1 # nw(w)
    BY <1>1, <1>2
  <2>2. t.heap[w[1]].llink \in D \cup {NULL} /\ t.heap[w[1]].rlink \in D \cup {NULL}
    <3>1. \A s \in Sides : t.heap[w[1]][s] # NULL => t.heap[w[1]][s] \in D
      BY <2>1 DEF IsTree, Linked
    <3> QED BY <3>1 DEF Sides
  <2>3. nw(w) = Cardinality(At(sub, t.heap[w[1]].llink)) + 1
    BY <2>2 DEF ExactWeights
  <2>4. Cardinality(At(sub, t.heap[w[1]].llink)) \in Nat
    <3>1. Parted(sub, w[1], At(sub, t.heap[w[1]].llink), At(sub, t.heap[w[1]].rlink))
      BY <2>1, SidesAreApart
    <3> QED BY <3>1 DEF Parted
  <2>5. nw(w) \in Nat /\ nw(w) > 0
    BY <2>3, <2>4
  <2>6. /\ w[2] + 1 > nw(w) => next[w] = <<t.heap[w[1]].rlink, w[2] - nw(w)>>
        /\ ~(w[2] + 1 > nw(w)) => next[w] = <<t.heap[w[1]].llink, w[2]>>
    OBVIOUS
  <2> HIDE DEF next, nw
  <2>7. w[2] + 1 > nw(w) => w[2] - nw(w) \in 0 .. t.count
    BY <1>1, <2>1, <2>5
  <2>8. w[2] \in 0 .. t.count
    BY <1>1, <2>1
  <2>9. next[w] \in X
    BY <2>2, <2>6, <2>7, <2>8
  <2> QED BY <2>1, <2>2, <2>3, <2>5, <2>6, <2>9
<1>3. PICK f : Runs(f, X, Final, next, out)
  <2>1. Stays(X, Final, next)
    <3> HIDE DEF X, Final, next
    <3> QED BY <1>2 DEF Stays
  <2> HIDE DEF X, Final, next, out
  <2> QED BY <2>1, LoopHasResults
<1>4. ASSUME NEW f0 PROVE Runs(f0, X, Final, next, out) <=> Eqn(f0)
  <2>1. ASSUME NEW w \in X
        PROVE  (IF w \in Final THEN out[w] ELSE f0[next[w]]) = Body(w, f0)
    <3>1. out[w] = IF w[1] = NULL THEN Wild ELSE w[1]
      OBVIOUS
    <3>2. w \in Final <=> w[1] = NULL \/ w[2] + 1 = nw(w)
      OBVIOUS
    <3>3. Body(w, f0) = IF w[1] = NULL THEN Wild
                        ELSE IF w[2] + 1 = nw(w) THEN w[1]
                        ELSE IF w[2] + 1 > nw(w) THEN f0[<<t.heap[w[1]].rlink, w[2] - nw(w)>>]
                        ELSE f0[<<t.heap[w[1]].llink, w[2]>>]
      BY Zenon
    <3> HIDE DEF X, Final, next, out, Body, nw
    <3> QED BY <1>2, <3>1, <3>2, <3>3
  <2> HIDE DEF X, Final, next, out, Body
  <2> QED BY <2>1 DEF Runs
<1>5. Runs(walk, X, Final, next, out)
  <2> HIDE DEF X, Final, next, out, Eqn
  <2>1. Eqn(walk)
    BY <1>3, <1>4
  <2> HIDE DEF walk
  <2> QED BY <1>4, <2>1
<1>6. Select(t, i) = walk[<<t.root, i>>]
  <2>1. ~(i >= t.count)
    BY <1>1
  <2>2. Select(t, i) = IF i >= t.count THEN NULL ELSE walk[<<t.root, i>>]
    BY Zenon DEF Select
  <2> HIDE DEF walk
  <2> QED BY <2>1, <2>2
<1> HIDE DEF walk
<1>7. <<t.root, i>> \in S
  <2>1. i \in 0 .. N /\ i \in Nat /\ i < N
    BY <1>1
  <2>2. t.root # NULL
    <3>1. D # {}
      BY <1>1, <2>1, FS_EmptySet
    <3> QED BY <3>1 DEF IsTree, Linked
  <2>3. t.root \in D /\ sub[t.root] = D
    BY <2>2 DEF IsTree, Linked, Spans
  <2>4. Passed(t, sub, t.root) = {}
    BY <2>3 DEF Passed
  <2>5. i = Cardinality(Passed(t, sub, t.root)) + i
    BY <2>1, <2>4, FS_EmptySet
  <2>6. SelectInv(t, sub, i, t.root, i)
    BY <1>1, <2>1, <2>3, <2>4, <2>5 DEF SelectInv
  <2> QED BY <1>1, <2>1, <2>3, <2>6
<1>8. ASSUME NEW w \in S, w \notin Final
      PROVE  /\ next[w] \in S
             /\ left[next[w]] \subseteq left[w] /\ left[next[w]] # left[w]
  <2>1. w \in X /\ SelectInv(t, sub, i, w[1], w[2])
    OBVIOUS
  <2> DEFINE x == w[1]
             j == w[2]
             m == nw(w)
             L == t.heap[x].llink
             R == t.heap[x].rlink
  <2>2. /\ x \in D /\ j \in 0 .. N /\ m \in Nat /\ j + 1 # m
        /\ m = Cardinality(At(sub, L)) + 1
        /\ j + 1 > m => next[w] = <<R, j - m>>
        /\ ~(j + 1 > m) => next[w] = <<L, j>>
        /\ next[w] \in X
    <3> HIDE DEF X, Final, next, S, nw, D
    <3>1. w \in X /\ w \notin Final
      BY <1>8, <2>1
    <3> QED BY <1>2, <3>1, Zenon
  <2>3. /\ j + 1 < m => SelectInv(t, sub, i, L, j)
        /\ j + 1 > m => SelectInv(t, sub, i, R, j - m)
    <3> HIDE DEF m
    <3> QED BY <2>1, <2>2, SelectGoesOn, Zenon
  <2>4. SelectInv(t, sub, i, next[w][1], next[w][2]) /\ next[w][1] \in {L, R}
    <3> HIDE DEF m, next, L, R
    <3>1. CASE j + 1 > m
      BY <2>2, <2>3, <3>1
    <3>2. CASE ~(j + 1 > m)
      <4>1. j + 1 < m
        BY <2>2, <3>2
      <4> QED BY <2>2, <2>3, <3>2, <4>1
    <3> QED BY <3>1, <3>2
  <2>5. At(sub, x) = sub[x] /\ x \in sub[x]
        /\ \A c \in {L, R} : At(sub, c) \subseteq sub[x] /\ x \notin At(sub, c)
    <3>1. x \in DOMAIN t.heap
      BY <2>2, Zenon
    <3> HIDE DEF x, D, X, S, Final, next, out, left, nw, walk
    <3> QED BY <3>1, NodeHolds
  <2>6. left[w] = At(sub, x) /\ left[next[w]] = At(sub, next[w][1])
    <3> HIDE DEF next, X
    <3> QED BY <2>1, <2>2
  <2>7. next[w] \in S
    <3> HIDE DEF next, X
    <3> QED BY <2>2, <2>4
  <2> HIDE DEF L, R, next, left, S
  <2> QED BY <2>4, <2>5, <2>6, <2>7
<1>9. PICK w \in S : w \in Final /\ walk[<<t.root, i>>] = out[w]
  <2>1. IsFiniteSet(D) /\ \A w \in X : left[w] \in SUBSET D
    BY DEF IsTree, IsHeap, Spans, At
  <2>2. S \in SUBSET X
    OBVIOUS
  <2>3. Stays(S, Final, next)
    <3> HIDE DEF S, Final, next
    <3> QED BY <1>8 DEF Stays
  <2> HIDE DEF S, Final, next, X, left, out, D
  <2> QED BY <1>5, <1>7, <1>8, <2>1, <2>2, <2>3, LoopEnds
<1>10. /\ SelectInv(t, sub, i, w[1], w[2]) /\ w[1] \in D /\ w[1] # NULL
       /\ out[w] = w[1] /\ w[2] + 1 = nw(w)
  <2>1. w \in X /\ SelectInv(t, sub, i, w[1], w[2]) /\ (w[1] = NULL \/ w[2] + 1 = nw(w))
    BY <1>9
  <2>2. w[1] \in D /\ w[1] # NULL
    BY <2>1, PointerAssumption DEF SelectInv, IsTree, IsHeap
  <2> HIDE DEF X, nw
  <2> QED BY <2>1, <2>2
<1>11. w[2] + 1 = Cardinality(At(sub, t.heap[w[1]].llink)) + 1
  <2>1. t.heap[w[1]].llink \in D \cup {NULL}
    <3>1. t.heap[w[1]]["llink"] # NULL => t.heap[w[1]]["llink"] \in D
      BY <1>10 DEF IsTree, Linked, Sides
    <3> QED BY <3>1
  <2> QED BY <1>10, <2>1 DEF ExactWeights
<1> HIDE DEF out, nw, S, Final
<1> QED BY <1>6, <1>9, <1>10, <1>11, SelectArrives

\* Between calls dict_select answers the n-th key, counted by the weights, and beyond the last
\* there is none.
Nth(i) == Select(tree, i)

THEOREM SelectsAlwaysRight == Spec => [](op = "none" => SelectsRight(Nth))
<1>1. IInv => (op = "none" => SelectsRight(Nth))
  <2> SUFFICES ASSUME IInv, op = "none", NEW i \in 0 .. tree.count
               PROVE  Nth(i) = IF i = tree.count THEN NULL
                               ELSE NodeOf(tree, Traverse(tree, Up)[i + 1])
    BY DEF SelectsRight
  <2>1. PICK sub : IsTree(tree, sub)
    BY DEF IInv, TreeInv
  <2>2. PICK keys : keys = Traverse(tree, Up)
    OBVIOUS
  <2>3. KeysInOrder(tree, keys)
    BY <2>1, <2>2, TraverseOrdered DEF Parents, Up
  <2>4. /\ at = NULL /\ tree.count = Cardinality(DOMAIN tree.heap) /\ tree.count = Len(keys)
        /\ HasWeights(tree)
    BY <2>3, IdleIsWeighed DEF KeysInOrder
  <2>5. ExactWeights(tree, sub)
    <3>1. WeighedBut(tree, at, Step) /\ Step \in {1, -1}
      BY DEF IInv, WeightInv, Step
    <3>2. \A c \in DOMAIN tree.heap \cup {NULL} : Counts(tree, sub, c, at, Step)
      BY <2>1, <2>4, <3>1, WeightsCount
    <3>3. \A c \in DOMAIN tree.heap \cup {NULL} : Owed(sub, c, at, Step) = 0
      <4>1. \A c \in DOMAIN tree.heap \cup {NULL} : NULL \notin At(sub, c)
        BY <2>1, PointerAssumption DEF IsTree, IsHeap, Spans, At
      <4> QED BY <2>4, <4>1 DEF Owed
    <3>4. \A c \in DOMAIN tree.heap \cup {NULL} : Weight(tree, c) \in Positive
      BY <2>1, <2>4, WeightIsPositive
    <3> QED BY <3>2, <3>3, <3>4 DEF Counts, ExactWeights, Positive
  <2>6. CASE i = tree.count
    <3>1. Nth(i) = NULL
      <4>1. tree.count >= tree.count
        BY DEF IInv, CallInv
      <4> QED BY <2>6, <4>1, Zenon DEF Nth, Select
    <3> QED BY <2>6, <3>1
  <2>7. CASE i # tree.count
    <3>1. tree.count \in Nat
      BY DEF IInv, CallInv
    <3>2. PICK n \in Nat : n = tree.count
      BY <3>1
    <3>3. i \in 0 .. tree.count - 1
      BY <2>7, <3>2
    <3>4. PICK x \in DOMAIN tree.heap :
            /\ Select(tree, i) = x
            /\ Cardinality({y \in DOMAIN tree.heap : tree.heap[y].key < tree.heap[x].key}) = i
      BY <2>1, <2>4, <2>5, <3>3, SelectEnds
    <3>5. x = NodeAt(tree, keys, i + 1)
      BY <2>1, <2>3, <3>4, RankIsPlace
    <3>6. NodeAt(tree, keys, i + 1) = IF i = tree.count THEN NULL
                                      ELSE NodeOf(tree, Traverse(tree, Up)[i + 1])
      BY <2>2, <2>3, <2>4, SelectsByPlace
    <3> QED BY <3>4, <3>5, <3>6 DEF Nth
  <2> QED BY <2>6, <2>7
<1> QED BY <1>1, InvariantHolds, PTL

====================================================================================
