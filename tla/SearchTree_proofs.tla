----------------------------- MODULE SearchTree_proofs -----------------------------
(***************************************************************************)
(* Proofs about the trees of libdict, for every set of keys and every set  *)
(* of addresses: what the pointers make of the nodes, which of its changes *)
(* keep a search tree a search tree, and where its searches end.           *)
(***************************************************************************)
EXTENDS SearchTree, FiniteSetTheorems, FunctionTheorems, WellFoundedInduction, TLAPS

----------------------------------------------------------------------------
(* Loops that follow pointers *)

\* A loop starts anywhere in X, stops in Final with the result out, and goes on to next
\* elsewhere.  This is the recursive function of its results.
Runs(f, X, Final, next, out) ==
  f = [x \in X |-> IF x \in Final THEN out[x] ELSE f[next[x]]]

\* A set that the loop does not leave.
Stays(S, Final, next) == \A x \in S : x \notin Final => next[x] \in S

\* There is a function of the results whether or not the loop ends: what matters is the
\* final states that can be reached from x.
LEMMA LoopHasResults ==
  ASSUME NEW X, NEW Final, NEW next, NEW out, Stays(X, Final, next)
  PROVE  \E f : Runs(f, X, Final, next, out)
<1> DEFINE In(x, y) == \A S \in SUBSET X : x \in S /\ Stays(S, Final, next) => y \in S
           Ends(x)  == {y \in X : y \in Final /\ In(x, y)}
           f == [x \in X |-> out[CHOOSE y : y \in Ends(x)]]
<1>1. ASSUME NEW x \in X, x \in Final PROVE f[x] = out[x]
  <2>1. {x} \in SUBSET X /\ Stays({x}, Final, next)
    BY <1>1 DEF Stays
  <2>2. Ends(x) = {x}
    BY <1>1, <2>1
  <2> HIDE DEF Ends
  <2>3. (CHOOSE y : y \in Ends(x)) = x
    BY <2>2
  <2> QED BY <2>3
<1>2. ASSUME NEW x \in X, x \notin Final PROVE f[x] = f[next[x]]
  <2>1. next[x] \in X
    BY <1>2 DEF Stays
  <2>2. ASSUME NEW y \in Final, y \in X, In(x, y) PROVE In(next[x], y)
    <3> SUFFICES ASSUME NEW S \in SUBSET X, next[x] \in S, Stays(S, Final, next)
                 PROVE  y \in S
      OBVIOUS
    <3>1. S \cup {x} \in SUBSET X /\ Stays(S \cup {x}, Final, next)
      BY DEF Stays
    <3>2. y \in S \cup {x}
      BY <2>2, <3>1
    <3> QED BY <1>2, <3>2
  <2>3. ASSUME NEW y \in Final, y \in X, In(next[x], y) PROVE In(x, y)
    BY <1>2, <2>3 DEF Stays
  <2>4. Ends(x) = Ends(next[x])
    BY <2>2, <2>3
  <2> HIDE DEF Ends
  <2> QED BY <2>1, <2>4
<1> HIDE DEF f
<1>3. f = [x \in X |-> f[x]]
  BY DEF f
<1>4. f = [x \in X |-> IF x \in Final THEN out[x] ELSE f[next[x]]]
  BY <1>1, <1>2, <1>3
<1> QED BY <1>4 DEF Runs

\* If every pass leaves less of a finite set to visit, the loop ends in a final state of
\* any set that it does not leave, and that state has its result.
LEMMA LoopEnds ==
  ASSUME NEW X, NEW Final, NEW next, NEW out, NEW f, Runs(f, X, Final, next, out),
         NEW D, IsFiniteSet(D), NEW left,
         \A x \in X : left[x] \in SUBSET D,
         NEW S \in SUBSET X, Stays(S, Final, next),
         \A x \in S : x \notin Final => left[next[x]] \subseteq left[x] /\ left[next[x]] # left[x],
         NEW s \in S
  PROVE  \E y \in S : y \in Final /\ f[s] = out[y]
<1> DEFINE Right(x) == \E y \in S : y \in Final /\ f[x] = out[y]
           Bad == {left[x] : x \in {z \in S : ~Right(z)}}
<1> SUFFICES ASSUME ~Right(s) PROVE FALSE
  OBVIOUS
<1> HIDE DEF Right
<1>1. Bad \subseteq FiniteSubsetsOf(D) /\ Bad # {}
  BY FS_Subset DEF FiniteSubsetsOf
<1>2. PICK M \in Bad : \A U \in Bad : ~(<<U, M>> \in StrictSubsetOrdering(D))
  BY <1>1, FS_StrictSubsetOrderingWellFounded, WFMin
<1>3. PICK x \in S : ~Right(x) /\ M = left[x]
  BY <1>2
<1>4. x \notin Final
  BY <1>3 DEF Right, Runs
<1>5. next[x] \in S /\ f[x] = f[next[x]]
  BY <1>4 DEF Runs, Stays
<1>6. ~Right(next[x])
  BY <1>3, <1>5 DEF Right
<1>7. left[next[x]] \in Bad
  BY <1>5, <1>6
<1>8. <<left[next[x]], M>> \in StrictSubsetOrdering(D)
  BY <1>3, <1>4, <1>5 DEF StrictSubsetOrdering
<1> QED BY <1>2, <1>7, <1>8


----------------------------------------------------------------------------
(* What a search tree is *)

Sides == {"llink", "rlink"}

\* The other side, and the order of the keys towards a side: a mirror image of the tree
\* exchanges both, so that one proof does for two operators.
Other(s)      == IF s = "llink" THEN "rlink" ELSE "llink"
Less(s, i, j) == IF s = "llink" THEN i < j ELSE j < i

\* The nodes are finitely many, each with the fields that all kinds have.
IsHeap(t) ==
  /\ DOMAIN t = {"root", "count", "heap"}
  /\ IsFiniteSet(DOMAIN t.heap) /\ DOMAIN t.heap \subseteq Addresses
  /\ \A n \in DOMAIN t.heap :
       /\ {"key", "datum", "parent", "llink", "rlink"} \subseteq DOMAIN t.heap[n]
       /\ t.heap[n].key \in Int

\* Every pointer is answered by the one that leads back.
Linked(t) ==
  /\ IF t.root = NULL THEN DOMAIN t.heap = {}
     ELSE t.root \in DOMAIN t.heap /\ t.heap[t.root].parent = NULL
  /\ \A n \in DOMAIN t.heap, s \in Sides :
       t.heap[n][s] # NULL => t.heap[n][s] \in DOMAIN t.heap /\ t.heap[t.heap[n][s]].parent = n
  /\ \A n \in DOMAIN t.heap :
       IF t.heap[n].parent = NULL THEN n = t.root
       ELSE /\ t.heap[n].parent \in DOMAIN t.heap
            /\ \E s \in Sides : t.heap[t.heap[n].parent][s] = n

\* sub[n] is the set of the nodes of the subtree at n.
At(sub, x) == IF x = NULL THEN {} ELSE sub[x]

Spans(t, sub) ==
  /\ sub \in [DOMAIN t.heap -> SUBSET DOMAIN t.heap]
  /\ t.root # NULL => sub[t.root] = DOMAIN t.heap
  /\ \A n \in DOMAIN t.heap :
       sub[n] = {n} \cup At(sub, t.heap[n].llink) \cup At(sub, t.heap[n].rlink)

\* The keys below a node are on their sides of its own.
Sorted(t, sub) ==
  \A n \in DOMAIN t.heap, s \in Sides :
    \A y \in At(sub, t.heap[n][s]) : Less(s, t.heap[y].key, t.heap[n].key)

IsTree(t, sub) == IsHeap(t) /\ Linked(t) /\ Spans(t, sub) /\ Sorted(t, sub)

\* What the proofs use of it, side by side.
LEMMA TreeFacts ==
  ASSUME NEW t, NEW sub, IsTree(t, sub), NEW n \in DOMAIN t.heap
  PROVE  /\ n # NULL
         /\ n \in sub[n] /\ sub[n] \subseteq DOMAIN t.heap
         /\ \A s \in Sides :
              LET c == t.heap[n][s]
              IN  /\ At(sub, c) \subseteq sub[n]
                  /\ n \notin At(sub, c)
                  /\ At(sub, c) \cap At(sub, t.heap[n][Other(s)]) = {}
                  /\ c # NULL => /\ c \in DOMAIN t.heap /\ c # n /\ t.heap[c].parent = n
                                 /\ c # t.heap[n][Other(s)]
                                 /\ c \in sub[c] /\ sub[c] = At(sub, c)
<1> DEFINE D == DOMAIN t.heap
<1>1. n # NULL /\ n \in sub[n] /\ sub[n] \subseteq D
  BY PointerAssumption DEF IsTree, IsHeap, Spans
<1>2. ASSUME NEW s \in Sides, NEW m \in D
      PROVE  /\ At(sub, t.heap[m][s]) \subseteq sub[m]
             /\ At(sub, t.heap[m][Other(s)]) \subseteq sub[m]
  BY DEF IsTree, Spans, Sides, Other
<1>3. ASSUME NEW s \in Sides
      PROVE  \A y \in At(sub, t.heap[n][s]) : y \in D /\ Less(s, t.heap[y].key, t.heap[n].key)
  BY <1>1, <1>2 DEF IsTree, Sorted
<1>4. ASSUME NEW s \in Sides
      PROVE  Other(s) \in Sides /\ \A i, j \in Int : Less(s, i, j) => ~Less(Other(s), i, j) /\ i # j
  BY DEF Sides, Other, Less
<1>5. \A m \in D : t.heap[m].key \in Int
  BY DEF IsTree, IsHeap
<1>6. ASSUME NEW s \in Sides PROVE n \notin At(sub, t.heap[n][s])
  BY <1>3, <1>4, <1>5
<1>7. ASSUME NEW s \in Sides, NEW y \in At(sub, t.heap[n][s]), y \in At(sub, t.heap[n][Other(s)])
      PROVE  FALSE
  BY <1>3, <1>4, <1>5, <1>7
<1>8. ASSUME NEW s \in Sides, t.heap[n][s] # NULL
      PROVE  LET c == t.heap[n][s]
             IN  c \in D /\ t.heap[c].parent = n /\ c \in sub[c] /\ sub[c] = At(sub, c)
  BY <1>8 DEF IsTree, Linked, Spans, At
<1>9. ASSUME NEW s \in Sides, t.heap[n][s] # NULL
      PROVE  t.heap[n][s] # n /\ t.heap[n][s] # t.heap[n][Other(s)]
  <2>1. t.heap[n][s] \in At(sub, t.heap[n][s])
    BY <1>8, <1>9
  <2> QED BY <1>6, <1>7, <2>1
<1> QED BY <1>1, <1>2, <1>6, <1>7, <1>8, <1>9


----------------------------------------------------------------------------
(* Rotations *)

\* The fields that a node keeps whatever is done to its links.
SameNode(t, u, n) ==
  /\ DOMAIN u.heap[n] = DOMAIN t.heap[n]
  /\ \A f \in DOMAIN t.heap[n] \ {"parent", "llink", "rlink"} : u.heap[n][f] = t.heap[n][f]

\* The child m of n on side s takes the place of n, which goes down on the other side of m
\* and gets the subtree that was there.
Rotated(t, u, n, s) ==
  LET o == Other(s)
      m == t.heap[n][s]
      b == t.heap[m][o]
      p == t.heap[n].parent
  IN  /\ DOMAIN u = DOMAIN t /\ u.count = t.count
      /\ DOMAIN u.heap = DOMAIN t.heap
      /\ u.root = IF p = NULL THEN m ELSE t.root
      /\ \A x \in DOMAIN t.heap :
           /\ SameNode(t, u, x)
           /\ u.heap[x].parent = IF x = n THEN m ELSE IF x = m THEN p
                                 ELSE IF x = b THEN n ELSE t.heap[x].parent
           /\ u.heap[x][o] = IF x = m THEN n
                             ELSE IF x = p /\ t.heap[p][o] = n THEN m ELSE t.heap[x][o]
           /\ u.heap[x][s] = IF x = n THEN b
                             ELSE IF x = p /\ t.heap[p][s] = n THEN m ELSE t.heap[x][s]

\* The nodes around a rotation are different ones.
LEMMA AroundRotation ==
  ASSUME NEW t, NEW sub, IsTree(t, sub), NEW n \in DOMAIN t.heap, NEW s \in Sides,
         t.heap[n][s] # NULL
  PROVE  LET m == t.heap[n][s]
             b == t.heap[m][Other(s)]
             p == t.heap[n].parent
         IN  /\ m \in DOMAIN t.heap /\ m # n /\ t.heap[m].parent = n
             /\ b # NULL => b \in DOMAIN t.heap /\ b # n /\ b # m /\ b # p /\ t.heap[b].parent = m
             /\ p # NULL => /\ p \in DOMAIN t.heap /\ p # n /\ p # m
                            /\ t.heap[p].llink = n <=> t.heap[p].rlink # n
             /\ t.heap[n][Other(s)] # m
<1> DEFINE m == t.heap[n][s]
           o == Other(s)
           b == t.heap[m][o]
           p == t.heap[n].parent
<1>1. o \in Sides /\ Other(o) = s
  BY DEF Sides, Other
<1>2. m \in DOMAIN t.heap /\ m # n /\ t.heap[m].parent = n /\ m # t.heap[n][o]
      /\ m \in sub[m] /\ sub[m] \subseteq sub[n] /\ n \notin sub[m] /\ m # NULL
  BY <1>1, TreeFacts
<1>3. b # NULL => /\ b \in DOMAIN t.heap /\ b # m /\ t.heap[b].parent = m
                  /\ b \in sub[b] /\ sub[b] \subseteq sub[m]
  BY <1>1, <1>2, TreeFacts
<1>4. p # NULL => /\ p \in DOMAIN t.heap
                  /\ \E r \in Sides : t.heap[p][r] = n
  BY DEF IsTree, Linked
<1>5. ASSUME p # NULL PROVE p # n /\ p \notin sub[n] /\ (t.heap[p].llink = n <=> t.heap[p].rlink # n)
  <2>1. PICK r \in Sides : t.heap[p][r] = n
    BY <1>4, <1>5
  <2>2. n # NULL /\ p \in DOMAIN t.heap
    BY <1>4, <1>5, TreeFacts
  <2>3. p # n /\ n # t.heap[p][Other(r)] /\ p \notin sub[n]
    BY <2>1, <2>2, TreeFacts
  <2> QED BY <2>1, <2>3 DEF Sides, Other
<1> HIDE DEF m, o, b, p
<1>6. b # NULL => b # p /\ b # n
  BY <1>2, <1>3, <1>5
<1>7. p # NULL => p # m
  BY <1>2, <1>5
<1> QED BY <1>2, <1>3, <1>4, <1>5, <1>6, <1>7 DEF m, o, b, p

LEMMA RotLeftRotates ==
  ASSUME NEW t, NEW sub, IsTree(t, sub), NEW n \in DOMAIN t.heap, t.heap[n].rlink # NULL
  PROVE  Rotated(t, RotLeft(t, n), n, "rlink")
<1> DEFINE m == t.heap[n].rlink
           b == t.heap[m].llink
           p == t.heap[n].parent
<1>1. "rlink" \in Sides /\ Other("rlink") = "llink"
  BY DEF Sides, Other
<1>2. /\ m \in DOMAIN t.heap /\ m # n /\ t.heap[m].parent = n
      /\ b # NULL => b \in DOMAIN t.heap /\ b # n /\ b # m /\ b # p /\ t.heap[b].parent = m
      /\ p # NULL => /\ p \in DOMAIN t.heap /\ p # n /\ p # m
                     /\ t.heap[p].llink = n <=> t.heap[p].rlink # n
      /\ t.heap[n].llink # m
  BY <1>1, AroundRotation
<1>3. NULL \notin DOMAIN t.heap
  BY PointerAssumption DEF IsTree, IsHeap
<1>4. /\ DOMAIN t = {"root", "count", "heap"}
      /\ \A x \in DOMAIN t.heap : {"key", "datum", "parent", "llink", "rlink"} \subseteq DOMAIN t.heap[x]
  BY DEF IsTree, IsHeap
<1> DEFINE t0 == SetParent(t, b, n)
           t1 == [t0 EXCEPT !.heap[n].rlink = b, !.heap[n].parent = m,
                            !.heap[m].llink = n, !.heap[m].parent = p]
           u  == Relink(t1, p, n, m)
<1> HIDE DEF m, b, p
<1>5. /\ DOMAIN t0 = DOMAIN t /\ DOMAIN t0.heap = DOMAIN t.heap
      /\ t0.root = t.root /\ t0.count = t.count
      /\ \A x \in DOMAIN t.heap :
           /\ DOMAIN t0.heap[x] = DOMAIN t.heap[x]
           /\ \A f \in DOMAIN t.heap[x] \ {"parent"} : t0.heap[x][f] = t.heap[x][f]
           /\ t0.heap[x].parent = IF x = b THEN n ELSE t.heap[x].parent
  BY <1>2, <1>3, <1>4 DEF SetParent
<1> HIDE DEF t0
<1>6. /\ DOMAIN t1 = DOMAIN t /\ DOMAIN t1.heap = DOMAIN t.heap
      /\ t1.root = t.root /\ t1.count = t.count
      /\ \A x \in DOMAIN t.heap :
           /\ DOMAIN t1.heap[x] = DOMAIN t.heap[x]
           /\ \A f \in DOMAIN t.heap[x] \ {"parent", "llink", "rlink"} : t1.heap[x][f] = t0.heap[x][f]
           /\ t1.heap[x].parent = IF x = n THEN m ELSE IF x = m THEN p ELSE t0.heap[x].parent
           /\ t1.heap[x].llink = IF x = m THEN n ELSE t0.heap[x].llink
           /\ t1.heap[x].rlink = IF x = n THEN b ELSE t0.heap[x].rlink
  BY <1>2, <1>4, <1>5
<1> HIDE DEF t1
<1>7. /\ DOMAIN u = DOMAIN t /\ DOMAIN u.heap = DOMAIN t.heap
      /\ u.count = t.count /\ u.root = IF p = NULL THEN m ELSE t.root
      /\ \A x \in DOMAIN t.heap :
           /\ DOMAIN u.heap[x] = DOMAIN t.heap[x]
           /\ \A f \in DOMAIN t.heap[x] \ {"llink", "rlink"} : u.heap[x][f] = t1.heap[x][f]
           /\ u.heap[x].llink = IF x = p /\ t1.heap[p].llink = n THEN m ELSE t1.heap[x].llink
           /\ u.heap[x].rlink = IF x = p /\ t1.heap[p].llink # n THEN m ELSE t1.heap[x].rlink
  BY <1>2, <1>3, <1>4, <1>6 DEF Relink
<1>8. u = RotLeft(t, n)
  BY DEF RotLeft, u, t1, t0, m, b, p
<1> HIDE DEF u
<1>9. /\ DOMAIN u = DOMAIN t /\ u.count = t.count
      /\ DOMAIN u.heap = DOMAIN t.heap
      /\ u.root = IF p = NULL THEN m ELSE t.root
      /\ \A x \in DOMAIN t.heap : SameNode(t, u, x)
  BY <1>5, <1>6, <1>7 DEF SameNode
<1>10. \A x \in DOMAIN t.heap :
         u.heap[x].parent = IF x = n THEN m ELSE IF x = m THEN p
                            ELSE IF x = b THEN n ELSE t.heap[x].parent
  BY <1>4, <1>5, <1>6, <1>7
<1>11. \A x \in DOMAIN t.heap :
         u.heap[x].llink = IF x = m THEN n
                           ELSE IF x = p /\ t.heap[p].llink = n THEN m ELSE t.heap[x].llink
  BY <1>2, <1>3, <1>4, <1>5, <1>6, <1>7
<1>12. \A x \in DOMAIN t.heap :
         u.heap[x].rlink = IF x = n THEN b
                           ELSE IF x = p /\ t.heap[p].rlink = n THEN m ELSE t.heap[x].rlink
  BY <1>2, <1>3, <1>4, <1>5, <1>6, <1>7
<1> QED BY <1>1, <1>8, <1>9, <1>10, <1>11, <1>12 DEF Rotated, m, b, p


LEMMA RotRightRotates ==
  ASSUME NEW t, NEW sub, IsTree(t, sub), NEW n \in DOMAIN t.heap, t.heap[n].llink # NULL
  PROVE  Rotated(t, RotRight(t, n), n, "llink")
<1> DEFINE m == t.heap[n].llink
           b == t.heap[m].rlink
           p == t.heap[n].parent
<1>1. "llink" \in Sides /\ Other("llink") = "rlink"
  BY DEF Sides, Other
<1>2. /\ m \in DOMAIN t.heap /\ m # n /\ t.heap[m].parent = n
      /\ b # NULL => b \in DOMAIN t.heap /\ b # n /\ b # m /\ b # p /\ t.heap[b].parent = m
      /\ p # NULL => /\ p \in DOMAIN t.heap /\ p # n /\ p # m
                     /\ t.heap[p].rlink = n <=> t.heap[p].llink # n
      /\ t.heap[n].rlink # m
  BY <1>1, AroundRotation
<1>3. NULL \notin DOMAIN t.heap
  BY PointerAssumption DEF IsTree, IsHeap
<1>4. /\ DOMAIN t = {"root", "count", "heap"}
      /\ \A x \in DOMAIN t.heap : {"key", "datum", "parent", "llink", "rlink"} \subseteq DOMAIN t.heap[x]
  BY DEF IsTree, IsHeap
<1> DEFINE t0 == SetParent(t, b, n)
           t1 == [t0 EXCEPT !.heap[n].llink = b, !.heap[n].parent = m,
                            !.heap[m].rlink = n, !.heap[m].parent = p]
           u  == Relink(t1, p, n, m)
<1> HIDE DEF m, b, p
<1>5. /\ DOMAIN t0 = DOMAIN t /\ DOMAIN t0.heap = DOMAIN t.heap
      /\ t0.root = t.root /\ t0.count = t.count
      /\ \A x \in DOMAIN t.heap :
           /\ DOMAIN t0.heap[x] = DOMAIN t.heap[x]
           /\ \A f \in DOMAIN t.heap[x] \ {"parent"} : t0.heap[x][f] = t.heap[x][f]
           /\ t0.heap[x].parent = IF x = b THEN n ELSE t.heap[x].parent
  BY <1>2, <1>3, <1>4 DEF SetParent
<1> HIDE DEF t0
<1>6. /\ DOMAIN t1 = DOMAIN t /\ DOMAIN t1.heap = DOMAIN t.heap
      /\ t1.root = t.root /\ t1.count = t.count
      /\ \A x \in DOMAIN t.heap :
           /\ DOMAIN t1.heap[x] = DOMAIN t.heap[x]
           /\ \A f \in DOMAIN t.heap[x] \ {"parent", "rlink", "llink"} : t1.heap[x][f] = t0.heap[x][f]
           /\ t1.heap[x].parent = IF x = n THEN m ELSE IF x = m THEN p ELSE t0.heap[x].parent
           /\ t1.heap[x].rlink = IF x = m THEN n ELSE t0.heap[x].rlink
           /\ t1.heap[x].llink = IF x = n THEN b ELSE t0.heap[x].llink
  BY <1>2, <1>4, <1>5
<1> HIDE DEF t1
<1>7. /\ DOMAIN u = DOMAIN t /\ DOMAIN u.heap = DOMAIN t.heap
      /\ u.count = t.count /\ u.root = IF p = NULL THEN m ELSE t.root
      /\ \A x \in DOMAIN t.heap :
           /\ DOMAIN u.heap[x] = DOMAIN t.heap[x]
           /\ \A f \in DOMAIN t.heap[x] \ {"rlink", "llink"} : u.heap[x][f] = t1.heap[x][f]
           /\ u.heap[x].llink = IF x = p /\ t1.heap[p].llink = n THEN m ELSE t1.heap[x].llink
           /\ u.heap[x].rlink = IF x = p /\ t1.heap[p].llink # n THEN m ELSE t1.heap[x].rlink
  BY <1>2, <1>3, <1>4, <1>6 DEF Relink
<1>8. u = RotRight(t, n)
  BY DEF RotRight, u, t1, t0, m, b, p
<1> HIDE DEF u
<1>9. /\ DOMAIN u = DOMAIN t /\ u.count = t.count
      /\ DOMAIN u.heap = DOMAIN t.heap
      /\ u.root = IF p = NULL THEN m ELSE t.root
      /\ \A x \in DOMAIN t.heap : SameNode(t, u, x)
  BY <1>5, <1>6, <1>7 DEF SameNode
<1>10. \A x \in DOMAIN t.heap :
         u.heap[x].parent = IF x = n THEN m ELSE IF x = m THEN p
                            ELSE IF x = b THEN n ELSE t.heap[x].parent
  BY <1>4, <1>5, <1>6, <1>7
<1>11. \A x \in DOMAIN t.heap :
         u.heap[x].rlink = IF x = m THEN n
                           ELSE IF x = p /\ t.heap[p].rlink = n THEN m ELSE t.heap[x].rlink
  BY <1>2, <1>3, <1>4, <1>5, <1>6, <1>7
<1>12. \A x \in DOMAIN t.heap :
         u.heap[x].llink = IF x = n THEN b
                           ELSE IF x = p /\ t.heap[p].llink = n THEN m ELSE t.heap[x].llink
  BY <1>2, <1>3, <1>4, <1>5, <1>6, <1>7
<1> QED BY <1>1, <1>8, <1>9, <1>10, <1>11, <1>12 DEF Rotated, m, b, p


LEMMA RotationKeepsTree ==
  ASSUME NEW t, NEW sub, IsTree(t, sub), NEW n \in DOMAIN t.heap, NEW s \in Sides,
         t.heap[n][s] # NULL, NEW u, Rotated(t, u, n, s)
  PROVE  LET m == t.heap[n][s]
         IN  IsTree(u, [sub EXCEPT ![m] = sub[n], ![n] = sub[n] \ ({m} \cup At(sub, t.heap[m][s]))])
<1> DEFINE o == Other(s)
           m == t.heap[n][s]
           b == t.heap[m][o]
           c == t.heap[m][s]
           a == t.heap[n][o]
           p == t.heap[n].parent
           D == DOMAIN t.heap
           sub2 == [sub EXCEPT ![m] = sub[n], ![n] = sub[n] \ ({m} \cup At(sub, c))]
<1>1. o \in Sides /\ Other(o) = s /\ Sides = {s, o} /\ s # o
      /\ {"llink", "rlink"} = {s, o} /\ s \notin {"key", "datum", "parent"}
      /\ o \notin {"key", "datum", "parent"}
  BY DEF Sides, Other
<1>2. /\ m \in D /\ m # n /\ t.heap[m].parent = n
      /\ b # NULL => b \in D /\ b # n /\ b # m /\ b # p /\ t.heap[b].parent = m
      /\ p # NULL => /\ p \in D /\ p # n /\ p # m
                     /\ t.heap[p].llink = n <=> t.heap[p].rlink # n
      /\ a # m /\ NULL \notin D
  BY AroundRotation, PointerAssumption DEF IsTree, IsHeap
<1>3. /\ DOMAIN u = DOMAIN t /\ DOMAIN u.heap = D
      /\ u.root = IF p = NULL THEN m ELSE t.root
      /\ \A x \in D :
           /\ DOMAIN u.heap[x] = DOMAIN t.heap[x]
           /\ \A f \in DOMAIN t.heap[x] \ {"parent", "llink", "rlink"} : u.heap[x][f] = t.heap[x][f]
           /\ u.heap[x].parent = IF x = n THEN m ELSE IF x = m THEN p
                                 ELSE IF x = b THEN n ELSE t.heap[x].parent
           /\ u.heap[x][o] = IF x = m THEN n
                             ELSE IF x = p /\ t.heap[p][o] = n THEN m ELSE t.heap[x][o]
           /\ u.heap[x][s] = IF x = n THEN b
                             ELSE IF x = p /\ t.heap[p][s] = n THEN m ELSE t.heap[x][s]
  BY DEF Rotated, SameNode
<1>4. /\ sub \in [D -> SUBSET D]
      /\ t.root # NULL => sub[t.root] = D
      /\ \A x \in D : sub[x] = {x} \cup At(sub, t.heap[x][s]) \cup At(sub, t.heap[x][o])
  <2>1. \A x \in D : sub[x] = {x} \cup At(sub, t.heap[x].llink) \cup At(sub, t.heap[x].rlink)
    BY DEF IsTree, Spans
  <2> QED BY <2>1 DEF IsTree, Spans, Sides, Other
<1> HIDE DEF o, m, b, c, a, p, D, sub2
<1>5. /\ sub[n] = {n} \cup At(sub, a) \cup sub[m] /\ sub[m] = {m} \cup At(sub, b) \cup At(sub, c)
      /\ n \notin sub[m] /\ n \notin At(sub, a) /\ At(sub, a) \cap sub[m] = {}
      /\ m \notin At(sub, b) /\ m \notin At(sub, c) /\ At(sub, b) \cap At(sub, c) = {}
      /\ c # NULL => c # b /\ c # n /\ c # m /\ c \in D
      /\ a # NULL => a # n /\ a # m /\ a \in D
  <2>1. sub[m] = At(sub, m)
    BY <1>2 DEF At
  <2>2. sub[n] = {n} \cup At(sub, a) \cup sub[m] /\ sub[m] = {m} \cup At(sub, b) \cup At(sub, c)
    BY <1>2, <1>4, <2>1 DEF D, m, a, b, c
  <2>3. n \notin At(sub, m) /\ At(sub, m) \cap At(sub, a) = {}
    BY <1>1, <1>2, TreeFacts DEF m, o, a
  <2>4. n \notin At(sub, a) /\ (a # NULL => a # n /\ a # m /\ a \in D)
    BY <1>1, <1>2, TreeFacts DEF m, o, a, D
  <2>5. m \notin At(sub, b) /\ At(sub, b) \cap At(sub, c) = {}
    BY <1>1, <1>2, TreeFacts DEF o, b, c, D
  <2>6. m \notin At(sub, c) /\ (c # NULL => c # b /\ c # m /\ c \in D /\ t.heap[c].parent = m)
    BY <1>1, <1>2, TreeFacts DEF o, b, c, D
  <2>7. c # NULL => c # n
    <3>1. c # NULL => c \in sub[m]
      BY <2>2, <2>6, <1>4 DEF At
    <3> QED BY <2>1, <2>3, <3>1
  <2> QED BY <2>1, <2>2, <2>3, <2>4, <2>5, <2>6, <2>7
<1>6. /\ sub2 \in [D -> SUBSET D] /\ sub2[m] = sub[n]
      /\ sub2[n] = {n} \cup At(sub, a) \cup At(sub, b)
      /\ \A x \in D \ {m, n} : sub2[x] = sub[x]
  BY <1>2, <1>4, <1>5 DEF sub2, D
<1>7. IsHeap(u)
  BY <1>3 DEF IsTree, IsHeap, D
<1>8. /\ IF t.root = NULL THEN D = {} ELSE t.root \in D /\ t.heap[t.root].parent = NULL
      /\ \A x \in D, r \in {s, o} :
           t.heap[x][r] # NULL => t.heap[x][r] \in D /\ t.heap[t.heap[x][r]].parent = x
      /\ \A x \in D : IF t.heap[x].parent = NULL THEN x = t.root
                      ELSE /\ t.heap[x].parent \in D
                           /\ \E r \in {s, o} : t.heap[t.heap[x].parent][r] = x
  BY <1>1 DEF IsTree, Linked, D
<1>9. n \in D /\ t.heap[n][s] = m /\ t.heap[n][o] = a /\ t.heap[m][o] = b /\ t.heap[m][s] = c
      /\ t.heap[n].parent = p
  BY DEF m, a, b, c, p, D
<1>10. Linked(u)
  <2>1. IF u.root = NULL THEN D = {} ELSE u.root \in D /\ u.heap[u.root].parent = NULL
    BY <1>2, <1>3, <1>8, <1>9
  <2>2. ASSUME NEW x \in D, u.heap[x][o] # NULL
        PROVE  u.heap[x][o] \in D /\ u.heap[u.heap[x][o]].parent = x
    BY <1>2, <1>3, <1>8, <1>9, <2>2
  <2>3. ASSUME NEW x \in D, u.heap[x][s] # NULL
        PROVE  u.heap[x][s] \in D /\ u.heap[u.heap[x][s]].parent = x
    BY <1>2, <1>3, <1>5, <1>8, <1>9, <2>3
  <2>4. ASSUME NEW x \in D
        PROVE  IF u.heap[x].parent = NULL THEN x = u.root
               ELSE u.heap[x].parent \in D /\ \E r \in {s, o} : u.heap[u.heap[x].parent][r] = x
    <3>1. CASE x \in {n, m} \/ (b # NULL /\ x = b)
      BY <1>2, <1>3, <1>8, <1>9, <3>1
    <3>2. CASE x \notin {n, m} /\ ~(b # NULL /\ x = b)
      BY <1>2, <1>3, <1>8, <1>9, <3>2
    <3> QED BY <3>1, <3>2
  <2> QED BY <1>1, <1>3, <2>1, <2>2, <2>3, <2>4 DEF Linked
<1>11. \A x \in D \ {m, n}, r \in {s, o} : At(sub2, u.heap[x][r]) = At(sub, t.heap[x][r])
  <2> SUFFICES ASSUME NEW x \in D, x # m, x # n, NEW r \in {s, o}
               PROVE  At(sub2, u.heap[x][r]) = At(sub, t.heap[x][r])
    OBVIOUS
  <2>1. t.heap[x][r] # m
    BY <1>2, <1>8, <1>9
  <2>2. CASE t.heap[x][r] = n
    <3>1. x = p /\ x # NULL
      BY <1>2, <1>8, <1>9, <2>2
    <3>2. u.heap[x][r] = m
      BY <1>3, <2>2, <3>1
    <3>3. m # NULL /\ n # NULL
      BY <1>2, <1>9
    <3> QED BY <1>6, <2>2, <3>2, <3>3 DEF At
  <2>3. CASE t.heap[x][r] # n
    <3>1. u.heap[x][r] = t.heap[x][r]
      BY <1>3, <2>3
    <3>2. t.heap[x][r] # NULL => t.heap[x][r] \in D
      BY <1>8
    <3> QED BY <1>6, <2>1, <2>3, <3>1, <3>2 DEF At
  <2> QED BY <2>2, <2>3
<1>12. /\ At(sub2, u.heap[m][o]) = {n} \cup At(sub, a) \cup At(sub, b)
       /\ At(sub2, u.heap[m][s]) = At(sub, c)
       /\ At(sub2, u.heap[n][o]) = At(sub, a)
       /\ At(sub2, u.heap[n][s]) = At(sub, b)
  BY <1>2, <1>3, <1>5, <1>6, <1>9 DEF At
<1>13. Spans(u, sub2)
  <2>1. u.root # NULL => sub2[u.root] = D
    BY <1>2, <1>3, <1>4, <1>6, <1>8, <1>9
  <2>2. \A x \in D : sub2[x] = {x} \cup At(sub2, u.heap[x][s]) \cup At(sub2, u.heap[x][o])
    BY <1>2, <1>4, <1>5, <1>6, <1>11, <1>12
  <2>3. \A x \in D : sub2[x] = {x} \cup At(sub2, u.heap[x].llink) \cup At(sub2, u.heap[x].rlink)
    BY <2>2 DEF Other, Sides, o
  <2> QED BY <1>3, <1>6, <2>1, <2>3 DEF Spans
<1>14. Sorted(u, sub2)
  <2> DEFINE key(x) == t.heap[x].key
  <2>1. \A x \in D : u.heap[x].key = key(x) /\ key(x) \in Int
    BY <1>3 DEF IsTree, IsHeap, D
  <2>2. \A x \in D, r \in {s, o} : \A y \in At(sub, t.heap[x][r]) : y \in D /\ Less(r, key(y), key(x))
    BY <1>1, <1>4 DEF IsTree, Sorted, D
  <2> HIDE DEF key
  <2>3. \A x \in D \ {m, n}, r \in {s, o} :
          \A y \in At(sub2, u.heap[x][r]) : y \in D /\ Less(r, key(y), key(x))
    BY <1>11, <2>2
  <2>4. \A i, j, k \in Int, r \in {s, o} :
          /\ Less(s, i, j) => Less(o, j, i)
          /\ Less(r, i, j) /\ Less(r, j, k) => Less(r, i, k)
    BY <1>1 DEF Less, Sides, Other, o
  <2>5. Less(o, key(n), key(m))
    <3>1. m \in At(sub, t.heap[n][s])
      BY <1>2, <1>5, <1>9 DEF At
    <3> QED BY <1>2, <1>9, <2>1, <2>2, <2>4, <3>1
  <2>6. \A y \in At(sub, a) : y \in D /\ Less(o, key(y), key(n)) /\ Less(o, key(y), key(m))
    BY <1>2, <1>9, <2>1, <2>2, <2>4, <2>5
  <2>7. \A y \in At(sub, b) : y \in D /\ Less(o, key(y), key(m)) /\ Less(s, key(y), key(n))
    <3>1. At(sub, b) \subseteq At(sub, t.heap[n][s])
      BY <1>2, <1>5, <1>9 DEF At
    <3> QED BY <1>2, <1>9, <2>2, <3>1
  <2>8. \A y \in At(sub, c) : y \in D /\ Less(s, key(y), key(m))
    BY <1>2, <1>9, <2>2
  <2>9. \A x \in D, r \in {s, o} :
          \A y \in At(sub2, u.heap[x][r]) : y \in D /\ Less(r, key(y), key(x))
    BY <1>12, <2>3, <2>5, <2>6, <2>7, <2>8, <1>9
  <2> QED BY <1>1, <1>3, <2>1, <2>9 DEF Sorted
<1> QED BY <1>7, <1>10, <1>13, <1>14 DEF IsTree, sub2, m, c


----------------------------------------------------------------------------
(* A new leaf *)

\* The free place at the end of the search for k: below p, and p is where k belongs for
\* every node above it.
SideOf(t, k, p) == IF k < t.heap[p].key THEN "llink" ELSE "rlink"

IsPlaceOf(t, sub, k, p) ==
  IF t.root = NULL THEN p = NULL
  ELSE /\ p \in DOMAIN t.heap
       /\ t.heap[p].key # k /\ t.heap[p][SideOf(t, k, p)] = NULL
       /\ \A x \in DOMAIN t.heap, s \in Sides :
            p \in At(sub, t.heap[x][s]) => Less(s, k, t.heap[x].key)

WithLeaf(t, sub, a, p) ==
  [x \in DOMAIN t.heap \cup {a} |-> IF x = a THEN {a}
                                    ELSE IF p \in sub[x] THEN sub[x] \cup {a} ELSE sub[x]]

\* The only link that changes is the one to the leaf a, where there was none.
LeafLinks(t, u, a, k, p) ==
  /\ p # NULL => t.heap[p][SideOf(t, k, p)] = NULL
  /\ \A x \in DOMAIN t.heap, r \in Sides :
       u.heap[x][r] = IF x = p /\ r = SideOf(t, k, p) THEN a ELSE t.heap[x][r]

LEMMA AttachKeepsTree ==
  ASSUME NEW t, NEW sub, IsTree(t, sub), NEW a \in Addresses, a \notin DOMAIN t.heap,
         NEW node, {"key", "datum", "parent", "llink", "rlink"} \subseteq DOMAIN node,
         node.key \in Int, node.llink = NULL, node.rlink = NULL,
         IsPlaceOf(t, sub, node.key, node.parent)
  PROVE  LET u == Attach(t, a, node)
         IN  /\ IsTree(u, WithLeaf(t, sub, a, node.parent))
             /\ u.count = t.count /\ DOMAIN u.heap = DOMAIN t.heap \cup {a}
             /\ u.heap[a] = node
             /\ \A x \in DOMAIN t.heap : SameNode(t, u, x) /\ u.heap[x].parent = t.heap[x].parent
             /\ LeafLinks(t, u, a, node.key, node.parent)
<1> DEFINE D == DOMAIN t.heap
           p == node.parent
           k == node.key
           s == SideOf(t, k, p)
           o == Other(s)
           t1 == [t EXCEPT !.heap = [n \in DOMAIN @ \cup {a} |-> IF n = a THEN node ELSE @[n]]]
           u == Attach(t, a, node)
           sub2 == WithLeaf(t, sub, a, p)
<1>1. s \in Sides /\ o \in Sides /\ o # s /\ Sides = {s, o} /\ {"llink", "rlink"} = {s, o}
      /\ s \notin {"key", "datum", "parent"} /\ o \notin {"key", "datum", "parent"}
  BY DEF Sides, Other, SideOf
<1>2. NULL \notin D /\ a # NULL /\ (p = NULL <=> t.root = NULL) /\ (p # NULL => p \in D)
      /\ (p = NULL => D = {})
  BY PointerAssumption DEF IsTree, IsHeap, Linked, IsPlaceOf
<1>3. /\ DOMAIN t = {"root", "count", "heap"} /\ a \notin D
      /\ \A x \in D : {"key", "datum", "parent", "llink", "rlink"} \subseteq DOMAIN t.heap[x]
  BY DEF IsTree, IsHeap
<1>4. /\ DOMAIN t1 = DOMAIN t /\ t1.root = t.root /\ t1.count = t.count
      /\ DOMAIN t1.heap = D \cup {a} /\ t1.heap[a] = node
      /\ \A x \in D : t1.heap[x] = t.heap[x]
  BY <1>3
<1> HIDE DEF t1
<1>5. /\ DOMAIN u = DOMAIN t /\ u.count = t.count
      /\ u.root = (IF p = NULL THEN a ELSE t.root)
      /\ DOMAIN u.heap = D \cup {a} /\ u.heap[a] = node
      /\ \A x \in D \ {p} : u.heap[x] = t.heap[x]
  BY <1>2, <1>3, <1>4 DEF Attach, t1
<1>6. p # NULL => /\ DOMAIN u.heap[p] = DOMAIN t.heap[p] /\ u.heap[p][s] = a
                  /\ \A f \in DOMAIN t.heap[p] \ {s} : u.heap[p][f] = t.heap[p][f]
  BY <1>2, <1>3, <1>4 DEF Attach, t1, SideOf
<1>7. \A x \in D : SameNode(t, u, x) /\ u.heap[x].parent = t.heap[x].parent
  <2> SUFFICES ASSUME NEW x \in D
               PROVE  SameNode(t, u, x) /\ u.heap[x].parent = t.heap[x].parent
    OBVIOUS
  <2> HIDE DEF u, s, o, k, p
  <2>1. CASE x = p
    BY <1>1, <1>2, <1>3, <1>6, <2>1 DEF SameNode
  <2>2. CASE x # p
    BY <1>5, <2>2 DEF SameNode
  <2> QED BY <2>1, <2>2
<1>8. IsHeap(u)
  <2>1. IsFiniteSet(D \cup {a})
    BY FS_AddElement DEF IsTree, IsHeap
  <2> QED BY <2>1, <1>5, <1>7 DEF IsTree, IsHeap, SameNode
<1> HIDE DEF D, p, k, s, o, u, sub2
<1>9. node.parent = p /\ node.key = k
  BY DEF p, k
<1>10. \A x \in D, r \in Sides :
         u.heap[x][r] = IF x = p /\ r = s THEN a ELSE t.heap[x][r]
  BY <1>1, <1>2, <1>3, <1>5, <1>6
<1>11. /\ p # NULL => t.heap[p][s] = NULL
       /\ \A x \in D, r \in Sides : t.heap[x][r] # NULL => t.heap[x][r] \in D /\ t.heap[t.heap[x][r]].parent = x
       /\ \A x \in D : IF t.heap[x].parent = NULL THEN x = t.root
                       ELSE /\ t.heap[x].parent \in D
                            /\ \E r \in Sides : t.heap[t.heap[x].parent][r] = x
       /\ t.root # NULL => t.root \in D /\ t.heap[t.root].parent = NULL
  BY <1>2 DEF IsTree, Linked, IsPlaceOf, D, p, s, k
<1>12. Linked(u)
  <2>1. u.root \in D \cup {a} /\ u.root # NULL /\ u.heap[u.root].parent = NULL
    BY <1>2, <1>5, <1>7, <1>9, <1>11
  <2>2. \A x \in D \cup {a}, r \in Sides :
          u.heap[x][r] # NULL => u.heap[x][r] \in D \cup {a} /\ u.heap[u.heap[x][r]].parent = x
    <3>1. \A r \in Sides : u.heap[a][r] = NULL
      BY <1>5 DEF Sides
    <3>2. ASSUME NEW x \in D, NEW r \in Sides, u.heap[x][r] # NULL
          PROVE  u.heap[x][r] \in D \cup {a} /\ u.heap[u.heap[x][r]].parent = x
      BY <1>5, <1>7, <1>9, <1>10, <1>11, <3>2
    <3> QED BY <3>1, <3>2
  <2>3. \A x \in D \cup {a} : IF u.heap[x].parent = NULL THEN x = u.root
                              ELSE /\ u.heap[x].parent \in D \cup {a}
                                   /\ \E r \in Sides : u.heap[u.heap[x].parent][r] = x
    <3>1. CASE p = NULL
      BY <1>2, <1>5, <1>9, <3>1
    <3>2. ASSUME p # NULL, NEW x \in D
          PROVE  IF u.heap[x].parent = NULL THEN x = u.root
                 ELSE /\ u.heap[x].parent \in D \cup {a}
                      /\ \E r \in Sides : u.heap[u.heap[x].parent][r] = x
      BY <1>2, <1>5, <1>7, <1>10, <1>11, <3>2
    <3>3. p # NULL => p \in D /\ u.heap[p][s] = a /\ u.heap[a].parent = p
      BY <1>1, <1>2, <1>5, <1>9, <1>10
    <3> QED BY <1>1, <3>1, <3>2, <3>3
  <2> QED BY <1>5, <2>1, <2>2, <2>3 DEF Linked
<1>13. /\ sub2 \in [D \cup {a} -> SUBSET (D \cup {a})] /\ sub2[a] = {a}
       /\ \A x \in D : sub2[x] = IF p \in sub[x] THEN sub[x] \cup {a} ELSE sub[x]
       /\ sub \in [D -> SUBSET D] /\ (t.root # NULL => sub[t.root] = D)
       /\ \A x \in D : sub[x] = {x} \cup At(sub, t.heap[x].llink) \cup At(sub, t.heap[x].rlink)
  BY <1>3 DEF sub2, WithLeaf, IsTree, Spans, D
<1>14. \A x \in D, r \in Sides :
         At(sub2, u.heap[x][r]) =
           IF x = p /\ r = s THEN {a}
           ELSE IF p \in At(sub, t.heap[x][r]) THEN At(sub, t.heap[x][r]) \cup {a}
           ELSE At(sub, t.heap[x][r])
  <2> SUFFICES ASSUME NEW x \in D, NEW r \in Sides
               PROVE  At(sub2, u.heap[x][r]) =
                        IF x = p /\ r = s THEN {a}
                        ELSE IF p \in At(sub, t.heap[x][r]) THEN At(sub, t.heap[x][r]) \cup {a}
                        ELSE At(sub, t.heap[x][r])
    OBVIOUS
  <2>1. CASE x = p /\ r = s
    BY <1>2, <1>10, <1>13, <2>1 DEF At
  <2>2. CASE ~(x = p /\ r = s) /\ t.heap[x][r] = NULL
    BY <1>10, <2>2 DEF At
  <2>3. CASE ~(x = p /\ r = s) /\ t.heap[x][r] # NULL
    <3>1. u.heap[x][r] = t.heap[x][r] /\ t.heap[x][r] \in D
      BY <1>10, <1>11, <2>3
    <3> QED BY <1>13, <2>3, <3>1 DEF At
  <2> QED BY <2>1, <2>2, <2>3
<1>15. p # NULL => p \notin At(sub, t.heap[p].llink) /\ p \notin At(sub, t.heap[p].rlink)
                   /\ At(sub, t.heap[p][s]) = {}
  <2>1. p # NULL => \A r \in Sides : p \notin At(sub, t.heap[p][r])
    BY <1>2, TreeFacts DEF D
  <2> QED BY <1>11, <2>1 DEF Sides, At
<1>16. Spans(u, sub2)
  <2>1. sub2[u.root] = D \cup {a}
    BY <1>2, <1>5, <1>11, <1>13
  <2>2. sub2[a] = {a} \cup At(sub2, u.heap[a].llink) \cup At(sub2, u.heap[a].rlink)
    BY <1>5, <1>13 DEF At
  <2>3. ASSUME NEW x \in D
        PROVE  sub2[x] = {x} \cup At(sub2, u.heap[x].llink) \cup At(sub2, u.heap[x].rlink)
    <3>1. sub2[x] = {x} \cup At(sub2, u.heap[x][s]) \cup At(sub2, u.heap[x][o])
      <4>1. sub[x] = {x} \cup At(sub, t.heap[x][s]) \cup At(sub, t.heap[x][o])
        BY <1>13 DEF Sides, Other, SideOf, o, s
      <4>2. CASE x = p
        <5>1. p \in sub[p] /\ x # NULL /\ p \notin At(sub, t.heap[p][o]) /\ At(sub, t.heap[x][s]) = {}
          BY <1>1, <1>2, <1>13, <1>15, <4>2 DEF Sides
        <5>2. At(sub2, u.heap[x][s]) = {a} /\ At(sub2, u.heap[x][o]) = At(sub, t.heap[x][o])
          BY <1>1, <1>14, <4>2, <5>1
        <5> QED BY <1>13, <4>1, <4>2, <5>1, <5>2
      <4>3. CASE x # p
        <5> DEFINE S == At(sub, t.heap[x][s])
                   O == At(sub, t.heap[x][o])
        <5>1. /\ At(sub2, u.heap[x][s]) = IF p \in S THEN S \cup {a} ELSE S
              /\ At(sub2, u.heap[x][o]) = IF p \in O THEN O \cup {a} ELSE O
          BY <1>1, <1>14, <4>3
        <5>2. sub[x] = {x} \cup S \cup O /\ sub2[x] = IF p \in sub[x] THEN sub[x] \cup {a} ELSE sub[x]
          BY <1>13, <4>1
        <5> HIDE DEF S, O
        <5> QED BY <4>3, <5>1, <5>2
      <4> QED BY <4>2, <4>3
    <3> QED BY <3>1 DEF Sides, Other, SideOf, s, o
  <2> QED BY <1>5, <1>13, <2>1, <2>2, <2>3 DEF Spans
<1>17. Sorted(u, sub2)
  <2>1. \A x \in D : u.heap[x].key = t.heap[x].key /\ t.heap[x].key \in Int
    BY <1>3, <1>7 DEF SameNode, IsTree, IsHeap, D
  <2>2. u.heap[a].key = k /\ k \in Int
    BY <1>5, <1>9
  <2>3. \A x \in D, r \in Sides : \A y \in At(sub, t.heap[x][r]) : y \in D /\ Less(r, t.heap[y].key, t.heap[x].key)
    BY <1>13 DEF IsTree, Sorted, D, Sides
  <2>4. /\ p # NULL => Less(s, k, t.heap[p].key)
        /\ \A x \in D, r \in Sides : p \in At(sub, t.heap[x][r]) => Less(r, k, t.heap[x].key)
    <3>1. p # NULL => t.heap[p].key # k /\ t.heap[p].key \in Int
      BY <1>2, <2>1 DEF IsPlaceOf, p, k
    <3>2. \A x \in D, r \in Sides : p \in At(sub, t.heap[x][r]) => Less(r, k, t.heap[x].key)
      BY <1>2 DEF IsPlaceOf, p, k, D
    <3>3. p # NULL => Less(s, k, t.heap[p].key)
      BY <2>2, <3>1 DEF Less, SideOf, s
    <3> QED BY <3>2, <3>3
  <2>5. ASSUME NEW x \in D, NEW r \in Sides, NEW y \in At(sub2, u.heap[x][r])
        PROVE  Less(r, u.heap[y].key, u.heap[x].key)
    <3>1. CASE x = p /\ r = s
      <4>1. y = a /\ p # NULL
        BY <1>2, <1>14, <2>5, <3>1
      <4> QED BY <2>1, <2>2, <2>4, <3>1, <4>1
    <3>2. CASE ~(x = p /\ r = s) /\ y # a
      <4>1. y \in At(sub, t.heap[x][r])
        BY <1>14, <2>5, <3>2
      <4>2. y \in D /\ Less(r, t.heap[y].key, t.heap[x].key)
        BY <2>3, <4>1
      <4> QED BY <2>1, <4>2
    <3>3. CASE ~(x = p /\ r = s) /\ y = a
      <4>1. a \notin At(sub, t.heap[x][r])
        BY <1>3, <2>3
      <4>2. p \in At(sub, t.heap[x][r])
        BY <1>14, <2>5, <3>3, <4>1
      <4> QED BY <2>1, <2>2, <2>4, <3>3, <4>2
    <3> QED BY <3>1, <3>2, <3>3
  <2>6. \A r \in Sides : At(sub2, u.heap[a][r]) = {}
    BY <1>5 DEF At, Sides
  <2> QED BY <1>5, <2>5, <2>6 DEF Sorted
<1>18. LeafLinks(t, u, a, k, p)
  BY <1>10, <1>11 DEF LeafLinks, s, D
<1> QED BY <1>5, <1>7, <1>8, <1>12, <1>16, <1>17, <1>18 DEF IsTree, u, sub2, p, k, D


----------------------------------------------------------------------------
(* A node that goes *)

OnlyChild(t, n) == IF t.heap[n].llink # NULL THEN t.heap[n].llink ELSE t.heap[n].rlink

WithoutNode(t, sub, n) == [x \in DOMAIN t.heap \ {n} |-> sub[x] \ {n}]

\* What Splice does, field by field.
Spliced(t, u, n) ==
  LET p == t.heap[n].parent
      c == OnlyChild(t, n)
  IN  /\ DOMAIN u = DOMAIN t /\ DOMAIN u.heap = DOMAIN t.heap \ {n}
      /\ u.count = t.count /\ u.root = IF p = NULL THEN c ELSE t.root
      /\ \A x \in DOMAIN t.heap \ {n} :
           /\ SameNode(t, u, x)
           /\ u.heap[x].parent = IF x = c THEN p ELSE t.heap[x].parent
           /\ \A r \in Sides :
                u.heap[x][r] = IF x = p /\ t.heap[p][r] = n THEN c ELSE t.heap[x][r]

\* The nodes around one with at most one child, where parents and children agree.
SplicePlace(t, n) ==
  LET p == t.heap[n].parent
      c == OnlyChild(t, n)
  IN  /\ c # NULL => c \in DOMAIN t.heap /\ c # n
      /\ p # NULL => /\ p \in DOMAIN t.heap /\ p # n
                     /\ t.heap[p].llink = n <=> t.heap[p].rlink # n

LEMMA AroundSplice ==
  ASSUME NEW t, NEW sub, IsTree(t, sub), NEW n \in DOMAIN t.heap
  PROVE  SplicePlace(t, n)
<1> DEFINE p == t.heap[n].parent
           c == OnlyChild(t, n)
<1>1. c # NULL => c \in DOMAIN t.heap /\ c # n
  BY TreeFacts DEF OnlyChild, Sides
<1>2. p # NULL => p \in DOMAIN t.heap /\ p # n /\ (t.heap[p].llink = n <=> t.heap[p].rlink # n)
  <2> SUFFICES ASSUME p # NULL
               PROVE  p \in DOMAIN t.heap /\ p # n /\ (t.heap[p].llink = n <=> t.heap[p].rlink # n)
    OBVIOUS
  <2>1. PICK r \in Sides : t.heap[p][r] = n
    BY DEF IsTree, Linked
  <2>2. n # NULL /\ p \in DOMAIN t.heap
    BY PointerAssumption DEF IsTree, IsHeap, Linked
  <2>3. p # n /\ n # t.heap[p][Other(r)]
    BY <2>1, <2>2, TreeFacts
  <2> QED BY <2>1, <2>2, <2>3 DEF Sides, Other
<1> QED BY <1>1, <1>2 DEF SplicePlace

LEMMA SpliceIs ==
  ASSUME NEW t, IsHeap(t), NEW n \in DOMAIN t.heap, SplicePlace(t, n)
  PROVE  Spliced(t, Splice(t, n), n)
<1> DEFINE D == DOMAIN t.heap
           p == t.heap[n].parent
           c == OnlyChild(t, n)
           t0 == SetParent(t, c, p)
           t1 == Relink(t0, p, n, c)
           u == Splice(t, n)
<1>1. /\ DOMAIN t = {"root", "count", "heap"} /\ NULL \notin D
      /\ \A x \in D : {"key", "datum", "parent", "llink", "rlink"} \subseteq DOMAIN t.heap[x]
  BY PointerAssumption DEF IsHeap
<1>2. c # NULL => c \in D /\ c # n
  BY DEF SplicePlace
<1>3. p # NULL => p \in D /\ p # n /\ (t.heap[p].llink = n <=> t.heap[p].rlink # n)
  BY DEF SplicePlace
<1> HIDE DEF c
<1>4. /\ DOMAIN t0 = DOMAIN t /\ DOMAIN t0.heap = D
      /\ t0.root = t.root /\ t0.count = t.count
      /\ \A x \in D :
           /\ DOMAIN t0.heap[x] = DOMAIN t.heap[x]
           /\ \A f \in DOMAIN t.heap[x] \ {"parent"} : t0.heap[x][f] = t.heap[x][f]
           /\ t0.heap[x].parent = IF x = c THEN p ELSE t.heap[x].parent
  BY <1>1, <1>2 DEF SetParent
<1> HIDE DEF t0, p
<1>5. /\ DOMAIN t1 = DOMAIN t /\ DOMAIN t1.heap = D
      /\ t1.count = t.count /\ t1.root = IF p = NULL THEN c ELSE t.root
      /\ \A x \in D :
           /\ DOMAIN t1.heap[x] = DOMAIN t.heap[x]
           /\ \A f \in DOMAIN t.heap[x] \ {"llink", "rlink"} : t1.heap[x][f] = t0.heap[x][f]
           /\ t1.heap[x].llink = IF x = p /\ t.heap[p].llink = n THEN c ELSE t.heap[x].llink
           /\ t1.heap[x].rlink = IF x = p /\ t.heap[p].llink # n THEN c ELSE t.heap[x].rlink
  BY <1>1, <1>3, <1>4 DEF Relink
<1>6. u = [t1 EXCEPT !.heap = Restrict(@, DOMAIN @ \ {n})]
  BY DEF Splice, t1, t0, c, p, OnlyChild
<1> HIDE DEF t1, u
<1>7. /\ DOMAIN u = DOMAIN t /\ DOMAIN u.heap = D \ {n}
      /\ u.count = t.count /\ u.root = IF p = NULL THEN c ELSE t.root
      /\ \A x \in D \ {n} : u.heap[x] = t1.heap[x]
  BY <1>1, <1>5, <1>6 DEF Restrict
<1>8. /\ DOMAIN u = DOMAIN t /\ DOMAIN u.heap = D \ {n}
      /\ u.count = t.count /\ u.root = IF p = NULL THEN c ELSE t.root
      /\ \A x \in D \ {n} :
           /\ SameNode(t, u, x)
           /\ u.heap[x].parent = IF x = c THEN p ELSE t.heap[x].parent
           /\ \A r \in Sides : u.heap[x][r] = IF x = p /\ t.heap[p][r] = n THEN c ELSE t.heap[x][r]
  <2> SUFFICES ASSUME NEW x \in D \ {n}
               PROVE  /\ SameNode(t, u, x)
                      /\ u.heap[x].parent = IF x = c THEN p ELSE t.heap[x].parent
                      /\ \A r \in Sides : u.heap[x][r] = IF x = p /\ t.heap[p][r] = n THEN c ELSE t.heap[x][r]
    BY <1>7
  <2>1. SameNode(t, u, x)
    BY <1>1, <1>4, <1>5, <1>7 DEF SameNode
  <2>2. u.heap[x].parent = IF x = c THEN p ELSE t.heap[x].parent
    BY <1>1, <1>4, <1>5, <1>7
  <2>3. /\ u.heap[x].llink = IF x = p /\ t.heap[p].llink = n THEN c ELSE t.heap[x].llink
        /\ u.heap[x].rlink = IF x = p /\ t.heap[p].rlink = n THEN c ELSE t.heap[x].rlink
    BY <1>1, <1>3, <1>5, <1>7
  <2> QED BY <2>1, <2>2, <2>3 DEF Sides
<1> HIDE DEF D
<1> QED BY <1>8 DEF Spliced, u, c, p, D

LEMMA SpliceKeepsTree ==
  ASSUME NEW t, NEW sub, IsTree(t, sub), NEW n \in DOMAIN t.heap,
         NULL \in {t.heap[n].llink, t.heap[n].rlink}
  PROVE  LET u == Splice(t, n)
         IN  /\ IsTree(u, WithoutNode(t, sub, n))
             /\ u.count = t.count /\ DOMAIN u.heap = DOMAIN t.heap \ {n}
             /\ \A x \in DOMAIN t.heap \ {n} :
                  /\ SameNode(t, u, x)
                  /\ u.heap[x].parent = IF x = OnlyChild(t, n) THEN t.heap[n].parent
                                        ELSE t.heap[x].parent
<1> DEFINE D == DOMAIN t.heap
           p == t.heap[n].parent
           c == OnlyChild(t, n)
           u == Splice(t, n)
           sub2 == WithoutNode(t, sub, n)
<1>1. /\ DOMAIN t = {"root", "count", "heap"} /\ NULL \notin D
      /\ \A x \in D : {"key", "datum", "parent", "llink", "rlink"} \subseteq DOMAIN t.heap[x]
  BY PointerAssumption DEF IsTree, IsHeap
<1>2. /\ t.root # NULL /\ t.root \in D /\ t.heap[t.root].parent = NULL
      /\ \A x \in D, r \in Sides : t.heap[x][r] # NULL => t.heap[x][r] \in D /\ t.heap[t.heap[x][r]].parent = x
      /\ \A x \in D : IF t.heap[x].parent = NULL THEN x = t.root
                      ELSE /\ t.heap[x].parent \in D
                           /\ \E r \in Sides : t.heap[t.heap[x].parent][r] = x
  BY DEF IsTree, Linked
<1>3. /\ sub \in [D -> SUBSET D] /\ sub[t.root] = D
      /\ \A x \in D : sub[x] = {x} \cup At(sub, t.heap[x].llink) \cup At(sub, t.heap[x].rlink)
  BY <1>2 DEF IsTree, Spans
<1>4. /\ c # NULL => c \in D /\ c # n /\ t.heap[c].parent = n
      /\ n \notin At(sub, c) /\ sub[n] = {n} \cup At(sub, c)
      /\ \A r \in Sides : t.heap[n][r] \in {c, NULL}
  <2>1. \A r \in Sides : /\ n \notin At(sub, t.heap[n][r])
                         /\ t.heap[n][r] # NULL => t.heap[n][r] \in D /\ t.heap[n][r] # n /\ t.heap[t.heap[n][r]].parent = n
    BY TreeFacts
  <2>2. \A r \in Sides : t.heap[n][r] \in {c, NULL}
    BY DEF Sides, OnlyChild
  <2>3. c = t.heap[n].llink \/ c = t.heap[n].rlink
    BY DEF OnlyChild
  <2> HIDE DEF c
  <2>4. sub[n] = {n} \cup At(sub, c)
    BY <1>3, <2>2, <2>3 DEF Sides, At
  <2> QED BY <2>1, <2>2, <2>3, <2>4 DEF Sides
<1>5. p # NULL => p \in D /\ p # n /\ (t.heap[p].llink = n <=> t.heap[p].rlink # n)
  BY AroundSplice DEF SplicePlace
<1>6. /\ DOMAIN u = DOMAIN t /\ DOMAIN u.heap = D \ {n}
      /\ u.count = t.count /\ u.root = IF p = NULL THEN c ELSE t.root
      /\ \A x \in D \ {n} :
           /\ SameNode(t, u, x)
           /\ u.heap[x].parent = IF x = c THEN p ELSE t.heap[x].parent
           /\ \A r \in Sides : u.heap[x][r] = IF x = p /\ t.heap[p][r] = n THEN c ELSE t.heap[x][r]
  <2>1. SplicePlace(t, n)
    BY AroundSplice
  <2>2. IsHeap(t)
    BY DEF IsTree
  <2>3. Spliced(t, u, n)
    BY <2>1, <2>2, SpliceIs
  <2> QED BY <2>3 DEF Spliced
<1> HIDE DEF c, p, u
<1>7. IsHeap(u)
  <2>1. IsFiniteSet(D \ {n})
    BY FS_Subset DEF IsTree, IsHeap
  <2> QED BY <2>1, <1>6 DEF IsTree, IsHeap, SameNode
<1>8. n \in D /\ t.heap[n].parent = p
  BY DEF p
<1> HIDE DEF D, sub2
<1>9. sub2 \in [D \ {n} -> SUBSET (D \ {n})] /\ \A x \in D \ {n} : sub2[x] = sub[x] \ {n}
  BY <1>3 DEF sub2, WithoutNode, D
<1>10. Linked(u)
  <2>1. IF u.root = NULL THEN D \ {n} = {} ELSE u.root \in D \ {n} /\ u.heap[u.root].parent = NULL
    <3>1. CASE p = NULL /\ c = NULL
      <4>1. t.root = n /\ u.root = NULL
        BY <1>2, <1>6, <1>8, <3>1
      <4>2. sub[n] = {n} /\ sub[n] = D
        BY <1>3, <1>4, <1>1, <1>8, <3>1, <4>1 DEF At
      <4>3. D \ {n} = {}
        BY <4>2
      <4> QED BY <4>1, <4>3
    <3>2. CASE p = NULL /\ c # NULL
      BY <1>4, <1>6, <3>2
    <3>3. CASE p # NULL
      <4>1. u.root = t.root /\ t.root \in D \ {n} /\ t.root # c
        BY <1>1, <1>2, <1>4, <1>6, <1>8, <3>3
      <4>2. u.heap[t.root].parent = NULL
        BY <1>2, <1>6, <4>1
      <4> QED BY <1>2, <4>1, <4>2
    <3> QED BY <3>1, <3>2, <3>3
  <2>2. ASSUME NEW x \in D \ {n}, NEW r \in Sides, u.heap[x][r] # NULL
        PROVE  u.heap[x][r] \in D \ {n} /\ u.heap[u.heap[x][r]].parent = x
    BY <1>2, <1>4, <1>6, <1>8, <2>2
  <2>3. ASSUME NEW x \in D \ {n}
        PROVE  IF u.heap[x].parent = NULL THEN x = u.root
               ELSE /\ u.heap[x].parent \in D \ {n}
                    /\ \E r \in Sides : u.heap[u.heap[x].parent][r] = x
    <3>1. CASE x = c
      BY <1>2, <1>4, <1>5, <1>6, <1>8, <2>3, <3>1
    <3>2. CASE x # c /\ t.heap[x].parent = NULL
      BY <1>2, <1>6, <1>8, <2>3, <3>2
    <3>3. CASE x # c /\ t.heap[x].parent # NULL
      <4>1. PICK r \in Sides : t.heap[t.heap[x].parent][r] = x
        BY <1>2, <2>3, <3>3
      <4>2. t.heap[x].parent \in D \ {n}
        BY <1>1, <1>2, <1>4, <2>3, <3>3, <4>1
      <4>3. u.heap[t.heap[x].parent][r] = x
        BY <1>6, <2>3, <4>1, <4>2
      <4> QED BY <1>6, <2>3, <3>3, <4>2, <4>3
    <3> QED BY <3>1, <3>2, <3>3
  <2> QED BY <1>6, <2>1, <2>2, <2>3 DEF Linked
<1>11. \A x \in D \ {n}, r \in Sides : At(sub2, u.heap[x][r]) = At(sub, t.heap[x][r]) \ {n}
  <2> SUFFICES ASSUME NEW x \in D \ {n}, NEW r \in Sides
               PROVE  At(sub2, u.heap[x][r]) = At(sub, t.heap[x][r]) \ {n}
    OBVIOUS
  <2>1. CASE t.heap[x][r] = NULL
    <3>1. u.heap[x][r] = NULL
      BY <1>1, <1>6, <1>8, <2>1
    <3> QED BY <2>1, <3>1 DEF At
  <2>2. CASE t.heap[x][r] = n
    <3>1. u.heap[x][r] = c
      BY <1>1, <1>2, <1>6, <1>8, <2>2
    <3>2. At(sub, t.heap[x][r]) \ {n} = At(sub, c)
      BY <1>1, <1>4, <1>8, <2>2 DEF At
    <3>3. At(sub2, c) = At(sub, c)
      <4>1. CASE c = NULL
        BY <4>1 DEF At
      <4>2. CASE c # NULL
        <5>1. At(sub2, c) = sub[c] \ {n} /\ At(sub, c) = sub[c]
          BY <1>4, <1>9, <4>2 DEF At
        <5> QED BY <1>4, <5>1
      <4> QED BY <4>1, <4>2
    <3> QED BY <3>1, <3>2, <3>3
  <2>3. CASE t.heap[x][r] # NULL /\ t.heap[x][r] # n
    <3>1. u.heap[x][r] = t.heap[x][r] /\ t.heap[x][r] \in D \ {n}
      BY <1>2, <1>6, <2>3
    <3> QED BY <1>9, <2>3, <3>1 DEF At
  <2> QED BY <2>1, <2>2, <2>3
<1>12. Spans(u, sub2)
  <2>1. u.root # NULL => sub2[u.root] = D \ {n}
    <3>1. CASE p = NULL /\ c # NULL
      <4>1. sub[c] = D \ {n} /\ u.root = c
        BY <1>2, <1>3, <1>4, <1>6, <1>8, <3>1 DEF At
      <4> QED BY <1>4, <1>9, <3>1, <4>1
    <3>2. CASE p # NULL
      BY <1>2, <1>3, <1>6, <1>8, <1>9, <3>2
    <3> QED BY <1>6, <3>1, <3>2
  <2>2. ASSUME NEW x \in D \ {n}
        PROVE  sub2[x] = {x} \cup At(sub2, u.heap[x].llink) \cup At(sub2, u.heap[x].rlink)
    <3>1. /\ At(sub2, u.heap[x].llink) = At(sub, t.heap[x].llink) \ {n}
          /\ At(sub2, u.heap[x].rlink) = At(sub, t.heap[x].rlink) \ {n}
      BY <1>11 DEF Sides
    <3>2. sub2[x] = sub[x] \ {n} /\ sub[x] = {x} \cup At(sub, t.heap[x].llink) \cup At(sub, t.heap[x].rlink)
      BY <1>3, <1>9
    <3> QED BY <3>1, <3>2
  <2> QED BY <1>6, <1>9, <2>1, <2>2 DEF Spans
<1>13. Sorted(u, sub2)
  <2>1. \A x \in D \ {n} : u.heap[x].key = t.heap[x].key
    BY <1>1, <1>6 DEF SameNode
  <2>2. ASSUME NEW x \in D \ {n}, NEW r \in Sides, NEW y \in At(sub2, u.heap[x][r])
        PROVE  Less(r, u.heap[y].key, u.heap[x].key)
    <3>1. y \in At(sub, t.heap[x][r]) /\ y # n
      BY <1>11
    <3>2. y \in D
      BY <1>3, <3>1 DEF Sides
    <3>3. Less(r, t.heap[y].key, t.heap[x].key)
      BY <3>1 DEF IsTree, Sorted, D
    <3> QED BY <2>1, <3>1, <3>2, <3>3
  <2> QED BY <1>6, <2>2 DEF Sorted
<1> QED BY <1>6, <1>7, <1>10, <1>12, <1>13 DEF IsTree, u, sub2, c, p, D


----------------------------------------------------------------------------
(* Searches *)

\* Induction from the leaves up.
LEMMA TreeInduction ==
  ASSUME NEW t, NEW sub, IsTree(t, sub), NEW S,
         \A x \in DOMAIN t.heap :
           (\A s \in Sides : t.heap[x][s] # NULL => t.heap[x][s] \in S) => x \in S
  PROVE  DOMAIN t.heap \subseteq S
<1> DEFINE D == DOMAIN t.heap
           Bad == {sub[x] : x \in {z \in D : z \notin S}}
<1> SUFFICES ASSUME NEW z \in D, z \notin S PROVE FALSE
  OBVIOUS
<1>1. IsFiniteSet(D) /\ \A x \in D : sub[x] \in SUBSET D
  BY DEF IsTree, IsHeap, Spans
<1>2. Bad \subseteq FiniteSubsetsOf(D) /\ Bad # {}
  BY <1>1, FS_Subset DEF FiniteSubsetsOf
<1>3. PICK M \in Bad : \A U \in Bad : ~(<<U, M>> \in StrictSubsetOrdering(D))
  <2> HIDE DEF Bad
  <2> QED BY <1>2, FS_StrictSubsetOrderingWellFounded, WFMin
<1>4. PICK x \in D : x \notin S /\ M = sub[x]
  BY <1>3
<1>5. PICK s \in Sides : t.heap[x][s] # NULL /\ t.heap[x][s] \notin S
  BY <1>4
<1>6. /\ t.heap[x][s] \in D /\ sub[t.heap[x][s]] \subseteq sub[x]
      /\ x \in sub[x] /\ x \notin sub[t.heap[x][s]]
  BY <1>5, TreeFacts
<1>7. sub[t.heap[x][s]] \in Bad
  BY <1>5, <1>6
<1>8. <<sub[t.heap[x][s]], M>> \in StrictSubsetOrdering(D)
  BY <1>1, <1>4, <1>6 DEF StrictSubsetOrdering
<1> QED BY <1>3, <1>7, <1>8

\* Whatever is below m, and not m, has its parent there.
LEMMA ParentBelow ==
  ASSUME NEW t, NEW sub, IsTree(t, sub), NEW m \in DOMAIN t.heap, NEW c \in sub[m], c # m
  PROVE  t.heap[c].parent \in sub[m]
<1> DEFINE S == {x \in DOMAIN t.heap : \A y \in sub[x] \ {x} : t.heap[y].parent \in sub[x]}
<1>1. ASSUME NEW x \in DOMAIN t.heap,
             \A s \in Sides : t.heap[x][s] # NULL => t.heap[x][s] \in S
      PROVE  x \in S
  <2> SUFFICES ASSUME NEW y \in sub[x], y # x PROVE t.heap[y].parent \in sub[x]
    OBVIOUS
  <2>1. PICK s \in Sides : y \in At(sub, t.heap[x][s])
    BY DEF IsTree, Spans, Sides
  <2>2. t.heap[x][s] # NULL /\ At(sub, t.heap[x][s]) = sub[t.heap[x][s]]
    BY <2>1 DEF At
  <2>3. t.heap[t.heap[x][s]].parent = x /\ x \in sub[x] /\ sub[t.heap[x][s]] \subseteq sub[x]
    BY <2>2, TreeFacts
  <2>4. CASE y = t.heap[x][s]
    BY <2>3, <2>4
  <2>5. CASE y # t.heap[x][s]
    BY <1>1, <2>1, <2>2, <2>3, <2>5
  <2> QED BY <2>4, <2>5
<1> HIDE DEF S
<1>2. m \in S
  BY <1>1, TreeInduction
<1> QED BY <1>2 DEF S

\* Nothing is above the root.
LEMMA RootIsTop ==
  ASSUME NEW t, NEW sub, IsTree(t, sub), NEW n \in DOMAIN t.heap, NEW s \in Sides, t.root # NULL
  PROVE  t.root \notin At(sub, t.heap[n][s])
<1> SUFFICES ASSUME t.root \in At(sub, t.heap[n][s]) PROVE FALSE
  OBVIOUS
<1>1. t.heap[n][s] # NULL /\ t.root \in sub[t.heap[n][s]]
  BY DEF At
<1>2. t.heap[n][s] \in DOMAIN t.heap /\ t.heap[t.heap[n][s]].parent = n /\ n # NULL
      /\ sub[t.heap[n][s]] \subseteq DOMAIN t.heap
  BY <1>1, TreeFacts
<1>3. t.root \in DOMAIN t.heap /\ t.heap[t.root].parent = NULL /\ NULL \notin DOMAIN t.heap
  BY PointerAssumption DEF IsTree, IsHeap, Linked
<1>4. t.root # t.heap[n][s]
  BY <1>2, <1>3
<1>5. t.heap[t.root].parent \in sub[t.heap[n][s]]
  BY <1>1, <1>2, <1>4, ParentBelow
<1> QED BY <1>2, <1>3, <1>5

\* The last node on the way down is where a new key belongs.
LEMMA InsertionParentIsPlace ==
  ASSUME NEW t, NEW sub, IsTree(t, sub), NEW k \in Int, \A n \in DOMAIN t.heap : t.heap[n].key # k
  PROVE  IsPlaceOf(t, sub, k, InsertionParent(t, k))
<1> DEFINE D == DOMAIN t.heap
           next == [x \in D |-> IF k < t.heap[x].key THEN t.heap[x].llink ELSE t.heap[x].rlink]
           Final == {x \in D : next[x] = NULL}
           out == [x \in D |-> x]
           S == {x \in D : \A n \in D, s \in Sides :
                             x \in At(sub, t.heap[n][s]) => Less(s, k, t.heap[n].key)}
           walk == CHOOSE w : w = [x \in D |->
                     LET nx == IF k < t.heap[x].key THEN t.heap[x].llink ELSE t.heap[x].rlink
                     IN  IF nx = NULL THEN x ELSE w[nx]]
<1>1. CASE t.root = NULL
  BY <1>1 DEF InsertionParent, IsPlaceOf
<1>2. CASE t.root # NULL
  <2>1. \A x \in D : next[x] = t.heap[x][SideOf(t, k, x)] /\ SideOf(t, k, x) \in Sides
    BY DEF SideOf, Sides
  <2>2. \A x \in D : next[x] # NULL => /\ next[x] \in D /\ sub[next[x]] \subseteq sub[x]
                                       /\ x \in sub[x] /\ x \notin sub[next[x]]
                                       /\ t.heap[next[x]].parent = x
                                       /\ next[x] \in sub[next[x]]
                                       /\ At(sub, next[x]) = sub[next[x]]
    <3> HIDE DEF next
    <3> QED BY <2>1, TreeFacts
  <2>3. Stays(D, Final, next)
    <3> HIDE DEF next
    <3> QED BY <2>2 DEF Stays
  <2>4. PICK f : Runs(f, D, Final, next, out)
    <3> HIDE DEF D, Final, next, out
    <3> QED BY <2>3, LoopHasResults
  <2>5. \A w : Runs(w, D, Final, next, out) <=>
                 w = [x \in D |->
                        LET nx == IF k < t.heap[x].key THEN t.heap[x].llink ELSE t.heap[x].rlink
                        IN  IF nx = NULL THEN x ELSE w[nx]]
    <3> TAKE w
    <3>1. [x \in D |-> IF x \in Final THEN out[x] ELSE w[next[x]]]
          = [x \in D |->
               LET nx == IF k < t.heap[x].key THEN t.heap[x].llink ELSE t.heap[x].rlink
               IN  IF nx = NULL THEN x ELSE w[nx]]
      OBVIOUS
    <3> HIDE DEF D, Final, next, out
    <3> QED BY <3>1 DEF Runs
  <2>6. Runs(walk, D, Final, next, out)
    <3> HIDE DEF D, next, out, Final
    <3> DEFINE Eqn(w) == w = [x \in D |->
                    LET nx == IF k < t.heap[x].key THEN t.heap[x].llink ELSE t.heap[x].rlink
                    IN  IF nx = NULL THEN x ELSE w[nx]]
    <3>1. \A w : Runs(w, D, Final, next, out) <=> Eqn(w)
      BY <2>5
    <3>2. walk = CHOOSE w : Eqn(w)
      OBVIOUS
    <3> HIDE DEF walk, Eqn
    <3>3. Eqn(walk)
      BY <2>4, <3>1, <3>2
    <3> QED BY <3>1, <3>3
  <2>7. InsertionParent(t, k) = walk[t.root]
    BY <1>2 DEF InsertionParent
  <2> HIDE DEF walk
  <2>8. t.root \in S
    BY <1>2, RootIsTop DEF IsTree, Linked
  <2>9. Stays(S, Final, next)
    <3> SUFFICES ASSUME NEW x \in S, next[x] # NULL, NEW n \in D, NEW s \in Sides,
                        next[x] \in At(sub, t.heap[n][s])
                 PROVE  Less(s, k, t.heap[n].key)
      BY <2>2 DEF Stays
    <3> HIDE DEF next
    <3>1. t.heap[n][s] # NULL /\ t.heap[n][s] \in D /\ next[x] \in sub[t.heap[n][s]]
          /\ t.heap[t.heap[n][s]].parent = n /\ At(sub, t.heap[n][s]) = sub[t.heap[n][s]]
      <4>1. t.heap[n][s] # NULL
        BY DEF At
      <4> QED BY <4>1, TreeFacts DEF At
    <3>2. CASE n = x
      <4>1. s = SideOf(t, k, x)
        <5>1. At(sub, t.heap[x][SideOf(t, k, x)]) \cap At(sub, t.heap[x][Other(SideOf(t, k, x))]) = {}
          BY <2>1, TreeFacts
        <5>2. next[x] \in At(sub, t.heap[x][SideOf(t, k, x)])
          BY <2>1, <2>2
        <5>3. s # Other(SideOf(t, k, x))
          BY <3>2, <5>1, <5>2
        <5> QED BY <2>1, <5>3 DEF Sides, Other
      <4>2. t.heap[x].key \in Int /\ t.heap[x].key # k
        BY DEF IsTree, IsHeap
      <4> QED BY <3>2, <4>1, <4>2 DEF SideOf, Less
    <3>3. CASE n # x
      <4>1. next[x] # t.heap[n][s]
        BY <2>2, <3>1, <3>3
      <4>2. x \in At(sub, t.heap[n][s])
        BY <2>2, <3>1, <4>1, ParentBelow
      <4> QED BY <4>2
    <3> QED BY <3>2, <3>3
  <2>10. \E y \in S : y \in Final /\ walk[t.root] = out[y]
    <3>1. IsFiniteSet(D) /\ \A x \in D : sub[x] \in SUBSET D
      BY DEF IsTree, IsHeap, Spans
    <3>2. S \in SUBSET D
      OBVIOUS
    <3>3. \A x \in S : x \notin Final => sub[next[x]] \subseteq sub[x] /\ sub[next[x]] # sub[x]
      <4> HIDE DEF next
      <4> QED BY <2>2
    <3> HIDE DEF next, out, Final, S, D
    <3> QED BY <2>6, <2>8, <2>9, <3>1, <3>2, <3>3, LoopEnds
  <2>11. PICK y \in S : next[y] = NULL /\ walk[t.root] = y
    BY <2>10
  <2>12. t.heap[y][SideOf(t, k, y)] = NULL
    <3> HIDE DEF next
    <3> QED BY <2>1, <2>11
  <2> QED BY <1>2, <2>7, <2>11, <2>12 DEF IsPlaceOf
<1> QED BY <1>1, <1>2


\* No two nodes have the same key.
LEMMA KeysDiffer ==
  ASSUME NEW t, NEW sub, IsTree(t, sub), NEW m \in DOMAIN t.heap, NEW n \in DOMAIN t.heap,
         t.heap[m].key = t.heap[n].key
  PROVE  m = n
<1> DEFINE S == {x \in DOMAIN t.heap :
                   \A y, z \in sub[x] : t.heap[y].key = t.heap[z].key => y = z}
<1>1. ASSUME NEW x \in DOMAIN t.heap,
             \A s \in Sides : t.heap[x][s] # NULL => t.heap[x][s] \in S
      PROVE  x \in S
  <2> SUFFICES ASSUME NEW y \in sub[x], NEW z \in sub[x], t.heap[y].key = t.heap[z].key
               PROVE  y = z
    OBVIOUS
  <2>1. sub[x] = {x} \cup At(sub, t.heap[x].llink) \cup At(sub, t.heap[x].rlink)
        /\ sub[x] \subseteq DOMAIN t.heap /\ x \in DOMAIN t.heap
    BY TreeFacts DEF IsTree, Spans
  <2>2. \A i \in At(sub, t.heap[x].llink) : t.heap[i].key < t.heap[x].key
    BY DEF IsTree, Sorted, Sides, Less
  <2>3. \A i \in At(sub, t.heap[x].rlink) : t.heap[x].key < t.heap[i].key
    BY DEF IsTree, Sorted, Sides, Less
  <2>4. \A i \in DOMAIN t.heap : t.heap[i].key \in Int
    BY DEF IsTree, IsHeap
  <2>5. ASSUME NEW s \in Sides, y \in At(sub, t.heap[x][s]), z \in At(sub, t.heap[x][s])
        PROVE  y = z
    BY <1>1, <2>5 DEF At
  <2>6. CASE y = x \/ z = x
    BY <2>1, <2>2, <2>3, <2>4, <2>6
  <2>7. CASE y # x /\ z # x
    <3>1. "llink" \in Sides /\ "rlink" \in Sides
      BY DEF Sides
    <3> QED BY <2>1, <2>2, <2>3, <2>4, <2>5, <2>7, <3>1
  <2> QED BY <2>6, <2>7
<1> HIDE DEF S
<1>2. DOMAIN t.heap \subseteq S
  BY <1>1, TreeInduction
<1>3. t.root # NULL
  BY DEF IsTree, Linked
<1>4. t.root \in S /\ m \in sub[t.root] /\ n \in sub[t.root]
  BY <1>2, <1>3 DEF IsTree, Linked, Spans
<1> QED BY <1>4 DEF S

\* The side of a key on which a search looks for its answer, and what may be the answer.
Toward(side) == IF side = "below" THEN "rlink" ELSE "llink"
Wanted(t, k, side) ==
  {n \in DOMAIN t.heap : side # "none" /\ Less(Toward(side), k, t.heap[n].key)}

\* The side to which a search goes on from x.
Way(t, k, side, x) ==
  IF k < t.heap[x].key \/ (k = t.heap[x].key /\ side = "below") THEN "llink" ELSE "rlink"

\* What a search knows when it is at x, with ret as its answer so far.
SearchInv(t, sub, k, exact, side, x, ret) ==
  /\ ret # NULL => ret \in Wanted(t, k, side)
  /\ \A n \in Wanted(t, k, side) \ At(sub, x) :
       ret # NULL /\ (n = ret \/ Less(Toward(side), t.heap[ret].key, t.heap[n].key))
  /\ exact => \A n \in DOMAIN t.heap : t.heap[n].key = k => n \in At(sub, x)
  /\ ret # NULL => \A y \in At(sub, x) : Less(Toward(side), t.heap[y].key, t.heap[ret].key)

LEMMA SearchGoesOn ==
  ASSUME NEW t, NEW sub, IsTree(t, sub), NEW k \in Int, NEW exact \in BOOLEAN,
         NEW side \in {"none", "below", "above"},
         NEW x \in DOMAIN t.heap, NEW ret, ~(exact /\ k = t.heap[x].key),
         SearchInv(t, sub, k, exact, side, x, ret)
  PROVE  SearchInv(t, sub, k, exact, side, t.heap[x][Way(t, k, side, x)],
                   IF side # "none" /\ Way(t, k, side, x) = Toward(side) THEN x ELSE ret)
<1> DEFINE w == Way(t, k, side, x)
           g == Toward(side)
           c == t.heap[x][w]
           W == Wanted(t, k, side)
           D == DOMAIN t.heap
           key(n) == t.heap[n].key
<1>1. w \in Sides /\ g \in Sides /\ Other(w) \in Sides /\ (w # g => Other(w) = g)
  BY DEF Way, Toward, Sides, Other
<1>2. At(sub, x) = {x} \cup At(sub, c) \cup At(sub, t.heap[x][Other(w)])
  <2>1. x # NULL
    BY TreeFacts
  <2> QED BY <1>1, <2>1 DEF IsTree, Spans, Sides, Other, At
<1>3. \A n \in At(sub, c) : Less(w, key(n), key(x))
  BY <1>1 DEF IsTree, Sorted
<1>4. \A n \in At(sub, t.heap[x][Other(w)]) : Less(Other(w), key(n), key(x))
  BY <1>1 DEF IsTree, Sorted
<1>5. \A n \in D : key(n) \in Int
  BY DEF IsTree, IsHeap
<1>6. At(sub, x) \subseteq D /\ W \subseteq D
  BY TreeFacts DEF At, Wanted
<1>7. exact => Less(w, k, key(x)) /\ k # key(x)
  BY <1>5 DEF Way, Less
<1>8. side # "none" => (x \in W <=> w = g)
  BY <1>5 DEF Way, Toward, Less, Wanted
<1>9. /\ ret # NULL => ret \in W
      /\ \A n \in W \ At(sub, x) : ret # NULL /\ (n = ret \/ Less(g, key(ret), key(n)))
      /\ exact => \A n \in D : key(n) = k => n \in At(sub, x)
      /\ ret # NULL => \A y \in At(sub, x) : Less(g, key(y), key(ret))
  BY DEF SearchInv
<1>10. \A n \in W : n \in D /\ side # "none" /\ Less(g, k, key(n))
  BY DEF Wanted
<1>11. /\ \A i, j \in Int : Less(g, i, j) <=> Less(Other(g), j, i)
       /\ \A i, j, l \in Int : Less(g, i, j) /\ Less(g, j, l) => Less(g, i, l)
       /\ \A i, j, l \in Int : ~Less(g, i, j) /\ Less(g, l, j) => ~Less(g, i, l)
       /\ \A i, j \in Int : Less(w, i, j) => i # j
       /\ \A i, j \in Int : ~(Less(w, i, j) /\ Less(Other(w), i, j))
  BY <1>1 DEF Less, Other, Sides
<1> HIDE DEF w, g, c, W, D
<1>12. ASSUME exact, NEW n \in D, key(n) = k PROVE n \in At(sub, c)
  <2>1. n \in At(sub, x) /\ n # x
    BY <1>7, <1>9, <1>12
  <2>2. ~Less(Other(w), k, key(x))
    BY <1>5, <1>7, <1>11, <1>12 DEF D
  <2>3. n \notin At(sub, t.heap[x][Other(w)])
    BY <1>4, <1>12, <2>2
  <2> QED BY <1>2, <2>1, <2>3
<1>13. CASE side # "none" /\ w = g
  <2>1. x \in W
    BY <1>8, <1>13
  <2>2. \A n \in W \ At(sub, c) : n = x \/ Less(g, key(x), key(n))
    <3> TAKE n \in W \ At(sub, c)
    <3>1. n \in D /\ key(n) \in Int /\ key(x) \in Int
      BY <1>5, <1>6 DEF D
    <3>2. CASE n \notin At(sub, x)
      <4>1. ret # NULL /\ (n = ret \/ Less(g, key(ret), key(n))) /\ Less(g, key(x), key(ret))
        BY <1>2, <1>9, <3>2
      <4>2. ret \in D /\ key(ret) \in Int
        BY <1>5, <1>6, <1>9, <4>1
      <4> QED BY <1>11, <3>1, <4>1, <4>2
    <3>3. CASE n \in At(sub, x) /\ n # x
      <4>1. Less(Other(g), key(n), key(x))
        BY <1>2, <1>4, <1>13, <3>3
      <4> QED BY <1>11, <3>1, <4>1
    <3> QED BY <3>2, <3>3
  <2>3. x # NULL
    BY TreeFacts
  <2>4. SearchInv(t, sub, k, exact, side, c, x)
    BY <1>3, <1>12, <1>13, <2>1, <2>2, <2>3 DEF SearchInv, W, g, D
  <2> QED BY <1>13, <2>4 DEF w, g, c
<1>14. CASE ~(side # "none" /\ w = g)
  <2>1. \A n \in W \ At(sub, c) : ret # NULL /\ (n = ret \/ Less(g, key(ret), key(n)))
    <3> TAKE n \in W \ At(sub, c)
    <3>1. n \in D /\ key(n) \in Int /\ key(x) \in Int /\ side # "none" /\ Less(g, k, key(n))
      BY <1>5, <1>10 DEF D
    <3>2. x \notin W /\ Other(w) = g
      BY <1>1, <1>8, <1>14, <3>1
    <3>3. ~Less(g, k, key(x))
      BY <3>1, <3>2 DEF W, g, Wanted
    <3>4. n \notin At(sub, x)
      <4> SUFFICES ASSUME n \in At(sub, x) PROVE FALSE
        OBVIOUS
      <4>1. n \in At(sub, t.heap[x][Other(w)])
        BY <1>2, <3>2
      <4>2. Less(g, key(n), key(x))
        BY <1>4, <3>2, <4>1
      <4>3. Less(g, k, key(x))
        BY <1>11, <3>1, <4>2
      <4> QED BY <3>3, <4>3
    <3> QED BY <1>9, <3>4
  <2>2. ret # NULL => ret \in W /\ \A y \in At(sub, c) : Less(g, key(y), key(ret))
    BY <1>2, <1>9
  <2>3. SearchInv(t, sub, k, exact, side, c, ret)
    BY <1>12, <2>1, <2>2 DEF SearchInv, W, g, D
  <2> QED BY <1>14, <2>3 DEF w, g, c
<1> QED BY <1>13, <1>14


\* A search ends at the one node with the key it looks for, if equal keys end it, or with
\* the best of the nodes it may answer, or with NULL if there is none.
Finds(t, k, exact, side, r) ==
  LET W == Wanted(t, k, side)
  IN  \/ exact /\ r \in DOMAIN t.heap /\ t.heap[r].key = k
      \/ /\ exact => \A n \in DOMAIN t.heap : t.heap[n].key # k
         /\ \/ r = NULL /\ W = {}
            \/ /\ r \in W
               /\ \A n \in W : n = r \/ Less(Toward(side), t.heap[r].key, t.heap[n].key)

LEMMA DescendFinds ==
  ASSUME NEW t, NEW sub, IsTree(t, sub), NEW k \in Int, NEW exact \in BOOLEAN,
         NEW side \in {"none", "below", "above"}
  PROVE  Finds(t, k, exact, side, Descend(t, k, exact, side))
<1> DEFINE D == DOMAIN t.heap
           ptrs == D \cup {NULL}
           X == ptrs \X ptrs
           Final == {w \in X : w[1] = NULL \/ (k = t.heap[w[1]].key /\ exact)}
           out == [w \in X |-> IF w[1] = NULL THEN w[2] ELSE w[1]]
           next == [w \in X |->
                      <<t.heap[w[1]][Way(t, k, side, w[1])],
                        IF side # "none" /\ Way(t, k, side, w[1]) = Toward(side)
                        THEN w[1] ELSE w[2]>>]
           left == [w \in X |-> At(sub, w[1])]
           S == {w \in X : SearchInv(t, sub, k, exact, side, w[1], w[2])}
           Body(w, f) == LET x   == w[1]
                             ret == w[2]
                             key == t.heap[x].key
                         IN  IF x = NULL THEN ret
                             ELSE IF k = key /\ exact THEN x
                             ELSE IF k < key \/ (k = key /\ side = "below")
                             THEN f[<<t.heap[x].llink, IF side = "above" THEN x ELSE ret>>]
                             ELSE f[<<t.heap[x].rlink, IF side = "below" THEN x ELSE ret>>]
           Eqn(f) == f = [w \in X |-> Body(w, f)]
           walk == CHOOSE f : Eqn(f)
<1>1. ASSUME NEW w \in X, w \notin Final
      PROVE  /\ w[1] \in D /\ w[1] # NULL /\ w[2] \in ptrs /\ Way(t, k, side, w[1]) \in Sides
             /\ next[w] \in X
             /\ At(sub, next[w][1]) \subseteq At(sub, w[1])
             /\ w[1] \in At(sub, w[1]) /\ w[1] \notin At(sub, next[w][1])
  <2>1. w[1] \in D /\ w[1] # NULL /\ w[2] \in ptrs
    BY <1>1
  <2>2. Way(t, k, side, w[1]) \in Sides
    BY DEF Way, Sides
  <2> DEFINE c == t.heap[w[1]][Way(t, k, side, w[1])]
  <2>3. /\ At(sub, c) \subseteq sub[w[1]] /\ w[1] \notin At(sub, c) /\ w[1] \in sub[w[1]]
        /\ c # NULL => c \in D
    <3> HIDE DEF D
    <3> QED BY <2>1, <2>2, TreeFacts DEF D
  <2>4. next[w][1] = c /\ next[w][2] \in ptrs /\ next[w] \in X
    <3> HIDE DEF c
    <3>1. next[w] = <<c, IF side # "none" /\ Way(t, k, side, w[1]) = Toward(side)
                         THEN w[1] ELSE w[2]>>
      BY DEF c
    <3> HIDE DEF next
    <3> QED BY <2>1, <2>3, <3>1
  <2>5. At(sub, w[1]) = sub[w[1]]
    BY <2>1 DEF At
  <2> HIDE DEF c, next
  <2> QED BY <2>1, <2>2, <2>3, <2>4, <2>5
<1>2. Stays(X, Final, next)
  <2> HIDE DEF X, Final, next
  <2> QED BY <1>1 DEF Stays
<1>3. PICK f : Runs(f, X, Final, next, out)
  <2> HIDE DEF X, Final, next, out
  <2> QED BY <1>2, LoopHasResults
<1>4. ASSUME NEW f0 PROVE Runs(f0, X, Final, next, out) <=> Eqn(f0)
  <2>1. ASSUME NEW w \in X
        PROVE  (IF w \in Final THEN out[w] ELSE f0[next[w]]) = Body(w, f0)
    <3>1. out[w] = IF w[1] = NULL THEN w[2] ELSE w[1]
      BY <2>1
    <3>2. next[w] = <<t.heap[w[1]][Way(t, k, side, w[1])],
                      IF side # "none" /\ Way(t, k, side, w[1]) = Toward(side)
                      THEN w[1] ELSE w[2]>>
      BY <2>1
    <3>3. w \in Final <=> w[1] = NULL \/ (k = t.heap[w[1]].key /\ exact)
      BY <2>1
    <3> HIDE DEF X, Final, next, out
    <3>4. CASE w \in Final
      BY <3>1, <3>3, <3>4
    <3>5. CASE w \notin Final
      <4>1. w[1] # NULL /\ ~(k = t.heap[w[1]].key /\ exact)
        BY <3>3, <3>5
      <4>2. CASE k < t.heap[w[1]].key \/ (k = t.heap[w[1]].key /\ side = "below")
        <5>1. next[w] = <<t.heap[w[1]].llink, IF side = "above" THEN w[1] ELSE w[2]>>
          BY <3>2, <4>2 DEF Way, Toward
        <5>2. Body(w, f0) = f0[<<t.heap[w[1]].llink, IF side = "above" THEN w[1] ELSE w[2]>>]
          BY <4>1, <4>2
        <5> QED BY <3>5, <5>1, <5>2
      <4>3. CASE ~(k < t.heap[w[1]].key \/ (k = t.heap[w[1]].key /\ side = "below"))
        <5>1. next[w] = <<t.heap[w[1]].rlink, IF side = "below" THEN w[1] ELSE w[2]>>
          BY <3>2, <4>3 DEF Way, Toward
        <5>2. Body(w, f0) = f0[<<t.heap[w[1]].rlink, IF side = "below" THEN w[1] ELSE w[2]>>]
          BY <4>1, <4>3
        <5> QED BY <3>5, <5>1, <5>2
      <4> QED BY <4>2, <4>3
    <3> QED BY <3>4, <3>5
  <2> HIDE DEF X, Final, next, out, Body
  <2> QED BY <2>1 DEF Runs
<1>5. Runs(walk, X, Final, next, out)
  <2> HIDE DEF X, Final, next, out, Eqn
  <2>1. Eqn(walk)
    BY <1>3, <1>4
  <2> HIDE DEF walk
  <2> QED BY <1>4, <2>1
<1>6. Descend(t, k, exact, side) = walk[<<t.root, NULL>>]
  BY DEF Descend
<1> HIDE DEF walk
<1>7. <<t.root, NULL>> \in S
  <2>1. t.root \in ptrs /\ D = At(sub, t.root)
    BY DEF IsTree, Linked, Spans, At
  <2>2. SearchInv(t, sub, k, exact, side, t.root, NULL)
    BY <2>1 DEF SearchInv, Wanted
  <2> QED BY <2>1, <2>2
<1>8. Stays(S, Final, next)
  <2> SUFFICES ASSUME NEW w \in S, w \notin Final PROVE next[w] \in S
    <3> HIDE DEF S, Final, next
    <3> QED BY DEF Stays
  <2>1. w \in X /\ SearchInv(t, sub, k, exact, side, w[1], w[2])
    OBVIOUS
  <2>2. w[1] \in D /\ next[w] \in X /\ ~(exact /\ k = t.heap[w[1]].key)
    <3>1. ~(w[1] = NULL \/ (k = t.heap[w[1]].key /\ exact))
      BY <2>1
    <3> HIDE DEF S, Final, next, X
    <3> QED BY <1>1, <2>1, <3>1
  <2>3. SearchInv(t, sub, k, exact, side, t.heap[w[1]][Way(t, k, side, w[1])],
                  IF side # "none" /\ Way(t, k, side, w[1]) = Toward(side) THEN w[1] ELSE w[2])
    <3> HIDE DEF S, Final, next, X
    <3> QED BY <2>1, <2>2, SearchGoesOn
  <2>4. next[w][1] = t.heap[w[1]][Way(t, k, side, w[1])]
        /\ next[w][2] = IF side # "none" /\ Way(t, k, side, w[1]) = Toward(side)
                        THEN w[1] ELSE w[2]
    <3> HIDE DEF X
    <3> QED BY <2>1
  <2>5. SearchInv(t, sub, k, exact, side, next[w][1], next[w][2])
    <3> HIDE DEF next
    <3> QED BY <2>3, <2>4
  <2> HIDE DEF next, X
  <2> QED BY <2>2, <2>5
<1>9. \E y \in S : y \in Final /\ walk[<<t.root, NULL>>] = out[y]
  <2>1. IsFiniteSet(D) /\ \A w \in X : left[w] \in SUBSET D
    BY DEF IsTree, IsHeap, Spans, At
  <2>2. S \in SUBSET X
    OBVIOUS
  <2>3. ASSUME NEW w \in S, w \notin Final
        PROVE  left[next[w]] \subseteq left[w] /\ left[next[w]] # left[w]
    <3> w \in X
      OBVIOUS
    <3>1. left[w] = At(sub, w[1])
      <4> HIDE DEF X
      <4> QED OBVIOUS
    <3>2. left[next[w]] = At(sub, next[w][1])
      <4> HIDE DEF X, next, Final
      <4> QED BY <1>1, <2>3
    <3> HIDE DEF next, left, X, Final
    <3> QED BY <1>1, <2>3, <3>1, <3>2
  <2> HIDE DEF X, Final, next, out, left, S, D
  <2> QED BY <1>5, <1>7, <1>8, <2>1, <2>2, <2>3, LoopEnds
<1>10. PICK y \in S : y \in Final /\ walk[<<t.root, NULL>>] = out[y]
  <2> HIDE DEF S, Final, out
  <2> QED BY <1>9
<1> DEFINE r == Descend(t, k, exact, side)
<1>11. /\ y \in X /\ y[1] \in ptrs /\ SearchInv(t, sub, k, exact, side, y[1], y[2])
       /\ y[1] = NULL \/ (k = t.heap[y[1]].key /\ exact)
       /\ out[y] = IF y[1] = NULL THEN y[2] ELSE y[1]
  BY <1>10
<1> HIDE DEF X, S, Final, out
<1>12. r = out[y]
  BY <1>6, <1>10
<1> HIDE DEF r
<1>13. CASE y[1] = NULL
  <2>1. r = y[2] /\ SearchInv(t, sub, k, exact, side, NULL, r)
    BY <1>11, <1>12, <1>13
  <2>2. r = NULL => Wanted(t, k, side) = {}
    BY <2>1 DEF SearchInv, At
  <2>3. r # NULL => r \in Wanted(t, k, side)
    BY <2>1 DEF SearchInv
  <2>4. \A n \in Wanted(t, k, side) : n = r \/ Less(Toward(side), t.heap[r].key, t.heap[n].key)
    BY <2>1 DEF SearchInv, At
  <2>5. exact => \A n \in DOMAIN t.heap : t.heap[n].key # k
    BY <2>1 DEF SearchInv, At
  <2>6. CASE r = NULL
    BY <2>2, <2>5, <2>6 DEF r, Finds
  <2>7. CASE r # NULL
    BY <2>3, <2>4, <2>5, <2>7 DEF r, Finds
  <2> QED BY <2>6, <2>7
<1>14. CASE y[1] # NULL
  <2>1. r = y[1] /\ y[1] \in D /\ k = t.heap[y[1]].key /\ exact
    BY <1>11, <1>12, <1>14
  <2>2. exact /\ r \in DOMAIN t.heap /\ t.heap[r].key = k
    BY <2>1
  <2>3. Finds(t, k, exact, side, r)
    BY <2>2 DEF Finds
  <2> QED BY <2>3 DEF r
<1> QED BY <1>13, <1>14


LEMMA NodeOfIs ==
  ASSUME NEW t, NEW sub, IsTree(t, sub), NEW n \in DOMAIN t.heap
  PROVE  NodeOf(t, t.heap[n].key) = n
<1>1. \A m \in DOMAIN t.heap : t.heap[m].key = t.heap[n].key => m = n
  BY KeysDiffer
<1> QED BY <1>1 DEF NodeOf

\* The greatest and the least key of some, at the node that has it.
LEMMA NodeOfMax ==
  ASSUME NEW t, NEW sub, IsTree(t, sub), NEW ks \in SUBSET KeysOf(t), NEW n \in DOMAIN t.heap,
         t.heap[n].key \in ks, \A k \in ks : k <= t.heap[n].key
  PROVE  ks # {} /\ NodeOf(t, Max(ks)) = n
<1>1. ks \subseteq Int
  BY DEF KeysOf, IsTree, IsHeap
<1>2. Max(ks) = t.heap[n].key
  BY <1>1 DEF Max
<1> QED BY <1>2, NodeOfIs

LEMMA NodeOfMin ==
  ASSUME NEW t, NEW sub, IsTree(t, sub), NEW ks \in SUBSET KeysOf(t), NEW n \in DOMAIN t.heap,
         t.heap[n].key \in ks, \A k \in ks : t.heap[n].key <= k
  PROVE  ks # {} /\ NodeOf(t, Min(ks)) = n
<1>1. ks \subseteq Int
  BY DEF KeysOf, IsTree, IsHeap
<1>2. Min(ks) = t.heap[n].key
  BY <1>1 DEF Min
<1> QED BY <1>2, NodeOfIs

\* All five searches answer as their names say, in every search tree.
LEMMA TreeSearches ==
  ASSUME NEW t, NEW sub, IsTree(t, sub), NEW k \in Int
  PROVE  SearchesAreRight(t, k)
<1> DEFINE D == DOMAIN t.heap
           key(n) == t.heap[n].key
<1>1. \A n \in D : key(n) \in Int
  BY DEF IsTree, IsHeap
<1>2. KeysOf(t) = {key(n) : n \in D}
  BY DEF KeysOf
<1>3. /\ \A n \in D : n \in Wanted(t, k, "below") <=> key(n) < k
      /\ \A n \in D : n \in Wanted(t, k, "above") <=> k < key(n)
      /\ Wanted(t, k, "none") = {}
      /\ Wanted(t, k, "below") \subseteq D /\ Wanted(t, k, "above") \subseteq D
  BY DEF Wanted, Toward, Less
<1>4. NULL \notin D
  BY PointerAssumption DEF IsTree, IsHeap
<1>5. /\ Finds(t, k, TRUE, "none", SearchNode(t, k))
      /\ Finds(t, k, TRUE, "below", SearchLE(t, k))
      /\ Finds(t, k, FALSE, "below", SearchLT(t, k))
      /\ Finds(t, k, TRUE, "above", SearchGE(t, k))
      /\ Finds(t, k, FALSE, "above", SearchGT(t, k))
  BY DescendFinds, Zenon DEF SearchNode, SearchLE, SearchLT, SearchGE, SearchGT
<1> HIDE DEF D
<1>7. SearchNode(t, k) = NodeWith(t, KeysOf(t) \cap {k}, Max)
  <2> DEFINE r == SearchNode(t, k)
             ks == KeysOf(t) \cap {k}
  <2>1. (r \in D /\ key(r) = k) \/ (r = NULL /\ \A n \in D : key(n) # k)
    BY <1>1, <1>3, <1>5 DEF Finds, Toward, Less, D
  <2>2. ks \subseteq KeysOf(t) /\ \A x \in ks : x = k
    OBVIOUS
  <2> HIDE DEF r
  <2>3. CASE r \in D /\ key(r) = k
    <3>1. key(r) \in ks /\ \A x \in ks : x <= key(r)
      BY <1>1, <1>2, <2>3
    <3> HIDE DEF ks
    <3>2. ks # {} /\ NodeOf(t, Max(ks)) = r
      BY <2>2, <2>3, <3>1, NodeOfMax DEF D
    <3> QED BY <3>2 DEF NodeWith, r, ks
  <2>4. CASE r = NULL /\ \A n \in D : key(n) # k
    <3>1. ks = {}
      BY <1>2, <2>4
    <3> QED BY <2>4, <3>1 DEF NodeWith, r
  <2> QED BY <2>1, <2>3, <2>4
<1>8. SearchLE(t, k) = NodeWith(t, {x \in KeysOf(t) : x <= k}, Max)
  <2> DEFINE r == SearchLE(t, k)
             ks == {x \in KeysOf(t) : x <= k}
  <2>1. \/ r \in D /\ key(r) = k
        \/ r = NULL /\ \A n \in D : k < key(n)
        \/ r \in D /\ key(r) < k /\ \A n \in D : key(n) <= k => key(n) <= key(r)
    BY <1>1, <1>3, <1>5 DEF Finds, Toward, Less, D
  <2>2. ks \subseteq KeysOf(t)
    OBVIOUS
  <2> HIDE DEF r
  <2>3. CASE r \in D /\ key(r) <= k /\ \A n \in D : key(n) <= k => key(n) <= key(r)
    <3>1. key(r) \in ks /\ \A x \in ks : x <= key(r)
      BY <1>1, <1>2, <2>3
    <3> HIDE DEF ks
    <3>2. ks # {} /\ NodeOf(t, Max(ks)) = r
      BY <2>2, <2>3, <3>1, NodeOfMax DEF D
    <3> QED BY <3>2 DEF NodeWith, r, ks
  <2>4. CASE r = NULL /\ \A n \in D : k < key(n)
    <3>1. ks = {}
      BY <1>1, <1>2, <2>4
    <3> QED BY <2>4, <3>1 DEF NodeWith, r
  <2> QED BY <1>1, <2>1, <2>3, <2>4
<1>9. SearchLT(t, k) = NodeWith(t, {x \in KeysOf(t) : x < k}, Max)
  <2> DEFINE r == SearchLT(t, k)
             ks == {x \in KeysOf(t) : x < k}
  <2>1. \/ r = NULL /\ \A n \in D : k <= key(n)
        \/ r \in D /\ key(r) < k /\ \A n \in D : key(n) < k => key(n) <= key(r)
    BY <1>1, <1>3, <1>5 DEF Finds, Toward, Less, D
  <2>2. ks \subseteq KeysOf(t)
    OBVIOUS
  <2> HIDE DEF r
  <2>3. CASE r \in D /\ key(r) < k /\ \A n \in D : key(n) < k => key(n) <= key(r)
    <3>1. key(r) \in ks /\ \A x \in ks : x <= key(r)
      BY <1>1, <1>2, <2>3
    <3> HIDE DEF ks
    <3>2. ks # {} /\ NodeOf(t, Max(ks)) = r
      BY <2>2, <2>3, <3>1, NodeOfMax DEF D
    <3> QED BY <3>2 DEF NodeWith, r, ks
  <2>4. CASE r = NULL /\ \A n \in D : k <= key(n)
    <3>1. ks = {}
      BY <1>1, <1>2, <2>4
    <3> QED BY <2>4, <3>1 DEF NodeWith, r
  <2> QED BY <2>1, <2>3, <2>4
<1>10. SearchGE(t, k) = NodeWith(t, {x \in KeysOf(t) : x >= k}, Min)
  <2> DEFINE r == SearchGE(t, k)
             ks == {x \in KeysOf(t) : x >= k}
  <2>1. \/ r \in D /\ key(r) = k
        \/ r = NULL /\ \A n \in D : key(n) < k
        \/ r \in D /\ k < key(r) /\ \A n \in D : k <= key(n) => key(r) <= key(n)
    BY <1>1, <1>3, <1>5 DEF Finds, Toward, Less, D
  <2>2. ks \subseteq KeysOf(t)
    OBVIOUS
  <2> HIDE DEF r
  <2>3. CASE r \in D /\ k <= key(r) /\ \A n \in D : k <= key(n) => key(r) <= key(n)
    <3>1. key(r) \in ks /\ \A x \in ks : key(r) <= x
      BY <1>1, <1>2, <2>3
    <3> HIDE DEF ks
    <3>2. ks # {} /\ NodeOf(t, Min(ks)) = r
      BY <2>2, <2>3, <3>1, NodeOfMin DEF D
    <3> QED BY <3>2 DEF NodeWith, r, ks
  <2>4. CASE r = NULL /\ \A n \in D : key(n) < k
    <3>1. ks = {}
      BY <1>1, <1>2, <2>4
    <3> QED BY <2>4, <3>1 DEF NodeWith, r
  <2> QED BY <1>1, <2>1, <2>3, <2>4
<1>11. SearchGT(t, k) = NodeWith(t, {x \in KeysOf(t) : x > k}, Min)
  <2> DEFINE r == SearchGT(t, k)
             ks == {x \in KeysOf(t) : x > k}
  <2>1. \/ r = NULL /\ \A n \in D : key(n) <= k
        \/ r \in D /\ k < key(r) /\ \A n \in D : k < key(n) => key(r) <= key(n)
    BY <1>1, <1>3, <1>5 DEF Finds, Toward, Less, D
  <2>2. ks \subseteq KeysOf(t)
    OBVIOUS
  <2> HIDE DEF r
  <2>3. CASE r \in D /\ k < key(r) /\ \A n \in D : k < key(n) => key(r) <= key(n)
    <3>1. key(r) \in ks /\ \A x \in ks : key(r) <= x
      BY <1>1, <1>2, <2>3
    <3> HIDE DEF ks
    <3>2. ks # {} /\ NodeOf(t, Min(ks)) = r
      BY <2>2, <2>3, <3>1, NodeOfMin DEF D
    <3> QED BY <3>2 DEF NodeWith, r, ks
  <2>4. CASE r = NULL /\ \A n \in D : key(n) <= k
    <3>1. ks = {}
      BY <1>1, <1>2, <2>4
    <3> QED BY <2>4, <3>1 DEF NodeWith, r
  <2> QED BY <2>1, <2>3, <2>4
<1> QED BY <1>7, <1>8, <1>9, <1>10, <1>11 DEF SearchesAreRight

\* An insertion that finds no node with its key puts it into a tree that has none.
LEMMA NotFoundIsAbsent ==
  ASSUME NEW t, NEW sub, IsTree(t, sub), NEW k \in Int, SearchNode(t, k) = NULL
  PROVE  \A n \in DOMAIN t.heap : t.heap[n].key # k
<1>1. NULL \notin DOMAIN t.heap /\ Wanted(t, k, "none") = {}
  BY PointerAssumption DEF IsTree, IsHeap, Wanted
<1>2. Finds(t, k, TRUE, "none", SearchNode(t, k))
  BY DescendFinds, Zenon DEF SearchNode
<1> QED BY <1>1, <1>2 DEF Finds


----------------------------------------------------------------------------
(* What the verify functions and the runs look at *)

\* The recursive definition of the nodes below a pointer gives these sets.
LEMMA SubtreeIs ==
  ASSUME NEW t, NEW sub, IsTree(t, sub), NEW n \in DOMAIN t.heap \cup {NULL}
  PROVE  Subtree(t, n) = At(sub, n)
<1> DEFINE D == DOMAIN t.heap
           P == D \cup {NULL}
           Body(x, f) == IF x = NULL THEN {} ELSE {x} \cup f[t.heap[x].llink] \cup f[t.heap[x].rlink]
           Eqn(f) == f = [x \in P |-> Body(x, f)]
           below == CHOOSE f : Eqn(f)
           g == [x \in P |-> At(sub, x)]
<1>1. \A x \in D : /\ x # NULL
                   /\ t.heap[x].llink \in P /\ t.heap[x].rlink \in P
                   /\ sub[x] = {x} \cup At(sub, t.heap[x].llink) \cup At(sub, t.heap[x].rlink)
  BY PointerAssumption DEF IsTree, IsHeap, Linked, Spans, Sides
<1>2. Eqn(g)
  <2>1. \A x \in P : g[x] = At(sub, x)
    OBVIOUS
  <2>2. \A x \in P : g[x] = Body(x, g)
    <3> HIDE DEF g
    <3>1. NULL \in P /\ NULL \notin D /\ \A x \in D : x \in P
      BY PointerAssumption DEF IsTree, IsHeap
    <3>2. ASSUME NEW x \in D PROVE g[x] = Body(x, g)
      <4>1. g[x] = sub[x]
        BY <1>1, <2>1, <3>1 DEF At
      <4>2. g[t.heap[x].llink] = At(sub, t.heap[x].llink)
            /\ g[t.heap[x].rlink] = At(sub, t.heap[x].rlink)
        BY <1>1, <2>1
      <4> QED BY <1>1, <4>1, <4>2
    <3>3. g[NULL] = Body(NULL, g)
      BY <2>1, <3>1 DEF At
    <3> HIDE DEF Body
    <3> QED BY <3>2, <3>3
  <2> HIDE DEF Body
  <2>3. g = [x \in P |-> g[x]]
    OBVIOUS
  <2> HIDE DEF g
  <2> QED BY <2>2, <2>3
<1>3. Eqn(below)
  <2> HIDE DEF Eqn, g
  <2> QED BY <1>2
<1>4. Subtree(t, n) = below[n]
  BY DEF Subtree
<1> HIDE DEF below
<1>5. below[NULL] = {} /\ \A x \in D : below[x] = {x} \cup below[t.heap[x].llink] \cup below[t.heap[x].rlink]
  <2>1. \A x \in P : below[x] = Body(x, below)
    <3> HIDE DEF P, Body
    <3> QED BY <1>3
  <2>2. NULL \in P /\ NULL \notin D /\ \A x \in D : x \in P
    BY PointerAssumption DEF IsTree, IsHeap
  <2> HIDE DEF P, D
  <2>3. below[NULL] = {}
    BY <2>1, <2>2
  <2>4. ASSUME NEW x \in D
        PROVE  below[x] = {x} \cup below[t.heap[x].llink] \cup below[t.heap[x].rlink]
    <3>1. below[x] = Body(x, below) /\ x # NULL
      BY <2>1, <2>2
    <3> HIDE DEF Eqn
    <3> QED BY <3>1
  <2> HIDE DEF Body, Eqn
  <2> QED BY <2>3, <2>4 DEF D
<1> HIDE DEF Eqn
<1> DEFINE S == {x \in D : below[x] = At(sub, x)}
<1>6. ASSUME NEW x \in D, \A s \in Sides : t.heap[x][s] # NULL => t.heap[x][s] \in S
      PROVE  x \in S
  <2>1. \A s \in Sides : below[t.heap[x][s]] = At(sub, t.heap[x][s])
    BY <1>5, <1>6 DEF At
  <2>2. At(sub, x) = {x} \cup At(sub, t.heap[x].llink) \cup At(sub, t.heap[x].rlink)
    BY <1>1 DEF At
  <2>3. below[x] = {x} \cup below[t.heap[x].llink] \cup below[t.heap[x].rlink]
    BY <1>5
  <2>4. below[t.heap[x].llink] = At(sub, t.heap[x].llink)
        /\ below[t.heap[x].rlink] = At(sub, t.heap[x].rlink)
    BY <2>1 DEF Sides
  <2> QED BY <2>2, <2>3, <2>4
<1>7. D \subseteq S
  <2> HIDE DEF S
  <2> QED BY <1>6, TreeInduction
<1>8. below[n] = At(sub, n)
  BY <1>5, <1>7 DEF At
<1> QED BY <1>4, <1>8

\* Parents and children agree, and every node can be reached from the root.
LEMMA TreeLinksAgree ==
  ASSUME NEW t, NEW sub, IsTree(t, sub)
  PROVE  LinksAgree(t)
<1>1. t.root \in DOMAIN t.heap \cup {NULL} /\ DOMAIN t.heap = At(sub, t.root)
  BY DEF IsTree, Linked, Spans, At
<1>2. DOMAIN t.heap = Subtree(t, t.root)
  BY <1>1, SubtreeIs
<1>3. \A n \in DOMAIN t.heap, s \in Sides : t.heap[n][s] # NULL => t.heap[t.heap[n][s]].parent = n
  BY DEF IsTree, Linked
<1>4. t.root # NULL => t.heap[t.root].parent = NULL
  BY DEF IsTree, Linked
<1>5. \A n \in DOMAIN t.heap : \A c \in {t.heap[n].llink, t.heap[n].rlink} \ {NULL} :
        t.heap[c].parent = n
  BY <1>3 DEF Sides
<1> QED BY <1>2, <1>4, <1>5 DEF LinksAgree

\* If the count is right too, the verify functions find nothing wrong with the nodes.
LEMMA TreeVerified ==
  ASSUME NEW t, NEW sub, IsTree(t, sub), t.count = Cardinality(DOMAIN t.heap)
  PROVE  NodesVerified(t)
<1>1. t.root = NULL <=> t.count = 0
  BY FS_EmptySet DEF IsTree, IsHeap, Linked
<1>2. LinksAgree(t)
  BY TreeLinksAgree
<1>3. Subtree(t, t.root) = DOMAIN t.heap
  BY <1>2 DEF LinksAgree
<1>4. ASSUME NEW n \in DOMAIN t.heap, NEW s \in Sides, t.heap[n][s] # NULL
      PROVE  /\ t.heap[t.heap[n][s]].parent = n
             /\ Less(s, t.heap[t.heap[n][s]].key, t.heap[n].key)
  <2>1. t.heap[t.heap[n][s]].parent = n /\ t.heap[n][s] \in At(sub, t.heap[n][s])
    BY <1>4, TreeFacts
  <2> QED BY <2>1 DEF IsTree, Sorted
<1>5. \A n \in DOMAIN t.heap : t.heap[n].key \in Int
  BY DEF IsTree, IsHeap
<1>6. ASSUME NEW n \in DOMAIN t.heap
      PROVE  LET l == t.heap[n].llink
                 r == t.heap[n].rlink
             IN  /\ l # NULL => t.heap[l].parent = n /\ t.heap[l].key < t.heap[n].key
                 /\ r # NULL => t.heap[r].parent = n /\ t.heap[r].key > t.heap[n].key
  <2>1. ASSUME t.heap[n].rlink # NULL PROVE t.heap[t.heap[n].rlink].key \in Int
    BY <1>5, <2>1, TreeFacts DEF Sides
  <2> QED BY <1>4, <1>5, <2>1 DEF Sides, Less
<1>7. t.root # NULL => t.heap[t.root].parent = NULL
  BY <1>2 DEF LinksAgree
<1> QED BY <1>1, <1>3, <1>6, <1>7 DEF NodesVerified


----------------------------------------------------------------------------
(* The map in a tree *)

\* The nodes whose datum is set.
Present(t) == {n \in DOMAIN t.heap : t.heap[n].datum # NULL}

\* It has the keys of these nodes, each with the datum that is there.
Holds(t, map) ==
  /\ DOMAIN map = {t.heap[n].key : n \in Present(t)}
  /\ \A n \in Present(t) : map[t.heap[n].key] = t.heap[n].datum
  /\ map = [k \in DOMAIN map |-> map[k]]

LEMMA MapOfIs ==
  ASSUME NEW t, NEW sub, IsTree(t, sub)
  PROVE  Holds(t, MapOf(t))
<1>1. MapOf(t) = [k \in {t.heap[n].key : n \in Present(t)} |-> t.heap[NodeOf(t, k)].datum]
  BY DEF MapOf, Present
<1>2. DOMAIN MapOf(t) = {t.heap[n].key : n \in Present(t)}
      /\ MapOf(t) = [k \in DOMAIN MapOf(t) |-> MapOf(t)[k]]
  BY <1>1
<1>3. ASSUME NEW n \in Present(t) PROVE MapOf(t)[t.heap[n].key] = t.heap[n].datum
  <2>1. n \in DOMAIN t.heap
    BY DEF Present
  <2>2. NodeOf(t, t.heap[n].key) = n
    BY <2>1, NodeOfIs
  <2> QED BY <1>1, <2>2
<1> QED BY <1>2, <1>3 DEF Holds

\* Nodes that hold the same pairs, wherever they are, hold the same map.
LEMMA MapStays ==
  ASSUME NEW t, NEW sub, IsTree(t, sub), NEW u, NEW sub2, IsTree(u, sub2),
         \A n \in Present(t) : \E m \in Present(u) :
           u.heap[m].key = t.heap[n].key /\ u.heap[m].datum = t.heap[n].datum,
         \A m \in Present(u) : \E n \in Present(t) : t.heap[n].key = u.heap[m].key
  PROVE  MapOf(u) = MapOf(t)
<1>0. Holds(t, MapOf(t)) /\ Holds(u, MapOf(u))
  BY MapOfIs
<1>1. DOMAIN MapOf(u) = DOMAIN MapOf(t)
  BY <1>0 DEF Holds
<1>2. ASSUME NEW k \in DOMAIN MapOf(t) PROVE MapOf(u)[k] = MapOf(t)[k]
  <2>1. PICK n \in Present(t) : k = t.heap[n].key
    BY <1>0 DEF Holds
  <2>2. PICK m \in Present(u) : u.heap[m].key = k /\ u.heap[m].datum = t.heap[n].datum
    BY <2>1
  <2>3. MapOf(t)[k] = t.heap[n].datum
    BY <2>1, <1>0 DEF Holds
  <2>4. MapOf(u)[k] = u.heap[m].datum
    BY <2>2, <1>0 DEF Holds
  <2> QED BY <2>2, <2>3, <2>4
<1>3. MapOf(t) = [k \in DOMAIN MapOf(t) |-> MapOf(t)[k]]
      /\ MapOf(u) = [k \in DOMAIN MapOf(u) |-> MapOf(u)[k]]
  BY <1>0 DEF Holds
<1> QED BY <1>1, <1>2, <1>3

\* A datum that is set puts its key into the map.
Fills(t, u, a) ==
  /\ DOMAIN u.heap = DOMAIN t.heap
  /\ \A n \in DOMAIN t.heap :
       u.heap[n].key = t.heap[n].key /\ (n # a => u.heap[n].datum = t.heap[n].datum)
  /\ t.heap[a].datum = NULL /\ u.heap[a].datum = Datum(t.heap[a].key) /\ t.heap[a].key \in Keys

PutsKey(t, u, k) ==
  /\ k \notin DOMAIN MapOf(t)
  /\ MapOf(u) = [x \in DOMAIN MapOf(t) \cup {k} |-> IF x = k THEN Datum(k) ELSE MapOf(t)[x]]

LEMMA MapGrows ==
  ASSUME NEW t, NEW sub, IsTree(t, sub), NEW u, NEW sub2, IsTree(u, sub2),
         NEW a \in DOMAIN t.heap, Fills(t, u, a)
  PROVE  PutsKey(t, u, t.heap[a].key)
<1> USE DEF Fills
<1> DEFINE ka == t.heap[a].key
<1>0. Holds(t, MapOf(t)) /\ Holds(u, MapOf(u))
  BY MapOfIs
<1>1. Present(u) = Present(t) \cup {a} /\ a \notin Present(t)
  BY DatumAssumption DEF Present
<1>2. \A n \in Present(t) : n \in DOMAIN t.heap /\ n # a /\ t.heap[n].key # ka
  BY <1>1, KeysDiffer DEF Present
<1>3. DOMAIN MapOf(t) = {t.heap[n].key : n \in Present(t)}
  BY <1>0 DEF Holds
<1>4. DOMAIN MapOf(u) = {u.heap[n].key : n \in Present(u)}
  BY <1>0 DEF Holds
<1>5. ka \notin DOMAIN MapOf(t)
  BY <1>2, <1>3
<1>6. \A n \in Present(u) : u.heap[n].key = t.heap[n].key
  BY <1>1, <1>2
<1>7. DOMAIN MapOf(u) = DOMAIN MapOf(t) \cup {ka}
  BY <1>1, <1>3, <1>4, <1>6
<1>8. ASSUME NEW k \in DOMAIN MapOf(t) PROVE MapOf(u)[k] = MapOf(t)[k] /\ k # ka
  <2>1. PICK n \in Present(t) : k = t.heap[n].key
    BY <1>3
  <2>2. MapOf(t)[k] = t.heap[n].datum
    BY <2>1, <1>0 DEF Holds
  <2>3. n \in Present(u) /\ u.heap[n].key = k /\ u.heap[n].datum = t.heap[n].datum
    BY <1>1, <1>2, <2>1
  <2>4. MapOf(u)[u.heap[n].key] = u.heap[n].datum
    BY <2>3, <1>0 DEF Holds
  <2> QED BY <1>5, <2>2, <2>3, <2>4
<1>9. MapOf(u)[ka] = Datum(ka)
  BY <1>1, <1>0 DEF Holds
<1>10. MapOf(u) = [k \in DOMAIN MapOf(u) |-> MapOf(u)[k]]
  BY <1>0 DEF Holds
<1> HIDE DEF ka
<1>11. MapOf(u) = [k \in DOMAIN MapOf(t) \cup {ka} |-> IF k = ka THEN Datum(ka) ELSE MapOf(t)[k]]
  BY <1>7, <1>8, <1>9, <1>10
<1> QED BY <1>5, <1>11 DEF ka, PutsKey

\* A node that goes takes its key out of the map.
LEMMA MapShrinks ==
  ASSUME NEW t, NEW sub, IsTree(t, sub), NEW u, NEW sub2, IsTree(u, sub2),
         NEW a \in Present(t),
         \A n \in Present(t) \ {a} : \E m \in Present(u) :
           u.heap[m].key = t.heap[n].key /\ u.heap[m].datum = t.heap[n].datum,
         \A m \in Present(u) : \E n \in Present(t) \ {a} : t.heap[n].key = u.heap[m].key
  PROVE  /\ t.heap[a].key \in DOMAIN MapOf(t)
         /\ MapOf(u) = Restrict(MapOf(t), DOMAIN MapOf(t) \ {t.heap[a].key})
<1> DEFINE ka == t.heap[a].key
<1>0. Holds(t, MapOf(t)) /\ Holds(u, MapOf(u))
  BY MapOfIs
<1>1. DOMAIN MapOf(t) = {t.heap[n].key : n \in Present(t)}
  BY <1>0 DEF Holds
<1>2. DOMAIN MapOf(u) = {u.heap[m].key : m \in Present(u)}
  BY <1>0 DEF Holds
<1>3. \A n \in Present(t) \ {a} : t.heap[n].key # ka
  BY KeysDiffer DEF Present
<1>4. DOMAIN MapOf(u) = DOMAIN MapOf(t) \ {ka}
  <2>1. ASSUME NEW k \in DOMAIN MapOf(u) PROVE k \in DOMAIN MapOf(t) \ {ka}
    <3>1. PICK m \in Present(u) : k = u.heap[m].key
      BY <1>2
    <3>2. PICK n \in Present(t) \ {a} : t.heap[n].key = k
      BY <3>1
    <3> QED BY <1>1, <1>3, <3>2
  <2>2. ASSUME NEW k \in DOMAIN MapOf(t) \ {ka} PROVE k \in DOMAIN MapOf(u)
    <3>1. PICK n \in Present(t) \ {a} : t.heap[n].key = k
      BY <1>1
    <3>2. PICK m \in Present(u) : u.heap[m].key = k
      BY <3>1
    <3> QED BY <1>2, <3>2
  <2> HIDE DEF ka
  <2>3. \A k : k \in DOMAIN MapOf(u) <=> k \in DOMAIN MapOf(t) \ {ka}
    BY <2>1, <2>2
  <2> QED BY <2>3, Zenon
<1>5. ASSUME NEW k \in DOMAIN MapOf(u) PROVE MapOf(u)[k] = MapOf(t)[k]
  <2>1. k \in DOMAIN MapOf(t) /\ k # ka
    BY <1>4, <1>5
  <2>2. PICK n \in Present(t) : k = t.heap[n].key
    BY <1>1, <2>1
  <2>3. n # a
    BY <2>1, <2>2
  <2>4. PICK m \in Present(u) : u.heap[m].key = k /\ u.heap[m].datum = t.heap[n].datum
    BY <2>2, <2>3
  <2>5. MapOf(t)[k] = t.heap[n].datum
    BY <2>2, <1>0 DEF Holds
  <2>6. MapOf(u)[k] = u.heap[m].datum
    BY <2>4, <1>0 DEF Holds
  <2> QED BY <2>4, <2>5, <2>6
<1>6. MapOf(u) = [k \in DOMAIN MapOf(u) |-> MapOf(u)[k]]
  BY <1>0 DEF Holds
<1>7. Restrict(MapOf(t), DOMAIN MapOf(t) \ {ka}) = [k \in DOMAIN MapOf(t) \ {ka} |-> MapOf(t)[k]]
  BY DEF Restrict
<1>8. ka \in DOMAIN MapOf(t)
  BY <1>1
<1> HIDE DEF ka
<1>9. MapOf(u) = [k \in DOMAIN MapOf(t) \ {ka} |-> MapOf(t)[k]]
  BY <1>4, <1>5, <1>6
<1> QED BY <1>7, <1>8, <1>9 DEF ka


----------------------------------------------------------------------------
(* What the calls on all trees do to the nodes and to the map *)

\* Callers have set the data of all nodes but a.
Filled(t, a) ==
  \A n \in DOMAIN t.heap :
    /\ t.heap[n].key \in Keys
    /\ t.heap[n].datum = IF n = a THEN NULL ELSE Datum(t.heap[n].key)

LEMMA FilledIsPresent ==
  ASSUME NEW t, NEW a, Filled(t, a)
  PROVE  Present(t) = DOMAIN t.heap \ {a}
BY DatumAssumption DEF Filled, Present

\* Changes of the links only leave the map as it is.
LEMMA SameNodesSameMap ==
  ASSUME NEW t, NEW sub, IsTree(t, sub), NEW u, NEW sub2, IsTree(u, sub2),
         DOMAIN u.heap = DOMAIN t.heap, \A x \in DOMAIN t.heap : SameNode(t, u, x)
  PROVE  /\ MapOf(u) = MapOf(t)
         /\ \A a : Filled(t, a) => Filled(u, a)
<1>1. \A x \in DOMAIN t.heap : u.heap[x].key = t.heap[x].key /\ u.heap[x].datum = t.heap[x].datum
  BY DEF SameNode, IsTree, IsHeap
<1>2. Present(u) = Present(t) /\ Present(t) \subseteq DOMAIN t.heap
  BY <1>1 DEF Present
<1>3. MapOf(u) = MapOf(t)
  BY <1>1, <1>2, MapStays
<1> QED BY <1>1, <1>3 DEF Filled

\* A node goes, with its key.
LEMMA SpliceTakesKey ==
  ASSUME NEW t, NEW sub, IsTree(t, sub), NEW n \in DOMAIN t.heap,
         NULL \in {t.heap[n].llink, t.heap[n].rlink}, Filled(t, NULL)
  PROVE  LET u == Splice(t, n)
             k == t.heap[n].key
         IN  /\ Filled(u, NULL)
             /\ k \in DOMAIN MapOf(t) /\ MapOf(u) = Restrict(MapOf(t), DOMAIN MapOf(t) \ {k})
<1> DEFINE u == Splice(t, n)
<1>1. /\ IsTree(u, WithoutNode(t, sub, n)) /\ DOMAIN u.heap = DOMAIN t.heap \ {n}
      /\ \A x \in DOMAIN t.heap \ {n} : SameNode(t, u, x)
  BY SpliceKeepsTree
<1> HIDE DEF u
<1>2. \A x \in DOMAIN t.heap \ {n} :
        u.heap[x].key = t.heap[x].key /\ u.heap[x].datum = t.heap[x].datum
  BY <1>1 DEF SameNode, IsTree, IsHeap
<1>3. Filled(u, NULL)
  BY <1>1, <1>2 DEF Filled
<1>4. NULL \notin DOMAIN t.heap
  BY PointerAssumption DEF IsTree, IsHeap
<1>5. Present(t) = DOMAIN t.heap /\ Present(u) = DOMAIN t.heap \ {n}
  BY <1>1, <1>3, <1>4, FilledIsPresent
<1>6. /\ t.heap[n].key \in DOMAIN MapOf(t)
      /\ MapOf(u) = Restrict(MapOf(t), DOMAIN MapOf(t) \ {t.heap[n].key})
  <2>1. n \in Present(t)
    BY <1>5
  <2>2. \A x \in Present(t) \ {n} : \E m \in Present(u) :
          u.heap[m].key = t.heap[x].key /\ u.heap[m].datum = t.heap[x].datum
    BY <1>2, <1>5
  <2>3. \A m \in Present(u) : \E x \in Present(t) \ {n} : t.heap[x].key = u.heap[m].key
    BY <1>2, <1>5
  <2> QED BY <1>1, <2>1, <2>2, <2>3, MapShrinks
<1> QED BY <1>3, <1>6 DEF u

\* What is below a node includes all that is below that.
LEMMA BelowIsWhole ==
  ASSUME NEW t, NEW sub, IsTree(t, sub), NEW m \in DOMAIN t.heap, NEW n \in sub[m]
  PROVE  sub[n] \subseteq sub[m]
<1> DEFINE S == {x \in DOMAIN t.heap : \A y \in sub[x] : sub[y] \subseteq sub[x]}
<1>1. ASSUME NEW x \in DOMAIN t.heap,
             \A s \in Sides : t.heap[x][s] # NULL => t.heap[x][s] \in S
      PROVE  x \in S
  <2> SUFFICES ASSUME NEW y \in sub[x], y # x PROVE sub[y] \subseteq sub[x]
    OBVIOUS
  <2>1. PICK s \in Sides : y \in At(sub, t.heap[x][s])
    BY DEF IsTree, Spans, Sides
  <2>2. t.heap[x][s] # NULL /\ At(sub, t.heap[x][s]) = sub[t.heap[x][s]]
    BY <2>1 DEF At
  <2>3. sub[t.heap[x][s]] \subseteq sub[x]
    BY <2>2, TreeFacts
  <2> QED BY <1>1, <2>1, <2>2, <2>3
<1> HIDE DEF S
<1>2. m \in S
  BY <1>1, TreeInduction
<1> QED BY <1>2 DEF S

\* Seen from a node that is not there, all that is below n is on one side.
LEMMA SubtreeIsInterval ==
  ASSUME NEW t, NEW sub, IsTree(t, sub), NEW n \in DOMAIN t.heap,
         NEW x \in DOMAIN t.heap, x \notin sub[n]
  PROVE  \E s \in Sides : \A y \in sub[n] : Less(s, t.heap[y].key, t.heap[x].key)
<1> DEFINE Apart(i, j) == \E s \in Sides : \A y \in sub[i] : Less(s, t.heap[y].key, t.heap[j].key)
           S == {m \in DOMAIN t.heap : \A i, j \in sub[m] : j \in sub[i] \/ Apart(i, j)}
<1>1. ASSUME NEW m \in DOMAIN t.heap,
             \A s \in Sides : t.heap[m][s] # NULL => t.heap[m][s] \in S
      PROVE  m \in S
  <2> SUFFICES ASSUME NEW i \in sub[m], NEW j \in sub[m], j \notin sub[i]
               PROVE  Apart(i, j)
    OBVIOUS
  <2> HIDE DEF Apart
  <2>1. i # m
    OBVIOUS
  <2>2. PICK s \in Sides : i \in At(sub, t.heap[m][s])
    BY <2>1 DEF IsTree, Spans, Sides
  <2>3. /\ t.heap[m][s] # NULL /\ At(sub, t.heap[m][s]) = sub[t.heap[m][s]]
        /\ t.heap[m][s] \in DOMAIN t.heap
    BY <2>2, TreeFacts DEF At
  <2>4. sub[i] \subseteq At(sub, t.heap[m][s])
    BY <2>2, <2>3, BelowIsWhole
  <2>5. \A y \in sub[i] : y \in DOMAIN t.heap /\ Less(s, t.heap[y].key, t.heap[m].key)
    <3>1. At(sub, t.heap[m][s]) \subseteq DOMAIN t.heap
      BY <2>3, TreeFacts
    <3> QED BY <2>4, <3>1 DEF IsTree, Sorted
  <2>6. CASE j = m
    BY <2>5, <2>6 DEF Apart
  <2>7. CASE j \in At(sub, t.heap[m][s])
    <3>1. t.heap[m][s] \in S
      BY <1>1, <2>3
    <3> QED BY <2>2, <2>3, <2>7, <3>1
  <2>8. CASE j \in At(sub, t.heap[m][Other(s)])
    <3>1. Less(Other(s), t.heap[j].key, t.heap[m].key) /\ j \in DOMAIN t.heap
      <4>1. Other(s) \in Sides /\ sub[m] \subseteq DOMAIN t.heap
        BY TreeFacts DEF Sides, Other
      <4> QED BY <2>8, <4>1 DEF IsTree, Sorted
    <3>2. \A y \in DOMAIN t.heap : t.heap[y].key \in Int
      BY DEF IsTree, IsHeap
    <3>3. \A y \in sub[i] : Less(s, t.heap[y].key, t.heap[j].key)
      BY <2>5, <3>1, <3>2 DEF Less, Sides, Other
    <3> QED BY <3>3 DEF Apart
  <2>9. j = m \/ j \in At(sub, t.heap[m][s]) \/ j \in At(sub, t.heap[m][Other(s)])
    BY DEF IsTree, Spans, Sides, Other
  <2> QED BY <2>6, <2>7, <2>8, <2>9
<1> HIDE DEF S, Apart
<1>2. DOMAIN t.heap \subseteq S
  BY <1>1, TreeInduction
<1>3. t.root # NULL
  BY DEF IsTree, Linked
<1>4. t.root \in S /\ n \in sub[t.root] /\ x \in sub[t.root]
  BY <1>2, <1>3 DEF IsTree, Linked, Spans
<1> QED BY <1>4 DEF S, Apart

\* The end of the pointers to one side, from c: nothing there is beyond it.
IsEnd(t, sub, c, s, e) ==
  /\ e \in sub[c] /\ t.heap[e][s] = NULL
  /\ \A y \in sub[c] : y = e \/ Less(s, t.heap[e].key, t.heap[y].key)

LEMMA EndOfSide ==
  ASSUME NEW t, NEW sub, IsTree(t, sub), NEW s \in Sides, NEW c \in DOMAIN t.heap
  PROVE  LET walk == CHOOSE w : w = [x \in DOMAIN t.heap |->
                       IF t.heap[x][s] = NULL THEN x ELSE w[t.heap[x][s]]]
         IN  IsEnd(t, sub, c, s, walk[c])
<1> DEFINE D == DOMAIN t.heap
           next == [x \in D |-> t.heap[x][s]]
           Final == {x \in D : next[x] = NULL}
           out == [x \in D |-> x]
           Eqn(w) == w = [x \in D |-> IF t.heap[x][s] = NULL THEN x ELSE w[t.heap[x][s]]]
           walk == CHOOSE w : Eqn(w)
           S == {x \in sub[c] : /\ sub[x] \subseteq sub[c]
                                /\ \A y \in sub[c] : y \in sub[x] \/ Less(s, t.heap[x].key, t.heap[y].key)}
<1>1. \A x \in D : next[x] # NULL =>
        /\ next[x] \in D /\ sub[next[x]] \subseteq sub[x] /\ next[x] \in sub[next[x]]
        /\ x \in sub[x] /\ x \notin sub[next[x]] /\ At(sub, next[x]) = sub[next[x]]
  <2>1. \A x \in D : next[x] = t.heap[x][s]
    OBVIOUS
  <2> HIDE DEF next
  <2> QED BY <2>1, TreeFacts
<1>2. Stays(D, Final, next)
  <2> HIDE DEF next
  <2> QED BY <1>1 DEF Stays
<1>3. PICK f : Runs(f, D, Final, next, out)
  <2> HIDE DEF D, Final, next, out
  <2> QED BY <1>2, LoopHasResults
<1>4. \A w : Runs(w, D, Final, next, out) <=> Eqn(w)
  <2> TAKE w
  <2>1. [x \in D |-> IF x \in Final THEN out[x] ELSE w[next[x]]]
        = [x \in D |-> IF t.heap[x][s] = NULL THEN x ELSE w[t.heap[x][s]]]
    OBVIOUS
  <2> HIDE DEF D, Final, next, out
  <2> QED BY <2>1 DEF Runs
<1>5. Runs(walk, D, Final, next, out)
  <2> HIDE DEF D, Final, next, out, Eqn
  <2> QED BY <1>3, <1>4
<1> HIDE DEF walk
<1>6. \A x \in D : sub[x] \subseteq D /\ t.heap[x].key \in Int /\ x \in sub[x]
  BY TreeFacts DEF IsTree, IsHeap
<1>7. c \in S
  BY <1>6
<1>8. ASSUME NEW x \in D, NEW r \in Sides
      PROVE  \A y \in At(sub, t.heap[x][r]) : Less(r, t.heap[y].key, t.heap[x].key)
  BY DEF IsTree, Sorted
<1>9. \A x \in D : sub[x] = {x} \cup At(sub, t.heap[x][s]) \cup At(sub, t.heap[x][Other(s)])
  BY DEF IsTree, Spans, Sides, Other
<1>10. Other(s) \in Sides /\ \A i, j, k \in Int : /\ Less(Other(s), i, j) => Less(s, j, i)
                                                  /\ Less(s, i, j) /\ Less(s, j, k) => Less(s, i, k)
  BY DEF Sides, Other, Less
<1>11. Stays(S, Final, next)
  <2> SUFFICES ASSUME NEW x \in S, next[x] # NULL
               PROVE  next[x] \in S
    BY <1>6 DEF Stays
  <2>1. x \in D /\ next[x] = t.heap[x][s]
    BY <1>6
  <2> DEFINE z == next[x]
  <2>2. /\ z \in D /\ sub[z] \subseteq sub[x] /\ z \in sub[z] /\ At(sub, t.heap[x][s]) = sub[z]
    BY <1>1, <2>1
  <2> HIDE DEF next, z
  <2>3. sub[z] \subseteq sub[c] /\ z \in sub[c]
    BY <2>2
  <2>4. Less(s, t.heap[z].key, t.heap[x].key)
    BY <1>8, <2>1, <2>2
  <2>5. ASSUME NEW y \in sub[c], y \notin sub[z] PROVE Less(s, t.heap[z].key, t.heap[y].key)
    <3>1. y \in D
      BY <1>6
    <3>2. CASE y \notin sub[x]
      BY <1>6, <1>10, <2>1, <2>2, <2>4, <3>1, <3>2
    <3>3. CASE y = x
      BY <2>4, <3>3
    <3>4. CASE y \in At(sub, t.heap[x][Other(s)])
      <4>1. Less(Other(s), t.heap[y].key, t.heap[x].key)
        BY <1>8, <1>10, <2>1, <3>4
      <4> QED BY <1>6, <1>10, <2>1, <2>2, <2>4, <3>1, <4>1
    <3> QED BY <1>9, <2>1, <2>2, <2>5, <3>2, <3>3, <3>4
  <2> QED BY <2>3, <2>5 DEF z
<1>12. \E y \in S : y \in Final /\ walk[c] = out[y]
  <2>1. IsFiniteSet(D) /\ \A x \in D : sub[x] \in SUBSET D
    BY <1>6 DEF IsTree, IsHeap
  <2>2. S \in SUBSET D
    BY <1>6
  <2>3. \A x \in S : x \notin Final => sub[next[x]] \subseteq sub[x] /\ sub[next[x]] # sub[x]
    <3> HIDE DEF next
    <3> QED BY <1>1, <1>6
  <2> HIDE DEF next, out, Final, S, D
  <2> QED BY <1>5, <1>7, <1>11, <2>1, <2>2, <2>3, LoopEnds
<1>13. PICK y \in S : t.heap[y][s] = NULL /\ walk[c] = y
  BY <1>12
<1>14. ASSUME NEW z \in sub[c], z # y PROVE Less(s, t.heap[y].key, t.heap[z].key)
  <2>1. y \in D /\ z \in D
    BY <1>6
  <2>2. CASE z \in sub[y]
    <3>1. z \in At(sub, t.heap[y][Other(s)])
      BY <1>9, <1>13, <1>14, <2>1, <2>2 DEF At
    <3> QED BY <1>6, <1>8, <1>10, <2>1, <3>1
  <2> QED BY <2>2
<1>15. IsEnd(t, sub, c, s, walk[c])
  BY <1>13, <1>14 DEF IsEnd
<1> QED BY <1>15 DEF walk

LEMMA LeftmostIs ==
  ASSUME NEW t, NEW sub, IsTree(t, sub), NEW c \in DOMAIN t.heap
  PROVE  IsEnd(t, sub, c, "llink", Leftmost(t, c))
<1>1. c # NULL /\ "llink" \in Sides
  BY PointerAssumption DEF IsTree, IsHeap, Sides
<1> QED BY <1>1, EndOfSide, Zenon DEF Leftmost

LEMMA RightmostIs ==
  ASSUME NEW t, NEW sub, IsTree(t, sub), NEW c \in DOMAIN t.heap
  PROVE  IsEnd(t, sub, c, "rlink", Rightmost(t, c))
<1>1. c # NULL /\ "rlink" \in Sides
  BY PointerAssumption DEF IsTree, IsHeap, Sides
<1> QED BY <1>1, EndOfSide, Zenon DEF Rightmost

\* A node can get another key that is in the same order to all others.
Rekeyed(t, u, n) ==
  /\ DOMAIN u = DOMAIN t /\ u.root = t.root /\ DOMAIN u.heap = DOMAIN t.heap
  /\ \A x \in DOMAIN t.heap :
       /\ DOMAIN u.heap[x] = DOMAIN t.heap[x]
       /\ \A f \in {"parent", "llink", "rlink"} : u.heap[x][f] = t.heap[x][f]
       /\ x # n => u.heap[x].key = t.heap[x].key
  /\ u.heap[n].key \in Int
  /\ \A x \in DOMAIN t.heap \ {n}, s \in Sides :
       Less(s, t.heap[n].key, t.heap[x].key) => Less(s, u.heap[n].key, t.heap[x].key)

LEMMA RekeyKeepsTree ==
  ASSUME NEW t, NEW sub, IsTree(t, sub), NEW n \in DOMAIN t.heap, NEW u, Rekeyed(t, u, n)
  PROVE  IsTree(u, sub)
<1> USE DEF Rekeyed
<1> DEFINE D == DOMAIN t.heap
<1>1. \A x \in D : /\ u.heap[x].parent = t.heap[x].parent
                   /\ \A s \in Sides : u.heap[x][s] = t.heap[x][s]
  BY DEF Sides
<1>2. IsHeap(u)
  BY DEF IsTree, IsHeap
<1>3. Linked(u)
  <2>1. IF u.root = NULL THEN D = {} ELSE u.root \in D /\ u.heap[u.root].parent = NULL
    BY <1>1 DEF IsTree, Linked
  <2>2. \A x \in D, s \in Sides :
          u.heap[x][s] # NULL => u.heap[x][s] \in D /\ u.heap[u.heap[x][s]].parent = x
    BY <1>1 DEF IsTree, Linked
  <2>3. \A x \in D :
          IF u.heap[x].parent = NULL THEN x = u.root
          ELSE u.heap[x].parent \in D /\ \E s \in Sides : u.heap[u.heap[x].parent][s] = x
    BY <1>1 DEF IsTree, Linked
  <2> QED BY <2>1, <2>2, <2>3 DEF Linked
<1>4. Spans(u, sub)
  BY DEF IsTree, Spans
<1>5. Sorted(u, sub)
  <2> SUFFICES ASSUME NEW x \in D, NEW s \in Sides, NEW y \in At(sub, t.heap[x][s])
               PROVE  Less(s, u.heap[y].key, u.heap[x].key)
    BY <1>1 DEF Sorted
  <2>1. y \in D /\ Less(s, t.heap[y].key, t.heap[x].key) /\ y # x
    BY TreeFacts DEF IsTree, Sorted
  <2>2. /\ \A z \in D : t.heap[z].key \in Int
        /\ Other(s) \in Sides
        /\ \A i, j \in Int : Less(s, i, j) <=> Less(Other(s), j, i)
    BY DEF IsTree, IsHeap, Sides, Other, Less
  <2>3. CASE x = n
    <3>1. Less(Other(s), t.heap[n].key, t.heap[y].key)
      BY <2>1, <2>2, <2>3
    <3>2. Less(Other(s), u.heap[n].key, t.heap[y].key)
      BY <2>1, <2>2, <2>3, <3>1
    <3> QED BY <2>1, <2>2, <2>3, <3>2
  <2>4. CASE y = n
    BY <2>1, <2>4
  <2>5. CASE x # n /\ y # n
    BY <2>1, <2>5
  <2> QED BY <2>3, <2>4, <2>5
<1> QED BY <1>2, <1>3, <1>4, <1>5 DEF IsTree

\* No key is between that of a node and the nearest one below it on a side.
LEMMA NeighbourIsNext ==
  ASSUME NEW t, NEW sub, IsTree(t, sub), NEW n \in DOMAIN t.heap, NEW s \in Sides,
         t.heap[n][s] # NULL, NEW e, IsEnd(t, sub, t.heap[n][s], Other(s), e)
  PROVE  /\ e \in DOMAIN t.heap /\ e # n /\ e # NULL /\ t.heap[e][Other(s)] = NULL
         /\ \A x \in DOMAIN t.heap \ {n, e}, r \in Sides :
              Less(r, t.heap[n].key, t.heap[x].key) => Less(r, t.heap[e].key, t.heap[x].key)
<1> DEFINE D == DOMAIN t.heap
           c == t.heap[n][s]
           key(x) == t.heap[x].key
<1>1. /\ c \in D /\ sub[c] \subseteq sub[n] /\ n \notin sub[c] /\ At(sub, c) = sub[c]
      /\ sub[n] \subseteq D /\ n \in sub[n]
  BY TreeFacts
<1>2. /\ e \in sub[c] /\ t.heap[e][Other(s)] = NULL
      /\ \A y \in sub[c] : y = e \/ Less(Other(s), key(e), key(y))
  BY DEF IsEnd
<1>3. \A x \in D : key(x) \in Int
  BY DEF IsTree, IsHeap
<1>4. NULL \notin D
  BY PointerAssumption DEF IsTree, IsHeap
<1>5. Less(s, key(e), key(n))
  BY <1>1, <1>2 DEF IsTree, Sorted
<1>6. sub[n] = {n} \cup At(sub, c) \cup At(sub, t.heap[n][Other(s)])
  BY DEF IsTree, Spans, Sides, Other
<1> HIDE DEF c
<1>7. ASSUME NEW x \in D \ {n, e}, NEW r \in Sides, Less(r, key(n), key(x))
      PROVE  Less(r, key(e), key(x))
  <2>1. key(n) \in Int /\ key(e) \in Int /\ key(x) \in Int
    BY <1>1, <1>2, <1>3
  <2>2. CASE x \in sub[c]
    <3>1. Less(Other(s), key(e), key(x)) /\ Less(s, key(x), key(n))
      BY <1>1, <1>2, <2>2 DEF IsTree, Sorted, c
    <3> HIDE DEF key
    <3> QED BY <1>7, <2>1, <3>1 DEF Less, Sides, Other
  <2>3. CASE x \in At(sub, t.heap[n][Other(s)])
    <3>1. Less(Other(s), key(x), key(n))
      BY <2>3 DEF IsTree, Sorted, Sides, Other
    <3> HIDE DEF key
    <3> QED BY <1>5, <1>7, <2>1, <3>1 DEF Less, Sides, Other
  <2>4. CASE x \notin sub[n]
    <3>1. PICK q \in Sides : Less(q, key(n), key(x)) /\ Less(q, key(e), key(x))
      BY <1>1, <1>2, <2>4, SubtreeIsInterval
    <3> HIDE DEF key
    <3> QED BY <1>7, <2>1, <3>1 DEF Less, Sides
  <2> QED BY <1>1, <1>6, <2>2, <2>3, <2>4
<1> QED BY <1>1, <1>2, <1>4, <1>7

\* The link to a node that goes leads to its child instead.
LinkPast(t, u, e) ==
  LET p == t.heap[e].parent
  IN  \A x \in DOMAIN t.heap \ {e}, r \in Sides :
        u.heap[x][r] = IF x = p /\ t.heap[p][r] = e THEN OnlyChild(t, e) ELSE t.heap[x][r]

\* A node with two children goes by way of its neighbour e, whose contents it gets.
HasInherited(t, u, n, e) ==
  LET k == t.heap[n].key
  IN  /\ \E sub : IsTree(u, sub)
      /\ u.count = t.count /\ DOMAIN u.heap = DOMAIN t.heap \ {e} /\ e # n /\ e \in DOMAIN t.heap
      /\ \A x \in DOMAIN t.heap \ {e} :
           /\ DOMAIN u.heap[x] = DOMAIN t.heap[x]
           /\ \A f \in DOMAIN t.heap[x] \ {"key", "datum", "parent", "llink", "rlink"} :
                u.heap[x][f] = t.heap[x][f]
           /\ x # n => SameNode(t, u, x)
      /\ LinkPast(t, u, e)
      /\ Filled(u, NULL)
      /\ k \in DOMAIN MapOf(t) /\ MapOf(u) = Restrict(MapOf(t), DOMAIN MapOf(t) \ {k})

LEMMA HeirKeepsTree ==
  ASSUME NEW t, NEW sub, IsTree(t, sub), NEW n \in DOMAIN t.heap, NEW s \in Sides,
         t.heap[n][s] # NULL, NEW e, IsEnd(t, sub, t.heap[n][s], Other(s), e), Filled(t, NULL)
  PROVE  HasInherited(t, Splice(SwapContents(t, n, e), e), n, e)
<1> DEFINE D == DOMAIN t.heap
           w == SwapContents(t, n, e)
           u == Splice(w, e)
           v == Splice(t, e)
<1>1. /\ e \in D /\ e # n /\ e # NULL /\ t.heap[e][Other(s)] = NULL
      /\ \A x \in D \ {n, e}, r \in Sides :
           Less(r, t.heap[n].key, t.heap[x].key) => Less(r, t.heap[e].key, t.heap[x].key)
  BY NeighbourIsNext
<1>2. /\ DOMAIN t = {"root", "count", "heap"} /\ NULL \notin D
      /\ \A x \in D : /\ {"key", "datum", "parent", "llink", "rlink"} \subseteq DOMAIN t.heap[x]
                      /\ t.heap[x].key \in Int
  BY PointerAssumption DEF IsTree, IsHeap
<1>3. NULL \in {t.heap[e].llink, t.heap[e].rlink}
  BY <1>1 DEF Sides, Other
<1>4. /\ DOMAIN w = DOMAIN t /\ w.root = t.root /\ w.count = t.count /\ DOMAIN w.heap = D
      /\ \A x \in D :
           /\ DOMAIN w.heap[x] = DOMAIN t.heap[x]
           /\ \A f \in DOMAIN t.heap[x] \ {"key", "datum"} : w.heap[x][f] = t.heap[x][f]
           /\ w.heap[x].key = IF x = n THEN t.heap[e].key
                              ELSE IF x = e THEN t.heap[n].key ELSE t.heap[x].key
           /\ w.heap[x].datum = IF x = n THEN t.heap[e].datum
                                ELSE IF x = e THEN t.heap[n].datum ELSE t.heap[x].datum
  <2>1. DOMAIN w = DOMAIN t /\ w.root = t.root /\ w.count = t.count /\ DOMAIN w.heap = D
    BY <1>2 DEF SwapContents
  <2>2. ASSUME NEW x \in D \ {n, e} PROVE w.heap[x] = t.heap[x]
    BY <1>1, <1>2, <2>2 DEF SwapContents
  <2>3. /\ DOMAIN w.heap[n] = DOMAIN t.heap[n]
        /\ \A f \in DOMAIN t.heap[n] \ {"key", "datum"} : w.heap[n][f] = t.heap[n][f]
        /\ w.heap[n].key = t.heap[e].key /\ w.heap[n].datum = t.heap[e].datum
    <3>1. w.heap[n] = [t.heap[n] EXCEPT !.key = t.heap[e].key, !.datum = t.heap[e].datum]
      BY <1>1, <1>2 DEF SwapContents
    <3> HIDE DEF w
    <3> QED BY <1>1, <1>2, <3>1
  <2>4. /\ DOMAIN w.heap[e] = DOMAIN t.heap[e]
        /\ \A f \in DOMAIN t.heap[e] \ {"key", "datum"} : w.heap[e][f] = t.heap[e][f]
        /\ w.heap[e].key = t.heap[n].key /\ w.heap[e].datum = t.heap[n].datum
    <3>1. w.heap[e] = [t.heap[e] EXCEPT !.key = t.heap[n].key, !.datum = t.heap[n].datum]
      BY <1>1, <1>2 DEF SwapContents
    <3> HIDE DEF w
    <3> QED BY <1>1, <1>2, <3>1
  <2> HIDE DEF w
  <2> QED BY <1>1, <2>1, <2>2, <2>3, <2>4
<1> HIDE DEF w
<1>5. \A x \in D : /\ w.heap[x].parent = t.heap[x].parent
                   /\ w.heap[x].llink = t.heap[x].llink /\ w.heap[x].rlink = t.heap[x].rlink
                   /\ \A r \in Sides : w.heap[x][r] = t.heap[x][r]
  BY <1>2, <1>4 DEF Sides
<1>6. IsTree(v, WithoutNode(t, sub, e)) /\ Spliced(t, v, e)
  <2>1. SplicePlace(t, e) /\ IsHeap(t)
    BY <1>1, AroundSplice DEF IsTree
  <2>2. Spliced(t, v, e)
    BY <1>1, <2>1, SpliceIs
  <2>3. IsTree(v, WithoutNode(t, sub, e))
    BY <1>1, <1>3, SpliceKeepsTree
  <2> QED BY <2>2, <2>3
<1>7. Spliced(w, u, e)
  <2>1. OnlyChild(w, e) = OnlyChild(t, e)
    BY <1>1, <1>5 DEF OnlyChild
  <2>2. SplicePlace(t, e) /\ IsHeap(t)
    BY <1>1, AroundSplice DEF IsTree
  <2>3. SplicePlace(w, e)
    BY <1>1, <1>4, <1>5, <2>1, <2>2 DEF SplicePlace
  <2>4. IsHeap(w)
    BY <1>1, <1>2, <1>4, <2>2 DEF IsHeap
  <2> QED BY <1>1, <1>4, <2>3, <2>4, SpliceIs
<1> HIDE DEF u, v
<1>8. /\ DOMAIN v = DOMAIN t /\ v.count = t.count /\ DOMAIN v.heap = D \ {e}
      /\ DOMAIN u = DOMAIN t /\ u.count = t.count /\ DOMAIN u.heap = D \ {e}
      /\ u.root = v.root
      /\ \A x \in D \ {e} : /\ SameNode(t, v, x) /\ SameNode(w, u, x)
                            /\ u.heap[x].parent = v.heap[x].parent
                            /\ \A r \in Sides : u.heap[x][r] = v.heap[x][r]
  <2>1. OnlyChild(w, e) = OnlyChild(t, e) /\ w.heap[e].parent = t.heap[e].parent
    BY <1>1, <1>5 DEF OnlyChild
  <2>2. \A p \in D, r \in Sides : w.heap[p][r] = t.heap[p][r]
    BY <1>5
  <2>3. \A x \in D \ {e} : u.heap[x].parent = v.heap[x].parent
    BY <1>4, <1>5, <1>6, <1>7, <2>1 DEF Spliced
  <2>4. \A x \in D \ {e}, r \in Sides : u.heap[x][r] = v.heap[x][r]
    BY <1>4, <1>5, <1>6, <1>7, <2>1 DEF Spliced
  <2>5. u.root = v.root
    BY <1>4, <1>6, <1>7, <2>1 DEF Spliced
  <2>6. \A x \in D \ {e} : SameNode(t, v, x) /\ SameNode(w, u, x)
    BY <1>4, <1>6, <1>7 DEF Spliced
  <2> QED BY <1>4, <1>6, <1>7, <2>3, <2>4, <2>5, <2>6 DEF Spliced
<1>9. \A x \in D \ {e} :
        /\ DOMAIN v.heap[x] = DOMAIN t.heap[x] /\ v.heap[x].key = t.heap[x].key
        /\ DOMAIN u.heap[x] = DOMAIN t.heap[x]
        /\ u.heap[x].key = IF x = n THEN t.heap[e].key ELSE t.heap[x].key
        /\ u.heap[x].datum = IF x = n THEN t.heap[e].datum ELSE t.heap[x].datum
        /\ \A f \in DOMAIN t.heap[x] \ {"key", "datum", "parent", "llink", "rlink"} :
             u.heap[x][f] = t.heap[x][f]
  BY <1>2, <1>4, <1>8 DEF SameNode
<1>10. IsTree(u, WithoutNode(t, sub, e))
  <2>1. \A x \in D \ {e} : \A f \in {"parent", "llink", "rlink"} : u.heap[x][f] = v.heap[x][f]
    BY <1>8 DEF Sides
  <2>2. \A x \in D \ {e} : x # n => u.heap[x].key = v.heap[x].key
    BY <1>9
  <2>3. u.heap[n].key = t.heap[e].key /\ v.heap[n].key = t.heap[n].key /\ u.heap[n].key \in Int
    BY <1>1, <1>2, <1>9
  <2>4. \A x \in (D \ {e}) \ {n}, r \in Sides :
          Less(r, v.heap[n].key, v.heap[x].key) => Less(r, u.heap[n].key, v.heap[x].key)
    BY <1>1, <1>9, <2>3
  <2>5. n \in DOMAIN v.heap
    BY <1>1, <1>8
  <2>6. Rekeyed(v, u, n)
    BY <1>8, <1>9, <2>1, <2>2, <2>3, <2>4 DEF Rekeyed
  <2> QED BY <1>6, <2>5, <2>6, RekeyKeepsTree
<1>11. Filled(u, NULL)
  BY <1>1, <1>2, <1>8, <1>9 DEF Filled
<1>12. /\ t.heap[n].key \in DOMAIN MapOf(t)
       /\ MapOf(u) = Restrict(MapOf(t), DOMAIN MapOf(t) \ {t.heap[n].key})
  <2>1. Present(t) = D \ {NULL} /\ Present(u) = DOMAIN u.heap \ {NULL}
    BY <1>11, FilledIsPresent
  <2>2. Present(t) = D /\ Present(u) = D \ {e}
    <3> HIDE DEF D
    <3> QED BY <1>2, <1>8, <2>1
  <2>3. \A x \in Present(t) \ {n} : \E m \in Present(u) :
          u.heap[m].key = t.heap[x].key /\ u.heap[m].datum = t.heap[x].datum
    BY <1>1, <1>9, <2>2
  <2>4. \A m \in Present(u) : \E x \in Present(t) \ {n} : t.heap[x].key = u.heap[m].key
    BY <1>1, <1>9, <2>2
  <2>5. n \in Present(t)
    BY <2>2
  <2> QED BY <1>10, <2>3, <2>4, <2>5, MapShrinks
<1>13. \A x \in D \ {e} : x # n => SameNode(t, u, x)
  BY <1>2, <1>9 DEF SameNode
<1>14. LinkPast(t, u, e)
  BY <1>6, <1>8 DEF LinkPast, Spliced
<1>15. HasInherited(t, u, n, e)
  BY <1>1, <1>8, <1>9, <1>10, <1>11, <1>12, <1>13, <1>14 DEF HasInherited
<1> QED BY <1>15 DEF u, w

\* A new key gets a leaf, which is not in the map yet.
LEMMA PlantGrowsTree ==
  ASSUME NEW t, NEW sub, IsTree(t, sub), Filled(t, NULL), NEW k \in Keys, NEW extra,
         DOMAIN extra \cap {"key", "datum", "parent", "llink", "rlink"} = {},
         SearchNode(t, k) = NULL, Addresses \ DOMAIN t.heap # {}
  PROVE  LET a == Fresh(t)
             p == InsertionParent(t, k)
             u == Attach(t, a, node_new(k, p, extra))
         IN  /\ \E sub2 : IsTree(u, sub2)
             /\ a \in Addresses /\ a \notin DOMAIN t.heap /\ a # NULL
             /\ p \in DOMAIN t.heap \cup {NULL}
             /\ u.count = t.count /\ DOMAIN u.heap = DOMAIN t.heap \cup {a}
             /\ u.heap[a] = node_new(k, p, extra)
             /\ \A x \in DOMAIN t.heap : SameNode(t, u, x) /\ u.heap[x].parent = t.heap[x].parent
             /\ Filled(u, a) /\ MapOf(u) = MapOf(t)
             /\ LeafLinks(t, u, a, k, p)
<1> DEFINE a == Fresh(t)
           p == InsertionParent(t, k)
           node == node_new(k, p, extra)
           u == Attach(t, a, node)
<1>1. a \in Addresses /\ a \notin DOMAIN t.heap /\ a # NULL
  BY PointerAssumption DEF Fresh
<1>2. k \in Int /\ \A n \in DOMAIN t.heap : t.heap[n].key # k
  BY KeysAssumption, NotFoundIsAbsent
<1>3. IsPlaceOf(t, sub, k, p)
  BY <1>2, InsertionParentIsPlace
<1> HIDE DEF a, p
<1>4. /\ DOMAIN node = {"key", "datum", "parent", "llink", "rlink"} \cup DOMAIN extra
      /\ node.key = k /\ node.datum = NULL /\ node.parent = p
      /\ node.llink = NULL /\ node.rlink = NULL
  BY DEF node_new
<1> HIDE DEF node
<1>5. /\ IsTree(u, WithLeaf(t, sub, a, p))
      /\ u.count = t.count /\ DOMAIN u.heap = DOMAIN t.heap \cup {a}
      /\ u.heap[a] = node
      /\ \A x \in DOMAIN t.heap : SameNode(t, u, x) /\ u.heap[x].parent = t.heap[x].parent
      /\ LeafLinks(t, u, a, k, p)
  BY <1>1, <1>2, <1>3, <1>4, AttachKeepsTree
<1> HIDE DEF u
<1>6. p \in DOMAIN t.heap \cup {NULL}
  BY <1>3 DEF IsPlaceOf
<1>7. \A x \in DOMAIN t.heap : u.heap[x].key = t.heap[x].key /\ u.heap[x].datum = t.heap[x].datum
  BY <1>5 DEF SameNode, IsTree, IsHeap
<1>8. Filled(u, a)
  <2>1. NULL \notin DOMAIN t.heap
    BY PointerAssumption DEF IsTree, IsHeap
  <2> QED BY <1>1, <1>4, <1>5, <1>7, <2>1 DEF Filled
<1>9. Present(u) = Present(t) /\ Present(t) \subseteq DOMAIN t.heap
  BY <1>1, <1>4, <1>5, <1>7 DEF Present
<1>10. MapOf(u) = MapOf(t)
  BY <1>5, <1>7, <1>9, MapStays
<1>11. \E sub2 : IsTree(u, sub2)
  BY <1>5
<1> QED BY <1>1, <1>5, <1>6, <1>8, <1>10, <1>11 DEF u, a, p, node

\* What is neither a link nor a key can change as it likes.
LEMMA SameLinksTree ==
  ASSUME NEW t, NEW sub, IsTree(t, sub), NEW u, DOMAIN u = DOMAIN t, u.root = t.root,
         DOMAIN u.heap = DOMAIN t.heap,
         \A x \in DOMAIN t.heap :
           /\ DOMAIN u.heap[x] = DOMAIN t.heap[x]
           /\ \A f \in {"key", "parent", "llink", "rlink"} : u.heap[x][f] = t.heap[x][f]
  PROVE  IsTree(u, sub)
<1>1. IsHeap(u)
  BY DEF IsTree, IsHeap
<1>2. \A x \in DOMAIN t.heap : /\ u.heap[x].parent = t.heap[x].parent
                               /\ u.heap[x].key = t.heap[x].key
                               /\ \A s \in Sides : u.heap[x][s] = t.heap[x][s]
  BY DEF Sides
<1>3. Linked(u)
  <2>1. IF u.root = NULL THEN DOMAIN u.heap = {}
        ELSE u.root \in DOMAIN u.heap /\ u.heap[u.root].parent = NULL
    BY <1>2 DEF IsTree, Linked
  <2>2. \A n \in DOMAIN u.heap, s \in Sides :
          u.heap[n][s] # NULL => u.heap[n][s] \in DOMAIN u.heap /\ u.heap[u.heap[n][s]].parent = n
    BY <1>2 DEF IsTree, Linked
  <2>3. \A n \in DOMAIN u.heap :
          IF u.heap[n].parent = NULL THEN n = u.root
          ELSE /\ u.heap[n].parent \in DOMAIN u.heap
               /\ \E s \in Sides : u.heap[u.heap[n].parent][s] = n
    BY <1>2 DEF IsTree, Linked
  <2> QED BY <2>1, <2>2, <2>3 DEF Linked
<1>4. Spans(u, sub)
  BY DEF IsTree, Spans
<1>5. Sorted(u, sub)
  <2> SUFFICES ASSUME NEW n \in DOMAIN t.heap, NEW s \in Sides, NEW y \in At(sub, t.heap[n][s])
               PROVE  Less(s, u.heap[y].key, u.heap[n].key)
    BY <1>2 DEF Sorted
  <2>1. y \in DOMAIN t.heap /\ Less(s, t.heap[y].key, t.heap[n].key)
    BY TreeFacts DEF IsTree, Sorted
  <2> QED BY <1>2, <2>1
<1> QED BY <1>1, <1>3, <1>4, <1>5 DEF IsTree


\* What Grown does at a.
Returned(t, a) == [t EXCEPT !.count = @ + 1, !.heap[a].datum = Datum(t.heap[a].key)]

\* The caller of an insertion sets the datum, and its key is in the map.
HasGrown(t, u, a, sub) ==
  LET k == t.heap[a].key
  IN  /\ IsTree(u, sub) /\ Filled(u, NULL)
      /\ u.count = t.count + 1 /\ DOMAIN u.heap = DOMAIN t.heap
      /\ \A x \in DOMAIN t.heap :
           /\ DOMAIN u.heap[x] = DOMAIN t.heap[x]
           /\ \A f \in DOMAIN t.heap[x] \ {"datum"} : u.heap[x][f] = t.heap[x][f]
           /\ x # a => u.heap[x].datum = t.heap[x].datum
      /\ k \in Keys /\ PutsKey(t, u, k)

LEMMA GrownPutsKey ==
  ASSUME NEW t, NEW sub, IsTree(t, sub), NEW a \in DOMAIN t.heap, Filled(t, a)
  PROVE  HasGrown(t, Returned(t, a), a, sub)
<1> DEFINE k == t.heap[a].key
           d == Datum(k)
           u == [t EXCEPT !.count = @ + 1, !.heap[a].datum = d]
<1>1. /\ DOMAIN t = {"root", "count", "heap"} /\ NULL \notin DOMAIN t.heap
      /\ \A x \in DOMAIN t.heap : {"key", "datum", "parent", "llink", "rlink"} \subseteq DOMAIN t.heap[x]
  BY PointerAssumption DEF IsTree, IsHeap
<1> HIDE DEF d
<1>2. /\ DOMAIN u = DOMAIN t /\ u.root = t.root /\ u.count = t.count + 1
      /\ DOMAIN u.heap = DOMAIN t.heap
      /\ \A x \in DOMAIN t.heap :
           /\ DOMAIN u.heap[x] = DOMAIN t.heap[x]
           /\ \A f \in DOMAIN t.heap[x] \ {"datum"} : u.heap[x][f] = t.heap[x][f]
           /\ u.heap[x].datum = IF x = a THEN d ELSE t.heap[x].datum
  BY <1>1
<1> HIDE DEF u
<1>3. \A x \in DOMAIN t.heap : \A f \in {"key", "parent", "llink", "rlink"} :
        u.heap[x][f] = t.heap[x][f]
  BY <1>1, <1>2
<1>4. IsTree(u, sub)
  BY <1>2, <1>3, SameLinksTree
<1>5. \A x \in DOMAIN t.heap : u.heap[x].key = t.heap[x].key
  BY <1>3
<1>6. Filled(u, NULL)
  BY <1>1, <1>2, <1>5 DEF Filled, d
<1>7. k \in Keys /\ t.heap[a].datum = NULL
  BY DEF Filled
<1>8. PutsKey(t, u, k)
  <2>1. u.heap[a].datum = Datum(t.heap[a].key)
    BY <1>2 DEF d
  <2>2. \A n \in DOMAIN t.heap :
          u.heap[n].key = t.heap[n].key /\ (n # a => u.heap[n].datum = t.heap[n].datum)
    BY <1>2, <1>5
  <2>3. Fills(t, u, a)
    BY <1>2, <1>7, <2>1, <2>2 DEF Fills
  <2> HIDE DEF k
  <2>4. PutsKey(t, u, t.heap[a].key)
    BY <1>4, <2>3, MapGrows
  <2> QED BY <2>4 DEF k
<1>9. u = Returned(t, a)
  BY DEF Returned, u, d
<1>10. HasGrown(t, u, a, sub)
  BY <1>2, <1>4, <1>6, <1>7, <1>8 DEF HasGrown
<1> QED BY <1>9, <1>10

\* A step of tree_clear leaves a search tree, and comes to its end when no node is left.
HasCleared(t, u, n, next) ==
  LET k == t.heap[n].key
      N == DOMAIN u.heap
  IN  /\ \E sub : IsTree(u, sub)
      /\ Filled(u, NULL) /\ u.count = t.count
      /\ N = DOMAIN t.heap \/ N = DOMAIN t.heap \ {n}
      /\ \A x \in N : SameNode(t, u, x) /\ u.heap[x].parent = t.heap[x].parent
      /\ next \in N \cup {NULL}
      /\ next = NULL => N = {}
      /\ k \in DOMAIN MapOf(t)
      /\ \/ MapOf(u) = MapOf(t)
         \/ MapOf(u) = Restrict(MapOf(t), DOMAIN MapOf(t) \ {k})

LEMMA ClearedIsTree ==
  ASSUME NEW t, NEW sub, IsTree(t, sub), NEW n \in DOMAIN t.heap, Filled(t, NULL)
  PROVE  HasCleared(t, Cleared(t, n), n, ClearGoes(t, n))
<1> DEFINE u == Cleared(t, n)
           k == t.heap[n].key
<1>1. NULL \notin DOMAIN t.heap /\ n # NULL
  BY PointerAssumption DEF IsTree, IsHeap
<1>2. k \in DOMAIN MapOf(t)
  <2>1. n \in Present(t)
    BY <1>1, FilledIsPresent
  <2>2. Holds(t, MapOf(t))
    BY MapOfIs
  <2> QED BY <2>1, <2>2 DEF Holds
<1>3. CASE t.heap[n].llink = NULL /\ t.heap[n].rlink = NULL
  <2>1. u = Splice(t, n) /\ ClearGoes(t, n) = t.heap[n].parent
    BY <1>3 DEF Cleared, ClearGoes
  <2>2. NULL \in {t.heap[n].llink, t.heap[n].rlink} /\ OnlyChild(t, n) = NULL
    BY <1>3 DEF OnlyChild
  <2>3. /\ IsTree(Splice(t, n), WithoutNode(t, sub, n))
        /\ Splice(t, n).count = t.count /\ DOMAIN Splice(t, n).heap = DOMAIN t.heap \ {n}
        /\ \A x \in DOMAIN t.heap \ {n} :
             /\ SameNode(t, Splice(t, n), x)
             /\ Splice(t, n).heap[x].parent = IF x = OnlyChild(t, n) THEN t.heap[n].parent
                                              ELSE t.heap[x].parent
    BY <2>2, SpliceKeepsTree
  <2>4. /\ Filled(Splice(t, n), NULL)
        /\ MapOf(Splice(t, n)) = Restrict(MapOf(t), DOMAIN MapOf(t) \ {k})
    BY <2>2, SpliceTakesKey
  <2>5. t.heap[n].parent \in (DOMAIN t.heap \ {n}) \cup {NULL}
    <3>1. t.heap[n].parent # NULL => t.heap[n].parent \in DOMAIN t.heap
      BY DEF IsTree, Linked
    <3> QED BY <1>1, <1>3, <3>1 DEF IsTree, Linked, Sides
  <2>6. ASSUME t.heap[n].parent = NULL PROVE DOMAIN t.heap \ {n} = {}
    <3>1. n = t.root
      BY <2>6 DEF IsTree, Linked
    <3>2. DOMAIN t.heap = sub[n] /\ sub[n] = {n} \cup At(sub, t.heap[n].llink) \cup At(sub, t.heap[n].rlink)
      BY <1>1, <3>1 DEF IsTree, Spans
    <3> QED BY <1>3, <3>2 DEF At
  <2> HIDE DEF u
  <2> QED BY <1>1, <1>2, <2>1, <2>2, <2>3, <2>4, <2>5, <2>6 DEF u, HasCleared
<1>4. CASE ~(t.heap[n].llink = NULL /\ t.heap[n].rlink = NULL)
  <2>1. u = t
    BY <1>4 DEF Cleared
  <2>2. ClearGoes(t, n) \in DOMAIN t.heap
    BY <1>4 DEF ClearGoes, IsTree, Linked, Sides
  <2>3. \A x \in DOMAIN t.heap : SameNode(t, t, x)
    BY DEF SameNode
  <2> HIDE DEF u
  <2> QED BY <1>1, <1>2, <2>1, <2>2, <2>3 DEF u, HasCleared
<1> QED BY <1>3, <1>4

\* A rotation changes nothing but links.
LEMMA RotationIsTree ==
  ASSUME NEW t, NEW sub, IsTree(t, sub), NEW n \in DOMAIN t.heap, NEW s \in Sides,
         t.heap[n][s] # NULL, NEW u, Rotated(t, u, n, s)
  PROVE  /\ \E sub2 : IsTree(u, sub2)
         /\ u.count = t.count /\ DOMAIN u.heap = DOMAIN t.heap
         /\ \A x \in DOMAIN t.heap : SameNode(t, u, x)
         /\ MapOf(u) = MapOf(t)
         /\ \A a : Filled(t, a) => Filled(u, a)
<1>1. DOMAIN u.heap = DOMAIN t.heap /\ \A x \in DOMAIN t.heap : SameNode(t, u, x)
  BY DEF Rotated
<1>2. u.count = t.count
  BY DEF Rotated
<1>3. PICK sub2 : IsTree(u, sub2)
  BY RotationKeepsTree
<1> QED BY <1>1, <1>2, <1>3, SameNodesSameMap

\* What a step may do besides: the pointers to nodes and data that callers hold stay good,
\* and the map gets or loses one key or stays as it is.
KeepsPointers ==
  \A n \in DOMAIN tree.heap \cap DOMAIN tree'.heap :
    /\ tree'.heap[n].key = tree.heap[n].key
    /\ tree.heap[n].datum # NULL => tree'.heap[n].datum = tree.heap[n].datum

MapStep == \/ MapOf(tree') = MapOf(tree)
           \/ \E k \in Keys : Map!Put(k) \/ Map!Delete(k)

\* Nodes that stay keep their keys and, if it is set, their datum.
LEMMA SameNodesKeepPointers ==
  ASSUME NEW sub, IsTree(tree, sub),
         \A x \in DOMAIN tree.heap \cap DOMAIN tree'.heap : SameNode(tree, tree', x)
  PROVE  KeepsPointers
BY DEF KeepsPointers, SameNode, IsTree, IsHeap


----------------------------------------------------------------------------
(* Walks *)

\* m is the nearest node to n on side s, if there is one.
IsNearest(t, s, n, m) ==
  IF m = NULL
  THEN \A x \in DOMAIN t.heap : ~Less(s, t.heap[x].key, t.heap[n].key)
  ELSE /\ m \in DOMAIN t.heap /\ Less(s, t.heap[m].key, t.heap[n].key)
       /\ \A x \in DOMAIN t.heap : Less(s, t.heap[x].key, t.heap[n].key) =>
            x = m \/ Less(s, t.heap[x].key, t.heap[m].key)

LEMMA LessIsOrder ==
  ASSUME NEW s \in Sides
  PROVE  /\ Other(s) \in Sides /\ Other(Other(s)) = s
         /\ \A i, j, k \in Int :
              /\ Less(Other(s), i, j) <=> Less(s, j, i)
              /\ Less(s, i, j) => ~Less(s, j, i) /\ i # j
              /\ Less(s, i, j) /\ Less(s, j, k) => Less(s, i, k)
              /\ i = j \/ Less(s, i, j) \/ Less(s, j, i)
BY DEF Sides, Other, Less

LEMMA EndIsNearest ==
  ASSUME NEW t, NEW sub, IsTree(t, sub), NEW n \in DOMAIN t.heap, NEW s \in Sides,
         t.heap[n][s] # NULL, NEW e, IsEnd(t, sub, t.heap[n][s], Other(s), e)
  PROVE  IsNearest(t, s, n, e)
<1>1. \A x \in DOMAIN t.heap : t.heap[x].key \in Int
  BY DEF IsTree, IsHeap
<1>2. Other(s) \in Sides
  BY LessIsOrder
<1>3. /\ e \in DOMAIN t.heap /\ e # n /\ e # NULL
      /\ \A x \in DOMAIN t.heap \ {n, e} :
           Less(Other(s), t.heap[n].key, t.heap[x].key) => Less(Other(s), t.heap[e].key, t.heap[x].key)
  BY <1>2, NeighbourIsNext
<1>4. Less(s, t.heap[e].key, t.heap[n].key)
  <2>1. e \in At(sub, t.heap[n][s])
    BY TreeFacts DEF IsEnd
  <2> QED BY <2>1 DEF IsTree, Sorted
<1>5. ASSUME NEW x \in DOMAIN t.heap, Less(s, t.heap[x].key, t.heap[n].key), x # e
      PROVE  Less(s, t.heap[x].key, t.heap[e].key)
  <2>1. t.heap[x].key \in Int /\ t.heap[n].key \in Int /\ t.heap[e].key \in Int
    BY <1>1, <1>3
  <2>2. x # n
    BY <1>5, <2>1, LessIsOrder
  <2>3. Less(Other(s), t.heap[n].key, t.heap[x].key)
    BY <1>5, <2>1, LessIsOrder
  <2>4. Less(Other(s), t.heap[e].key, t.heap[x].key)
    BY <1>3, <1>5, <2>2, <2>3
  <2> QED BY <2>1, <2>4, LessIsOrder
<1> QED BY <1>3, <1>4, <1>5 DEF IsNearest

\* The parents as a walk reads them.
Parents(t, up) == \A x \in DOMAIN t.heap : up[x] = t.heap[x].parent

LEMMA SpansSides ==
  ASSUME NEW t, NEW sub, IsTree(t, sub), NEW n \in DOMAIN t.heap, NEW s \in Sides
  PROVE  sub[n] = {n} \cup At(sub, t.heap[n][Other(s)]) \cup At(sub, t.heap[n][s])
<1>1. sub[n] = {n} \cup At(sub, t.heap[n].llink) \cup At(sub, t.heap[n].rlink)
  BY DEF IsTree, Spans
<1>2. CASE s = "llink"
  BY <1>1, <1>2 DEF Other
<1>3. CASE s = "rlink"
  BY <1>1, <1>3 DEF Other
<1> QED BY <1>2, <1>3 DEF Sides

\* The last node of a subtree on side s hangs, or a node above it does, on the other side of
\* the nearest node: that is where the way up ends.
LEMMA TopIsNearest ==
  ASSUME NEW t, NEW sub, IsTree(t, sub), NEW n \in DOMAIN t.heap, NEW s \in Sides,
         NEW y \in DOMAIN t.heap, n \in sub[y],
         \A z \in sub[y] : ~Less(s, t.heap[z].key, t.heap[n].key),
         NEW p, p = t.heap[y].parent, p # NULL => t.heap[p][s] # y
  PROVE  IsNearest(t, s, n, p)
<1> DEFINE D == DOMAIN t.heap
           key(x) == t.heap[x].key
<1>1. \A x \in D : key(x) \in Int /\ sub[x] \subseteq D
  BY TreeFacts DEF IsTree, IsHeap
<1>2. CASE p = NULL
  <2>1. sub[y] = D
    BY <1>2, PointerAssumption DEF IsTree, IsHeap, Linked, Spans
  <2> QED BY <1>2, <2>1 DEF IsNearest
<1>3. CASE p # NULL
  <2>1. p \in D /\ t.heap[p][Other(s)] = y
    BY <1>3 DEF IsTree, Linked, Sides, Other
  <2>2. Other(s) \in Sides /\ Other(Other(s)) = s
    BY LessIsOrder
  <2>3. y # NULL
    BY TreeFacts
  <2>4. /\ At(sub, y) = sub[y] /\ sub[y] \subseteq sub[p]
        /\ sub[p] = {p} \cup sub[y] \cup At(sub, t.heap[p][s])
    <3>1. sub[p] = {p} \cup At(sub, t.heap[p][Other(s)]) \cup At(sub, t.heap[p][s])
      BY <2>1, SpansSides
    <3>2. At(sub, y) = sub[y]
      BY <2>3 DEF At
    <3> DEFINE A == sub[y]
               B == At(sub, t.heap[p][s])
    <3>3. sub[p] = {p} \cup A \cup B
      BY <2>1, <3>1, <3>2, Zenon
    <3> HIDE DEF A, B
    <3>4. A \subseteq sub[p]
      BY <3>3
    <3> QED BY <3>2, <3>3, <3>4 DEF A, B
  <2>5. Less(Other(s), key(n), key(p))
    BY <2>1, <2>2, <2>4 DEF IsTree, Sorted
  <2>6. Less(s, key(p), key(n))
    BY <1>1, <2>1, <2>5, LessIsOrder
  <2>7. ASSUME NEW x \in D, Less(s, key(x), key(n)), x # p
        PROVE  Less(s, key(x), key(p))
    <3>1. x \notin sub[y] /\ key(x) \in Int /\ key(n) \in Int /\ key(p) \in Int
      BY <1>1, <2>1, <2>7
    <3>2. CASE x \in sub[p]
      <4>1. x \in At(sub, t.heap[p][s])
        BY <2>4, <2>7, <3>1, <3>2
      <4> QED BY <2>1, <4>1 DEF IsTree, Sorted
    <3>3. CASE x \notin sub[p]
      <4>1. p \in sub[p] /\ n \in sub[p]
        BY <2>4
      <4>2. PICK q \in Sides : \A z \in sub[p] : Less(q, key(z), key(x))
        BY <2>1, <3>3, SubtreeIsInterval
      <4>3. Less(q, key(n), key(x)) /\ Less(q, key(p), key(x))
        BY <4>1, <4>2
      <4>4. q = s \/ q = Other(s)
        BY DEF Sides, Other
      <4> HIDE DEF key
      <4> QED BY <2>7, <3>1, <4>3, <4>4, LessIsOrder
    <3> QED BY <3>2, <3>3
  <2>8. p # NULL
    BY <1>3
  <2> QED BY <2>1, <2>6, <2>7, <2>8 DEF IsNearest
<1> QED BY <1>2, <1>3

LEMMA ClimbEnds ==
  ASSUME NEW t, NEW sub, IsTree(t, sub), NEW n \in DOMAIN t.heap, NEW s \in Sides,
         t.heap[n][s] = NULL, NEW up, Parents(t, up)
  PROVE  LET climb == CHOOSE w : w = [x \in DOMAIN t.heap |->
                        IF up[x] \notin {NULL, Wild} /\ t.heap[up[x]][s] = x
                        THEN w[up[x]] ELSE up[x]]
         IN  IsNearest(t, s, n, climb[n])
<1> DEFINE D == DOMAIN t.heap
           next == [x \in D |-> up[x]]
           Final == {x \in D : ~(up[x] \notin {NULL, Wild} /\ t.heap[up[x]][s] = x)}
           Eqn(w) == w = [x \in D |-> IF up[x] \notin {NULL, Wild} /\ t.heap[up[x]][s] = x
                                      THEN w[up[x]] ELSE up[x]]
           climb == CHOOSE w : Eqn(w)
           left == [x \in D |-> D \ sub[x]]
           S == {x \in D : n \in sub[x] /\ \A y \in sub[x] : ~Less(s, t.heap[y].key, t.heap[n].key)}
<1>1. /\ IsFiniteSet(D) /\ NULL \notin D /\ Wild \notin D
      /\ \A x \in D : t.heap[x].key \in Int /\ x \in sub[x] /\ sub[x] \subseteq D
  BY TreeFacts, PointerAssumption DEF IsTree, IsHeap
<1>2. ASSUME NEW x \in D, x \notin Final
      PROVE  /\ next[x] \in D /\ next[x] = up[x] /\ t.heap[next[x]][s] = x
             /\ sub[x] \subseteq sub[next[x]] /\ next[x] \notin sub[x] /\ next[x] \in sub[next[x]]
  <2>1. up[x] = t.heap[x].parent /\ up[x] # NULL /\ t.heap[up[x]][s] = x /\ next[x] = up[x]
    BY <1>2 DEF Parents
  <2>2. up[x] \in D
    BY <2>1 DEF IsTree, Linked
  <2>3. At(sub, x) = sub[x]
    BY <1>1 DEF At
  <2> QED BY <2>1, <2>2, <2>3, TreeFacts
<1>3. Stays(D, Final, next)
  BY <1>2 DEF Stays
<1>4. PICK f : Runs(f, D, Final, next, next)
  <2> HIDE DEF D, Final, next
  <2> QED BY <1>3, LoopHasResults
<1>5. \A w : Runs(w, D, Final, next, next) <=> Eqn(w)
  <2> TAKE w
  <2>1. [x \in D |-> IF x \in Final THEN next[x] ELSE w[next[x]]]
        = [x \in D |-> IF up[x] \notin {NULL, Wild} /\ t.heap[up[x]][s] = x
                       THEN w[up[x]] ELSE up[x]]
    OBVIOUS
  <2> HIDE DEF D, Final, next
  <2> QED BY <2>1 DEF Runs
<1>6. Runs(climb, D, Final, next, next)
  <2> HIDE DEF D, Final, next, Eqn
  <2> QED BY <1>4, <1>5
<1> HIDE DEF climb
<1>7. n \in S
  <2>1. ASSUME NEW y \in sub[n] PROVE ~Less(s, t.heap[y].key, t.heap[n].key)
    <3>1. CASE y = n
      BY <1>1, <3>1, LessIsOrder
    <3>2. CASE y \in At(sub, t.heap[n][Other(s)])
      <4>1. Less(Other(s), t.heap[y].key, t.heap[n].key)
        BY <3>2, LessIsOrder DEF IsTree, Sorted
      <4>2. t.heap[y].key \in Int /\ t.heap[n].key \in Int
        BY <1>1
      <4> QED BY <4>1, <4>2 DEF Less, Other, Sides
    <3>3. sub[n] = {n} \cup At(sub, t.heap[n][Other(s)])
      BY DEF IsTree, Spans, Sides, Other, At
    <3> QED BY <3>1, <3>2, <3>3
  <2> QED BY <1>1, <2>1
<1>8. Stays(S, Final, next)
  <2> SUFFICES ASSUME NEW x \in S, x \notin Final PROVE next[x] \in S
    BY DEF Stays
  <2> DEFINE p == next[x]
  <2>1. p \in D /\ t.heap[p][s] = x /\ sub[x] \subseteq sub[p] /\ n \in sub[p]
    BY <1>2
  <2>2. At(sub, x) = sub[x]
    BY <1>1 DEF At
  <2>3. Less(s, t.heap[n].key, t.heap[p].key)
    BY <2>1, <2>2 DEF IsTree, Sorted
  <2>4. ASSUME NEW y \in sub[p] PROVE ~Less(s, t.heap[y].key, t.heap[n].key)
    <3>1. t.heap[y].key \in Int /\ t.heap[n].key \in Int /\ t.heap[p].key \in Int
      BY <1>1, <2>1
    <3>2. CASE y = p
      BY <2>3, <3>1, <3>2, LessIsOrder
    <3>3. CASE y \in At(sub, t.heap[p][Other(s)])
      <4>1. Less(Other(s), t.heap[y].key, t.heap[p].key)
        BY <2>1, <3>3, LessIsOrder DEF IsTree, Sorted
      <4> QED BY <2>3, <3>1, <4>1, LessIsOrder
    <3>4. sub[p] = {p} \cup sub[x] \cup At(sub, t.heap[p][Other(s)])
      BY <2>1, <2>2 DEF IsTree, Spans, Sides, Other
    <3> QED BY <3>2, <3>3, <3>4
  <2> QED BY <2>1, <2>4
<1>9. \E y \in S : y \in Final /\ climb[n] = next[y]
  <2>1. \A x \in D : left[x] \in SUBSET D
    OBVIOUS
  <2>2. S \in SUBSET D
    OBVIOUS
  <2>3. \A x \in S : x \notin Final => left[next[x]] \subseteq left[x] /\ left[next[x]] # left[x]
    <3> SUFFICES ASSUME NEW x \in S, x \notin Final
                 PROVE  left[next[x]] \subseteq left[x] /\ left[next[x]] # left[x]
      OBVIOUS
    <3>1. /\ x \in D /\ next[x] \in D /\ sub[x] \subseteq sub[next[x]]
          /\ next[x] \notin sub[x] /\ next[x] \in sub[next[x]]
      BY <1>2
    <3>2. left[x] = D \ sub[x] /\ left[next[x]] = D \ sub[next[x]]
      BY <3>1
    <3> QED BY <3>1, <3>2
  <2> HIDE DEF next, Final, S, D, left
  <2> QED BY <1>1, <1>6, <1>7, <1>8, <2>1, <2>2, <2>3, LoopEnds
<1>10. PICK y \in S : y \in Final /\ climb[n] = next[y]
  BY <1>9
<1>11. next[y] = t.heap[y].parent
  BY DEF Parents
<1>12. next[y] # NULL => t.heap[next[y]][s] # y
  <2>1. next[y] # NULL => next[y] \in D /\ next[y] # Wild
    BY <1>1, <1>11 DEF IsTree, Linked
  <2> QED BY <1>10, <2>1
<1>13. IsNearest(t, s, n, climb[n])
  BY <1>10, <1>11, <1>12, TopIsNearest
<1> QED BY <1>13 DEF climb

LEMMA NodeNextIs ==
  ASSUME NEW t, NEW sub, IsTree(t, sub), NEW n \in DOMAIN t.heap, NEW up, Parents(t, up)
  PROVE  IsNearest(t, "rlink", n, NodeNext(t, n, up))
<1>1. "rlink" \in Sides /\ Other("rlink") = "llink"
  BY DEF Sides, Other
<1>2. CASE t.heap[n].rlink # NULL
  <2>1. t.heap[n].rlink \in DOMAIN t.heap
    BY <1>1, <1>2, TreeFacts
  <2>2. IsEnd(t, sub, t.heap[n].rlink, "llink", Leftmost(t, t.heap[n].rlink))
    BY <2>1, LeftmostIs
  <2>3. NodeNext(t, n, up) = Leftmost(t, t.heap[n].rlink)
    BY <1>2, Zenon DEF NodeNext
  <2> QED BY <1>1, <1>2, <2>2, <2>3, EndIsNearest
<1>3. CASE t.heap[n].rlink = NULL
  BY <1>1, <1>3, ClimbEnds, Zenon DEF NodeNext
<1> QED BY <1>2, <1>3

LEMMA NodePrevIs ==
  ASSUME NEW t, NEW sub, IsTree(t, sub), NEW n \in DOMAIN t.heap, NEW up, Parents(t, up)
  PROVE  IsNearest(t, "llink", n, NodePrev(t, n, up))
<1>1. "llink" \in Sides /\ Other("llink") = "rlink"
  BY DEF Sides, Other
<1>2. CASE t.heap[n].llink # NULL
  <2>1. t.heap[n].llink \in DOMAIN t.heap
    BY <1>1, <1>2, TreeFacts
  <2>2. IsEnd(t, sub, t.heap[n].llink, "rlink", Rightmost(t, t.heap[n].llink))
    BY <2>1, RightmostIs
  <2>3. NodePrev(t, n, up) = Rightmost(t, t.heap[n].llink)
    BY <1>2, Zenon DEF NodePrev
  <2> QED BY <1>1, <1>2, <2>2, <2>3, EndIsNearest
<1>3. CASE t.heap[n].llink = NULL
  BY <1>1, <1>3, ClimbEnds, Zenon DEF NodePrev
<1> QED BY <1>2, <1>3


\* The nodes from x on in the direction s.
Beyond(t, s, x) ==
  IF x = NULL THEN {}
  ELSE {y \in DOMAIN t.heap : y = x \/ Less(s, t.heap[y].key, t.heap[x].key)}

LEMMA BeyondNearest ==
  ASSUME NEW t, NEW sub, IsTree(t, sub), NEW n \in DOMAIN t.heap, NEW s \in Sides,
         NEW m, IsNearest(t, s, n, m)
  PROVE  /\ Beyond(t, s, m) = Beyond(t, s, n) \ {n} /\ n \in Beyond(t, s, n)
         /\ m \in DOMAIN t.heap \cup {NULL}
<1> DEFINE key(x) == t.heap[x].key
<1>1. n # NULL /\ \A x \in DOMAIN t.heap : key(x) \in Int
  BY TreeFacts DEF IsTree, IsHeap
<1>2. n \in Beyond(t, s, n) /\ m \in DOMAIN t.heap \cup {NULL}
  BY <1>1 DEF Beyond, IsNearest
<1>3. CASE m = NULL
  BY <1>1, <1>3 DEF Beyond, IsNearest
<1>4. CASE m # NULL
  <2>1. /\ m \in DOMAIN t.heap /\ Less(s, key(m), key(n))
        /\ \A x \in DOMAIN t.heap : Less(s, key(x), key(n)) => x = m \/ Less(s, key(x), key(m))
    BY <1>4 DEF IsNearest
  <2>2. ASSUME NEW x \in DOMAIN t.heap
        PROVE  x = m \/ Less(s, key(x), key(m)) <=> x # n /\ (x = n \/ Less(s, key(x), key(n)))
    <3>1. key(x) \in Int /\ key(m) \in Int /\ key(n) \in Int
      BY <1>1, <2>1
    <3>2. Less(s, key(x), key(m)) => Less(s, key(x), key(n))
      BY <2>1, <3>1, LessIsOrder
    <3> HIDE DEF key
    <3>3. ~Less(s, key(n), key(n))
      BY <3>1 DEF Less
    <3> QED BY <2>1, <3>2, <3>3
  <2>3. /\ Beyond(t, s, m) = {y \in DOMAIN t.heap : y = m \/ Less(s, key(y), key(m))}
        /\ Beyond(t, s, n) = {y \in DOMAIN t.heap : y = n \/ Less(s, key(y), key(n))}
    BY <1>1, <1>4 DEF Beyond
  <2> HIDE DEF key
  <2>4. \A x \in DOMAIN t.heap : x \in Beyond(t, s, m) <=> x # n /\ x \in Beyond(t, s, n)
    BY <2>2, <2>3
  <2>5. Beyond(t, s, m) \subseteq DOMAIN t.heap /\ Beyond(t, s, n) \subseteq DOMAIN t.heap
    BY <2>3
  <2>6. Beyond(t, s, m) = Beyond(t, s, n) \ {n}
    BY <2>4, <2>5
  <2> QED BY <1>2, <2>6
<1> QED BY <1>2, <1>3, <1>4

LEMMA Prefixed ==
  ASSUME NEW k \in Int, NEW h \in Seq(Int)
  PROVE  /\ <<k>> \o h \in Seq(Int) /\ Len(<<k>> \o h) = Len(h) + 1
         /\ (<<k>> \o h)[1] = k /\ \A i \in 2 .. Len(h) + 1 : (<<k>> \o h)[i] = h[i - 1]
OBVIOUS

\* A walk from x in the direction s gives the keys of these nodes, in order.
Walked(t, s, x, seq) ==
  /\ seq \in Seq(Int) /\ Len(seq) = Cardinality(Beyond(t, s, x))
  /\ ToSet(seq) = {t.heap[y].key : y \in Beyond(t, s, x)}
  /\ x # NULL => Len(seq) > 0 /\ seq[1] = t.heap[x].key
  /\ \A i, j \in 1 .. Len(seq) : i < j => Less(s, seq[j], seq[i])

LEMMA WalkGoesOn ==
  ASSUME NEW t, NEW sub, IsTree(t, sub), NEW n \in DOMAIN t.heap, NEW s \in Sides,
         NEW m, IsNearest(t, s, n, m), NEW h, Walked(t, s, m, h)
  PROVE  Walked(t, s, n, <<t.heap[n].key>> \o h)
<1> DEFINE k == t.heap[n].key
           u == <<k>> \o h
           B == Beyond(t, s, n)
           C == Beyond(t, s, m)
<1>1. /\ C = B \ {n} /\ n \in B /\ n # NULL /\ k \in Int /\ B \subseteq DOMAIN t.heap
      /\ IsFiniteSet(DOMAIN t.heap)
  BY BeyondNearest, TreeFacts DEF IsTree, IsHeap, Beyond
<1>2. h \in Seq(Int) /\ Len(h) = Cardinality(C) /\ ToSet(h) = {t.heap[y].key : y \in C}
  BY DEF Walked
<1>3. /\ u \in Seq(Int) /\ Len(u) = Len(h) + 1
      /\ u[1] = k /\ \A i \in 2 .. Len(u) : u[i] = h[i - 1]
  BY <1>1, <1>2, Prefixed
<1> HIDE DEF u, B, C
<1>4. Cardinality(C) = Cardinality(B) - 1 /\ Cardinality(B) \in Nat
  <2>1. IsFiniteSet(B)
    BY <1>1, FS_Subset
  <2> QED BY <1>1, <2>1, FS_RemoveElement, FS_CardinalityType
<1>5. Len(u) = Cardinality(B) /\ Len(u) > 0 /\ Len(h) \in Nat
  BY <1>2, <1>3, <1>4
<1>6. ToSet(u) = {t.heap[y].key : y \in B}
  <2>1. ToSet(u) = {k} \cup ToSet(h)
    <3>1. ToSet(u) = {u[i] : i \in 1 .. Len(u)} /\ ToSet(h) = {h[i] : i \in 1 .. Len(h)}
      <4>1. DOMAIN u = 1 .. Len(u) /\ DOMAIN h = 1 .. Len(h)
        BY <1>2, <1>3
      <4> QED BY <4>1, Zenon DEF ToSet
    <3>2. ASSUME NEW i \in 1 .. Len(u) PROVE u[i] \in {k} \cup ToSet(h)
      BY <1>3, <1>5, <3>1
    <3>3. ASSUME NEW i \in 1 .. Len(h) PROVE h[i] \in ToSet(u)
      <4>1. i + 1 \in 2 .. Len(u) /\ i + 1 \in 1 .. Len(u) /\ (i + 1) - 1 = i
        BY <1>3, <1>5
      <4>2. u[i + 1] = h[i]
        BY <1>3, <4>1
      <4> QED BY <3>1, <4>1, <4>2
    <3>4. k \in ToSet(u)
      <4>1. 1 \in 1 .. Len(u)
        BY <1>5
      <4> QED BY <1>3, <3>1, <4>1
    <3> QED BY <3>1, <3>2, <3>3, <3>4
  <2> QED BY <1>1, <1>2, <2>1
<1>7. ASSUME NEW i \in 1 .. Len(u), NEW j \in 1 .. Len(u), i < j PROVE Less(s, u[j], u[i])
  <2>1. j \in 2 .. Len(u) /\ j - 1 \in 1 .. Len(h) /\ u[j] = h[j - 1]
    BY <1>3, <1>5, <1>7
  <2>2. CASE i = 1
    <3>1. h[j - 1] \in ToSet(h)
      <4>1. DOMAIN h = 1 .. Len(h)
        BY <1>2
      <4> QED BY <2>1, <4>1 DEF ToSet
    <3>2. PICK y \in C : h[j - 1] = t.heap[y].key
      BY <1>2, <3>1
    <3>3. Less(s, t.heap[y].key, k)
      BY <1>1, <3>2 DEF Beyond, B
    <3>4. u[i] = k
      BY <1>3, <2>2
    <3> QED BY <2>1, <3>2, <3>3, <3>4
  <2>3. CASE i # 1
    <3>1. i \in 2 .. Len(u) /\ i - 1 \in 1 .. Len(h) /\ i - 1 < j - 1
      BY <1>3, <1>5, <1>7, <2>3
    <3>2. u[i] = h[i - 1]
      BY <1>3, <3>1
    <3>3. Less(s, h[j - 1], h[i - 1])
      BY <2>1, <3>1 DEF Walked
    <3> QED BY <2>1, <3>2, <3>3
  <2> QED BY <2>2, <2>3
<1> QED BY <1>1, <1>3, <1>5, <1>6, <1>7 DEF Walked, u, B


\* How a walk goes on from every node, and stops where there is none.
Walks(t, next, f) ==
  f = [x \in DOMAIN t.heap \cup {NULL, Wild} |->
         IF x = NULL THEN <<>>
         ELSE IF x = Wild THEN <<Wild>>
         ELSE <<t.heap[x].key>> \o f[next[x]]]

GoesTo(t, s, next) == \A x \in DOMAIN t.heap : IsNearest(t, s, x, next[x])

\* No two nodes have equally many from them on.
LEMMA RanksDiffer ==
  ASSUME NEW t, NEW sub, IsTree(t, sub), NEW s \in Sides,
         NEW x \in DOMAIN t.heap, NEW y \in DOMAIN t.heap, Less(s, t.heap[y].key, t.heap[x].key)
  PROVE  Cardinality(Beyond(t, s, y)) # Cardinality(Beyond(t, s, x))
<1> DEFINE key(z) == t.heap[z].key
           B == Beyond(t, s, x)
           C == Beyond(t, s, y)
<1>1. x # NULL /\ y # NULL /\ IsFiniteSet(DOMAIN t.heap) /\ \A z \in DOMAIN t.heap : key(z) \in Int
  BY TreeFacts DEF IsTree, IsHeap
<1>2. /\ B = {z \in DOMAIN t.heap : z = x \/ Less(s, key(z), key(x))}
      /\ C = {z \in DOMAIN t.heap : z = y \/ Less(s, key(z), key(y))}
  BY <1>1 DEF Beyond
<1>3. ~Less(s, key(x), key(y)) /\ ~Less(s, key(x), key(x))
  <2>1. key(x) \in Int /\ key(y) \in Int /\ Less(s, key(y), key(x))
    BY <1>1
  <2> HIDE DEF key
  <2> QED BY <2>1, LessIsOrder
<1>4. \A z \in DOMAIN t.heap : Less(s, key(z), key(y)) => Less(s, key(z), key(x))
  BY <1>1, LessIsOrder
<1>5. x # y
  BY <1>3
<1> HIDE DEF B, C, key
<1>6. Less(s, key(y), key(x))
  BY DEF key
<1>7. C \subseteq B /\ x \in B /\ x \notin C /\ B \subseteq DOMAIN t.heap
  BY <1>2, <1>3, <1>4, <1>5, <1>6
<1>8. IsFiniteSet(B) /\ IsFiniteSet(B \ {x}) /\ Cardinality(B) \in Nat
      /\ Cardinality(B \ {x}) = Cardinality(B) - 1
  BY <1>1, <1>7, FS_Subset, FS_RemoveElement, FS_CardinalityType
<1>9. C \subseteq B \ {x}
  BY <1>7
<1>10. Cardinality(C) <= Cardinality(B \ {x}) /\ IsFiniteSet(C)
  BY <1>8, <1>9, FS_Subset
<1>11. Cardinality(C) \in Nat
  BY <1>10, FS_CardinalityType
<1>12. Cardinality(C) # Cardinality(B)
  BY <1>8, <1>10, <1>11
<1> QED BY <1>12 DEF B, C

\* There is such a function: at every node, its results are the keys with fewer and fewer
\* nodes from theirs on.
LEMMA WalkHasResults ==
  ASSUME NEW t, NEW sub, IsTree(t, sub), NEW s \in Sides, NEW next, GoesTo(t, s, next)
  PROVE  \E f : Walks(t, next, f)
<1> DEFINE D == DOMAIN t.heap
           rank == [x \in D |-> Cardinality(Beyond(t, s, x))]
           Has(j) == {y \in D : rank[y] = j}
           kth == [j \in Nat |-> IF Has(j) = {} THEN 0 ELSE t.heap[CHOOSE y \in D : rank[y] = j].key]
           seq == [r \in Nat |-> [i \in 1 .. r |-> kth[r - i + 1]]]
           g == [x \in D \cup {NULL, Wild} |->
                   IF x = NULL THEN <<>> ELSE IF x = Wild THEN <<Wild>> ELSE seq[rank[x]]]
<1>1. /\ NULL \notin D /\ Wild \notin D /\ NULL # Wild /\ IsFiniteSet(D)
      /\ \A x \in D : t.heap[x].key \in Int
  BY PointerAssumption DEF IsTree, IsHeap
<1>11. \A x \in D : rank[x] = Cardinality(Beyond(t, s, x))
  OBVIOUS
<1> HIDE DEF rank
<1>2. \A x, y \in D : rank[x] = rank[y] => x = y
  <2> SUFFICES ASSUME NEW x \in D, NEW y \in D, x # y PROVE rank[x] # rank[y]
    OBVIOUS
  <2>1. t.heap[x].key # t.heap[y].key
    BY KeysDiffer
  <2>2. Less(s, t.heap[x].key, t.heap[y].key) \/ Less(s, t.heap[y].key, t.heap[x].key)
    BY <1>1, <2>1, LessIsOrder
  <2>3. Cardinality(Beyond(t, s, x)) # Cardinality(Beyond(t, s, y))
    BY <2>2, RanksDiffer
  <2> QED BY <1>11, <2>3
<1>3. \A x \in D : rank[x] \in Nat
  <2> SUFFICES ASSUME NEW x \in D PROVE Cardinality(Beyond(t, s, x)) \in Nat
    BY <1>11
  <2>1. Beyond(t, s, x) \subseteq D
    BY <1>1 DEF Beyond
  <2> QED BY <1>1, <2>1, FS_Subset, FS_CardinalityType
<1>4. \A x \in D : kth[rank[x]] = t.heap[x].key
  <2> SUFFICES ASSUME NEW x \in D PROVE kth[rank[x]] = t.heap[x].key
    OBVIOUS
  <2>1. x \in Has(rank[x]) /\ rank[x] \in Nat
    BY <1>3
  <2>2. kth[rank[x]] = t.heap[CHOOSE y \in D : rank[y] = rank[x]].key
    BY <2>1
  <2>3. (CHOOSE y \in D : rank[y] = rank[x]) = x
    BY <1>2
  <2> QED BY <2>2, <2>3
<1>5. \A j \in Nat : kth[j] \in Int
  <2> SUFFICES ASSUME NEW j \in Nat PROVE kth[j] \in Int
    OBVIOUS
  <2>1. CASE Has(j) = {}
    <3>1. kth[j] = 0
      BY <2>1
    <3> HIDE DEF kth
    <3> QED BY <3>1
  <2>2. CASE Has(j) # {}
    <3>1. PICK y \in D : rank[y] = j
      BY <2>2
    <3> HIDE DEF kth
    <3>2. kth[j] = t.heap[y].key
      BY <1>4, <3>1
    <3> QED BY <1>1, <3>2
  <2> QED BY <2>1, <2>2
<1> HIDE DEF kth
<1>6. ASSUME NEW r \in Nat
      PROVE  /\ seq[r] \in Seq(Int) /\ Len(seq[r]) = r
             /\ \A i \in 1 .. r : seq[r][i] = kth[r - i + 1]
  <2>1. seq[r] = [i \in 1 .. r |-> kth[r - i + 1]]
    OBVIOUS
  <2>2. \A i \in 1 .. r : kth[r - i + 1] \in Int
    BY <1>5
  <2>3. [i \in 1 .. r |-> kth[r - i + 1]] \in Seq(Int)
    BY <2>2
  <2> QED BY <2>1, <2>3
<1> HIDE DEF seq
<1>7. seq[0] = <<>>
  BY <1>6
<1>8. ASSUME NEW x \in D
      PROVE  next[x] \in D \cup {NULL} /\ g[next[x]] = seq[rank[x] - 1] /\ rank[x] - 1 \in Nat
  <2>1. /\ Beyond(t, s, next[x]) = Beyond(t, s, x) \ {x} /\ x \in Beyond(t, s, x)
        /\ next[x] \in D \cup {NULL}
    BY BeyondNearest DEF GoesTo
  <2>2. IsFiniteSet(Beyond(t, s, x))
    BY <1>1, FS_Subset DEF Beyond
  <2>3. Cardinality(Beyond(t, s, next[x])) = rank[x] - 1
    BY <1>11, <2>1, <2>2, FS_RemoveElement
  <2>4. CASE next[x] = NULL
    <3>1. rank[x] - 1 = 0
      BY <2>3, <2>4, FS_EmptySet DEF Beyond
    <3>2. g[NULL] = <<>>
      OBVIOUS
    <3> HIDE DEF g
    <3> QED BY <1>7, <2>1, <2>4, <3>1, <3>2
  <2>5. CASE next[x] \in D
    <3>1. rank[next[x]] = rank[x] - 1
      BY <1>11, <2>3, <2>5
    <3>2. g[next[x]] = seq[rank[next[x]]]
      BY <1>1, <2>5
    <3> QED BY <1>3, <2>1, <2>5, <3>1, <3>2
  <2> QED BY <2>1, <2>4, <2>5
<1>9. ASSUME NEW x \in D PROVE seq[rank[x]] = <<t.heap[x].key>> \o g[next[x]]
  <2> DEFINE r == rank[x]
             k == t.heap[x].key
  <2>1. r \in Nat /\ r - 1 \in Nat /\ g[next[x]] = seq[r - 1] /\ k \in Int /\ kth[r] = k
    BY <1>1, <1>3, <1>4, <1>8
  <2> HIDE DEF r, k, g
  <2>2. /\ seq[r] \in Seq(Int) /\ Len(seq[r]) = r
        /\ \A i \in 1 .. r : seq[r][i] = kth[r - i + 1]
    BY <1>6, <2>1
  <2>3. /\ seq[r - 1] \in Seq(Int) /\ Len(seq[r - 1]) = r - 1
        /\ \A i \in 1 .. r - 1 : seq[r - 1][i] = kth[(r - 1) - i + 1]
    BY <1>6, <2>1
  <2> DEFINE u == <<k>> \o seq[r - 1]
  <2>4. /\ u \in Seq(Int) /\ Len(u) = r
        /\ u[1] = k /\ \A i \in 2 .. r : u[i] = seq[r - 1][i - 1]
    BY <2>1, <2>3, Prefixed
  <2> HIDE DEF u
  <2>5. ASSUME NEW i \in 1 .. r PROVE u[i] = seq[r][i]
    <3>1. CASE i = 1
      BY <2>1, <2>2, <2>4, <3>1
    <3>2. CASE i # 1
      <4>1. i \in 2 .. r /\ i - 1 \in 1 .. r - 1 /\ (r - 1) - (i - 1) + 1 = r - i + 1
        BY <2>1, <3>2
      <4>2. u[i] = seq[r - 1][i - 1]
        BY <2>4, <4>1
      <4>3. seq[r - 1][i - 1] = kth[(r - 1) - (i - 1) + 1]
        BY <2>3, <4>1
      <4> QED BY <2>2, <4>1, <4>2, <4>3
    <3> QED BY <3>1, <3>2
  <2>6. u = seq[r]
    BY <2>1, <2>2, <2>4, <2>5
  <2> QED BY <2>1, <2>6 DEF u, r, k
<1>10. Walks(t, next, g)
  <2>1. ASSUME NEW x \in D \cup {NULL, Wild}
        PROVE  g[x] = IF x = NULL THEN <<>>
                      ELSE IF x = Wild THEN <<Wild>>
                      ELSE <<t.heap[x].key>> \o g[next[x]]
    <3>1. g[x] = IF x = NULL THEN <<>> ELSE IF x = Wild THEN <<Wild>> ELSE seq[rank[x]]
      OBVIOUS
    <3> HIDE DEF g
    <3> QED BY <1>9, <3>1
  <2>2. g = [x \in D \cup {NULL, Wild} |-> g[x]]
    OBVIOUS
  <2> HIDE DEF g
  <2>3. g = [x \in D \cup {NULL, Wild} |->
               IF x = NULL THEN <<>>
               ELSE IF x = Wild THEN <<Wild>>
               ELSE <<t.heap[x].key>> \o g[next[x]]]
    BY <2>1, <2>2
  <2> QED BY <2>3, Zenon DEF Walks
<1> QED BY <1>10

\* ... and every such function gives the keys of the nodes from each on.
LEMMA WalkIsWalked ==
  ASSUME NEW t, NEW sub, IsTree(t, sub), NEW s \in Sides, NEW next, GoesTo(t, s, next),
         NEW f, Walks(t, next, f), NEW x0 \in DOMAIN t.heap \cup {NULL}
  PROVE  Walked(t, s, x0, f[x0])
<1> DEFINE D == DOMAIN t.heap
           left == [x \in D |-> Beyond(t, s, x)]
           Bad == {left[x] : x \in {z \in D : ~Walked(t, s, z, f[z])}}
<1>1. /\ NULL \notin D /\ Wild \notin D /\ IsFiniteSet(D)
      /\ \A x \in D : left[x] \in SUBSET D
  BY PointerAssumption DEF IsTree, IsHeap, Beyond
<1>2. /\ f[NULL] = <<>>
      /\ \A x \in D : f[x] = <<t.heap[x].key>> \o f[next[x]]
  <2>1. \A x \in D \cup {NULL, Wild} : f[x] = IF x = NULL THEN <<>>
                                              ELSE IF x = Wild THEN <<Wild>>
                                              ELSE <<t.heap[x].key>> \o f[next[x]]
    BY Zenon DEF Walks
  <2> QED BY <1>1, <2>1
<1>3. Walked(t, s, NULL, f[NULL])
  <2>1. ToSet(<<>>) = {} /\ Len(<<>>) = 0 /\ <<>> \in Seq(Int)
    BY DEF ToSet
  <2> QED BY <1>2, <2>1, FS_EmptySet DEF Walked, Beyond
<1>4. ASSUME NEW z \in D, ~Walked(t, s, z, f[z]) PROVE FALSE
  <2>1. Bad \subseteq FiniteSubsetsOf(D) /\ Bad # {}
    <3> HIDE DEF left, D
    <3> QED BY <1>1, <1>4, FS_Subset DEF FiniteSubsetsOf
  <2>2. PICK M \in Bad : \A U \in Bad : ~(<<U, M>> \in StrictSubsetOrdering(D))
    <3> HIDE DEF Bad
    <3> QED BY <1>1, <2>1, FS_StrictSubsetOrderingWellFounded, WFMin
  <2>3. PICK x \in D : ~Walked(t, s, x, f[x]) /\ M = left[x]
    BY <2>2
  <2> DEFINE y == next[x]
  <2>4. /\ Beyond(t, s, y) = Beyond(t, s, x) \ {x} /\ x \in Beyond(t, s, x)
        /\ y \in D \cup {NULL} /\ IsNearest(t, s, x, y)
    BY BeyondNearest DEF GoesTo
  <2> HIDE DEF y
  <2>5. ~Walked(t, s, y, f[y])
    <3>1. f[x] = <<t.heap[x].key>> \o f[y]
      BY <1>2 DEF y
    <3>2. Walked(t, s, y, f[y]) => Walked(t, s, x, <<t.heap[x].key>> \o f[y])
      BY <2>4, WalkGoesOn
    <3> QED BY <2>3, <3>1, <3>2
  <2>6. y \in D
    BY <1>3, <2>4, <2>5
  <2>7. left[y] \in Bad
    BY <2>5, <2>6
  <2>8. left[y] = Beyond(t, s, y) /\ M = Beyond(t, s, x) /\ M \in SUBSET D /\ left[y] \in SUBSET D
    BY <1>1, <2>3, <2>6
  <2> HIDE DEF left, Bad
  <2>9. <<left[y], M>> \in StrictSubsetOrdering(D)
    BY <2>4, <2>8 DEF StrictSubsetOrdering
  <2> QED BY <2>2, <2>7, <2>9
<1> QED BY <1>3, <1>4


\* The end on one side is where a walk to the other side starts.
LEMMA StartIsFirst ==
  ASSUME NEW t, NEW sub, IsTree(t, sub), NEW s \in Sides, NEW e,
         IF t.root = NULL THEN e = NULL ELSE IsEnd(t, sub, t.root, Other(s), e)
  PROVE  e \in DOMAIN t.heap \cup {NULL} /\ Beyond(t, s, e) = DOMAIN t.heap
<1> DEFINE D == DOMAIN t.heap
<1>1. CASE t.root = NULL
  BY <1>1 DEF Beyond, IsTree, Linked
<1>2. CASE t.root # NULL
  <2>1. /\ sub[t.root] = D /\ NULL \notin D /\ t.root \in D
        /\ \A x \in D : t.heap[x].key \in Int
    BY <1>2, PointerAssumption DEF IsTree, IsHeap, Linked, Spans
  <2>2. e \in D /\ \A y \in D : y = e \/ Less(Other(s), t.heap[e].key, t.heap[y].key)
    BY <1>2, <2>1 DEF IsEnd
  <2>3. \A y \in D : y = e \/ Less(s, t.heap[y].key, t.heap[e].key)
    BY <2>1, <2>2, LessIsOrder
  <2> QED BY <2>1, <2>2, <2>3 DEF Beyond
<1> QED BY <1>1, <1>2

\* A walk of all nodes.
WalkedAll(t, s, seq) == \E x : Walked(t, s, x, seq) /\ Beyond(t, s, x) = DOMAIN t.heap

LEMMA TraverseIs ==
  ASSUME NEW t, NEW sub, IsTree(t, sub), NEW up, Parents(t, up)
  PROVE  WalkedAll(t, "rlink", Traverse(t, up))
<1> DEFINE D == DOMAIN t.heap
           next == [x \in D |-> NodeNext(t, x, up)]
           Eqn(f) == f = [x \in D \cup {NULL, Wild} |->
                            IF x = NULL THEN <<>>
                            ELSE IF x = Wild THEN <<Wild>>
                            ELSE <<t.heap[x].key>> \o f[NodeNext(t, x, up)]]
           from == CHOOSE f : Eqn(f)
           e == Leftmost(t, t.root)
<1>1. "rlink" \in Sides /\ Other("rlink") = "llink"
  BY DEF Sides, Other
<1>2. GoesTo(t, "rlink", next)
  BY NodeNextIs DEF GoesTo
<1>3. \A f : Walks(t, next, f) <=> Eqn(f)
  <2> TAKE f
  <2>1. \A x \in D : next[x] = NodeNext(t, x, up)
    OBVIOUS
  <2> HIDE DEF next
  <2>2. \A x \in D \cup {NULL, Wild} :
          (IF x = NULL THEN <<>> ELSE IF x = Wild THEN <<Wild>>
           ELSE <<t.heap[x].key>> \o f[next[x]])
          = (IF x = NULL THEN <<>> ELSE IF x = Wild THEN <<Wild>>
             ELSE <<t.heap[x].key>> \o f[NodeNext(t, x, up)])
    BY <2>1
  <2> QED BY <2>2, Zenon DEF Walks
<1>4. Walks(t, next, from)
  <2> HIDE DEF next, Eqn
  <2>1. \E f : Walks(t, next, f)
    BY <1>1, <1>2, WalkHasResults
  <2> QED BY <1>3, <2>1
<1>5. Traverse(t, up) = from[e]
  BY Zenon DEF Traverse
<1> HIDE DEF next, from
<1>6. IF t.root = NULL THEN e = NULL ELSE IsEnd(t, sub, t.root, "llink", e)
  <2>1. t.root # NULL => t.root \in D
    BY DEF IsTree, Linked
  <2>2. t.root = NULL => e = NULL
    BY Zenon DEF Leftmost
  <2> QED BY <2>1, <2>2, LeftmostIs
<1> HIDE DEF e
<1>7. e \in D \cup {NULL} /\ Beyond(t, "rlink", e) = D
  BY <1>1, <1>6, StartIsFirst
<1>8. Walked(t, "rlink", e, from[e])
  BY <1>1, <1>2, <1>4, <1>7, WalkIsWalked
<1> QED BY <1>5, <1>7, <1>8 DEF WalkedAll

LEMMA TraverseBackIs ==
  ASSUME NEW t, NEW sub, IsTree(t, sub), NEW up, Parents(t, up)
  PROVE  WalkedAll(t, "llink", TraverseBack(t, up))
<1> DEFINE D == DOMAIN t.heap
           next == [x \in D |-> NodePrev(t, x, up)]
           Eqn(f) == f = [x \in D \cup {NULL, Wild} |->
                            IF x = NULL THEN <<>>
                            ELSE IF x = Wild THEN <<Wild>>
                            ELSE <<t.heap[x].key>> \o f[NodePrev(t, x, up)]]
           from == CHOOSE f : Eqn(f)
           e == Rightmost(t, t.root)
<1>1. "llink" \in Sides /\ Other("llink") = "rlink"
  BY DEF Sides, Other
<1>2. GoesTo(t, "llink", next)
  BY NodePrevIs DEF GoesTo
<1>3. \A f : Walks(t, next, f) <=> Eqn(f)
  <2> TAKE f
  <2>1. \A x \in D : next[x] = NodePrev(t, x, up)
    OBVIOUS
  <2> HIDE DEF next
  <2>2. \A x \in D \cup {NULL, Wild} :
          (IF x = NULL THEN <<>> ELSE IF x = Wild THEN <<Wild>>
           ELSE <<t.heap[x].key>> \o f[next[x]])
          = (IF x = NULL THEN <<>> ELSE IF x = Wild THEN <<Wild>>
             ELSE <<t.heap[x].key>> \o f[NodePrev(t, x, up)])
    BY <2>1
  <2> QED BY <2>2, Zenon DEF Walks
<1>4. Walks(t, next, from)
  <2> HIDE DEF next, Eqn
  <2>1. \E f : Walks(t, next, f)
    BY <1>1, <1>2, WalkHasResults
  <2> QED BY <1>3, <2>1
<1>5. TraverseBack(t, up) = from[e]
  BY Zenon DEF TraverseBack
<1> HIDE DEF next, from
<1>6. IF t.root = NULL THEN e = NULL ELSE IsEnd(t, sub, t.root, "rlink", e)
  <2>1. t.root # NULL => t.root \in D
    BY DEF IsTree, Linked
  <2>2. t.root = NULL => e = NULL
    BY Zenon DEF Rightmost
  <2> QED BY <2>1, <2>2, RightmostIs
<1> HIDE DEF e
<1>7. e \in D \cup {NULL} /\ Beyond(t, "llink", e) = D
  BY <1>1, <1>6, StartIsFirst
<1>8. Walked(t, "llink", e, from[e])
  BY <1>1, <1>2, <1>4, <1>7, WalkIsWalked
<1> QED BY <1>5, <1>7, <1>8 DEF WalkedAll

LEMMA WalkedInOrder ==
  ASSUME NEW t, NEW seq, WalkedAll(t, "rlink", seq)
  PROVE  InOrder(t, seq)
<1>1. PICK x : Walked(t, "rlink", x, seq) /\ Beyond(t, "rlink", x) = DOMAIN t.heap
  BY DEF WalkedAll
<1>2. /\ Len(seq) = Cardinality(DOMAIN t.heap)
      /\ ToSet(seq) = {t.heap[y].key : y \in DOMAIN t.heap}
      /\ seq \in Seq(Int) /\ \A i, j \in 1 .. Len(seq) : i < j => Less("rlink", seq[j], seq[i])
  BY <1>1 DEF Walked
<1>3. ASSUME NEW i \in 2 .. Len(seq) PROVE seq[i - 1] < seq[i]
  <2>1. i - 1 \in 1 .. Len(seq) /\ i \in 1 .. Len(seq) /\ i - 1 < i
    BY <1>2
  <2> QED BY <1>2, <2>1 DEF Less
<1> QED BY <1>2, <1>3 DEF InOrder, KeysOf

LEMMA WalkedBackInOrder ==
  ASSUME NEW t, NEW seq, WalkedAll(t, "llink", seq)
  PROVE  InOrder(t, Reverse(seq))
<1>1. PICK x : Walked(t, "llink", x, seq) /\ Beyond(t, "llink", x) = DOMAIN t.heap
  BY DEF WalkedAll
<1>2. /\ seq \in Seq(Int) /\ Len(seq) = Cardinality(DOMAIN t.heap)
      /\ ToSet(seq) = {t.heap[y].key : y \in DOMAIN t.heap}
      /\ \A i, j \in 1 .. Len(seq) : i < j => Less("llink", seq[j], seq[i])
  BY <1>1 DEF Walked
<1> DEFINE n == Len(seq)
           r == Reverse(seq)
<1>3. n \in Nat /\ DOMAIN seq = 1 .. n /\ \A i \in 1 .. n : seq[i] \in Int
  BY <1>2
<1>4. r = [i \in 1 .. n |-> seq[(n - i) + 1]]
  BY DEF Reverse
<1> HIDE DEF r
<1>5. r \in Seq(Int) /\ Len(r) = n /\ DOMAIN r = 1 .. n /\ \A i \in 1 .. n : r[i] = seq[(n - i) + 1]
  <2>1. \A i \in 1 .. n : seq[(n - i) + 1] \in Int
    BY <1>3
  <2>2. [i \in 1 .. n |-> seq[(n - i) + 1]] \in Seq(Int)
    BY <1>3, <2>1
  <2> QED BY <1>3, <1>4, <2>2
<1>6. ToSet(r) = ToSet(seq)
  <2>1. ToSet(r) = {r[i] : i \in 1 .. n} /\ ToSet(seq) = {seq[i] : i \in 1 .. n}
    BY <1>3, <1>5, Zenon DEF ToSet
  <2>2. ASSUME NEW i \in 1 .. n PROVE r[i] \in ToSet(seq) /\ seq[i] \in ToSet(r)
    <3>1. (n - i) + 1 \in 1 .. n /\ (n - ((n - i) + 1)) + 1 = i
      BY <1>3
    <3>2. r[i] = seq[(n - i) + 1] /\ r[(n - i) + 1] = seq[(n - ((n - i) + 1)) + 1]
      BY <1>5, <3>1
    <3> QED BY <2>1, <3>1, <3>2
  <2> QED BY <2>1, <2>2
<1>7. ASSUME NEW i \in 2 .. n PROVE r[i - 1] < r[i]
  <2>1. /\ i \in 1 .. n /\ i - 1 \in 1 .. n
        /\ (n - (i - 1)) + 1 \in 1 .. n /\ (n - i) + 1 \in 1 .. n
        /\ (n - i) + 1 < (n - (i - 1)) + 1
    BY <1>3
  <2>2. r[i] = seq[(n - i) + 1] /\ r[i - 1] = seq[(n - (i - 1)) + 1]
    BY <1>5, <2>1
  <2>3. Less("llink", seq[(n - (i - 1)) + 1], seq[(n - i) + 1])
    BY <1>2, <2>1
  <2> QED BY <2>1, <2>2, <2>3 DEF Less
<1> QED BY <1>2, <1>5, <1>6, <1>7 DEF InOrder, KeysOf, r, n

\* In every search tree the walks visit every key once, in order.
LEMMA TreeWalks ==
  ASSUME NEW sub, IsTree(tree, sub)
  PROVE  WalksInOrder
<1>1. Parents(tree, Up)
  BY DEF Parents, Up
<1>2. InOrder(tree, Traverse(tree, Up)) /\ InOrder(tree, Reverse(TraverseBack(tree, Up)))
  BY <1>1, TraverseIs, TraverseBackIs, WalkedInOrder, WalkedBackInOrder
<1> QED BY <1>2, TreeLinksAgree DEF WalksInOrder


----------------------------------------------------------------------------
(* Positions *)

LEMMA LeastNumber ==
  ASSUME NEW S \in SUBSET Nat, S # {}
  PROVE  \E m \in S : \A k \in S : m <= k
<1>1. PICK m \in S : \A k \in S : ~(<<k, m>> \in OpToRel(<, Nat))
  BY NatLessThanWellFounded, WFMin
<1>2. \A k \in S : ~(k < m)
  BY <1>1 DEF OpToRel
<1> QED BY <1>2

\* Two loops that count to N and agree in every pass that they reach alike.
LEMMA CountedLoop ==
  ASSUME NEW N \in Nat, NEW f, NEW g, f[0] = g[0],
         \A i \in 1 .. N : f[i - 1] = g[i - 1] => f[i] = g[i]
  PROVE  \A i \in 0 .. N : f[i] = g[i]
<1> DEFINE Bad == {i \in 0 .. N : f[i] # g[i]}
<1> SUFFICES ASSUME Bad # {} PROVE FALSE
  OBVIOUS
<1>1. Bad \in SUBSET Nat
  OBVIOUS
<1>2. PICK m \in Bad : \A k \in Bad : m <= k
  <2> HIDE DEF Bad
  <2> QED BY <1>1, LeastNumber
<1>3. m \in 1 .. N /\ m - 1 \in 0 .. N /\ m - 1 \notin Bad
  BY <1>2
<1> QED BY <1>2, <1>3

\* The first of a row that are not in J come after all that are.
LEMMA InitialPart ==
  ASSUME NEW n \in Nat, NEW J \in SUBSET (1 .. n),
         \A j \in J, i \in 1 .. n : i < j => i \in J
  PROVE  Cardinality(J) \in 0 .. n /\ J = 1 .. Cardinality(J)
<1> DEFINE S == {i \in 1 .. n + 1 : i \notin J}
<1>1. S \in SUBSET Nat /\ n + 1 \in S
  OBVIOUS
<1>2. PICK m \in S : \A k \in S : m <= k
  <2>1. S # {}
    BY <1>1
  <2> HIDE DEF S
  <2> QED BY <1>1, <2>1, LeastNumber
<1>3. m \in 1 .. n + 1 /\ m \notin J
  BY <1>2
<1>4. \A i \in 1 .. n : i < m => i \in J
  BY <1>2, <1>3
<1>5. \A i \in J : i < m
  BY <1>3
<1>6. J = 1 .. (m - 1)
  <2>1. ASSUME NEW i \in J PROVE i \in 1 .. (m - 1)
    BY <1>3, <1>5
  <2>2. ASSUME NEW i \in 1 .. (m - 1) PROVE i \in J
    <3>1. i \in 1 .. n /\ i < m
      BY <1>3
    <3> QED BY <1>4, <3>1
  <2> HIDE DEF S
  <2> QED BY <2>1, <2>2
<1>7. Cardinality(1 .. (m - 1)) = m - 1
  BY <1>3, FS_Interval
<1> QED BY <1>3, <1>6, <1>7

\* The keys of the tree, in order.
KeysInOrder(t, keys) ==
  /\ keys \in Seq(Int) /\ ToSet(keys) = KeysOf(t)
  /\ Len(keys) = Cardinality(DOMAIN t.heap)
  /\ \A i, j \in 1 .. Len(keys) : i < j => keys[i] < keys[j]

LEMMA TraverseOrdered ==
  ASSUME NEW t, NEW sub, IsTree(t, sub), NEW up, Parents(t, up)
  PROVE  KeysInOrder(t, Traverse(t, up))
<1>1. PICK x : Walked(t, "rlink", x, Traverse(t, up)) /\ Beyond(t, "rlink", x) = DOMAIN t.heap
  BY TraverseIs DEF WalkedAll
<1>2. \A i, j \in Int : Less("rlink", i, j) => j < i
  BY DEF Less
<1>3. \A i \in 1 .. Len(Traverse(t, up)) : Traverse(t, up)[i] \in Int
  BY <1>1 DEF Walked
<1> QED BY <1>1, <1>2, <1>3 DEF Walked, KeysInOrder, KeysOf

\* The node at a position, or none.
NodeAt(t, keys, i) == IF i \in DOMAIN keys THEN NodeOf(t, keys[i]) ELSE NULL

LEMMA PositionIsNode ==
  ASSUME NEW t, NEW sub, IsTree(t, sub), NEW keys, KeysInOrder(t, keys)
  PROVE  /\ DOMAIN keys = 1 .. Len(keys) /\ Len(keys) \in Nat
         /\ \A i \in 1 .. Len(keys) :
              /\ keys[i] \in Int /\ keys[i] \in KeysOf(t)
              /\ NodeAt(t, keys, i) \in DOMAIN t.heap
              /\ t.heap[NodeAt(t, keys, i)].key = keys[i]
         /\ \A i, j \in 1 .. Len(keys) : keys[i] < keys[j] <=> i < j
         /\ \A n \in DOMAIN t.heap : \E i \in 1 .. Len(keys) :
              n = NodeAt(t, keys, i) /\ t.heap[n].key = keys[i]
         /\ \A i \in Int : i \notin 1 .. Len(keys) => NodeAt(t, keys, i) = NULL
<1>1. DOMAIN keys = 1 .. Len(keys) /\ Len(keys) \in Nat
  BY DEF KeysInOrder
<1>2. \A i \in 1 .. Len(keys) : keys[i] \in Int /\ keys[i] \in KeysOf(t)
  <2>1. \A i \in DOMAIN keys : keys[i] \in ToSet(keys)
    BY DEF ToSet
  <2> QED BY <1>1, <2>1 DEF KeysInOrder
<1>3. ASSUME NEW i \in 1 .. Len(keys)
      PROVE  NodeAt(t, keys, i) \in DOMAIN t.heap /\ t.heap[NodeAt(t, keys, i)].key = keys[i]
  <2>1. PICK n \in DOMAIN t.heap : t.heap[n].key = keys[i]
    BY <1>2 DEF KeysOf
  <2>2. NodeAt(t, keys, i) = n
    BY <1>1, <2>1, NodeOfIs DEF NodeAt
  <2> QED BY <2>1, <2>2
<1>4. \A i, j \in 1 .. Len(keys) : keys[i] < keys[j] <=> i < j
  <2> TAKE i \in 1 .. Len(keys), j \in 1 .. Len(keys)
  <2>1. keys[i] \in Int /\ keys[j] \in Int /\ i \in Int /\ j \in Int
    BY <1>2
  <2>2. (i < j => keys[i] < keys[j]) /\ (j < i => keys[j] < keys[i])
    BY DEF KeysInOrder
  <2>3. i = j => keys[i] = keys[j]
    OBVIOUS
  <2> QED BY <2>1, <2>2, <2>3
<1>5. ASSUME NEW n \in DOMAIN t.heap
      PROVE  \E i \in 1 .. Len(keys) : n = NodeAt(t, keys, i) /\ t.heap[n].key = keys[i]
  <2>1. t.heap[n].key \in ToSet(keys)
    BY DEF KeysInOrder, KeysOf
  <2>2. PICK i \in DOMAIN keys : keys[i] = t.heap[n].key
    BY <2>1 DEF ToSet
  <2>3. NodeAt(t, keys, i) = n
    BY <2>2, NodeOfIs DEF NodeAt
  <2> QED BY <1>1, <2>2, <2>3
<1>6. \A i \in Int : i \notin 1 .. Len(keys) => NodeAt(t, keys, i) = NULL
  BY <1>1 DEF NodeAt
<1> QED BY <1>1, <1>2, <1>3, <1>4, <1>5, <1>6

\* What is nearest to a node is at the next position, in either direction.
LEMMA NearestIsNext ==
  ASSUME NEW t, NEW sub, IsTree(t, sub), NEW keys, KeysInOrder(t, keys), NEW i \in 1 .. Len(keys),
         NEW m, IsNearest(t, "rlink", NodeAt(t, keys, i), m)
  PROVE  m = NodeAt(t, keys, i + 1)
<1> DEFINE n == Len(keys)
<1>1. /\ n \in Nat /\ NULL \notin DOMAIN t.heap
      /\ \A j \in 1 .. n : /\ keys[j] \in Int /\ NodeAt(t, keys, j) \in DOMAIN t.heap
                           /\ t.heap[NodeAt(t, keys, j)].key = keys[j]
      /\ \A j, k \in 1 .. n : keys[j] < keys[k] <=> j < k
      /\ \A x \in DOMAIN t.heap : \E j \in 1 .. n :
           x = NodeAt(t, keys, j) /\ t.heap[x].key = keys[j]
      /\ \A j \in Int : j \notin 1 .. n => NodeAt(t, keys, j) = NULL
  BY PositionIsNode, PointerAssumption DEF IsTree, IsHeap
<1>2. \A a, b \in Int : Less("rlink", a, b) <=> b < a
  BY DEF Less
<1>3. CASE m = NULL
  <2>1. ASSUME i + 1 \in 1 .. n PROVE FALSE
    <3>1. keys[i] < keys[i + 1]
      BY <1>1, <2>1
    <3>2. ~Less("rlink", keys[i + 1], keys[i])
      BY <1>1, <1>3, <2>1 DEF IsNearest
    <3> QED BY <1>1, <1>2, <2>1, <3>1, <3>2
  <2> QED BY <1>1, <1>3, <2>1
<1>4. CASE m # NULL
  <2>1. /\ m \in DOMAIN t.heap /\ Less("rlink", t.heap[m].key, keys[i])
        /\ \A x \in DOMAIN t.heap : Less("rlink", t.heap[x].key, keys[i]) =>
             x = m \/ Less("rlink", t.heap[x].key, t.heap[m].key)
    BY <1>1, <1>4 DEF IsNearest
  <2>2. PICK j \in 1 .. n : m = NodeAt(t, keys, j) /\ t.heap[m].key = keys[j]
    BY <1>1, <2>1
  <2>3. i < j
    BY <1>1, <1>2, <2>1, <2>2
  <2>4. i + 1 \in 1 .. n /\ i < i + 1
    BY <1>1, <2>3
  <2> DEFINE x == NodeAt(t, keys, i + 1)
  <2>5. x \in DOMAIN t.heap /\ t.heap[x].key = keys[i + 1] /\ keys[i] < keys[i + 1]
    BY <1>1, <2>4
  <2>6. Less("rlink", t.heap[x].key, keys[i])
    BY <1>1, <1>2, <2>4, <2>5
  <2>7. x = m \/ Less("rlink", keys[i + 1], keys[j])
    BY <2>1, <2>2, <2>5, <2>6
  <2>8. ~Less("rlink", keys[i + 1], keys[j])
    BY <1>1, <1>2, <2>3, <2>4
  <2> QED BY <2>7, <2>8
<1> QED BY <1>3, <1>4

LEMMA NearestIsPrev ==
  ASSUME NEW t, NEW sub, IsTree(t, sub), NEW keys, KeysInOrder(t, keys), NEW i \in 1 .. Len(keys),
         NEW m, IsNearest(t, "llink", NodeAt(t, keys, i), m)
  PROVE  m = NodeAt(t, keys, i - 1)
<1> DEFINE n == Len(keys)
<1>1. /\ n \in Nat /\ NULL \notin DOMAIN t.heap
      /\ \A j \in 1 .. n : /\ keys[j] \in Int /\ NodeAt(t, keys, j) \in DOMAIN t.heap
                           /\ t.heap[NodeAt(t, keys, j)].key = keys[j]
      /\ \A j, k \in 1 .. n : keys[j] < keys[k] <=> j < k
      /\ \A x \in DOMAIN t.heap : \E j \in 1 .. n :
           x = NodeAt(t, keys, j) /\ t.heap[x].key = keys[j]
      /\ \A j \in Int : j \notin 1 .. n => NodeAt(t, keys, j) = NULL
  BY PositionIsNode, PointerAssumption DEF IsTree, IsHeap
<1>2. \A a, b \in Int : Less("llink", a, b) <=> a < b
  BY DEF Less
<1>3. CASE m = NULL
  <2>1. ASSUME i - 1 \in 1 .. n PROVE FALSE
    <3>1. keys[i - 1] < keys[i]
      BY <1>1, <2>1
    <3>2. ~Less("llink", keys[i - 1], keys[i])
      BY <1>1, <1>3, <2>1 DEF IsNearest
    <3> QED BY <1>1, <1>2, <2>1, <3>1, <3>2
  <2> QED BY <1>1, <1>3, <2>1
<1>4. CASE m # NULL
  <2>1. /\ m \in DOMAIN t.heap /\ Less("llink", t.heap[m].key, keys[i])
        /\ \A x \in DOMAIN t.heap : Less("llink", t.heap[x].key, keys[i]) =>
             x = m \/ Less("llink", t.heap[x].key, t.heap[m].key)
    BY <1>1, <1>4 DEF IsNearest
  <2>2. PICK j \in 1 .. n : m = NodeAt(t, keys, j) /\ t.heap[m].key = keys[j]
    BY <1>1, <2>1
  <2>3. j < i
    BY <1>1, <1>2, <2>1, <2>2
  <2>4. i - 1 \in 1 .. n /\ i - 1 < i
    BY <1>1, <2>3
  <2> DEFINE x == NodeAt(t, keys, i - 1)
  <2>5. x \in DOMAIN t.heap /\ t.heap[x].key = keys[i - 1] /\ keys[i - 1] < keys[i]
    BY <1>1, <2>4
  <2>6. Less("llink", t.heap[x].key, keys[i])
    BY <1>1, <1>2, <2>4, <2>5
  <2>7. x = m \/ Less("llink", keys[i - 1], keys[j])
    BY <2>1, <2>2, <2>5, <2>6
  <2>8. ~Less("llink", keys[i - 1], keys[j])
    BY <1>1, <1>2, <2>3, <2>4
  <2> QED BY <2>7, <2>8
<1> QED BY <1>3, <1>4


\* An iterator goes on by one position, from where it stands.
LEMMA IteratorSteps ==
  ASSUME NEW t, NEW sub, IsTree(t, sub), NEW up, Parents(t, up), NEW keys, KeysInOrder(t, keys),
         NEW i \in Int
  PROVE  /\ i > 0 => IterNext(t, NodeAt(t, keys, i), up) = NodeAt(t, keys, i + 1)
         /\ i <= Len(keys) => IterPrev(t, NodeAt(t, keys, i), up) = NodeAt(t, keys, i - 1)
<1> DEFINE x == NodeAt(t, keys, i)
<1>1. /\ Len(keys) \in Nat /\ NULL \notin DOMAIN t.heap
      /\ i \in 1 .. Len(keys) => x \in DOMAIN t.heap
      /\ \A j \in Int : j \notin 1 .. Len(keys) => NodeAt(t, keys, j) = NULL
  BY PositionIsNode, PointerAssumption DEF IsTree, IsHeap
<1>2. CASE i \in 1 .. Len(keys)
  <2>1. x \in DOMAIN t.heap /\ x # NULL
    BY <1>1, <1>2
  <2>2. IterNext(t, x, up) = NodeNext(t, x, up) /\ IterPrev(t, x, up) = NodePrev(t, x, up)
    BY <2>1, Zenon DEF IterNext, IterPrev
  <2>3. IsNearest(t, "rlink", x, NodeNext(t, x, up)) /\ IsNearest(t, "llink", x, NodePrev(t, x, up))
    BY <2>1, NodeNextIs, NodePrevIs
  <2> QED BY <1>2, <2>2, <2>3, NearestIsNext, NearestIsPrev
<1>3. CASE i \notin 1 .. Len(keys)
  <2>1. x = NULL
    BY <1>1, <1>3
  <2>2. IterNext(t, x, up) = NULL /\ IterPrev(t, x, up) = NULL
    BY <2>1, Zenon DEF IterNext, IterPrev
  <2>3. i > 0 => NodeAt(t, keys, i + 1) = NULL
    BY <1>1, <1>3
  <2>4. i <= Len(keys) => NodeAt(t, keys, i - 1) = NULL
    BY <1>1, <1>3
  <2> QED BY <2>2, <2>3, <2>4
<1> QED BY <1>2, <1>3

\* Several steps at once, along the nodes of g.
GoesForth(t, up, N, g) == \A i \in 1 .. N : g[i] = IterNext(t, g[i - 1], up)
GoesBack(t, up, N, g)  == \A i \in 1 .. N : g[i] = IterPrev(t, g[i - 1], up)

LEMMA StrideForth ==
  ASSUME NEW t, NEW up, NEW N \in Nat, NEW g, GoesForth(t, up, N, g)
  PROVE  IterNextN(t, g[0], N, up) = g[N]
<1> DEFINE Eqn(f) == f = [i \in 0 .. N |-> IF i = 0 THEN g[0] ELSE IterNext(t, f[i - 1], up)]
           step == CHOOSE f : Eqn(f)
           h == [i \in 0 .. N |-> g[i]]
<1>1. Eqn(h)
  <2>1. ASSUME NEW i \in 0 .. N PROVE h[i] = IF i = 0 THEN g[0] ELSE IterNext(t, h[i - 1], up)
    <3>1. h[i] = g[i]
      OBVIOUS
    <3>2. i # 0 => i \in 1 .. N /\ i - 1 \in 0 .. N
      OBVIOUS
    <3>3. i # 0 => h[i - 1] = g[i - 1]
      BY <3>2
    <3> HIDE DEF h
    <3> QED BY <3>1, <3>2, <3>3 DEF GoesForth
  <2>2. h = [i \in 0 .. N |-> h[i]]
    OBVIOUS
  <2> HIDE DEF h
  <2> QED BY <2>1, <2>2
<1>2. Eqn(step)
  <2> HIDE DEF Eqn, h
  <2> QED BY <1>1
<1>3. IterNextN(t, g[0], N, up) = step[N]
  BY Zenon DEF IterNextN
<1> HIDE DEF step
<1>4. step[0] = g[0] /\ \A i \in 1 .. N : step[i] = IterNext(t, step[i - 1], up)
  <2>1. \A i \in 0 .. N : step[i] = IF i = 0 THEN g[0] ELSE IterNext(t, step[i - 1], up)
    BY <1>2
  <2> HIDE DEF Eqn
  <2> QED BY <2>1
<1>5. \A i \in 0 .. N : step[i] = g[i]
  <2> HIDE DEF Eqn
  <2>1. \A i \in 1 .. N : step[i - 1] = g[i - 1] => step[i] = g[i]
    BY <1>4 DEF GoesForth
  <2> QED BY <1>4, <2>1, CountedLoop
<1> QED BY <1>3, <1>5

LEMMA StrideBack ==
  ASSUME NEW t, NEW up, NEW N \in Nat, NEW g, GoesBack(t, up, N, g)
  PROVE  IterPrevN(t, g[0], N, up) = g[N]
<1> DEFINE Eqn(f) == f = [i \in 0 .. N |-> IF i = 0 THEN g[0] ELSE IterPrev(t, f[i - 1], up)]
           step == CHOOSE f : Eqn(f)
           h == [i \in 0 .. N |-> g[i]]
<1>1. Eqn(h)
  <2>1. ASSUME NEW i \in 0 .. N PROVE h[i] = IF i = 0 THEN g[0] ELSE IterPrev(t, h[i - 1], up)
    <3>1. h[i] = g[i]
      OBVIOUS
    <3>2. i # 0 => i \in 1 .. N /\ i - 1 \in 0 .. N
      OBVIOUS
    <3>3. i # 0 => h[i - 1] = g[i - 1]
      BY <3>2
    <3> HIDE DEF h
    <3> QED BY <3>1, <3>2, <3>3 DEF GoesBack
  <2>2. h = [i \in 0 .. N |-> h[i]]
    OBVIOUS
  <2> HIDE DEF h
  <2> QED BY <2>1, <2>2
<1>2. Eqn(step)
  <2> HIDE DEF Eqn, h
  <2> QED BY <1>1
<1>3. IterPrevN(t, g[0], N, up) = step[N]
  BY Zenon DEF IterPrevN
<1> HIDE DEF step
<1>4. step[0] = g[0] /\ \A i \in 1 .. N : step[i] = IterPrev(t, step[i - 1], up)
  <2>1. \A i \in 0 .. N : step[i] = IF i = 0 THEN g[0] ELSE IterPrev(t, step[i - 1], up)
    BY <1>2
  <2> HIDE DEF Eqn
  <2> QED BY <2>1
<1>5. \A i \in 0 .. N : step[i] = g[i]
  <2> HIDE DEF Eqn
  <2>1. \A i \in 1 .. N : step[i - 1] = g[i - 1] => step[i] = g[i]
    BY <1>4 DEF GoesBack
  <2> QED BY <1>4, <2>1, CountedLoop
<1> QED BY <1>3, <1>5

\* By any number of positions; beyond the ends, and from nowhere, an iterator gets nowhere.
LEMMA IteratorStrides ==
  ASSUME NEW t, NEW sub, IsTree(t, sub), NEW up, Parents(t, up), NEW keys, KeysInOrder(t, keys),
         NEW i \in Int, NEW N \in Nat
  PROVE  /\ i > 0 => IterNextN(t, NodeAt(t, keys, i), N, up) = NodeAt(t, keys, i + N)
         /\ i <= Len(keys) => IterPrevN(t, NodeAt(t, keys, i), N, up) = NodeAt(t, keys, i - N)
<1>1. Len(keys) \in Nat
  BY PositionIsNode
<1>2. ASSUME i > 0 PROVE IterNextN(t, NodeAt(t, keys, i), N, up) = NodeAt(t, keys, i + N)
  <2> DEFINE g == [j \in 0 .. N |-> NodeAt(t, keys, i + j)]
  <2>1. ASSUME NEW j \in 1 .. N PROVE g[j] = IterNext(t, g[j - 1], up)
    <3>1. g[j] = NodeAt(t, keys, i + j) /\ g[j - 1] = NodeAt(t, keys, i + (j - 1))
      OBVIOUS
    <3>2. i + (j - 1) \in Int /\ i + (j - 1) > 0 /\ (i + (j - 1)) + 1 = i + j
      BY <1>2
    <3> HIDE DEF g
    <3>3. IterNext(t, NodeAt(t, keys, i + (j - 1)), up) = NodeAt(t, keys, (i + (j - 1)) + 1)
      BY <3>2, IteratorSteps
    <3> QED BY <3>1, <3>2, <3>3
  <2>2. g[0] = NodeAt(t, keys, i) /\ g[N] = NodeAt(t, keys, i + N)
    BY i + 0 = i
  <2> HIDE DEF g
  <2>3. IterNextN(t, g[0], N, up) = g[N]
    <3>1. GoesForth(t, up, N, g)
      BY <2>1 DEF GoesForth
    <3> QED BY <3>1, StrideForth
  <2> QED BY <2>2, <2>3
<1>3. ASSUME i <= Len(keys) PROVE IterPrevN(t, NodeAt(t, keys, i), N, up) = NodeAt(t, keys, i - N)
  <2> DEFINE g == [j \in 0 .. N |-> NodeAt(t, keys, i - j)]
  <2>1. ASSUME NEW j \in 1 .. N PROVE g[j] = IterPrev(t, g[j - 1], up)
    <3>1. g[j] = NodeAt(t, keys, i - j) /\ g[j - 1] = NodeAt(t, keys, i - (j - 1))
      OBVIOUS
    <3>2. i - (j - 1) \in Int /\ i - (j - 1) <= Len(keys) /\ (i - (j - 1)) - 1 = i - j
      BY <1>1, <1>3
    <3> HIDE DEF g
    <3>3. IterPrev(t, NodeAt(t, keys, i - (j - 1)), up) = NodeAt(t, keys, (i - (j - 1)) - 1)
      BY <3>2, IteratorSteps
    <3> QED BY <3>1, <3>2, <3>3
  <2>2. g[0] = NodeAt(t, keys, i) /\ g[N] = NodeAt(t, keys, i - N)
    BY i - 0 = i
  <2> HIDE DEF g
  <2>3. IterPrevN(t, g[0], N, up) = g[N]
    <3>1. GoesBack(t, up, N, g)
      BY <2>1 DEF GoesBack
    <3> QED BY <3>1, StrideBack
  <2> QED BY <2>2, <2>3
<1> QED BY <1>2, <1>3

LEMMA StrideFromNowhere ==
  ASSUME NEW t, NEW up, NEW N \in Nat
  PROVE  IterNextN(t, NULL, N, up) = NULL /\ IterPrevN(t, NULL, N, up) = NULL
<1> DEFINE g == [j \in 0 .. N |-> NULL]
<1>1. IterNext(t, NULL, up) = NULL /\ IterPrev(t, NULL, up) = NULL
  BY Zenon DEF IterNext, IterPrev
<1>2. \A j \in 1 .. N : g[j] = NULL /\ g[j - 1] = NULL
  OBVIOUS
<1>3. g[0] = NULL /\ g[N] = NULL
  OBVIOUS
<1> HIDE DEF g
<1>4. \A j \in 1 .. N : g[j] = IterNext(t, g[j - 1], up) /\ g[j] = IterPrev(t, g[j - 1], up)
  BY <1>1, <1>2
<1>5. GoesForth(t, up, N, g) /\ GoesBack(t, up, N, g)
  BY <1>4 DEF GoesForth, GoesBack
<1>6. IterNextN(t, g[0], N, up) = g[N]
  BY <1>5, StrideForth
<1>7. IterPrevN(t, g[0], N, up) = g[N]
  BY <1>5, StrideBack
<1> QED BY <1>3, <1>6, <1>7


\* The keys at the positions in J; when these are the first positions, the last of these keys
\* and the first of the others are next to each other.
KeysAt(keys, J) == {keys[j] : j \in J}
Others(keys, J) == {keys[j] : j \in DOMAIN keys \ J}

IsInitial(keys, J) ==
  J \subseteq 1 .. Len(keys) /\ \A j \in J, i \in 1 .. Len(keys) : i < j => i \in J

MeetAt(t, keys, J, m) ==
  /\ NodeWith(t, KeysAt(keys, J), Max) = NodeAt(t, keys, m)
  /\ NodeWith(t, Others(keys, J), Min) = NodeAt(t, keys, m + 1)
  /\ m \in 0 .. Len(keys)

LEMMA LastAndFirst ==
  ASSUME NEW t, NEW sub, IsTree(t, sub), NEW keys, KeysInOrder(t, keys),
         NEW J, IsInitial(keys, J), NEW m, m = Cardinality(J)
  PROVE  MeetAt(t, keys, J, m)
<1> DEFINE n == Len(keys)
           ks == KeysAt(keys, J)
           ls == Others(keys, J)
<1>1. /\ n \in Nat
      /\ \A j \in 1 .. n : /\ keys[j] \in Int /\ keys[j] \in KeysOf(t)
                           /\ NodeAt(t, keys, j) \in DOMAIN t.heap
                           /\ t.heap[NodeAt(t, keys, j)].key = keys[j]
      /\ \A j, k \in 1 .. n : keys[j] < keys[k] <=> j < k
      /\ \A j \in Int : j \notin 1 .. n => NodeAt(t, keys, j) = NULL
  <2>1. \A j \in 1 .. n : /\ keys[j] \in Int /\ keys[j] \in KeysOf(t)
                          /\ NodeAt(t, keys, j) \in DOMAIN t.heap
                          /\ t.heap[NodeAt(t, keys, j)].key = keys[j]
    BY PositionIsNode
  <2>2. \A j, k \in 1 .. n : keys[j] < keys[k] <=> j < k
    BY PositionIsNode
  <2>3. n \in Nat /\ \A j \in Int : j \notin 1 .. n => NodeAt(t, keys, j) = NULL
    BY PositionIsNode
  <2> QED BY <2>1, <2>2, <2>3
<1>2. m \in 0 .. n /\ J = 1 .. m /\ DOMAIN keys = 1 .. n
  BY <1>1, InitialPart, PositionIsNode DEF IsInitial
<1>3. /\ ks \in SUBSET KeysOf(t) /\ ls \in SUBSET KeysOf(t)
      /\ ks = {keys[j] : j \in 1 .. m} /\ ls = {keys[j] : j \in m + 1 .. n}
  <2> HIDE DEF n
  <2>1. \A i : i \in (1 .. n) \ (1 .. m) <=> i \in m + 1 .. n
    BY <1>1, <1>2
  <2>2. (1 .. n) \ (1 .. m) = m + 1 .. n
    BY <2>1
  <2>3. ks = {keys[j] : j \in 1 .. m} /\ ls = {keys[j] : j \in m + 1 .. n}
    BY <1>2, <2>2 DEF KeysAt, Others
  <2>4. m + 1 .. n \subseteq 1 .. n /\ 1 .. m \subseteq 1 .. n
    BY <1>1, <1>2
  <2>5. \A j \in 1 .. n : keys[j] \in KeysOf(t)
    BY <1>1
  <2> HIDE DEF ks, ls
  <2> QED BY <2>3, <2>4, <2>5
<1> HIDE DEF ks, ls
<1>4. \A j, k \in 1 .. n : j <= k => keys[j] <= keys[k]
  <2> TAKE j \in 1 .. n, k \in 1 .. n
  <2>1. j < k => keys[j] < keys[k]
    BY <1>1
  <2>2. j = k => keys[j] = keys[k]
    OBVIOUS
  <2>3. keys[j] \in Int /\ keys[k] \in Int
    BY <1>1
  <2> QED BY <2>1, <2>2, <2>3
<1>5. NodeWith(t, ks, Max) = NodeAt(t, keys, m)
  <2>1. CASE m = 0
    <3>1. ks = {}
      BY <1>3, <2>1
    <3>2. NodeAt(t, keys, m) = NULL
      BY <1>1, <2>1
    <3> QED BY <3>1, <3>2, Zenon DEF NodeWith
  <2>2. CASE m # 0
    <3> DEFINE x == NodeAt(t, keys, m)
    <3>1. m \in 1 .. n /\ m \in 1 .. m
      BY <1>1, <1>2, <2>2
    <3>2. x \in DOMAIN t.heap /\ t.heap[x].key = keys[m] /\ keys[m] \in ks
      BY <1>1, <1>3, <3>1
    <3>3. \A j \in 1 .. m : keys[j] <= keys[m]
      BY <1>2, <1>4, <3>1
    <3>4. \A k \in ks : k <= t.heap[x].key
      BY <1>3, <3>2, <3>3
    <3> HIDE DEF x
    <3>5. ks # {} /\ NodeOf(t, Max(ks)) = x
      BY <1>3, <3>2, <3>4, NodeOfMax
    <3> QED BY <3>5, Zenon DEF NodeWith, x
  <2> QED BY <2>1, <2>2
<1>6. NodeWith(t, ls, Min) = NodeAt(t, keys, m + 1)
  <2>1. CASE m = n
    <3>1. ls = {}
      BY <1>1, <1>3, <2>1
    <3>2. NodeAt(t, keys, m + 1) = NULL
      BY <1>1, <2>1
    <3> QED BY <3>1, <3>2, Zenon DEF NodeWith
  <2>2. CASE m # n
    <3> DEFINE x == NodeAt(t, keys, m + 1)
    <3>1. m + 1 \in 1 .. n /\ m + 1 \in m + 1 .. n
      BY <1>1, <1>2, <2>2
    <3>2. x \in DOMAIN t.heap /\ t.heap[x].key = keys[m + 1] /\ keys[m + 1] \in ls
      BY <1>1, <1>3, <3>1
    <3>3. \A j \in m + 1 .. n : keys[m + 1] <= keys[j]
      BY <1>2, <1>4, <3>1
    <3>4. \A k \in ls : t.heap[x].key <= k
      BY <1>3, <3>2, <3>3
    <3> HIDE DEF x
    <3>5. ls # {} /\ NodeOf(t, Min(ls)) = x
      BY <1>3, <3>2, <3>4, NodeOfMin
    <3> QED BY <3>5, Zenon DEF NodeWith, x
  <2> QED BY <2>1, <2>2
<1> QED BY <1>2, <1>5, <1>6 DEF MeetAt, ks, ls

\* The searches find the positions that Cursor promises.
SearchPlaces(t, keys, k) ==
  LET below == Cardinality({j \in DOMAIN keys : keys[j] < k})
      upto  == Cardinality({j \in DOMAIN keys : keys[j] <= k})
  IN  /\ SearchLE(t, k) = NodeAt(t, keys, upto) /\ SearchLT(t, k) = NodeAt(t, keys, below)
      /\ SearchGE(t, k) = NodeAt(t, keys, below + 1) /\ SearchGT(t, k) = NodeAt(t, keys, upto + 1)
      /\ below \in 0 .. Len(keys) /\ upto \in 0 .. Len(keys)

LEMMA SearchesFindPlaces ==
  ASSUME NEW t, NEW sub, IsTree(t, sub), NEW keys, KeysInOrder(t, keys), NEW k \in Int
  PROVE  SearchPlaces(t, keys, k)
<1> DEFINE n == Len(keys)
           J == {j \in DOMAIN keys : keys[j] < k}
           I == {j \in DOMAIN keys : keys[j] <= k}
           ks == KeysOf(t)
<1>1. /\ DOMAIN keys = 1 .. n /\ n \in Nat /\ \A j \in 1 .. n : keys[j] \in Int
      /\ \A i, j \in 1 .. n : keys[i] < keys[j] <=> i < j
      /\ ks = {keys[j] : j \in 1 .. n}
  <2>1. DOMAIN keys = 1 .. n
    BY PositionIsNode
  <2>2. ks = {keys[j] : j \in 1 .. n}
    BY <2>1, Zenon DEF KeysInOrder, ToSet
  <2> QED BY <2>1, <2>2, PositionIsNode
<1>2. IsInitial(keys, J) /\ IsInitial(keys, I)
  <2>1. ASSUME NEW j \in 1 .. n, NEW i \in 1 .. n, i < j
        PROVE  (keys[j] < k => keys[i] < k) /\ (keys[j] <= k => keys[i] <= k)
    <3>1. keys[i] < keys[j] /\ keys[i] \in Int /\ keys[j] \in Int
      BY <1>1, <2>1
    <3> QED BY <3>1
  <2> QED BY <1>1, <2>1 DEF IsInitial
<1>3. /\ {x \in ks : x < k} = KeysAt(keys, J)
      /\ {x \in ks : x <= k} = KeysAt(keys, I)
      /\ {x \in ks : x >= k} = Others(keys, J)
      /\ {x \in ks : x > k} = Others(keys, I)
  <2>1. \A j \in 1 .. n : /\ j \in J <=> keys[j] < k
                          /\ j \in I <=> keys[j] <= k
                          /\ j \in (1 .. n) \ J <=> keys[j] >= k
                          /\ j \in (1 .. n) \ I <=> keys[j] > k
    BY <1>1
  <2>2. J \subseteq 1 .. n /\ I \subseteq 1 .. n
    BY <1>1
  <2>3. DOMAIN keys = 1 .. n /\ ks = {keys[j] : j \in 1 .. n}
    BY <1>1
  <2> HIDE DEF J, I, n, ks
  <2>4. {x \in ks : x < k} = KeysAt(keys, J)
    BY <2>1, <2>2, <2>3 DEF KeysAt
  <2>5. {x \in ks : x <= k} = KeysAt(keys, I)
    BY <2>1, <2>2, <2>3 DEF KeysAt
  <2>6. {x \in ks : x >= k} = Others(keys, J)
    BY <2>1, <2>3 DEF Others
  <2>7. {x \in ks : x > k} = Others(keys, I)
    BY <2>1, <2>3 DEF Others
  <2> QED BY <2>4, <2>5, <2>6, <2>7
<1>4. /\ SearchLE(t, k) = NodeWith(t, {x \in ks : x <= k}, Max)
      /\ SearchLT(t, k) = NodeWith(t, {x \in ks : x < k}, Max)
      /\ SearchGE(t, k) = NodeWith(t, {x \in ks : x >= k}, Min)
      /\ SearchGT(t, k) = NodeWith(t, {x \in ks : x > k}, Min)
  BY TreeSearches DEF SearchesAreRight
<1> DEFINE below == Cardinality(J)
           upto == Cardinality(I)
<1> HIDE DEF J, I, ks
<1>5. MeetAt(t, keys, J, below)
  BY <1>2, LastAndFirst
<1>6. MeetAt(t, keys, I, upto)
  BY <1>2, LastAndFirst
<1> QED BY <1>3, <1>4, <1>5, <1>6 DEF SearchPlaces, MeetAt, J, I

LEMMA SearchFindsPlace ==
  ASSUME NEW t, NEW sub, IsTree(t, sub), NEW keys, KeysInOrder(t, keys), NEW k \in Int
  PROVE  SearchNode(t, k) = NodeAt(t, keys, IF \E j \in DOMAIN keys : keys[j] = k
                                            THEN CHOOSE j \in DOMAIN keys : keys[j] = k ELSE 0)
<1>1. SearchNode(t, k) = NodeWith(t, KeysOf(t) \cap {k}, Max)
  BY TreeSearches DEF SearchesAreRight
<1>2. DOMAIN keys = 1 .. Len(keys) /\ KeysOf(t) = {keys[j] : j \in DOMAIN keys}
  <2>1. DOMAIN keys = 1 .. Len(keys)
    BY PositionIsNode
  <2> QED BY <2>1, Zenon DEF KeysInOrder, ToSet
<1>3. CASE \E j \in DOMAIN keys : keys[j] = k
  <2> DEFINE j == CHOOSE j \in DOMAIN keys : keys[j] = k
  <2>1. j \in DOMAIN keys /\ keys[j] = k
    BY <1>3
  <2> HIDE DEF j
  <2>2. KeysOf(t) \cap {k} = {k}
    BY <1>2, <2>1
  <2>3. Max({k}) = k
    BY DEF Max
  <2>4. NodeWith(t, {k}, Max) = NodeOf(t, k)
    BY <2>3, Zenon DEF NodeWith
  <2>5. NodeAt(t, keys, j) = NodeOf(t, k)
    BY <2>1 DEF NodeAt
  <2> QED BY <1>1, <1>3, <2>2, <2>4, <2>5 DEF j
<1>4. CASE ~\E j \in DOMAIN keys : keys[j] = k
  <2>1. KeysOf(t) \cap {k} = {}
    BY <1>2, <1>4
  <2>2. NodeWith(t, {}, Max) = NULL
    BY Zenon DEF NodeWith
  <2>3. 0 \notin DOMAIN keys
    BY <1>2
  <2>4. NodeAt(t, keys, 0) = NULL
    BY <2>3 DEF NodeAt
  <2> QED BY <1>1, <1>4, <2>1, <2>2, <2>4
<1> QED BY <1>3, <1>4


\* The ends of the tree are at the ends of the sequence.
LEMMA EndsAreFirstAndLast ==
  ASSUME NEW t, NEW sub, IsTree(t, sub), NEW keys, KeysInOrder(t, keys)
  PROVE  /\ Leftmost(t, t.root) = NodeAt(t, keys, 1)
         /\ Rightmost(t, t.root) = NodeAt(t, keys, Len(keys))
<1> DEFINE n == Len(keys)
           D == DOMAIN t.heap
<1>1. \A j \in 1 .. n : /\ keys[j] \in Int /\ NodeAt(t, keys, j) \in D
                        /\ t.heap[NodeAt(t, keys, j)].key = keys[j]
  BY PositionIsNode
<1>2. \A j, k \in 1 .. n : keys[j] < keys[k] <=> j < k
  BY PositionIsNode
<1>3. n \in Nat /\ \A j \in Int : j \notin 1 .. n => NodeAt(t, keys, j) = NULL
  BY PositionIsNode
<1>4. \A x \in D : \E j \in 1 .. n : x = NodeAt(t, keys, j) /\ t.heap[x].key = keys[j]
  BY PositionIsNode
<1>5. CASE t.root = NULL
  <2>1. D = {}
    BY <1>5 DEF IsTree, Linked
  <2>2. n = 0
    BY <2>1, FS_EmptySet DEF KeysInOrder
  <2>3. NodeAt(t, keys, 1) = NULL /\ NodeAt(t, keys, n) = NULL
    BY <1>3, <2>2
  <2>4. Leftmost(t, NULL) = NULL /\ Rightmost(t, NULL) = NULL
    BY Zenon DEF Leftmost, Rightmost
  <2> QED BY <1>5, <2>3, <2>4
<1>6. CASE t.root # NULL
  <2>1. t.root \in D /\ sub[t.root] = D
    BY <1>6 DEF IsTree, Linked, Spans
  <2>2. n \in 1 .. n /\ 1 \in 1 .. n
    BY <1>3, <1>4, <2>1
  <2> DEFINE l == Leftmost(t, t.root)
             r == Rightmost(t, t.root)
  <2>3. l \in D /\ r \in D
    BY <2>1, LeftmostIs, RightmostIs DEF IsEnd
  <2>4. /\ \A y \in D : y = l \/ t.heap[l].key < t.heap[y].key
        /\ \A y \in D : y = r \/ t.heap[y].key < t.heap[r].key
    BY <2>1, LeftmostIs, RightmostIs DEF IsEnd, Less
  <2> HIDE DEF l, r
  <2>5. PICK i \in 1 .. n : l = NodeAt(t, keys, i) /\ t.heap[l].key = keys[i]
    BY <1>4, <2>3
  <2>6. PICK j \in 1 .. n : r = NodeAt(t, keys, j) /\ t.heap[r].key = keys[j]
    BY <1>4, <2>3
  <2>7. NodeAt(t, keys, 1) = l
    <3>1. NodeAt(t, keys, 1) = l \/ keys[i] < keys[1]
      BY <1>1, <2>2, <2>4, <2>5
    <3>2. ~(keys[i] < keys[1])
      BY <1>2, <2>2
    <3> QED BY <3>1, <3>2
  <2>8. NodeAt(t, keys, n) = r
    <3>1. NodeAt(t, keys, n) = r \/ keys[n] < keys[j]
      BY <1>1, <2>2, <2>4, <2>6
    <3>2. ~(keys[n] < keys[j])
      BY <1>2, <1>3, <2>2
    <3> QED BY <3>1, <3>2
  <2> QED BY <2>7, <2>8 DEF l, r
<1> QED BY <1>5, <1>6

\* The position j, or nowhere when there is none: where the calls of Cursor go, one by one.
Within(keys, j) == IF j \in DOMAIN keys THEN j ELSE 0

LEMMA StepsOfCursor ==
  ASSUME NEW keys, NEW i, NEW x
  PROVE  /\ MovedTo(keys, i, "invalidate", x) = 0
         /\ MovedTo(keys, i, "first", x) = Within(keys, 1)
         /\ MovedTo(keys, i, "last", x) = Len(keys)
         /\ MovedTo(keys, i, "next", x) = IF i = 0 THEN 0 ELSE Within(keys, i + 1)
         /\ MovedTo(keys, i, "prev", x) = IF i = 0 THEN 0 ELSE Within(keys, i + (-1))
         /\ MovedTo(keys, i, "nextn", x) = IF i = 0 THEN 0 ELSE Within(keys, i + x)
         /\ MovedTo(keys, i, "prevn", x) = IF i = 0 THEN 0 ELSE Within(keys, i + (-x))
BY DEF MovedTo, Within

LEMMA CallsOfIterators ==
  ASSUME NEW n, NEW x
  PROVE  /\ tree_iterator(n, "invalidate", x) = NULL
         /\ tree_iterator(n, "first", x) = Leftmost(tree, tree.root)
         /\ tree_iterator(n, "last", x) = Rightmost(tree, tree.root)
         /\ tree_iterator(n, "next", x) = IterNext(tree, n, Up)
         /\ tree_iterator(n, "prev", x) = IterPrev(tree, n, Up)
         /\ tree_iterator(n, "nextn", x) = IterNextN(tree, n, x, Up)
         /\ tree_iterator(n, "prevn", x) = IterPrevN(tree, n, x, Up)
         /\ tree_iterator(n, "search", x) = SearchNode(tree, x)
         /\ tree_iterator(n, "search_le", x) = SearchLE(tree, x)
         /\ tree_iterator(n, "search_lt", x) = SearchLT(tree, x)
         /\ tree_iterator(n, "search_ge", x) = SearchGE(tree, x)
         /\ tree_iterator(n, "search_gt", x) = SearchGT(tree, x)
BY DEF tree_iterator

LEMMA NodeWithin ==
  ASSUME NEW t, NEW sub, IsTree(t, sub), NEW keys, KeysInOrder(t, keys), NEW j \in Int
  PROVE  NodeAt(t, keys, Within(keys, j)) = NodeAt(t, keys, j)
<1>1. 0 \notin DOMAIN keys
  BY PositionIsNode
<1> QED BY <1>1 DEF NodeAt, Within


\* Every call on an iterator takes it where its name says.
LEMMA IteratorMoves ==
  ASSUME NEW sub, IsTree(tree, sub), NEW keys, KeysInOrder(tree, keys),
         NEW i \in 0 .. Len(keys), NEW c \in Steps \cup Strides
  PROVE  tree_iterator(NodeAt(tree, keys, i), c[1], c[2])
           = NodeAt(tree, keys, MovedTo(keys, i, c[1], c[2]))
<1> DEFINE n == NodeAt(tree, keys, i)
<1>1. Len(keys) \in Nat /\ i \in Int /\ i >= 0 /\ i <= Len(keys) /\ DOMAIN keys = 1 .. Len(keys)
  BY PositionIsNode
<1>2. Parents(tree, Up)
  BY DEF Parents, Up
<1>3. NodeAt(tree, keys, 0) = NULL
  BY <1>1 DEF NodeAt
<1>4. PICK call, x : c[1] = call /\ c[2] = x
                     /\ \/ call \in {"invalidate", "first", "last", "next", "prev"} /\ x = 0
                        \/ call \in {"nextn", "prevn"} /\ x \in Nat
  BY DEF Steps, Strides
<1> HIDE DEF n
<1>5. CASE call = "invalidate"
  <2>1. tree_iterator(n, call, x) = NULL
    BY <1>5, CallsOfIterators
  <2>2. MovedTo(keys, i, call, x) = 0
    BY <1>5, StepsOfCursor
  <2> QED BY <1>3, <1>4, <2>1, <2>2 DEF n
<1>6. CASE call = "first"
  <2>1. NodeAt(tree, keys, Within(keys, 1)) = NodeAt(tree, keys, 1)
    BY NodeWithin
  <2>2. tree_iterator(n, call, x) = NodeAt(tree, keys, 1)
    <3>1. tree_iterator(n, "first", x) = Leftmost(tree, tree.root)
      BY CallsOfIterators
    <3> QED BY <1>6, <3>1, EndsAreFirstAndLast
  <2>3. MovedTo(keys, i, call, x) = Within(keys, 1)
    BY <1>6, StepsOfCursor
  <2> QED BY <1>4, <2>1, <2>2, <2>3 DEF n
<1>7. CASE call = "last"
  <2>1. tree_iterator(n, call, x) = NodeAt(tree, keys, Len(keys))
    <3>1. tree_iterator(n, "last", x) = Rightmost(tree, tree.root)
      BY CallsOfIterators
    <3> QED BY <1>7, <3>1, EndsAreFirstAndLast
  <2>2. MovedTo(keys, i, call, x) = Len(keys)
    BY <1>7, StepsOfCursor
  <2> QED BY <1>4, <2>1, <2>2 DEF n
<1>8. CASE i = 0 /\ call \in {"next", "prev", "nextn", "prevn"}
  <2>1. n = NULL
    BY <1>3, <1>8 DEF n
  <2>2. IterNext(tree, n, Up) = NULL /\ IterPrev(tree, n, Up) = NULL
    BY <2>1, Zenon DEF IterNext, IterPrev
  <2>3. x \in Nat => IterNextN(tree, n, x, Up) = NULL /\ IterPrevN(tree, n, x, Up) = NULL
    BY <2>1, StrideFromNowhere
  <2>4. tree_iterator(n, call, x) = NULL
    BY <1>4, <1>8, <2>2, <2>3, CallsOfIterators
  <2>5. MovedTo(keys, i, call, x) = 0
    BY <1>8, StepsOfCursor
  <2> QED BY <1>3, <1>4, <2>4, <2>5 DEF n
<1>9. CASE i # 0 /\ call \in {"next", "prev"}
  <2>1. /\ IterNext(tree, n, Up) = NodeAt(tree, keys, i + 1)
        /\ IterPrev(tree, n, Up) = NodeAt(tree, keys, i - 1)
    BY <1>1, <1>2, <1>9, IteratorSteps DEF n
  <2>2. i + 1 \in Int /\ i - 1 \in Int /\ i + (-1) = i - 1
    BY <1>1
  <2>3. /\ NodeAt(tree, keys, Within(keys, i + 1)) = NodeAt(tree, keys, i + 1)
        /\ NodeAt(tree, keys, Within(keys, i + (-1))) = NodeAt(tree, keys, i - 1)
    BY <2>2, NodeWithin
  <2>4. /\ MovedTo(keys, i, "next", x) = Within(keys, i + 1)
        /\ MovedTo(keys, i, "prev", x) = Within(keys, i + (-1))
    BY <1>9, StepsOfCursor
  <2>5. /\ tree_iterator(n, "next", x) = NodeAt(tree, keys, i + 1)
        /\ tree_iterator(n, "prev", x) = NodeAt(tree, keys, i - 1)
    BY <2>1, CallsOfIterators
  <2>6. call = "next" \/ call = "prev"
    BY <1>9
  <2> QED BY <1>4, <2>3, <2>4, <2>5, <2>6 DEF n
<1>10. CASE i # 0 /\ call \in {"nextn", "prevn"}
  <2>1. x \in Nat
    BY <1>4, <1>10
  <2>2. /\ IterNextN(tree, n, x, Up) = NodeAt(tree, keys, i + x)
        /\ IterPrevN(tree, n, x, Up) = NodeAt(tree, keys, i - x)
    BY <1>1, <1>2, <1>10, <2>1, IteratorStrides DEF n
  <2>3. i + x \in Int /\ i - x \in Int /\ i + (-x) = i - x
    BY <1>1, <2>1
  <2>4. /\ NodeAt(tree, keys, Within(keys, i + x)) = NodeAt(tree, keys, i + x)
        /\ NodeAt(tree, keys, Within(keys, i + (-x))) = NodeAt(tree, keys, i - x)
    BY <2>3, NodeWithin
  <2>5. /\ MovedTo(keys, i, "nextn", x) = Within(keys, i + x)
        /\ MovedTo(keys, i, "prevn", x) = Within(keys, i + (-x))
    BY <1>10, StepsOfCursor
  <2>6. /\ tree_iterator(n, "nextn", x) = NodeAt(tree, keys, i + x)
        /\ tree_iterator(n, "prevn", x) = NodeAt(tree, keys, i - x)
    BY <2>2, CallsOfIterators
  <2>7. call = "nextn" \/ call = "prevn"
    BY <1>10
  <2> QED BY <1>4, <2>4, <2>5, <2>6, <2>7 DEF n
<1> QED BY <1>4, <1>5, <1>6, <1>7, <1>8, <1>9, <1>10

\* ... and so does every search, from wherever the iterator is.
LEMMA IteratorSearches ==
  ASSUME NEW sub, IsTree(tree, sub), NEW keys, KeysInOrder(tree, keys), NEW n,
         NEW call \in Searches, NEW k \in Int
  PROVE  tree_iterator(n, call, k) = NodeAt(tree, keys, MovedTo(keys, 0, call, k))
<1> DEFINE below == Cardinality({j \in DOMAIN keys : keys[j] < k})
           upto  == Cardinality({j \in DOMAIN keys : keys[j] <= k})
           found == IF \E j \in DOMAIN keys : keys[j] = k
                    THEN CHOOSE j \in DOMAIN keys : keys[j] = k ELSE 0
<1>1. /\ SearchLE(tree, k) = NodeAt(tree, keys, upto)
      /\ SearchLT(tree, k) = NodeAt(tree, keys, below)
      /\ SearchGE(tree, k) = NodeAt(tree, keys, below + 1)
      /\ SearchGT(tree, k) = NodeAt(tree, keys, upto + 1)
      /\ below \in 0 .. Len(keys) /\ upto \in 0 .. Len(keys)
  <2>1. SearchPlaces(tree, keys, k)
    BY SearchesFindPlaces
  <2> QED BY <2>1, Zenon DEF SearchPlaces
<1>2. SearchNode(tree, k) = NodeAt(tree, keys, found)
  BY SearchFindsPlace
<1>3. /\ MovedTo(keys, 0, "search", k) = found
      /\ MovedTo(keys, 0, "search_le", k) = upto
      /\ MovedTo(keys, 0, "search_lt", k) = below
      /\ MovedTo(keys, 0, "search_ge", k) = Within(keys, below + 1)
      /\ MovedTo(keys, 0, "search_gt", k) = Within(keys, upto + 1)
  BY DEF MovedTo, Within
<1> HIDE DEF below, upto, found
<1>4. below + 1 \in Int /\ upto + 1 \in Int
  BY <1>1
<1>5. /\ NodeAt(tree, keys, Within(keys, below + 1)) = NodeAt(tree, keys, below + 1)
      /\ NodeAt(tree, keys, Within(keys, upto + 1)) = NodeAt(tree, keys, upto + 1)
  BY <1>4, NodeWithin
<1>6. \/ call = "search" \/ call = "search_le" \/ call = "search_lt"
      \/ call = "search_ge" \/ call = "search_gt"
  BY DEF Searches
<1> QED BY <1>1, <1>2, <1>3, <1>5, <1>6, CallsOfIterators

\* Iterators compare like their positions.
LEMMA IteratorsCompare ==
  ASSUME NEW t, NEW sub, IsTree(t, sub), NEW keys, KeysInOrder(t, keys),
         NEW i \in 0 .. Len(keys), NEW j \in 0 .. Len(keys)
  PROVE  /\ IterCompare(t, NodeAt(t, keys, i), NodeAt(t, keys, j)) < 0 <=> i < j
         /\ IterCompare(t, NodeAt(t, keys, i), NodeAt(t, keys, j)) = 0 <=> i = j
<1> DEFINE m == NodeAt(t, keys, i)
           n == NodeAt(t, keys, j)
<1>1. Len(keys) \in Nat /\ 0 \notin 1 .. Len(keys)
  BY PositionIsNode
<1>2. NULL \notin DOMAIN t.heap
  BY PointerAssumption DEF IsTree, IsHeap
<1>3. /\ i = 0 => m = NULL
      /\ i # 0 => /\ m \in DOMAIN t.heap /\ m # NULL
                  /\ t.heap[m].key = keys[i] /\ keys[i] \in Int /\ i \in 1 .. Len(keys)
  BY <1>1, <1>2, PositionIsNode
<1>4. /\ j = 0 => n = NULL
      /\ j # 0 => /\ n \in DOMAIN t.heap /\ n # NULL
                  /\ t.heap[n].key = keys[j] /\ keys[j] \in Int /\ j \in 1 .. Len(keys)
  BY <1>1, <1>2, PositionIsNode
<1>5. i # 0 /\ j # 0 => /\ keys[i] < keys[j] <=> i < j
                        /\ keys[j] < keys[i] <=> j < i
  BY <1>3, <1>4, PositionIsNode
<1> HIDE DEF m, n
<1>6. IterCompare(t, m, n) = IF m = NULL THEN IF n = NULL THEN 0 ELSE -1
                             ELSE IF n = NULL THEN 1 ELSE t.heap[m].key - t.heap[n].key
  BY Zenon DEF IterCompare
<1>7. CASE i = 0 \/ j = 0
  <2>1. IterCompare(t, m, n) = IF i = 0 THEN IF j = 0 THEN 0 ELSE -1 ELSE 1
    BY <1>3, <1>4, <1>6, <1>7
  <2> QED BY <1>1, <1>7, <2>1 DEF m, n
<1>8. CASE i # 0 /\ j # 0
  <2>1. IterCompare(t, m, n) = keys[i] - keys[j]
    BY <1>3, <1>4, <1>6, <1>8
  <2>2. keys[i] = keys[j] <=> i = j
    BY <1>3, <1>4, <1>5, <1>8
  <2> QED BY <1>3, <1>4, <1>5, <1>8, <2>1, <2>2 DEF m, n
<1> QED BY <1>7, <1>8

\* The kinds whose calls on iterators are those of tree_common.c find exactly what they
\* are asked for.
Always(call) == TRUE

LEMMA IteratorsAreRight ==
  ASSUME NEW sub, IsTree(tree, sub), tree.count = Cardinality(DOMAIN tree.heap)
  PROVE  IteratorsRight(tree_iterator, Always)
<1> DEFINE keys == Traverse(tree, Up)
<1>1. KeysInOrder(tree, keys)
  BY TraverseOrdered DEF Parents, Up
<1>2. tree.count = Len(keys)
  BY <1>1 DEF KeysInOrder
<1> HIDE DEF keys
<1>3. \A i \in 0 .. Len(keys), c \in Steps \cup Strides :
        tree_iterator(NodeAt(tree, keys, i), c[1], c[2])
          = NodeAt(tree, keys, MovedTo(keys, i, c[1], c[2]))
  BY <1>1, IteratorMoves
<1>4. \A call \in Searches, k \in Keys :
        tree_iterator(NULL, call, k) = NodeAt(tree, keys, MovedTo(keys, 0, call, k))
  BY <1>1, IteratorSearches, KeysAssumption
<1>5. \A i, j \in 0 .. Len(keys) :
        /\ IterCompare(tree, NodeAt(tree, keys, i), NodeAt(tree, keys, j)) < 0 <=> i < j
        /\ IterCompare(tree, NodeAt(tree, keys, i), NodeAt(tree, keys, j)) = 0 <=> i = j
  BY <1>1, IteratorsCompare
<1> QED BY <1>2, <1>3, <1>4, <1>5, Zenon DEF IteratorsRight, NodeAt, keys, Always


\* tree_select finds the n-th node from either end: the two counted loops pass the places
\* in order.
CountsForth(t, up, g) ==
  /\ g[0] = Leftmost(t, t.root)
  /\ \A i \in 1 .. t.count : g[i] = NodeNext(t, g[i - 1], up)
CountsBack(t, up, g)  ==
  /\ g[0] = Rightmost(t, t.root)
  /\ \A i \in 1 .. t.count : g[i] = NodePrev(t, g[i - 1], up)

LEMMA SelectCounts ==
  ASSUME NEW t, NEW up, t.count \in Nat, NEW i \in 0 .. t.count - 1,
         NEW g, CountsForth(t, up, g), NEW h, CountsBack(t, up, h), NEW m,
         g[i] = m, h[t.count - 1 - i] = m
  PROVE  SelectNode(t, i, up) = m
<1> DEFINE I == 0 .. t.count
           Start == Leftmost(t, t.root)
           End == Rightmost(t, t.root)
           Forth(f) == f = [j \in I |-> IF j = 0 THEN Start ELSE NodeNext(t, f[j - 1], up)]
           Back(f) == f = [j \in I |-> IF j = 0 THEN End ELSE NodePrev(t, f[j - 1], up)]
           forth == CHOOSE f : Forth(f)
           back == CHOOSE f : Back(f)
           g0 == [j \in I |-> g[j]]
           h0 == [j \in I |-> h[j]]
<1>1. \A j \in I : g0[j] = g[j] /\ h0[j] = h[j] /\ (j # 0 => j \in 1 .. t.count /\ j - 1 \in I)
  OBVIOUS
<1>2. g0 = [j \in I |-> g0[j]] /\ h0 = [j \in I |-> h0[j]]
  OBVIOUS
<1> HIDE DEF g0, h0
<1>3. Forth(g0)
  <2>1. ASSUME NEW j \in I PROVE g0[j] = IF j = 0 THEN Start ELSE NodeNext(t, g0[j - 1], up)
    BY <1>1 DEF CountsForth
  <2> HIDE DEF Start
  <2> QED BY <1>2, <2>1
<1>4. Back(h0)
  <2>1. ASSUME NEW j \in I PROVE h0[j] = IF j = 0 THEN End ELSE NodePrev(t, h0[j - 1], up)
    BY <1>1 DEF CountsBack
  <2> HIDE DEF End
  <2> QED BY <1>2, <2>1
<1>5. Forth(forth) /\ Back(back)
  <2> HIDE DEF Forth, Back
  <2> QED BY <1>3, <1>4
<1>6. SelectNode(t, i, up) = IF i >= t.count THEN NULL
                             ELSE IF i >= t.count \div 2 THEN back[t.count - 1 - i] ELSE forth[i]
  BY Zenon DEF SelectNode
<1> HIDE DEF forth, back
<1>7. /\ forth[0] = Start /\ \A j \in 1 .. t.count : forth[j] = NodeNext(t, forth[j - 1], up)
      /\ back[0] = End /\ \A j \in 1 .. t.count : back[j] = NodePrev(t, back[j - 1], up)
  <2> HIDE DEF Start, End
  <2>1. /\ \A j \in I : forth[j] = IF j = 0 THEN Start ELSE NodeNext(t, forth[j - 1], up)
        /\ \A j \in I : back[j] = IF j = 0 THEN End ELSE NodePrev(t, back[j - 1], up)
    BY <1>5
  <2> HIDE DEF Forth, Back
  <2> QED BY <2>1
<1> HIDE DEF Forth, Back
<1>8. PICK N \in Nat : N = t.count
  OBVIOUS
<1>9. \A j \in 0 .. N : forth[j] = g[j]
  <2>1. forth[0] = g[0] /\ \A j \in 1 .. N : forth[j - 1] = g[j - 1] => forth[j] = g[j]
    BY <1>7, <1>8 DEF CountsForth
  <2> QED BY <2>1, CountedLoop
<1>10. \A j \in 0 .. N : back[j] = h[j]
  <2>1. back[0] = h[0] /\ \A j \in 1 .. N : back[j - 1] = h[j - 1] => back[j] = h[j]
    BY <1>7, <1>8 DEF CountsBack
  <2> QED BY <2>1, CountedLoop
<1>11. i \in 0 .. N /\ t.count - 1 - i \in 0 .. N /\ ~(i >= t.count)
  BY <1>8
<1> QED BY <1>6, <1>9, <1>10, <1>11

LEMMA SelectIsNode ==
  ASSUME NEW t, NEW sub, IsTree(t, sub), NEW up, Parents(t, up), NEW keys, KeysInOrder(t, keys),
         t.count = Len(keys), NEW i \in 0 .. t.count
  PROVE  SelectNode(t, i, up) = NodeAt(t, keys, i + 1)
<1> DEFINE N == t.count
           g == [j \in 0 .. N |-> NodeAt(t, keys, j + 1)]
           h == [j \in 0 .. N |-> NodeAt(t, keys, N - j)]
<1>1. N \in Nat /\ i \in 0 .. N
  BY PositionIsNode
<1>2. CASE i = N
  <2>1. SelectNode(t, i, up) = NULL
    BY <1>1, <1>2, N >= N DEF SelectNode
  <2>2. i + 1 \in Int /\ i + 1 \notin 1 .. Len(keys)
    BY <1>1, <1>2
  <2> QED BY <2>1, <2>2, PositionIsNode
<1>3. CASE i # N
  <2>1. \A j \in 0 .. N : g[j] = NodeAt(t, keys, j + 1) /\ h[j] = NodeAt(t, keys, N - j)
    OBVIOUS
  <2> HIDE DEF g, h
  <2>2. NULL \notin DOMAIN t.heap
    BY PointerAssumption DEF IsTree, IsHeap
  <2>3. ASSUME NEW j \in 1 .. N
        PROVE  /\ NodeNext(t, NodeAt(t, keys, j), up) = NodeAt(t, keys, j + 1)
               /\ NodePrev(t, NodeAt(t, keys, j), up) = NodeAt(t, keys, j - 1)
    <3>1. NodeAt(t, keys, j) # NULL
      BY <2>2, PositionIsNode
    <3>2. /\ IterNext(t, NodeAt(t, keys, j), up) = NodeNext(t, NodeAt(t, keys, j), up)
          /\ IterPrev(t, NodeAt(t, keys, j), up) = NodePrev(t, NodeAt(t, keys, j), up)
      BY <3>1, Zenon DEF IterNext, IterPrev
    <3>3. j \in Int /\ j > 0 /\ j <= Len(keys)
      BY <1>1
    <3> QED BY <3>2, <3>3, IteratorSteps
  <2>4. CountsForth(t, up, g)
    <3>1. g[0] = Leftmost(t, t.root)
      BY <1>1, <2>1, EndsAreFirstAndLast, 0 \in 0 .. N, 0 + 1 = 1
    <3>2. ASSUME NEW j \in 1 .. N PROVE g[j] = NodeNext(t, g[j - 1], up)
      <4>1. j \in 0 .. N /\ j - 1 \in 0 .. N /\ (j - 1) + 1 = j
        BY <1>1
      <4> QED BY <2>1, <2>3, <4>1
    <3> QED BY <3>1, <3>2 DEF CountsForth
  <2>5. CountsBack(t, up, h)
    <3>1. h[0] = Rightmost(t, t.root)
      BY <1>1, <2>1, EndsAreFirstAndLast, 0 \in 0 .. N, N - 0 = N
    <3>2. ASSUME NEW j \in 1 .. N PROVE h[j] = NodePrev(t, h[j - 1], up)
      <4>1. /\ j \in 0 .. N /\ j - 1 \in 0 .. N
            /\ N - (j - 1) \in 1 .. N /\ (N - (j - 1)) - 1 = N - j
        BY <1>1
      <4>2. NodePrev(t, NodeAt(t, keys, N - (j - 1)), up) = NodeAt(t, keys, (N - (j - 1)) - 1)
        BY <2>3, <4>1
      <4> QED BY <2>1, <4>1, <4>2
    <3> QED BY <3>1, <3>2 DEF CountsBack
  <2>6. /\ i \in 0 .. N - 1 /\ i \in 0 .. N
        /\ N - 1 - i \in 0 .. N /\ N - (N - 1 - i) = i + 1
    BY <1>1, <1>3
  <2>7. g[i] = NodeAt(t, keys, i + 1) /\ h[N - 1 - i] = NodeAt(t, keys, i + 1)
    BY <2>1, <2>6
  <2> HIDE DEF N
  <2>8. N = t.count
    BY DEF N
  <2> QED BY <1>1, <2>4, <2>5, <2>6, <2>7, <2>8, SelectCounts
<1> QED BY <1>2, <1>3

\* What dict_select promises: the i-th key's node, and nothing beyond the last.
SelectsRight(Nth(_)) ==
  \A i \in 0 .. tree.count :
    Nth(i) = IF i = tree.count THEN NULL ELSE NodeOf(tree, Traverse(tree, Up)[i + 1])

LEMMA SelectsByPlace ==
  ASSUME NEW keys, keys = Traverse(tree, Up), KeysInOrder(tree, keys), tree.count = Len(keys),
         NEW i \in 0 .. tree.count
  PROVE  NodeAt(tree, keys, i + 1)
           = IF i = tree.count THEN NULL ELSE NodeOf(tree, Traverse(tree, Up)[i + 1])
<1>1. DOMAIN keys = 1 .. tree.count /\ tree.count \in Nat
  BY DEF KeysInOrder
<1>2. PICK N \in Nat : N = tree.count
  BY <1>1, Zenon
<1>3. i + 1 \in 1 .. N <=> i # N
  BY <1>2
<1> QED BY <1>1, <1>2, <1>3, Zenon DEF NodeAt


\* A node's place follows from the number of keys before its own.
LEMMA RankIsPlace ==
  ASSUME NEW t, NEW sub, IsTree(t, sub), NEW keys, KeysInOrder(t, keys),
         NEW x \in DOMAIN t.heap, NEW i,
         Cardinality({y \in DOMAIN t.heap : t.heap[y].key < t.heap[x].key}) = i
  PROVE  i \in 0 .. Len(keys) - 1 /\ x = NodeAt(t, keys, i + 1)
<1>1. PICK p \in 1 .. Len(keys) : x = NodeAt(t, keys, p) /\ t.heap[x].key = keys[p]
  BY PositionIsNode
<1> DEFINE I == 1 .. (p - 1)
           Y == {y \in DOMAIN t.heap : t.heap[y].key < t.heap[x].key}
           f == [q \in I |-> NodeAt(t, keys, q)]
<1>2. Len(keys) \in Nat /\ \A q \in I : q \in 1 .. Len(keys) /\ q < p
  BY PositionIsNode
<1>3. \A q \in I : f[q] \in DOMAIN t.heap /\ t.heap[f[q]].key = keys[q] /\ keys[q] \in Int
  BY <1>2, PositionIsNode
<1>4. f \in [I -> Y]
  <2>1. \A q \in I : keys[q] < keys[p]
    BY <1>2, PositionIsNode
  <2>2. \A q \in I : f[q] \in Y
    BY <1>1, <1>3, <2>1
  <2>3. f = [q \in I |-> f[q]]
    OBVIOUS
  <2> HIDE DEF f, Y
  <2> QED BY <2>2, <2>3
<1>5. ASSUME NEW a \in I, NEW b \in I, f[a] = f[b] PROVE a = b
  <2>1. keys[a] = keys[b] /\ keys[a] \in Int
    BY <1>3, <1>5
  <2>2. keys[a] < keys[b] <=> a < b
    BY <1>2, PositionIsNode
  <2>3. keys[b] < keys[a] <=> b < a
    BY <1>2, PositionIsNode
  <2>4. a \in Int /\ b \in Int
    BY <1>1
  <2> HIDE DEF f, I
  <2> QED BY <2>1, <2>2, <2>3, <2>4
<1>6. ASSUME NEW y \in Y PROVE \E q \in I : f[q] = y
  <2>1. PICK q \in 1 .. Len(keys) : y = NodeAt(t, keys, q) /\ t.heap[y].key = keys[q]
    BY PositionIsNode
  <2>2. keys[q] < keys[p] <=> q < p
    BY PositionIsNode
  <2>3. q < p
    BY <1>1, <2>1, <2>2
  <2>4. q \in I
    BY <1>1, <2>3
  <2> QED BY <2>1, <2>4
<1>7. ExistsBijection(I, Y)
  <2>1. DOMAIN f = I
    OBVIOUS
  <2> HIDE DEF f, I, Y
  <2>2. f \in Injection(I, Y)
    BY <1>4, <1>5, <2>1 DEF Injection, IsInjective
  <2>3. f \in Surjection(I, Y)
    BY <1>4, <1>6 DEF Surjection
  <2> QED BY <2>2, <2>3 DEF Bijection, ExistsBijection
<1>8. IsFiniteSet(I) /\ Cardinality(I) = p - 1
  <2>1. 1 \in Int /\ p - 1 \in Int /\ p - 1 >= 0
    BY <1>1, <1>2
  <2> QED BY <2>1, FS_Interval
<1>9. Cardinality(Y) = p - 1
  <2> HIDE DEF I, Y
  <2> QED BY <1>7, <1>8, FS_Bijection
<1>10. i = p - 1 /\ i + 1 = p
  BY <1>1, <1>9
<1> QED BY <1>1, <1>2, <1>10

===================================================================================
