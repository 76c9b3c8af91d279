----------------------------------- MODULE Dict -----------------------------------
(***************************************************************************)
(* A dictionary as its users see it (libuddsketch/include/dict/dict.h): an *)
(* object of one of the kinds of search tree, and calls that go through    *)
(* its table of functions to that kind's code.  The kind is chosen when it *)
(* is made and never changes.                                              *)
(***************************************************************************)
EXTENDS SearchTree

CONSTANT Prios  \* the priorities that the nodes of a treap may have

ASSUME PriosAssumption == Prios \subseteq Int

VARIABLES kind,               \* whose vtable the dictionary has
          child, left, q, todo  \* what the calls of some kinds keep besides

vars == <<kind, shared, child, left, q, todo>>

Wb == INSTANCE WbTree
Hb == INSTANCE HbTree
Rb == INSTANCE RbTree
Pr == INSTANCE PrTree
Tr == INSTANCE TrTree
Sp == INSTANCE SpTree

Kinds == {"wb", "hb", "rb", "pr", "tr", "sp"}

\* The *_dict_new functions
Init == /\ kind \in Kinds
        /\ StartsEmpty
        /\ child = NULL /\ left = FALSE /\ q = NULL /\ todo = <<>>

----------------------------------------------------------------------------
(* The calls, by the kind that answers them *)

WbNext == kind = "wb" /\ Wb!Next /\ UNCHANGED <<kind, child, left, q, todo>>
HbNext == kind = "hb" /\ Hb!Next /\ UNCHANGED <<kind, todo>>
RbNext == kind = "rb" /\ Rb!Next /\ UNCHANGED <<kind, q, todo>>
PrNext == kind = "pr" /\ Pr!Next /\ UNCHANGED <<kind, child, left, q>>
TrNext == kind = "tr" /\ Tr!TrNext /\ UNCHANGED <<kind, child, left, q, todo>>
SpNext == kind = "sp" /\ Sp!SpNext /\ UNCHANGED <<kind, child, left, q, todo>>

Next == WbNext \/ HbNext \/ RbNext \/ PrNext \/ TrNext \/ SpNext

Spec == Init /\ [][Next]_vars

----------------------------------------------------------------------------
\* The types of the shared state and of what each kind keeps in a node.
TypeOK ==
  CASE kind = "wb" -> Wb!TypeOK
    [] kind = "hb" -> Hb!TypeOK
    [] kind = "rb" -> Rb!TypeOK
    [] kind = "pr" -> Pr!TypeOK
    [] kind = "tr" -> Tr!TrTypeOK
    [] kind = "sp" -> Sp!SpTypeOK

\* dict_verify
Verified ==
  CASE kind = "wb" -> Wb!wb_tree_verify(tree)
    [] kind = "hb" -> Hb!hb_tree_verify(tree)
    [] kind = "rb" -> Rb!rb_tree_verify(tree)
    [] kind = "pr" -> Pr!pr_tree_verify(tree)
    [] kind = "tr" -> Tr!tr_tree_verify(tree)
    [] kind = "sp" -> Sp!sp_tree_verify(tree)

\* What makes each kind of tree fast holds after every call, as dict_verify checks it: one
\* fixup per level restores the weights' balance, retracing the heights', recolouring
\* the red-black rules, and two calls of fixup per rotation leave no path to shorten.
\* Beyond what it checks, all ways down a red-black tree pass equally many black nodes;
\* in this and the height-balanced tree no way is more than twice as long as
\* another; and a treap is a heap, in the middle of a call too, but for the node it moves.
RulesKept ==
  /\ op = "none" => Verified
  /\ kind = "rb" /\ op = "none" => Cardinality(Rb!BlackHeights) = 1
  /\ kind \in {"rb", "hb"} /\ op = "none" => MaxPathLength(tree) <= 2 * MinPathLength(tree)
  /\ kind = "tr" => Tr!HeapOrdered

\* The weights of both kinds that have them are right at every node, except that on the path
\* still to be climbed they lag behind by the node that came or went.
WeightsExact ==
  /\ kind = "wb" => Wb!WeightsExact
  /\ kind = "pr" => Pr!WeightsExact

\* The assertions of the code, and the nodes that it follows pointers to without looking
\* whether they are there, in the middle of every loop.
AssertionsHold ==
  /\ kind = "wb" => Wb!RotationsHaveNodes
  /\ kind = "hb" => Hb!AssertionsHold
  /\ kind = "rb" => Rb!LoopsHaveNodes

\* dict_select
Select(i) ==
  CASE kind = "wb" -> Wb!Select(tree, i)
    [] kind = "pr" -> Pr!Select(tree, i)
    [] kind = "hb" -> Hb!hb_tree_select(i)
    [] kind = "rb" -> Rb!rb_tree_select(i)
    [] kind \in {"tr", "sp"} -> SelectNode(tree, i, Up)

\* The calls on an iterator of each kind
Itor(n, call, x) ==
  CASE kind = "wb" -> Wb!wb_itor(n, call, x)
    [] kind = "hb" -> Hb!hb_itor(n, call, x)
    [] kind = "rb" -> Rb!rb_itor(n, call, x)
    [] kind = "pr" -> Pr!pr_itor(n, call, x)
    [] kind = "tr" -> Tr!tr_itor(n, call, x)
    [] kind = "sp" -> Sp!sp_itor(n, call, x)

\* Only hb_itor_search, which the table of functions does not use, may find another key
Exact(call) == call = "search" => kind # "hb"

\* Between calls the n-th key is the n-th, counted by weights or from the nearer end, and
\* there is none beyond the last; and every call on an iterator takes it where its name
\* says, and iterators compare in the order of the keys.
PositionsRight ==
  /\ op = "none" =>
       \A i \in 0 .. tree.count :
         Select(i) = IF i = tree.count THEN NULL ELSE NodeOf(tree, Traverse(tree, Up)[i + 1])
  /\ IteratorsRight(Itor, Exact)

\* Every call returns: each pass of its loop, and each call that fixup makes of itself,
\* comes nearer to the end by the measure that the kind's module names.
LoopsAdvance ==
  [][op # "none" /\ op' = op =>
       CASE op = "clear" -> ClearAdvances
         [] kind = "wb" /\ op # "clear" -> Wb!Advances
         [] kind = "hb" /\ op # "clear" -> Hb!Advances
         [] kind = "rb" /\ op # "clear" -> Rb!Advances
         [] kind = "pr" /\ op # "clear" -> Pr!Advances
         [] kind = "tr" /\ op # "clear" -> Tr!TrAdvances
         [] kind = "sp" /\ op # "clear" -> Sp!SpAdvances]_vars
===================================================================================
