--------------------------------- MODULE MCHbTree ---------------------------------
(***************************************************************************)
(* An instance of HbTree for TLC.  Where nodes are allocated makes no      *)
(* difference to what follows, so states that differ only in that are      *)
(* taken together: the view names each node by its key.                    *)
(***************************************************************************)
EXTENDS HbTree

KeyOf(n) == IF n = NULL THEN NULL ELSE tree.heap[n].key

Nodes == {[n EXCEPT !.parent = KeyOf(@), !.llink = KeyOf(@), !.rlink = KeyOf(@)]
            : n \in {tree.heap[a] : a \in DOMAIN tree.heap}}

view == <<Nodes, KeyOf(tree.root), tree.count, op,
          KeyOf(at), KeyOf(child), left, KeyOf(q), KeyOf(added)>>
===================================================================================
