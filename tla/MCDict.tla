---------------------------------- MODULE MCDict ----------------------------------
(***************************************************************************)
(* Instances of Dict for TLC.  Where nodes are allocated makes no          *)
(* difference to what follows, so states that differ only in that are      *)
(* taken together: the view names each node by its key.                    *)
(*                                                                         *)
(* Small keys come and go as they like; larger trees, whose keys are 1 to  *)
(* some number, have a hole or none, which moves through all of them.      *)
(***************************************************************************)
EXTENDS Dict

KeyOf(n) == IF n = NULL THEN NULL ELSE tree.heap[n].key

Nodes == {[n EXCEPT !.parent = KeyOf(@), !.llink = KeyOf(@), !.rlink = KeyOf(@)]
            : n \in {tree.heap[a] : a \in DOMAIN tree.heap}}

view == <<kind, Nodes, KeyOf(tree.root), tree.count, op, KeyOf(at), KeyOf(added),
          KeyOf(child), left, KeyOf(q), [i \in DOMAIN todo |-> KeyOf(todo[i])]>>

\* The keys that come and go freely, and the greatest one, for each kind
Free     == [wb |-> 7, hb |-> 7, rb |-> 6, pr |-> 6, tr |-> 5, sp |-> 6]
Greatest == [wb |-> 11, hb |-> 13, rb |-> 11, pr |-> 10, tr |-> 5, sp |-> 6]

FewHoles ==
  LET ks == KeysOf(tree)
  IN  /\ ks \subseteq 1 .. Greatest[kind]
      /\ \/ op = "clear"
         \/ ks \subseteq 1 .. Free[kind]
         \/ Cardinality((1 .. Max(ks)) \ ks) <= 1
===================================================================================
