----------------------------- MODULE MCListsAndTables -----------------------------
(***************************************************************************)
(* Instances of ListsAndTables for TLC.  Where nodes are allocated makes   *)
(* no difference, so the view names each node by its key.                  *)
(*                                                                         *)
(* The tables have sizes of 2, 3, 5 and 7 in place of 11, 17, 37 and so on, *)
(* so that few keys fill them.                                             *)
(***************************************************************************)
EXTENDS ListsAndTables

\* Keys with equal hash values, others that only share a slot in some sizes, the value 0 and
\* the value that takes its place
MCHashFuncs == {<<0, 7, 1, 3, 1, 8>>, <<4, 3, 2, 1, 0, 5>>, <<2, 7, 2, 7, 2, 7>>,
                <<1, 1, 4, 4, 3, 6>>, <<0, 0, 0, 8, 8, 8>>, <<6, 4, 6, 5, 3, 1>>}

KeyOf(n) == IF n \in Addresses THEN object.heap[n].key ELSE n

\* The same with keys for addresses
Named(node) ==
  [f \in DOMAIN node |->
     CASE f \in {"prev", "next"} -> KeyOf(node[f])
       [] f = "link" -> [i \in DOMAIN node.link |-> KeyOf(node.link[i])]
       [] f \notin {"prev", "next", "link"} -> node[f]]

view ==
  <<kind,
    CASE kind = "skiplist" ->
           <<object.top_link, object.count, {Named(object.heap[n]) : n \in DOMAIN object.heap}>>
      [] kind = "hashtable" ->
           <<object.hash_func, object.size, object.count,
             [i \in DOMAIN object.first |-> KeyOf(object.first[i])],
             {Named(object.heap[n]) : n \in DOMAIN object.heap}>>
      [] kind = "hashtable2" -> object>>
===================================================================================
