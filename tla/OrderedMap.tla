-------------------------------- MODULE OrderedMap --------------------------------
(***************************************************************************)
(* What Mapstore assumes of a dictionary: a finite map whose keys come and *)
(* go one at a time, each with the datum it was given.  All the containers *)
(* of libdict implement it.                                                *)
(***************************************************************************)
EXTENDS Integers, Functions

CONSTANTS Keys,       \* the keys that callers use
          Datum(_)    \* what a caller stores with a key

VARIABLE map

Init == DOMAIN map = {}

Put(k) == /\ k \notin DOMAIN map
          /\ map' = [x \in DOMAIN map \cup {k} |-> IF x = k THEN Datum(k) ELSE map[x]]

Delete(k) == /\ k \in DOMAIN map
             /\ map' = Restrict(map, DOMAIN map \ {k})

\* Every step brings a key or takes one away (the first conjunct, which the others
\* imply, spares TLC trying every key at the steps that do neither)
Next == /\ DOMAIN map' # DOMAIN map
        /\ \E k \in Keys : Put(k) \/ Delete(k)

Spec == Init /\ [][Next]_map

\* A map that can also be cleared in one step, as seen by the callers of a container
\* whose calls are not looked into
Clear == DOMAIN map' = {}

ClearableSpec == Init /\ [][Next \/ Clear]_map
===================================================================================
