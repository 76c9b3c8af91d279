--------------------------------- MODULE MCDriver ---------------------------------
(***************************************************************************)
(* Instances of Driver for TLC.  At the alpha of the options (Grain =      *)
(* 1024) the positive numbers are in buckets -1, 1, 1 and 5, the negative  *)
(* ones in buckets 1 and 3; the last item is too great for any bucket.     *)
(* Steps of a twelfth stand for the percentiles.                             *)
(***************************************************************************)
EXTENDS Driver

Item(sign, log) == [sign |-> sign, log |-> log]

MCGrain  == 1024
MCMaxLog == 8 * 1024

MCItems == {Item(1, -1024), Item(1, 900), Item(1, 1024), Item(1, 5000), Item(0, 0),
            Item(-1, 1024), Item(-1, 3000), Item(1, 9000)}

FiveNumbers == {Item(1, -1024), Item(1, 900), Item(1, 5000), Item(-1, 1024), Item(-1, 3000)}

\* All short files, and all the orders of five numbers with a bucket each
MCFiles == UNION {[1 .. n -> MCItems] : n \in 1 .. 3}
           \cup {f \in [1 .. 5 -> FiveNumbers] : {f[k] : k \in 1 .. 5} = FiveNumbers}

Option(s, b, n) == [s |-> s, b |-> b, n |-> n]

\* Bounds that every policy can keep: the uniform collapse leaves two buckets in a store
MCOptions ==
  {Option(s, 2, FALSE) : s \in StoreType \cup {UNIFORM_WITH_INITIAL_ALPHA}}
  \cup {Option(s, 2, TRUE) : s \in StoreType \ {COLLAPSINGALL_MAPSTORE}}
  \cup {Option(s, 4, TRUE) : s \in {COLLAPSINGALL_MAPSTORE, UNIFORM_WITH_INITIAL_ALPHA}}

NoNumbers == {<<>>}
===================================================================================
