-------------------------------- MODULE MCGSketch --------------------------------
(***************************************************************************)
(* Instances of GSketch for TLC.  With Grain = 2 the positive items are in *)
(* buckets 0, 1, 2 and 4, the negative ones in buckets -1, 1 and 3.        *)
(***************************************************************************)
EXTENDS GSketch

Item(sign, log) == [sign |-> sign, log |-> log]

MCItems == {Item(1, v) : v \in {-1, 2, 4, 8}} \cup {Item(-1, v) : v \in {-2, 2, 5}}
           \cup {Item(0, 0), Item(-1, 9)}

\* Under the uniform collapse both stores may need their two buckets 0 and 1
MCPolicies ==
  {<<UNBOUNDED_MAPSTORE, 0>>,
   <<COLLAPSINGHIGH_MAPSTORE, 2>>, <<COLLAPSINGHIGH_MAPSTORE, 3>>,
   <<COLLAPSINGLOW_MAPSTORE, 2>>, <<COLLAPSINGLOW_MAPSTORE, 3>>,
   <<COLLAPSINGALL_MAPSTORE, 4>>}

\* It takes as many items as buckets before the first collapse, and one more to collapse:
\* fewer are enough for the other policies
MCMaxLive == [type \in StoreType |-> IF type = COLLAPSINGALL_MAPSTORE THEN 5 ELSE 4]

TinyEnd == {<<COLLAPSINGHIGH_MAPSTORE, 1>>, <<COLLAPSINGLOW_MAPSTORE, 1>>}

TwoLive   == [type \in StoreType |-> 2]
================================================================================
