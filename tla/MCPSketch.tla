-------------------------------- MODULE MCPSketch --------------------------------
(***************************************************************************)
(* Instances of PSketch for TLC.  With Grain = 2 the logarithms below give *)
(* the buckets -1, 0, 1, 1, 2 and 4: a negative id, an id shared by two    *)
(* items and a gap, so that the ends, the sharing and the halving of ids   *)
(* of both signs and parities all occur.                                   *)
(***************************************************************************)
EXTENDS PSketch

Item(sign, log) == [sign |-> sign, log |-> log]

MCLogs  == {-3, 0, 1, 2, 4, 8}
MCItems == {Item(1, v) : v \in MCLogs} \cup {Item(0, 0), Item(-1, 1), Item(1, 9)}

MCPolicies ==
  {<<UNBOUNDED_MAPSTORE, 0>>,
   <<COLLAPSINGHIGH_MAPSTORE, 1>>, <<COLLAPSINGHIGH_MAPSTORE, 2>>, <<COLLAPSINGHIGH_MAPSTORE, 3>>,
   <<COLLAPSINGLOW_MAPSTORE, 1>>, <<COLLAPSINGLOW_MAPSTORE, 2>>, <<COLLAPSINGLOW_MAPSTORE, 3>>,
   <<COLLAPSINGALL_MAPSTORE, 2>>, <<COLLAPSINGALL_MAPSTORE, 3>>}

\* Fewer items, for the runs about callers that break the rules and about
\* termination: buckets 0, 1, 2 and 4
FewItems == {Item(1, v) : v \in {-1, 1, 4, 8}} \cup {Item(0, 0)}
================================================================================
