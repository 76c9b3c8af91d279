------------------------------ MODULE StoreContents ------------------------------
(***************************************************************************)
(* How the buckets of a store relate to the items it stands for.           *)
(***************************************************************************)
EXTENDS SketchItems, Mapstore

\* The bucket where the copies of item x are, in store st under mapping m
Home(st, m, x) ==
  LET bid == BucketId(m, x.log)
  IN  IF CollapsedHigh(st) THEN Min({bid, MaxBid(st)})
      ELSE IF CollapsedLow(st) THEN Max({bid, MinBid(st)})
      ELSE bid

Present(live, S) == {x \in S : live[x] > 0}

\* Every bucket is somebody's, and counts exactly the copies of the items of S
\* that belong there
HoldsExactly(st, m, live, S) ==
  /\ Bids(st) = {Home(st, m, x) : x \in Present(live, S)}
  /\ \A b \in Bids(st) :
       st.buckets[b] = Mass(live, {x \in Present(live, S) : Home(st, m, x) = b})

\* The flag and the number of collapses agree, and base_insert_impl never looks
\* for the end bucket of an empty store
CollapseStateOK(st) ==
  /\ st.is_collapsed <=> st.num_collapses > 0
  /\ ~InsertReadsNull(st)

\* The distance between the ends of a store that is not empty
Span(st) == IF IsEmpty(st) THEN 0 ELSE MaxBid(st) - MinBid(st)

\* What a removal or an insertion of c copies of x does to the multiset
Gained(live, x, c) == [live EXCEPT ![x] = @ + c]
Lost(live, x, c)   == [live EXCEPT ![x] = IF c <= @ THEN @ - c ELSE 0]
================================================================================
