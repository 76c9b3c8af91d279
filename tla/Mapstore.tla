-------------------------------- MODULE Mapstore --------------------------------
(***************************************************************************)
(* The bucket store (libuddsketch/src/dds_mapstore.c): an ordered          *)
(* dictionary from bucket ids to positive counts, with four policies for   *)
(* giving up resolution when there are too many buckets.                   *)
(*                                                                         *)
(* A store is a record; every operator is the effect of one C function, or *)
(* of one pass of its loop, on that record.  The sketches (PSketch,        *)
(* GSketch) own the loops.  The dictionary is a function whose domain is   *)
(* the set of keys: the search trees of libdict behind it are modelled by  *)
(* what dds_mapstore.c relies on, namely order and uniqueness of keys.     *)
(***************************************************************************)
EXTENDS BucketIdMapping, FiniteSets, FiniteSetsExt

UNBOUNDED_MAPSTORE      == "UNBOUNDED"
COLLAPSINGHIGH_MAPSTORE == "HIGH"
COLLAPSINGLOW_MAPSTORE  == "LOW"
COLLAPSINGALL_MAPSTORE  == "ALL"
StoreType == {UNBOUNDED_MAPSTORE, COLLAPSINGHIGH_MAPSTORE,
              COLLAPSINGLOW_MAPSTORE, COLLAPSINGALL_MAPSTORE}

EmptyDict == [b \in {} |-> 0]

NewStore(store_type, resizable, max_num_buckets) ==
  [store_type |-> store_type, resizable |-> resizable,
   max_num_buckets |-> max_num_buckets, buckets |-> EmptyDict,
   total_counts |-> 0, is_collapsed |-> FALSE, num_collapses |-> 0]

Bids(st) == DOMAIN st.buckets

\* The shape of a store: ids of the C type int, counts that are never 0
IsDict(dict) == /\ dict \in [DOMAIN dict -> Nat \ {0}]
                /\ DOMAIN dict \subseteq Int
                /\ IsFiniteSet(DOMAIN dict)

IsStore(st) ==
  /\ st \in [store_type : StoreType, resizable : BOOLEAN, max_num_buckets : Nat,
             buckets : {st.buckets}, total_counts : Int,
             is_collapsed : BOOLEAN, num_collapses : Nat]
  /\ IsDict(st.buckets)

----------------------------------------------------------------------------
(* The ordered dictionary *)

CountOf(dict, b) == IF b \in DOMAIN dict THEN dict[b] ELSE 0

AddItem(dict, bid, count) ==
  [b \in DOMAIN dict \cup {bid} |->
     IF b = bid THEN CountOf(dict, b) + count ELSE dict[b]]

DropKey(dict, bid) == [b \in DOMAIN dict \ {bid} |-> dict[b]]

----------------------------------------------------------------------------
(* Queries *)

IsEmpty(st)    == Bids(st) = {}
NumBuckets(st) == Cardinality(Bids(st))
MinBid(st)     == Min(Bids(st))
MaxBid(st)     == Max(Bids(st))

\* dict_itor_search does not find bid, or finds it at the end: bid itself
NextBid(st, bid) ==
  LET after == {b \in Bids(st) : b > bid}
  IN  IF bid \in Bids(st) /\ after # {} THEN Min(after) ELSE bid

PrevBid(st, bid) ==
  LET before == {b \in Bids(st) : b < bid}
  IN  IF bid \in Bids(st) /\ before # {} THEN Max(before) ELSE bid

BucketCount(st, bid) == IF bid \in Bids(st) THEN st.buckets[bid] ELSE -1

----------------------------------------------------------------------------
(* Collapsing *)

\* A wrong Merge, for mutation tests: the emptied bucket is not removed
Merge_KeepsFrom(dict, from, to) == AddItem(dict, to, dict[from])

\* The content of bucket from moves to bucket to
Merge(dict, from, to) == DropKey(AddItem(dict, to, dict[from]), from)

MergeFirst(st) == Merge(st.buckets, MinBid(st), NextBid(st, MinBid(st)))
MergeLast(st)  == Merge(st.buckets, MaxBid(st), PrevBid(st, MaxBid(st)))

\* The two ids that HalfBid sends to b
LowerHalf(m, b) == IF m.type = LOG_UPPER THEN 2 * b - 1 ELSE 2 * b
UpperHalf(m, b) == LowerHalf(m, b) + 1

HalveAll(st, m) ==
  [b \in {HalfBid(m, k) : k \in Bids(st)} |->
     CountOf(st.buckets, LowerHalf(m, b)) + CountOf(st.buckets, UpperHalf(m, b))]

\* A wrong CanCollapse, for mutation tests: gives up with two buckets
CanCollapse_Late(st) ==
  \/ st.store_type = COLLAPSINGALL_MAPSTORE
  \/ st.store_type # UNBOUNDED_MAPSTORE /\ NumBuckets(st) > 2

\* The early returns of collapse_impl
CanCollapse(st) ==
  \/ st.store_type = COLLAPSINGALL_MAPSTORE
  \/ /\ st.store_type # UNBOUNDED_MAPSTORE
     /\ NumBuckets(st) >= 2

\* A wrong CollapsedBuckets, for mutation tests: the new dictionary is dropped
CollapsedBuckets_Drops(st, m) ==
  CASE st.store_type = COLLAPSINGLOW_MAPSTORE  -> MergeFirst(st)
    [] st.store_type = COLLAPSINGHIGH_MAPSTORE -> MergeLast(st)
    [] OTHER                                   -> st.buckets

CollapsedBuckets(st, m) ==
  CASE st.store_type = COLLAPSINGLOW_MAPSTORE  -> MergeFirst(st)
    [] st.store_type = COLLAPSINGHIGH_MAPSTORE -> MergeLast(st)
    [] OTHER                                   -> HalveAll(st, m)

Collapse(st, m) ==
  IF CanCollapse(st)
  THEN [st EXCEPT !.buckets = CollapsedBuckets(st, m),
                  !.is_collapsed = TRUE, !.num_collapses = @ + 1]
  ELSE st

\* A wrong MappingAfterCollapse, for mutation tests: gamma is not squared
MappingAfterCollapse_Stale(st, m) == m

\* The mapping after the pass of the loops in base_insert_impl and
\* resize_impl that called collapse_impl
MappingAfterCollapse(st, m) ==
  IF st.store_type = COLLAPSINGALL_MAPSTORE THEN SquareGamma(m) ELSE m

----------------------------------------------------------------------------
(* Insertion, up to the collapsing loop; total_counts changes after it *)

CollapsedHigh(st) == st.is_collapsed /\ st.store_type = COLLAPSINGHIGH_MAPSTORE
CollapsedLow(st)  == st.is_collapsed /\ st.store_type = COLLAPSINGLOW_MAPSTORE

\* base_insert_impl reads the key of the last or first bucket through a
\* pointer that is NULL when there is none
InsertReadsNull(st) == IsEmpty(st) /\ (CollapsedHigh(st) \/ CollapsedLow(st))

\* A wrong InsertTarget, for mutation tests: forgets that the store collapsed
InsertTarget_Fresh(st, bid) == bid

InsertTarget(st, bid) ==
  IF bid \in Bids(st) THEN bid
  ELSE IF CollapsedHigh(st) /\ bid > MaxBid(st) THEN MaxBid(st)
  ELSE IF CollapsedLow(st) /\ bid < MinBid(st) THEN MinBid(st)
  ELSE bid

InsertItem(st, bid, count) ==
  [st EXCEPT !.buckets = AddItem(@, InsertTarget(st, bid), count)]

\* A wrong TooManyBuckets, for mutation tests: off by one
TooManyBuckets_OffByOne(st) ==
  /\ ~st.resizable
  /\ st.store_type # UNBOUNDED_MAPSTORE
  /\ NumBuckets(st) > st.max_num_buckets + 1

\* Another: collapses when the store is just full
TooManyBuckets_Full(st) ==
  /\ ~st.resizable
  /\ st.store_type # UNBOUNDED_MAPSTORE
  /\ NumBuckets(st) >= st.max_num_buckets

TooManyBuckets(st) ==
  /\ ~st.resizable
  /\ st.store_type # UNBOUNDED_MAPSTORE
  /\ NumBuckets(st) > st.max_num_buckets

AddTotal(st, count) == [st EXCEPT !.total_counts = @ + count]

----------------------------------------------------------------------------
(* Removal of count > 0 units (the caller passes -count) *)

\* base_remove_impl dereferences the keys of the last and first bucket first
RemoveReadsNull(st) == IsEmpty(st)

\* The two branches that use the end bucket whatever bid is
FromLast(st, bid)  == CollapsedHigh(st) /\ bid >= MaxBid(st)
FromFirst(st, bid) == CollapsedLow(st) /\ bid <= MinBid(st)

RemoveSlot(st, bid) ==
  IF FromLast(st, bid) THEN MaxBid(st)
  ELSE IF FromFirst(st, bid) THEN MinBid(st)
  ELSE bid

\* A wrong DrainsEnd, for mutation tests: the collapsed state never ends
DrainsEnd_Never(st, bid, count) == FALSE

\* Draining the end bucket ends the collapsed state
DrainsEnd(st, bid, count) ==
  /\ FromLast(st, bid) \/ FromFirst(st, bid)
  /\ st.buckets[RemoveSlot(st, bid)] = count

\* Wrong versions of RemoveItem, for mutation tests: a bucket stays with count 0;
\* a bucket goes whatever is left in it; the total is not lowered; the total is
\* lowered although nothing was removed.
RemoveItem_KeepsZero(st, bid, count) ==
  LET slot == RemoveSlot(st, bid)
  IN  IF CountOf(st.buckets, slot) < count THEN st
      ELSE [st EXCEPT !.buckets[slot] = @ - count, !.total_counts = @ - count]

RemoveItem_DropsBucket(st, bid, count) ==
  LET slot == RemoveSlot(st, bid)
  IN  IF CountOf(st.buckets, slot) < count THEN st
      ELSE [st EXCEPT !.buckets = DropKey(@, slot), !.total_counts = @ - count]

RemoveItem_KeepsTotal(st, bid, count) ==
  LET slot == RemoveSlot(st, bid)
      left == [st.buckets EXCEPT ![slot] = @ - count]
  IN  IF CountOf(st.buckets, slot) < count THEN st
      ELSE [st EXCEPT
              !.buckets = IF left[slot] = 0 THEN DropKey(left, slot) ELSE left,
              !.is_collapsed = @ /\ ~DrainsEnd(st, bid, count),
              !.num_collapses = IF DrainsEnd(st, bid, count) THEN 0 ELSE @]

RemoveItem_CountsAlways(st, bid, count) ==
  IF CountOf(st.buckets, RemoveSlot(st, bid)) < count
  THEN [st EXCEPT !.total_counts = @ - count]
  ELSE RemoveItem_KeepsTotal(AddTotal(st, -count), bid, count)

RemoveItem(st, bid, count) ==
  LET slot == RemoveSlot(st, bid)
      drain == DrainsEnd(st, bid, count)
      left == [st.buckets EXCEPT ![slot] = @ - count]
  IN  IF slot \notin Bids(st) \/ CountOf(st.buckets, slot) < count
      THEN st
      ELSE [st EXCEPT
              !.buckets = IF left[slot] = 0 THEN DropKey(left, slot) ELSE left,
              !.total_counts = @ - count,
              !.is_collapsed = @ /\ ~drain,
              !.num_collapses = IF drain THEN 0 ELSE @]
================================================================================
