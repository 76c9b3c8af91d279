--------------------------------- MODULE GSketch ---------------------------------
(***************************************************************************)
(* The sketch of items of both signs (libuddsketch/src/dds_gsketch.c): one *)
(* store for the positive items, one for the magnitudes of the negative    *)
(* ones, a zero bucket, and a bound on the buckets of both stores together *)
(* that base_update_impl restores at the end of every call.  One action    *)
(* per call; the loops that shrink the stores and that look for a rank     *)
(* take one step per pass.                                                 *)
(***************************************************************************)
EXTENDS StoreContents

CONSTANTS Items,            \* the items that callers pass
          Counts,           \* the multiplicities of one update (its absolute value)
          Policies,         \* pairs <<store_type, max_store_size>> to create a sketch with
          Grain,            \* log_gamma for the alpha of dds_gsketch_init
          MaxLog,           \* the logarithm of max_addressable_absvalue
          MaxLive,          \* bound: how many items are present at a time, by policy
          RemoveOnlyLive,   \* do callers remove only what is present?
          AskOnlyNonEmpty   \* do they query only sketches that are not empty?

ASSUME ItemsAssumption  == IsFiniteSet(Items) /\ \A x \in Items : IsItem(x)
ASSUME CountsAssumption == Counts \subseteq Nat \ {0}
ASSUME PolicyAssumption == Policies \subseteq StoreType \X Nat
ASSUME GrainAssumption  == Grain \in Nat \ {0}
ASSUME BoundAssumption  == MaxLive \in [StoreType -> Nat] /\ MaxLog \in Int
ASSUME CallerAssumption == {RemoveOnlyLive, AskOnlyNonEmpty} \subseteq BOOLEAN

VARIABLES store_type, max_sketch_size,  \* set by dds_gsketch_init
          postore, nestore,             \* the stores of the positive and negative items
          id_map, zero_bucket,
          pc,                           \* where the call in progress is
          scan,                         \* store, rank, bid and counts, in rank_to_bid
          answer,                       \* what the last base_get_quantile_impl returned
          live, removed                 \* the multiset of items present, and whether any
                                        \* was ever removed; not in the program

vars == <<store_type, max_sketch_size, postore, nestore, id_map, zero_bucket,
          pc, scan, answer, live, removed>>
config == <<store_type, max_sketch_size>>
stores == <<postore, nestore>>

NoScan   == [sign |-> 0, asked |-> -1, rank |-> -1, bid |-> 0, counts |-> 0]
NoAnswer == [rank |-> -1, sign |-> 0, bid |-> 0, is_accurate |-> TRUE]

----------------------------------------------------------------------------
is_addressable(x) == x.sign # 0 => x.log <= MaxLog

is_empty    == zero_bucket = 0 /\ IsEmpty(postore) /\ IsEmpty(nestore)
total_count == zero_bucket + postore.total_counts + nestore.total_counts
size        == NumBuckets(nestore) + NumBuckets(postore)

\* A wrong num_collapses, for mutation tests: the sum under every policy
num_collapses_Sum == nestore.num_collapses + postore.num_collapses

num_collapses ==
  IF store_type = COLLAPSINGALL_MAPSTORE
  THEN Max({nestore.num_collapses, postore.num_collapses})
  ELSE nestore.num_collapses + postore.num_collapses

Positive == {x \in Items : x.sign = 1 /\ is_addressable(x)}
Negative == {x \in Items : x.sign = -1 /\ is_addressable(x)}
Zeros    == {x \in Items : x.sign = 0}

\* NestoreType_Same is wrong, for mutation tests: the ends are not exchanged.
\* The policy of the store of the positive and of the negative items: the
\* highest magnitudes are the lowest negative numbers
PostoreType(type) == type
NestoreType_Same(type) == type
NestoreType(type) ==
  CASE type = COLLAPSINGHIGH_MAPSTORE -> COLLAPSINGLOW_MAPSTORE
    [] type = COLLAPSINGLOW_MAPSTORE  -> COLLAPSINGHIGH_MAPSTORE
    [] OTHER                          -> type

\* dds_gsketch_init, with a policy, a bound and the log_gamma of its alpha
Created(type, max_size, log_gamma) ==
  /\ store_type = type /\ max_sketch_size = max_size
  /\ postore = NewStore(PostoreType(type), TRUE, 0)
  /\ nestore = NewStore(NestoreType(type), TRUE, 0)
  /\ id_map = NewMapping(LOG_UPPER, log_gamma)
  /\ zero_bucket = 0
  /\ pc = "ready"
  /\ scan = NoScan
  /\ answer = NoAnswer
  /\ live = [x \in Items |-> 0]
  /\ removed = FALSE

Init == \E p \in Policies : Created(p[1], p[2], Grain)

----------------------------------------------------------------------------
(* base_update_impl *)

CanAdd(c)       == Mass(live, Items) + c <= MaxLive[store_type]
MayRemove(x, c) == RemoveOnlyLive => c <= live[x]

\* Where the switch on the policy starts, given the stores after the update
AfterUpdate(po, ne) ==
  IF NumBuckets(po) + NumBuckets(ne) <= max_sketch_size THEN "ready"
  ELSE CASE store_type = UNBOUNDED_MAPSTORE     -> "ready"
         [] store_type = COLLAPSINGALL_MAPSTORE -> "collapse_all"
         [] OTHER                               -> "shrink_first"

UpdateEnds ==
  /\ pc' = AfterUpdate(postore', nestore')
  /\ answer' = NoAnswer
  /\ UNCHANGED <<config, id_map, scan>>

UpdateIgnored(x) ==
  /\ pc = "ready"
  /\ ~is_addressable(x)
  /\ UNCHANGED <<stores, zero_bucket, live, removed>>
  /\ UpdateEnds

InsertZero(x, c) ==
  /\ pc = "ready"
  /\ x \in Zeros /\ CanAdd(c)
  /\ zero_bucket' = zero_bucket + c
  /\ live' = Gained(live, x, c)
  /\ UNCHANGED <<stores, removed>>
  /\ UpdateEnds

RemoveZero(x, c) ==
  /\ pc = "ready"
  /\ x \in Zeros /\ MayRemove(x, c)
  /\ zero_bucket' = IF zero_bucket - c >= 0 THEN zero_bucket - c ELSE zero_bucket
  /\ live' = Lost(live, x, c)
  /\ removed' = TRUE
  /\ UNCHANGED stores
  /\ UpdateEnds

\* base_insert_impl on a store that only its owner shrinks
Inserted(st, x, c) ==
  AddTotal(InsertItem(st, BucketId(id_map, x.log), c), c)

InsertStored(x, c) ==
  /\ pc = "ready"
  /\ CanAdd(c)
  /\ \/ x \in Positive /\ postore' = Inserted(postore, x, c) /\ UNCHANGED nestore
     \/ x \in Negative /\ nestore' = Inserted(nestore, x, c) /\ UNCHANGED postore
  /\ live' = Gained(live, x, c)
  /\ UNCHANGED <<zero_bucket, removed>>
  /\ UpdateEnds

\* A NULL pointer is followed
Crash == /\ pc' = "crashed"
         /\ UNCHANGED <<config, stores, id_map, zero_bucket, scan, answer, live, removed>>

StoreOf(x) == IF x \in Positive THEN postore ELSE nestore

Removed(st, x, c) == RemoveItem(st, BucketId(id_map, x.log), c)

\* The removal of an item from an empty store ends the program
RemoveStored(x, c) ==
  /\ pc = "ready"
  /\ x \in Positive \cup Negative /\ MayRemove(x, c)
  /\ IF RemoveReadsNull(StoreOf(x)) THEN Crash
     ELSE /\ IF x \in Positive
             THEN postore' = Removed(postore, x, c) /\ UNCHANGED nestore
             ELSE nestore' = Removed(nestore, x, c) /\ UNCHANGED postore
          /\ live' = Lost(live, x, c)
          /\ removed' = TRUE
          /\ UNCHANGED zero_bucket
          /\ UpdateEnds

----------------------------------------------------------------------------
(* The switch at the end of base_update_impl.  The policies that merge at  *)
(* one end shrink one store first, and the other only when that cannot be  *)
(* enough.                                                                 *)

\* A wrong PositiveFirst, for mutation tests: the policies are swapped
PositiveFirst_Swapped == store_type = COLLAPSINGLOW_MAPSTORE
PositiveFirst == store_type = COLLAPSINGHIGH_MAPSTORE

first  == IF PositiveFirst THEN postore ELSE nestore
second == IF PositiveFirst THEN nestore ELSE postore
SetFirst(st)  == IF PositiveFirst
                 THEN postore' = st /\ UNCHANGED nestore
                 ELSE nestore' = st /\ UNCHANGED postore
SetSecond(st) == IF PositiveFirst
                 THEN nestore' = st /\ UNCHANGED postore
                 ELSE postore' = st /\ UNCHANGED nestore

\* A wrong SecondLength, for mutation tests: the first store is not counted
FirstIsEnough == NumBuckets(second) < max_sketch_size
FirstLength   == IF FirstIsEnough THEN max_sketch_size - NumBuckets(second) ELSE 1
SecondLength_Whole == max_sketch_size
SecondLength  == max_sketch_size - NumBuckets(first)

\* One pass of the loop of resize_impl, for each store
ShrinkFirst ==
  /\ pc = "shrink_first"
  /\ NumBuckets(first) > FirstLength
  /\ SetFirst(Collapse(first, id_map))
  /\ UNCHANGED <<config, id_map, zero_bucket, pc, scan, answer, live, removed>>

FirstShrunk ==
  /\ pc = "shrink_first"
  /\ NumBuckets(first) <= FirstLength
  /\ pc' = IF FirstIsEnough THEN "ready" ELSE "shrink_second"
  /\ UNCHANGED <<config, stores, id_map, zero_bucket, scan, answer, live, removed>>

ShrinkSecond ==
  /\ pc = "shrink_second"
  /\ NumBuckets(second) > SecondLength
  /\ SetSecond(Collapse(second, id_map))
  /\ UNCHANGED <<config, id_map, zero_bucket, pc, scan, answer, live, removed>>

SecondShrunk ==
  /\ pc = "shrink_second"
  /\ NumBuckets(second) <= SecondLength
  /\ pc' = "ready"
  /\ UNCHANGED <<config, stores, id_map, zero_bucket, scan, answer, live, removed>>

\* One pass of the uniform collapse: a store without buckets is left alone, and
\* the mapping that both stores share is updated once
Halved(st) == IF IsEmpty(st) THEN st ELSE Collapse(st, id_map)

\* A wrong CollapseAll, for mutation tests: one pass, whatever it achieves
CollapseAll_Once ==
  /\ pc = "collapse_all"
  /\ nestore' = Halved(nestore)
  /\ postore' = Halved(postore)
  /\ id_map' = SquareGamma(id_map)
  /\ pc' = "ready"
  /\ UNCHANGED <<config, zero_bucket, scan, answer, live, removed>>

CollapseAll ==
  /\ pc = "collapse_all"
  /\ nestore' = Halved(nestore)
  /\ postore' = Halved(postore)
  /\ id_map' = SquareGamma(id_map)
  /\ pc' = IF NumBuckets(nestore') + NumBuckets(postore') > max_sketch_size
           THEN "collapse_all" ELSE "ready"
  /\ UNCHANGED <<config, zero_bucket, scan, answer, live, removed>>

----------------------------------------------------------------------------
(* base_get_quantile_impl and rank_to_bid *)

\* floor(quantile * (total_count - 1)) for the quantiles in [0, 1]
Ranks == IF total_count > 0 THEN 0 .. (total_count - 1) ELSE {-1, 0}

netotcount == nestore.total_counts

MayAsk(rank) == /\ pc = "ready"
                /\ AskOnlyNonEmpty => ~is_empty
                /\ rank \in Ranks

Answer(rank, sign, bid, is_accurate) ==
  answer' = [rank |-> rank, sign |-> sign, bid |-> bid, is_accurate |-> is_accurate]

AskZero(rank) ==
  /\ MayAsk(rank)
  /\ netotcount <= rank /\ rank < netotcount + zero_bucket
  /\ Answer(rank, 0, 0, TRUE)
  /\ UNCHANGED <<config, stores, id_map, zero_bucket, pc, scan, live, removed>>

\* rank_to_bid scans upwards for a rank in the lower half of the store and
\* downwards otherwise
Upwards(st, rank) == 2 * rank <= st.total_counts

StartScan(st, sign, asked, rank) ==
  LET bid == IF Upwards(st, rank) THEN MinBid(st) ELSE MaxBid(st)
  IN  /\ pc' = "scan"
      /\ scan' = [sign |-> sign, asked |-> asked, rank |-> rank, bid |-> bid,
                  counts |-> IF Upwards(st, rank) THEN BucketCount(st, bid)
                             ELSE st.total_counts - BucketCount(st, bid)]
      /\ answer' = NoAnswer
      /\ UNCHANGED <<config, stores, id_map, zero_bucket, live, removed>>

\* The magnitudes of the negative items are ranked from the greatest down
AskNegative(rank) ==
  /\ MayAsk(rank)
  /\ rank < netotcount
  /\ IF IsEmpty(nestore) THEN Crash
     ELSE StartScan(nestore, -1, rank, netotcount - rank - 1)

AskPositive(rank) ==
  /\ MayAsk(rank)
  /\ rank >= netotcount + zero_bucket
  /\ IF IsEmpty(postore) THEN Crash
     ELSE StartScan(postore, 1, rank, rank - netotcount - zero_bucket)

scanned == IF scan.sign = 1 THEN postore ELSE nestore

GoesUp == /\ Upwards(scanned, scan.rank)
          /\ scan.counts <= scan.rank
          /\ scan.bid < MaxBid(scanned)

\* A wrong GoesDown, for mutation tests: goes one unit too far
GoesDown_Far == /\ ~Upwards(scanned, scan.rank)
                /\ scan.counts >= scan.rank
                /\ scan.bid > MinBid(scanned)

GoesDown == /\ ~Upwards(scanned, scan.rank)
            /\ scan.counts > scan.rank
            /\ scan.bid > MinBid(scanned)

ScanUp ==
  LET bid == NextBid(scanned, scan.bid)
  IN  /\ pc = "scan"
      /\ GoesUp
      /\ scan' = [scan EXCEPT !.bid = bid, !.counts = @ + BucketCount(scanned, bid)]
      /\ UNCHANGED <<config, stores, id_map, zero_bucket, pc, answer, live, removed>>

ScanDown ==
  LET bid == PrevBid(scanned, scan.bid)
  IN  /\ pc = "scan"
      /\ GoesDown
      /\ scan' = [scan EXCEPT !.bid = bid, !.counts = @ - BucketCount(scanned, bid)]
      /\ UNCHANGED <<config, stores, id_map, zero_bucket, pc, answer, live, removed>>

\* In the store of the negative items the ends are exchanged
InCollapsedBucket(st, sign, bid) ==
  LET lowest  == IF sign = 1 THEN MinBid(st) ELSE MaxBid(st)
      highest == IF sign = 1 THEN MaxBid(st) ELSE MinBid(st)
  IN  /\ st.num_collapses > 0
      /\ \/ store_type = COLLAPSINGLOW_MAPSTORE  /\ bid = lowest
         \/ store_type = COLLAPSINGHIGH_MAPSTORE /\ bid = highest

ScanReturns ==
  /\ pc = "scan"
  /\ ~GoesUp /\ ~GoesDown
  /\ Answer(scan.asked, scan.sign, scan.bid,
            ~InCollapsedBucket(scanned, scan.sign, scan.bid))
  /\ pc' = "ready"
  /\ scan' = NoScan
  /\ UNCHANGED <<config, stores, id_map, zero_bucket, live, removed>>

----------------------------------------------------------------------------
Update == \E x \in Items, c \in Counts :
            \/ UpdateIgnored(x)
            \/ InsertZero(x, c)
            \/ RemoveZero(x, c)
            \/ InsertStored(x, c)
            \/ RemoveStored(x, c)

Query == \E rank \in Ranks : AskNegative(rank) \/ AskZero(rank) \/ AskPositive(rank)

Shrink == ShrinkFirst \/ FirstShrunk \/ ShrinkSecond \/ SecondShrunk \/ CollapseAll

Loop == Shrink \/ ScanUp \/ ScanDown \/ ScanReturns

Next == Update \/ Query \/ Loop

Spec == Init /\ [][Next]_vars

\* A call that runs keeps running: nothing but the machine can stop it
FairSpec == Spec /\ WF_vars(Loop)

----------------------------------------------------------------------------
(* Type invariant: every variable has the shape of the C object it stands  *)
(* for.                                                                    *)
TypeOK ==
  /\ store_type \in StoreType
  /\ max_sketch_size \in Nat
  /\ IsStore(postore) /\ postore.store_type = PostoreType(store_type)
  /\ IsStore(nestore) /\ nestore.store_type = NestoreType(store_type)
  /\ id_map \in Mapping /\ id_map.type = LOG_UPPER
  /\ zero_bucket \in Nat
  /\ pc \in {"ready", "shrink_first", "shrink_second", "collapse_all", "scan", "crashed"}
  /\ scan \in [sign : {-1, 0, 1}, asked : Int, rank : Int, bid : Int, counts : Int]
  /\ answer \in [rank : Int, sign : {-1, 0, 1}, bid : Int, is_accurate : BOOLEAN]
  /\ live \in [Items -> Nat] /\ removed \in BOOLEAN

\* No call follows the NULL pointer that an iterator gives in an empty store.
NoCrash == pc # "crashed"

\* In both stores the flag and the number of collapses are set and reset
\* together, and a store collapsed at one end still has its end bucket.
CollapsedConsistent == CollapseStateOK(postore) /\ CollapseStateOK(nestore)

\* An update leaves no more buckets, in both stores together, than
\* dds_gsketch_init was told to allow.
SizeBound ==
  pc \in {"ready", "scan"} /\ store_type # UNBOUNDED_MAPSTORE => size <= max_sketch_size

\* The two stores share one mapping: every bucket of either holds exactly the
\* copies of the items that the mapping of the moment puts there, although the
\* uniform collapse skips a store that is empty.
BucketsExact ==
  /\ HoldsExactly(postore, id_map, live, Positive)
  /\ HoldsExactly(nestore, id_map, live, Negative)

\* total_count, from which ranks are computed, is the number of items present.
TotalIsLive == total_count = Mass(live, Positive \cup Negative \cup Zeros)

\* As long as nothing is removed, the store at the end that the policy keeps (the
\* smallest items under COLLAPSINGHIGH, the greatest under COLLAPSINGLOW) is
\* collapsed only when the other one is down to a single bucket, and that stays
\* so: what was merged is one run of the sorted items, at the end given up.
KeptEndLast ==
  pc = "ready" /\ ~removed =>
    /\ store_type = COLLAPSINGHIGH_MAPSTORE /\ nestore.is_collapsed =>
         NumBuckets(postore) <= 1
    /\ store_type = COLLAPSINGLOW_MAPSTORE /\ postore.is_collapsed =>
         NumBuckets(nestore) <= 1

\* log_gamma after n uniform collapses
GammaAfter[n \in Nat] == IF n = 0 THEN Grain ELSE 2 * GammaAfter[n - 1]

\* num_collapses, which tells users by how much alpha has grown, is the number of
\* times gamma was squared.  With removals it may be too small (each store counts
\* only the collapses it took part in), never too great.
GammaTracksCollapses ==
  LET reported == IF store_type = COLLAPSINGALL_MAPSTORE THEN GammaAfter[num_collapses]
                  ELSE Grain
  IN  /\ reported <= id_map.log_gamma
      /\ ~removed => reported = id_map.log_gamma

\* Every pass of a loop that makes room leaves fewer buckets, or the same number
\* over shorter ranges of ids: the loops of base_update_impl and resize_impl end.
CollapseShrinks ==
  [][pc' = pc /\ pc \in {"shrink_first", "shrink_second", "collapse_all"}
       => \/ size' < size
          \/ Span(postore') + Span(nestore') < Span(postore) + Span(nestore)]_vars

\* Every call returns.
CallReturns == pc \notin {"ready", "crashed"} ~> pc = "ready"

\* The answers are those of the abstract summary, for items of both signs: an
\* answer flagged accurate is the bucket of the item at the rank asked for.
Summary == INSTANCE QuantileSummary WITH
  max_size <- max_sketch_size, log_gamma <- id_map.log_gamma

ImplementsSummary == Summary!Spec
================================================================================
