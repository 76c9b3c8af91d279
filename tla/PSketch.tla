--------------------------------- MODULE PSketch ---------------------------------
(***************************************************************************)
(* The sketch of non-negative items (libuddsketch/src/dds_psketch.c) over  *)
(* its bucket store.  One action per call, except that the loop that makes *)
(* room in the store and the loop that looks for a rank take one step per  *)
(* pass: whether they end is part of what is checked.                      *)
(***************************************************************************)
EXTENDS StoreContents

CONSTANTS Items,            \* the items that callers pass
          Counts,           \* the multiplicities of one update (its absolute value)
          Policies,         \* pairs <<store_type, max_store_size>> to create a sketch with
          Grain,            \* log_gamma for the alpha of dds_psketch_init
          MaxLog,           \* the logarithm of max_addressable_value
          MaxLive,          \* bound: how many items are present at a time
          RemoveOnlyLive,   \* do callers remove only what is present?
          AskOnlyNonEmpty   \* do callers query only sketches that are not empty?

ASSUME ItemsAssumption  == IsFiniteSet(Items) /\ \A x \in Items : IsItem(x)
ASSUME CountsAssumption == Counts \subseteq Nat \ {0}
ASSUME PolicyAssumption == Policies \subseteq StoreType \X Nat
ASSUME GrainAssumption  == Grain \in Nat \ {0}
ASSUME BoundAssumption  == MaxLive \in Nat /\ MaxLog \in Int
ASSUME CallerAssumption == RemoveOnlyLive \in BOOLEAN /\ AskOnlyNonEmpty \in BOOLEAN

VARIABLES store,        \* sketch->store
          id_map,       \* sketch->id_map
          zero_bucket,  \* sketch->zero_bucket
          pc,           \* where the call in progress is
          pending,      \* count, in the loop of base_insert_impl
          scan,         \* rank, bid and counts, in base_get_quantile_impl
          answer,       \* what the last base_get_quantile_impl returned
          live          \* the multiset of items present; not in the program

vars == <<store, id_map, zero_bucket, pc, pending, scan, answer, live>>
sketch == <<store, id_map, zero_bucket>>

NoScan   == [rank |-> -1, bid |-> 0, counts |-> 0]
NoAnswer == [rank |-> -1, sign |-> 0, bid |-> 0, is_accurate |-> TRUE]

----------------------------------------------------------------------------
is_addressable(x) == x.sign >= 0 /\ (x.sign = 1 => x.log <= MaxLog)

is_empty        == zero_bucket = 0 /\ IsEmpty(store)
total_count     == zero_bucket + store.total_counts
size            == NumBuckets(store)
num_collapses   == store.num_collapses

\* The items that reach the store and those that reach the zero bucket
Stored == {x \in Items : is_addressable(x) /\ x.sign = 1}
Zeros  == {x \in Items : is_addressable(x) /\ x.sign = 0}

\* dds_psketch_init, with a policy, a bound and the log_gamma of its alpha
Created(store_type, max_store_size, log_gamma) ==
  /\ store = NewStore(store_type, FALSE, max_store_size)
  /\ id_map = NewMapping(LOG_UPPER, log_gamma)
  /\ zero_bucket = 0
  /\ pc = "ready"
  /\ pending = 0
  /\ scan = NoScan
  /\ answer = NoAnswer
  /\ live = [x \in Items |-> 0]

Init == \E p \in Policies : Created(p[1], p[2], Grain)

----------------------------------------------------------------------------
(* base_update_impl *)

CanAdd(c)       == Mass(live, Items) + c <= MaxLive
MayRemove(x, c) == RemoveOnlyLive => c <= live[x]

UpdateIgnored(x) ==
  /\ pc = "ready"
  /\ ~is_addressable(x)
  /\ answer' = NoAnswer
  /\ UNCHANGED <<sketch, pc, pending, scan, live>>

InsertZero(x, c) ==
  /\ pc = "ready"
  /\ x \in Zeros /\ CanAdd(c)
  /\ zero_bucket' = zero_bucket + c
  /\ live' = Gained(live, x, c)
  /\ answer' = NoAnswer
  /\ UNCHANGED <<store, id_map, pc, pending, scan>>

RemoveZero(x, c) ==
  /\ pc = "ready"
  /\ x \in Zeros /\ MayRemove(x, c)
  /\ zero_bucket' = IF zero_bucket - c >= 0 THEN zero_bucket - c ELSE zero_bucket
  /\ live' = Lost(live, x, c)
  /\ answer' = NoAnswer
  /\ UNCHANGED <<store, id_map, pc, pending, scan>>

InsertStored(x, c) ==
  LET bid == BucketId(id_map, x.log)
  IN  /\ pc = "ready"
      /\ x \in Stored /\ CanAdd(c)
      /\ IF bid \in Bids(store)
         THEN /\ store' = AddTotal(InsertItem(store, bid, c), c)
              /\ UNCHANGED <<pc, pending>>
         ELSE /\ store' = InsertItem(store, bid, c)
              /\ pc' = "make_room"
              /\ pending' = c
      /\ live' = Gained(live, x, c)
      /\ answer' = NoAnswer
      /\ UNCHANGED <<id_map, zero_bucket, scan>>

\* One pass of the loop of base_insert_impl, and its end
MakeRoom ==
  /\ pc = "make_room"
  /\ TooManyBuckets(store)
  /\ store' = Collapse(store, id_map)
  /\ id_map' = MappingAfterCollapse(store, id_map)
  /\ UNCHANGED <<zero_bucket, pc, pending, scan, answer, live>>

InsertReturns ==
  /\ pc = "make_room"
  /\ ~TooManyBuckets(store)
  /\ store' = AddTotal(store, pending)
  /\ pending' = 0
  /\ pc' = "ready"
  /\ UNCHANGED <<id_map, zero_bucket, scan, answer, live>>

\* A NULL pointer is followed
Crash == pc' = "crashed" /\ UNCHANGED <<sketch, pending, scan, answer, live>>

RemoveStored(x, c) ==
  /\ pc = "ready"
  /\ x \in Stored /\ MayRemove(x, c)
  /\ \/ RemoveReadsNull(store) /\ Crash
     \/ /\ ~RemoveReadsNull(store)
        /\ store' = RemoveItem(store, BucketId(id_map, x.log), c)
        /\ live' = Lost(live, x, c)
        /\ answer' = NoAnswer
        /\ UNCHANGED <<id_map, zero_bucket, pc, pending, scan>>

----------------------------------------------------------------------------
(* base_get_quantile_impl *)

\* floor(quantile * (total_count - 1)) for the quantiles in [0, 1]
Ranks == IF total_count > 0 THEN 0 .. (total_count - 1) ELSE {-1, 0}

Answer(rank, sign, bid, is_accurate) ==
  answer' = [rank |-> rank, sign |-> sign, bid |-> bid, is_accurate |-> is_accurate]

AskZero(rank) ==
  /\ pc = "ready"
  /\ AskOnlyNonEmpty => ~is_empty
  /\ rank \in Ranks /\ rank < zero_bucket
  /\ Answer(rank, 0, 0, TRUE)
  /\ UNCHANGED <<sketch, pc, pending, scan, live>>

AskStore(rank) ==
  /\ pc = "ready"
  /\ AskOnlyNonEmpty => ~is_empty
  /\ rank \in Ranks /\ rank >= zero_bucket
  /\ \/ IsEmpty(store) /\ Crash
     \/ /\ ~IsEmpty(store)
        /\ pc' = "scan"
        /\ scan' = [rank |-> rank, bid |-> MinBid(store),
                    counts |-> zero_bucket + BucketCount(store, MinBid(store))]
        /\ answer' = NoAnswer
        /\ UNCHANGED <<sketch, pending, live>>

\* A wrong GoesOn, for mutation tests: stops one unit early
GoesOn_Early == scan.counts < scan.rank /\ scan.bid < MaxBid(store)

GoesOn == scan.counts <= scan.rank /\ scan.bid < MaxBid(store)

ScanNext ==
  LET bid == NextBid(store, scan.bid)
  IN  /\ pc = "scan"
      /\ GoesOn
      /\ scan' = [scan EXCEPT !.bid = bid, !.counts = @ + BucketCount(store, bid)]
      /\ UNCHANGED <<sketch, pc, pending, answer, live>>

InCollapsedBucket(bid) ==
  /\ num_collapses > 0
  /\ \/ store.store_type = COLLAPSINGLOW_MAPSTORE  /\ bid = MinBid(store)
     \/ store.store_type = COLLAPSINGHIGH_MAPSTORE /\ bid = MaxBid(store)

ScanReturns ==
  /\ pc = "scan"
  /\ ~GoesOn
  /\ Answer(scan.rank, 1, scan.bid, ~InCollapsedBucket(scan.bid))
  /\ pc' = "ready"
  /\ scan' = NoScan
  /\ UNCHANGED <<sketch, pending, live>>

----------------------------------------------------------------------------
Update == \E x \in Items, c \in Counts :
            \/ UpdateIgnored(x)
            \/ InsertZero(x, c)
            \/ RemoveZero(x, c)
            \/ InsertStored(x, c)
            \/ RemoveStored(x, c)

Query == \E rank \in Ranks : AskZero(rank) \/ AskStore(rank)

Loop == MakeRoom \/ InsertReturns \/ ScanNext \/ ScanReturns

Next == Update \/ Query \/ Loop

Spec == Init /\ [][Next]_vars

\* A call that runs keeps running: nothing but the machine can stop it
FairSpec == Spec /\ WF_vars(Loop)

----------------------------------------------------------------------------
(* Type invariant: every variable has the shape of the C object it stands  *)
(* for; bucket counts are positive and, once a call has returned, nothing  *)
(* of it is left.                                                          *)
TypeOK ==
  /\ IsStore(store) /\ ~store.resizable
  /\ id_map \in Mapping /\ id_map.type = LOG_UPPER
  /\ zero_bucket \in Nat
  /\ pc \in {"ready", "make_room", "scan", "crashed"}
  /\ pending \in Nat
  /\ (pc = "make_room") <=> (pending > 0)
  /\ scan \in [rank : Int, bid : Int, counts : Int]
  /\ answer \in [rank : Int, sign : {0, 1}, bid : Int, is_accurate : BOOLEAN]
  /\ live \in [Items -> Nat]

\* No call follows the NULL pointer that an iterator gives in an empty store,
\* in base_remove_impl or base_get_max_bid_impl.
NoCrash == pc # "crashed"

\* The collapsed flag and the number of collapses are reset and set together,
\* and a store collapsed at one end is never empty: the bucket that absorbs
\* the items beyond it is there for the next insertion, which base_insert_impl
\* lets read that bucket's key without looking whether there is one.
CollapsedConsistent == CollapseStateOK(store)

\* An update leaves no more buckets than dds_psketch_init was told to allow.
SizeBound ==
  pc \in {"ready", "scan"} /\ store.store_type # UNBOUNDED_MAPSTORE
    => size <= store.max_num_buckets

\* Every bucket is somebody's, and holds exactly the copies of the items that
\* belong there: its own when nothing was collapsed or everything was, and in a
\* store collapsed at one end also those of all the items beyond that end.  It
\* holds between the passes of the collapsing loop too.
BucketsExact == HoldsExactly(store, id_map, live, Stored)

\* total_count, from which ranks are computed, is the number of items present
\* (the insertion in progress adds its count last).
TotalIsLive == total_count + pending = Mass(live, Stored \cup Zeros)

\* Whatever callers remove, the total never drifts from the bucket counts: a
\* removal that is not carried out in the buckets is not counted either.
TotalIsSum ==
  store.total_counts + pending = Mass(store.buckets, Bids(store))

\* Every call returns: the collapsing loop makes room, and the scan reaches its
\* rank or the last bucket.
CallReturns == pc \in {"make_room", "scan"} ~> pc = "ready"

\* The answers are those of the abstract summary: an answer flagged accurate is
\* the bucket of the item at the rank asked for, at the resolution reported.
Summary == INSTANCE QuantileSummary WITH
  store_type <- store.store_type,
  max_size   <- store.max_num_buckets,
  log_gamma  <- id_map.log_gamma

ImplementsSummary == Summary!Spec
================================================================================
