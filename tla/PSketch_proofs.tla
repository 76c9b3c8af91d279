------------------------------ MODULE PSketch_proofs ------------------------------
(***************************************************************************)
(* Proofs about PSketch, for every set of items, every set of policies and *)
(* callers of any kind.                                                    *)
(***************************************************************************)
EXTENDS PSketch, StoreContents_proofs

\* A call that is not making room has left no more buckets than allowed.
RoomMade ==
  pc # "make_room" /\ store.store_type # UNBOUNDED_MAPSTORE
    => size <= store.max_num_buckets

\* The inductive invariant: none of SizeBound and CollapsedConsistent is
\* preserved by a step from a state that only satisfies it.
IInv == TypeOK /\ CollapsedConsistent /\ RoomMade

LEMMA AnswersAreTyped ==
  /\ NoAnswer \in [rank : Int, sign : {0, 1}, bid : Int, is_accurate : BOOLEAN]
  /\ NoScan \in [rank : Int, bid : Int, counts : Int]
BY DEF NoAnswer, NoScan

LEMMA InitEstablishes == Init => IInv
<1> SUFFICES ASSUME Init PROVE IInv
  OBVIOUS
<1>1. PICK p \in Policies : store = NewStore(p[1], FALSE, p[2])
  BY DEF Init, Created
<1>2. p[1] \in StoreType /\ p[2] \in Nat
  BY <1>1, PolicyAssumption
<1>3. /\ IsStore(store) /\ ~store.resizable
      /\ CollapseStateOK(store) /\ NumBuckets(store) = 0 /\ store.max_num_buckets \in Nat
  <2>1. IsStore(store) /\ store.resizable = FALSE /\ CollapseStateOK(store) /\ NumBuckets(store) = 0
    BY <1>1, <1>2, NewStoreIsStore
  <2> QED BY <2>1, StoreFields
<1>4. id_map \in Mapping /\ id_map.type = LOG_UPPER
  BY GrainAssumption DEF Init, Created, NewMapping, Mapping, MappingType
<1>5. /\ zero_bucket \in Nat /\ pending \in Nat
      /\ pc \in {"ready", "make_room", "scan", "crashed"}
      /\ (pc = "make_room") <=> (pending > 0)
  BY DEF Init, Created
<1>6. /\ scan \in [rank : Int, bid : Int, counts : Int]
      /\ answer \in [rank : Int, sign : {0, 1}, bid : Int, is_accurate : BOOLEAN]
      /\ live \in [Items -> Nat]
  BY AnswersAreTyped DEF Init, Created
<1>7. TypeOK
  BY <1>3, <1>4, <1>5, <1>6 DEF TypeOK
<1> QED BY <1>3, <1>7 DEF IInv, CollapsedConsistent, RoomMade, size

\* A call that neither changes the sketch nor enters or leaves the collapsing
\* loop keeps what IInv says of the sketch.
LEMMA SketchUntouched ==
  ASSUME IInv, UNCHANGED <<sketch, pending>>, pc # "make_room", pc' # "make_room",
         pc' \in {"ready", "scan", "crashed"},
         scan' \in [rank : Int, bid : Int, counts : Int],
         answer' \in [rank : Int, sign : {0, 1}, bid : Int, is_accurate : BOOLEAN],
         live' \in [Items -> Nat]
  PROVE  IInv'
BY DEF IInv, TypeOK, CollapsedConsistent, RoomMade, sketch, size

\* An update of the store by a call that returns at once.
LEMMA StoreUpdated ==
  ASSUME IInv, pc = "ready", UNCHANGED <<id_map, zero_bucket, pc, pending, scan>>,
         IsStore(store'), CollapseStateOK(store'), ~store'.resizable,
         store'.store_type = store.store_type,
         store'.max_num_buckets = store.max_num_buckets,
         NumBuckets(store') <= NumBuckets(store),
         answer' = NoAnswer, live' \in [Items -> Nat]
  PROVE  IInv'
<1>1. TypeOK'
  BY AnswersAreTyped DEF IInv, TypeOK
<1>2. RoomMade'
  <2>1. NumBuckets(store) \in Nat /\ NumBuckets(store') \in Nat /\ store.max_num_buckets \in Nat
    BY StoreFields DEF IInv, TypeOK
  <2> QED BY <2>1 DEF IInv, RoomMade, size
<1> QED BY <1>1, <1>2 DEF IInv, CollapsedConsistent

LEMMA InsertPreserves ==
  ASSUME IInv, NEW x \in Items, NEW c \in Counts, InsertStored(x, c)
  PROVE  IInv'
<1> DEFINE bid == BucketId(id_map, x.log)
           st  == InsertItem(store, bid, c)
<1>1. /\ IsStore(store) /\ CollapseStateOK(store) /\ ~store.resizable
      /\ ~InsertReadsNull(store) /\ pc = "ready" /\ pending = 0 /\ id_map \in Mapping
  BY DEF IInv, TypeOK, CollapsedConsistent, CollapseStateOK, InsertStored
<1>2. c \in Nat \ {0} /\ x.log \in Int
  BY CountsAssumption, ItemsAssumption DEF IsItem
<1>3. bid \in Int
  BY <1>1, <1>2, BucketIdIsInt
<1> HIDE DEF bid
<1>4. /\ IsStore(st) /\ ~st.resizable /\ st.store_type = store.store_type
      /\ st.max_num_buckets = store.max_num_buckets
      /\ st.is_collapsed = store.is_collapsed /\ st.num_collapses = store.num_collapses
      /\ Bids(st) = Bids(store) \cup {InsertTarget(store, bid)}
      /\ bid \in Bids(store) => InsertTarget(store, bid) = bid
  BY <1>1, <1>2, <1>3, InsertItemIsStore
<1>5. CollapseStateOK(st) /\ ~IsEmpty(st)
  BY <1>1, <1>2, <1>3, InsertKeepsStateOK
<1> HIDE DEF st
<1>7. live' \in [Items -> Nat]
  BY <1>2, LiveStaysTyped DEF IInv, TypeOK, InsertStored
<1>8. CASE bid \in Bids(store)
  <2>1. store' = AddTotal(st, c) /\ UNCHANGED <<id_map, zero_bucket, pc, pending, scan>>
        /\ answer' = NoAnswer
    BY <1>8 DEF InsertStored, bid, st
  <2>2. /\ IsStore(store') /\ ~store'.resizable /\ store'.buckets = st.buckets
        /\ store'.store_type = store.store_type
        /\ store'.max_num_buckets = store.max_num_buckets
        /\ store'.is_collapsed = st.is_collapsed /\ store'.num_collapses = st.num_collapses
    BY <1>2, <1>4, <2>1, AddTotalIsStore
  <2>3. CollapseStateOK(store')
    BY <1>5, <2>2 DEF CollapseStateOK, InsertReadsNull, IsEmpty, Bids
  <2>4. NumBuckets(store') = NumBuckets(store) /\ NumBuckets(store) \in Nat
    BY <1>1, <1>4, <1>8, <2>2, StoreFields DEF NumBuckets, Bids
  <2> QED BY <1>1, <1>7, <2>1, <2>2, <2>3, <2>4, StoreUpdated
<1>9. CASE bid \notin Bids(store)
  <2>1. /\ store' = st /\ pc' = "make_room" /\ pending' = c /\ answer' = NoAnswer
        /\ UNCHANGED <<id_map, zero_bucket, scan>>
    BY <1>9 DEF InsertStored, bid, st
  <2>2. TypeOK'
    BY <1>2, <1>4, <1>7, <2>1, AnswersAreTyped DEF IInv, TypeOK
  <2> QED BY <1>5, <2>1, <2>2 DEF IInv, CollapsedConsistent, RoomMade
<1> QED BY <1>8, <1>9

LEMMA RemovePreserves ==
  ASSUME IInv, NEW x \in Items, NEW c \in Counts, RemoveStored(x, c)
  PROVE  IInv'
<1>1. CASE RemoveReadsNull(store) /\ Crash
  BY <1>1, SketchUntouched DEF Crash, sketch, IInv, TypeOK, RemoveStored
<1>2. CASE /\ ~RemoveReadsNull(store)
           /\ store' = RemoveItem(store, BucketId(id_map, x.log), c)
           /\ live' = Lost(live, x, c)
           /\ answer' = NoAnswer
           /\ UNCHANGED <<id_map, zero_bucket, pc, pending, scan>>
  <2> DEFINE bid == BucketId(id_map, x.log)
  <2>1. /\ IsStore(store) /\ CollapseStateOK(store) /\ ~store.resizable /\ pc = "ready"
    BY DEF IInv, TypeOK, CollapsedConsistent, RemoveStored
  <2>2. c \in Nat \ {0} /\ c \in Nat /\ x.log \in Int /\ id_map \in Mapping
    BY CountsAssumption, ItemsAssumption DEF IsItem, IInv, TypeOK
  <2>3. bid \in Int
    BY <2>2, BucketIdIsInt
  <2>4. /\ IsStore(store') /\ CollapseStateOK(store') /\ ~store'.resizable
        /\ store'.store_type = store.store_type
        /\ store'.max_num_buckets = store.max_num_buckets
        /\ NumBuckets(store') <= NumBuckets(store)
    <3>1. store' = RemoveItem(store, bid, c)
      BY <1>2
    <3> HIDE DEF bid
    <3> QED BY <1>2, <2>1, <2>2, <2>3, <3>1, RemoveItemStays
  <2>5. live' \in [Items -> Nat]
    BY <1>2, <2>2, LiveStaysTyped DEF IInv, TypeOK
  <2> QED BY <1>2, <2>1, <2>4, <2>5, StoreUpdated
<1> QED BY <1>1, <1>2 DEF RemoveStored

\* Each pass of the collapsing loop, and its end: the loop ends only when the
\* store is small enough.
LEMMA LoopPreserves ==
  ASSUME IInv, MakeRoom \/ InsertReturns
  PROVE  IInv'
<1>1. /\ IsStore(store) /\ CollapseStateOK(store) /\ ~store.resizable
      /\ id_map \in Mapping /\ id_map.type = LOG_UPPER /\ pc = "make_room" /\ pending > 0
      /\ pending \in Nat
  BY DEF IInv, TypeOK, CollapsedConsistent, MakeRoom, InsertReturns
<1>2. CASE MakeRoom
  <2>1. /\ IsStore(store') /\ ~store'.resizable /\ CollapseStateOK(store')
    BY <1>1, <1>2, CollapseIsStore, CollapseKeepsStateOK DEF MakeRoom
  <2>2. id_map' \in Mapping /\ id_map'.type = LOG_UPPER
    BY <1>1, <1>2, SquareGammaIsMapping DEF MakeRoom, MappingAfterCollapse
  <2>3. TypeOK'
    BY <1>2, <2>1, <2>2 DEF IInv, TypeOK, MakeRoom
  <2> QED BY <1>2, <2>1, <2>3 DEF IInv, CollapsedConsistent, RoomMade, MakeRoom
<1>3. CASE InsertReturns
  <2>1. /\ IsStore(store') /\ ~store'.resizable /\ store'.buckets = store.buckets
        /\ store'.store_type = store.store_type
        /\ store'.max_num_buckets = store.max_num_buckets
        /\ store'.is_collapsed = store.is_collapsed
        /\ store'.num_collapses = store.num_collapses
    BY <1>1, <1>3, AddTotalIsStore DEF InsertReturns
  <2>2. CollapseStateOK(store')
    BY <1>1, <2>1
    DEF CollapseStateOK, InsertReadsNull, IsEmpty, Bids, CollapsedHigh, CollapsedLow
  <2>3. TypeOK'
    BY <1>3, <2>1 DEF IInv, TypeOK, InsertReturns
  <2>4. RoomMade'
    <3>1. NumBuckets(store') = NumBuckets(store) /\ NumBuckets(store) \in Nat
          /\ store.max_num_buckets \in Nat
      BY <1>1, <2>1, StoreFields DEF NumBuckets, Bids
    <3> QED BY <1>1, <1>3, <2>1, <3>1 DEF InsertReturns, TooManyBuckets, RoomMade, size
  <2> QED BY <2>2, <2>3, <2>4 DEF IInv, CollapsedConsistent
<1> QED BY <1>2, <1>3

\* The zero bucket has no store and no loop.
LEMMA ZeroPreserves ==
  ASSUME IInv, NEW x \in Items, NEW c \in Counts, InsertZero(x, c) \/ RemoveZero(x, c)
  PROVE  IInv'
<1>1. c \in Nat \ {0} /\ c \in Nat
  BY CountsAssumption
<1>2. live' \in [Items -> Nat]
  BY <1>1, LiveStaysTyped DEF IInv, TypeOK, InsertZero, RemoveZero
<1>3. zero_bucket' \in Nat
  BY <1>1 DEF IInv, TypeOK, InsertZero, RemoveZero
<1>4. answer' \in [rank : Int, sign : {0, 1}, bid : Int, is_accurate : BOOLEAN]
  BY AnswersAreTyped DEF InsertZero, RemoveZero
<1>5. UNCHANGED <<store, id_map, pc, pending, scan>>
  BY DEF InsertZero, RemoveZero
<1> QED BY <1>2, <1>3, <1>4, <1>5 DEF IInv, TypeOK, CollapsedConsistent, RoomMade, size

\* A query reads the sketch and never changes it.
LEMMA QueryPreserves ==
  ASSUME IInv, NEW rank \in Ranks, AskZero(rank) \/ AskStore(rank)
  PROVE  IInv'
<1>1. /\ IsStore(store) /\ zero_bucket \in Nat /\ store.total_counts \in Int
      /\ live \in [Items -> Nat]
  BY StoreFields DEF IInv, TypeOK
<1>2. rank \in Int
  BY <1>1 DEF Ranks, total_count
<1>3. CASE AskZero(rank)
  <2>1. answer' \in [rank : Int, sign : {0, 1}, bid : Int, is_accurate : BOOLEAN]
    BY <1>2, <1>3 DEF AskZero, Answer
  <2> QED BY <1>1, <1>3, <2>1, SketchUntouched DEF AskZero, IInv, TypeOK, sketch
<1>4. CASE AskStore(rank) /\ IsEmpty(store)
  BY <1>4, SketchUntouched DEF AskStore, Crash, sketch, IInv, TypeOK
<1>5. CASE AskStore(rank) /\ ~IsEmpty(store)
  <2>1. MinBid(store) \in Int /\ MinBid(store) \in Bids(store)
    BY <1>1, <1>5, EndsAreBuckets, StoreFields
  <2>2. BucketCount(store, MinBid(store)) \in Int
    BY <1>1, <2>1, StoreFields DEF BucketCount, IsDict, Bids
  <2>3. scan' \in [rank : Int, bid : Int, counts : Int]
    BY <1>1, <1>2, <1>5, <2>1, <2>2 DEF AskStore
  <2> QED BY <1>1, <1>5, <2>3, AnswersAreTyped, SketchUntouched DEF AskStore, sketch, IInv, TypeOK
<1> QED BY <1>3, <1>4, <1>5

LEMMA ScanPreserves ==
  ASSUME IInv, ScanNext \/ ScanReturns
  PROVE  IInv'
<1>1. /\ IsStore(store) /\ pc = "scan" /\ live \in [Items -> Nat]
      /\ scan.rank \in Int /\ scan.bid \in Int /\ scan.counts \in Int
      /\ scan = [rank |-> scan.rank, bid |-> scan.bid, counts |-> scan.counts]
      /\ answer \in [rank : Int, sign : {0, 1}, bid : Int, is_accurate : BOOLEAN]
  BY DEF IInv, TypeOK, ScanNext, ScanReturns
<1>2. CASE ScanNext
  <2> DEFINE bid == NextBid(store, scan.bid)
  <2>1. bid \in Int
    <3> DEFINE following == {b \in Bids(store) : b > scan.bid}
    <3>1. Bids(store) \in SUBSET Int /\ IsFiniteSet(Bids(store))
      BY <1>1, StoreFields
    <3>2. following \in SUBSET Int /\ IsFiniteSet(following)
      BY <3>1, FS_Subset
    <3>3. following # {} => Min(following) \in Int
      BY <3>2, MinIsLeast
    <3> QED BY <1>1, <3>3 DEF NextBid
  <2>2. BucketCount(store, bid) \in Int
    <3> HIDE DEF bid
    <3> QED BY <1>1, StoreFields DEF BucketCount, IsDict, Bids
  <2>3. scan' \in [rank : Int, bid : Int, counts : Int]
    <3>1. scan' = [scan EXCEPT !.bid = bid, !.counts = @ + BucketCount(store, bid)]
      BY <1>2 DEF ScanNext
    <3> HIDE DEF bid
    <3>2. scan.counts + BucketCount(store, bid) \in Int
      BY <1>1, <2>2
    <3> QED BY <2>1, <3>1, <3>2 DEF IInv, TypeOK
  <2> QED BY <1>1, <1>2, <2>3, SketchUntouched DEF ScanNext, sketch
<1>3. CASE ScanReturns
  <2>1. InCollapsedBucket(scan.bid) \in BOOLEAN
    BY DEF InCollapsedBucket
  <2>2. answer' \in [rank : Int, sign : {0, 1}, bid : Int, is_accurate : BOOLEAN]
    BY <1>1, <1>3, <2>1 DEF ScanReturns, Answer
  <2> QED BY <1>1, <1>3, <2>2, AnswersAreTyped, SketchUntouched DEF ScanReturns, sketch
<1> QED BY <1>2, <1>3

LEMMA StepPreserves == IInv /\ [Next]_vars => IInv'
<1> SUFFICES ASSUME IInv, [Next]_vars PROVE IInv'
  OBVIOUS
<1>1. ASSUME NEW x \in Items, UpdateIgnored(x) PROVE IInv'
  BY <1>1, AnswersAreTyped, SketchUntouched DEF UpdateIgnored, sketch, IInv, TypeOK
<1>2. ASSUME NEW x \in Items, NEW c \in Counts, InsertZero(x, c) PROVE IInv'
  BY <1>2, ZeroPreserves
<1>3. ASSUME NEW x \in Items, NEW c \in Counts, RemoveZero(x, c) PROVE IInv'
  BY <1>3, ZeroPreserves
<1>4. ASSUME NEW x \in Items, NEW c \in Counts, InsertStored(x, c) PROVE IInv'
  BY <1>4, InsertPreserves
<1>5. ASSUME NEW x \in Items, NEW c \in Counts, RemoveStored(x, c) PROVE IInv'
  BY <1>5, RemovePreserves
<1>6. ASSUME NEW rank \in Ranks, AskZero(rank) \/ AskStore(rank) PROVE IInv'
  BY <1>6, QueryPreserves
<1>7. CASE MakeRoom
  BY <1>7, LoopPreserves
<1>8. CASE InsertReturns
  BY <1>8, LoopPreserves
<1>9. CASE ScanNext
  BY <1>9, ScanPreserves
<1>10. CASE ScanReturns
  BY <1>10, ScanPreserves
<1>11. CASE UNCHANGED vars
  BY <1>11 DEF vars, IInv, TypeOK, CollapsedConsistent, RoomMade, size
<1> QED BY <1>1, <1>2, <1>3, <1>4, <1>5, <1>6, <1>7, <1>8, <1>9, <1>10, <1>11
        DEF Next, Update, Query, Loop

LEMMA InvariantHolds == Spec => []IInv
<1> QED BY InitEstablishes, StepPreserves, PTL DEF Spec

----------------------------------------------------------------------------
\* Whatever the items, the policies and the behaviour of callers, every variable
\* keeps the type of the C object it stands for, and no bucket that is empty stays
\* in the store.
THEOREM TypeCorrect == Spec => []TypeOK
<1>1. IInv => TypeOK
  BY DEF IInv
<1> QED BY <1>1, InvariantHolds, PTL

\* The flag and the count of collapses agree, and an insertion never asks an empty
\* store for its end bucket: dds_mapstore.c may read that key unchecked.
THEOREM CollapseStateAgrees == Spec => []CollapsedConsistent
<1>1. IInv => CollapsedConsistent
  BY DEF IInv
<1> QED BY <1>1, InvariantHolds, PTL

\* An update that returns leaves at most as many buckets as were asked for, under
\* every bounded policy.
THEOREM SizeIsBounded == Spec => []SizeBound
<1>1. IInv => SizeBound
  BY DEF IInv, RoomMade, SizeBound
<1> QED BY <1>1, InvariantHolds, PTL

----------------------------------------------------------------------------
(* What the sketch says of the items, for callers that remove only what is *)
(* present.  Without that assumption base_remove_impl may take units of    *)
(* another item from a bucket they share, and none of this holds.          *)

ZeroExact  == zero_bucket = Mass(live, Zeros)
StoreTotal == store.total_counts + pending = Mass(live, Stored)
Accounted  == BucketsExact /\ ZeroExact /\ StoreTotal

\* BucketsExact says where an item is in terms of the collapsed state, which IInv
\* keeps sane; the total and the buckets drift together or not at all.
ContentsInv == IInv /\ Accounted

LEMMA SidesOfItems ==
  /\ IsFiniteSet(Stored) /\ Stored \subseteq Items /\ \A y \in Stored : y.log \in Int
  /\ IsFiniteSet(Zeros) /\ Zeros \subseteq Items
  /\ Stored \cap Zeros = {}
<1>1. Stored \subseteq Items /\ Zeros \subseteq Items
  BY DEF Stored, Zeros
<1>2. IsFiniteSet(Stored) /\ IsFiniteSet(Zeros)
  BY <1>1, ItemsAssumption, FS_Subset
<1>3. \A y \in Stored : y.log \in Int
  BY <1>1, ItemsAssumption DEF IsItem
<1>4. Stored \cap Zeros = {}
  BY DEF Stored, Zeros
<1> QED BY <1>1, <1>2, <1>3, <1>4

LEMMA ContentsInit == Init => ContentsInv
<1> SUFFICES ASSUME Init PROVE ContentsInv
  OBVIOUS
<1>1. PICK p \in Policies : store = NewStore(p[1], FALSE, p[2])
  BY DEF Init, Created
<1>2. store.buckets = EmptyDict /\ store.total_counts = 0
  BY <1>1 DEF NewStore
<1>3. zero_bucket = 0 /\ pending = 0 /\ \A y \in Items : live[y] = 0
  BY DEF Init, Created
<1>4. Mass(live, Stored) = 0 /\ Mass(live, Zeros) = 0
  BY <1>3, SidesOfItems, MassOfAbsent
<1>5. Bids(store) = {} /\ Present(live, Stored) = {}
  BY <1>2, <1>3, SidesOfItems DEF Bids, EmptyDict, Present
<1>6. BucketsExact
  BY <1>5 DEF BucketsExact, HoldsExactly
<1> QED BY <1>2, <1>3, <1>4, <1>6, InitEstablishes DEF ContentsInv, Accounted, ZeroExact, StoreTotal

LEMMA ContentsInserted ==
  ASSUME ContentsInv, NEW x \in Items, NEW c \in Counts, InsertStored(x, c)
  PROVE  Accounted'
<1> DEFINE bid == BucketId(id_map, x.log)
           st  == InsertItem(store, bid, c)
<1>1. /\ IsStore(store) /\ CollapseStateOK(store) /\ id_map \in Mapping
      /\ live \in [Items -> Nat] /\ x \in Stored /\ pending = 0
      /\ store.total_counts \in Int /\ UNCHANGED <<id_map, zero_bucket>>
      /\ HoldsExactly(store, id_map, live, Stored)
  BY StoreFields DEF ContentsInv, Accounted, IInv, TypeOK, CollapsedConsistent, InsertStored, BucketsExact
<1>2. c \in Nat \ {0} /\ c \in Nat
  BY CountsAssumption
<1>3. live' = Gained(live, x, c)
  BY DEF InsertStored
<1>4. live'[x] = live[x] + c /\ \A y \in Stored \ {x} : live'[y] = live[y]
  BY <1>1, <1>3, SidesOfItems DEF Gained
<1>5. \A y \in Stored : live[y] \in Nat
  BY <1>1, SidesOfItems
<1>6. HoldsExactly(st, id_map, live', Stored)
  BY <1>1, <1>2, <1>4, <1>5, SidesOfItems, InsertKeepsItems
<1>7. st.total_counts = store.total_counts /\ st.store_type = store.store_type
  BY <1>1 DEF InsertItem, IsStore
<1>8. \/ store' = AddTotal(st, c) /\ pending' = pending
      \/ store' = st /\ pending' = c
  BY DEF InsertStored
<1> HIDE DEF bid, st
<1>9. IsStore(st)
  BY <1>1, <1>2, InsertItemIsStore, BucketIdIsInt, SidesOfItems DEF st, bid, CollapseStateOK
<1>10. /\ store'.buckets = st.buckets /\ store'.store_type = st.store_type
       /\ store'.is_collapsed = st.is_collapsed
       /\ store'.total_counts + pending' = store.total_counts + pending + c
  BY <1>1, <1>2, <1>7, <1>8, <1>9 DEF AddTotal, IsStore
<1>11. HoldsExactly(store', id_map, live', Stored)
  BY <1>6, <1>10, SameContents
<1>12. Mass(live', Stored) = Mass(live, Stored) + c /\ Mass(live', Zeros) = Mass(live, Zeros)
  BY <1>1, <1>2, <1>3, SidesOfItems, MassOfGained
<1> QED BY <1>1, <1>10, <1>11, <1>12 DEF ContentsInv, Accounted, BucketsExact, ZeroExact, StoreTotal

LEMMA ContentsRemoved ==
  ASSUME RemoveOnlyLive, ContentsInv, NEW x \in Items, NEW c \in Counts, RemoveStored(x, c)
  PROVE  ~RemoveReadsNull(store) /\ Accounted'
<1> DEFINE bid == BucketId(id_map, x.log)
<1>1. /\ IsStore(store) /\ CollapseStateOK(store) /\ id_map \in Mapping
      /\ live \in [Items -> Nat] /\ x \in Stored /\ pending = 0
      /\ store.total_counts \in Int
      /\ HoldsExactly(store, id_map, live, Stored)
  BY StoreFields DEF ContentsInv, Accounted, IInv, TypeOK, CollapsedConsistent, RemoveStored, BucketsExact
<1>2. c \in Nat \ {0} /\ c \in Nat /\ c <= live[x]
  BY CountsAssumption DEF RemoveStored, MayRemove
<1>3. Lost(live, x, c)[x] = live[x] - c
      /\ \A y \in Stored \ {x} : Lost(live, x, c)[y] = live[y]
  BY <1>1, <1>2, SidesOfItems DEF Lost
<1>4. \A y \in Stored : live[y] \in Nat
  BY <1>1, SidesOfItems
<1>5. /\ ~RemoveReadsNull(store)
      /\ HoldsExactly(RemoveItem(store, bid, c), id_map, Lost(live, x, c), Stored)
      /\ RemoveItem(store, bid, c).total_counts = store.total_counts - c
  BY <1>1, <1>2, <1>3, <1>4, SidesOfItems, RemoveKeepsItems
<1>6. store' = RemoveItem(store, bid, c) /\ live' = Lost(live, x, c)
      /\ UNCHANGED <<id_map, zero_bucket, pending>>
  BY <1>5 DEF RemoveStored
<1> HIDE DEF bid
<1>7. Mass(live', Stored) = Mass(live, Stored) - c /\ Mass(live', Zeros) = Mass(live, Zeros)
  BY <1>1, <1>2, <1>6, SidesOfItems, MassOfLost
<1> QED BY <1>1, <1>2, <1>5, <1>6, <1>7 DEF ContentsInv, Accounted, BucketsExact, ZeroExact, StoreTotal

LEMMA ContentsOfLoop ==
  ASSUME ContentsInv, MakeRoom \/ InsertReturns
  PROVE  Accounted'
<1>1. /\ IsStore(store) /\ CollapseStateOK(store)
      /\ id_map \in Mapping /\ id_map.type = LOG_UPPER
      /\ live \in [Items -> Nat] /\ pending \in Nat /\ store.total_counts \in Int
      /\ HoldsExactly(store, id_map, live, Stored) /\ UNCHANGED <<zero_bucket, live>>
  BY StoreFields
  DEF ContentsInv, Accounted, IInv, TypeOK, CollapsedConsistent, BucketsExact, MakeRoom, InsertReturns
<1>2. \A y \in Stored : live[y] \in Nat
  BY <1>1, SidesOfItems
<1>3. CASE MakeRoom
  <2>1. HoldsExactly(Collapse(store, id_map), MappingAfterCollapse(store, id_map), live, Stored)
    BY <1>1, <1>2, SidesOfItems, CollapseKeepsItems
  <2>2. Collapse(store, id_map).total_counts = store.total_counts
    BY <1>1 DEF Collapse, IsStore
  <2>3. store' = Collapse(store, id_map) /\ id_map' = MappingAfterCollapse(store, id_map)
        /\ UNCHANGED <<pending, live>>
    BY <1>3 DEF MakeRoom
  <2> QED BY <1>1, <2>1, <2>2, <2>3 DEF ContentsInv, Accounted, BucketsExact, ZeroExact, StoreTotal
<1>4. CASE InsertReturns
  <2>1. store' = AddTotal(store, pending) /\ pending' = 0 /\ id_map' = id_map
    BY <1>4 DEF InsertReturns
  <2>2. /\ store'.buckets = store.buckets /\ store'.store_type = store.store_type
        /\ store'.is_collapsed = store.is_collapsed
        /\ store'.total_counts = store.total_counts + pending
    BY <1>1, <2>1 DEF AddTotal, IsStore
  <2>3. HoldsExactly(store', id_map, live, Stored)
    BY <1>1, <2>2, SameContents
  <2> QED BY <1>1, <2>1, <2>2, <2>3 DEF ContentsInv, Accounted, BucketsExact, ZeroExact, StoreTotal
<1> QED BY <1>3, <1>4

LEMMA ContentsOfZero ==
  ASSUME RemoveOnlyLive, ContentsInv, NEW x \in Items, NEW c \in Counts,
         InsertZero(x, c) \/ RemoveZero(x, c)
  PROVE  Accounted'
<1>1. /\ live \in [Items -> Nat] /\ x \in Zeros /\ x \notin Stored
      /\ zero_bucket = Mass(live, Zeros) /\ zero_bucket \in Nat
      /\ HoldsExactly(store, id_map, live, Stored) /\ UNCHANGED <<store, id_map, pending>>
  BY SidesOfItems
  DEF ContentsInv, Accounted, IInv, TypeOK, BucketsExact, ZeroExact, InsertZero, RemoveZero
<1>2. c \in Nat
  BY CountsAssumption
<1>3. (\A y \in Stored : live'[y] = live[y]) /\ Mass(live', Stored) = Mass(live, Stored)
      /\ zero_bucket' = Mass(live', Zeros)
  <2>1. CASE InsertZero(x, c)
    <3>1. live' = Gained(live, x, c) /\ zero_bucket' = zero_bucket + c
      BY <2>1 DEF InsertZero
    <3>2. \A y \in Stored : Gained(live, x, c)[y] = live[y]
      BY <1>1, SidesOfItems DEF Gained
    <3> QED BY <1>1, <1>2, <3>1, <3>2, SidesOfItems, MassOfGained
  <2>2. CASE RemoveZero(x, c)
    <3>1. live' = Lost(live, x, c) /\ c <= live[x]
      BY <2>2 DEF RemoveZero, MayRemove
    <3>2. \A y \in Stored : Lost(live, x, c)[y] = live[y]
      BY <1>1, SidesOfItems DEF Lost
    <3>3. Mass(live', Zeros) = zero_bucket - c /\ Mass(live', Stored) = Mass(live, Stored)
      BY <1>1, <1>2, <3>1, SidesOfItems, MassOfLost
    <3>4. Mass(live, Zeros) = live[x] + Mass(live, Zeros \ {x}) /\ Mass(live, Zeros \ {x}) \in Nat
      BY <1>1, SidesOfItems, MassSplit
    <3>5. zero_bucket - c >= 0
      BY <1>1, <1>2, <3>1, <3>4, SidesOfItems
    <3>6. zero_bucket' = zero_bucket - c
      BY <2>2, <3>5 DEF RemoveZero
    <3> QED BY <3>1, <3>2, <3>3, <3>6
  <2> QED BY <2>1, <2>2
<1>4. HoldsExactly(store, id_map, live', Stored)
  BY <1>1, <1>3, SameItems
<1> QED BY <1>1, <1>3, <1>4 DEF ContentsInv, Accounted, BucketsExact, ZeroExact, StoreTotal

LEMMA ContentsUntouched ==
  ASSUME ContentsInv, UNCHANGED <<sketch, pending, live>>
  PROVE  Accounted'
BY DEF ContentsInv, Accounted, BucketsExact, ZeroExact, StoreTotal, sketch

LEMMA ContentsStep ==
  ASSUME RemoveOnlyLive
  PROVE  ContentsInv /\ [Next]_vars => ContentsInv'
<1> SUFFICES ASSUME ContentsInv, [Next]_vars PROVE Accounted'
  BY StepPreserves DEF ContentsInv, Accounted
<1>1. ASSUME NEW x \in Items, UpdateIgnored(x) PROVE Accounted'
  BY <1>1, ContentsUntouched DEF UpdateIgnored
<1>2. ASSUME NEW x \in Items, NEW c \in Counts, InsertZero(x, c) \/ RemoveZero(x, c) PROVE Accounted'
  BY <1>2, ContentsOfZero
<1>3. ASSUME NEW x \in Items, NEW c \in Counts, InsertStored(x, c) PROVE Accounted'
  BY <1>3, ContentsInserted
<1>4. ASSUME NEW x \in Items, NEW c \in Counts, RemoveStored(x, c) PROVE Accounted'
  BY <1>4, ContentsRemoved
<1>5. ASSUME NEW rank \in Ranks, AskZero(rank) \/ AskStore(rank) PROVE Accounted'
  BY <1>5, ContentsUntouched DEF AskZero, AskStore, Crash
<1>6. CASE MakeRoom \/ InsertReturns
  BY <1>6, ContentsOfLoop
<1>7. CASE ScanNext \/ ScanReturns
  BY <1>7, ContentsUntouched DEF ScanNext, ScanReturns
<1>8. CASE UNCHANGED vars
  BY <1>8, ContentsUntouched DEF vars, sketch
<1> QED BY <1>1, <1>2, <1>3, <1>4, <1>5, <1>6, <1>7, <1>8 DEF Next, Update, Query, Loop

LEMMA ContentsHold ==
  ASSUME RemoveOnlyLive
  PROVE  Spec => []ContentsInv
<1> QED BY ContentsInit, ContentsStep, PTL DEF Spec

\* As long as callers remove only what is present, every bucket counts exactly the
\* copies of the items that belong there, through every insertion, removal and pass
\* of the collapsing loop, and also when a removal ends the collapsed state.
THEOREM BucketsAreExact ==
  ASSUME RemoveOnlyLive
  PROVE  Spec => []BucketsExact
<1>1. ContentsInv => BucketsExact
  BY DEF ContentsInv, Accounted
<1> QED BY <1>1, ContentsHold, PTL

\* As long as callers remove only what is present, the total that ranks are
\* computed from is the number of items, up to the insertion in progress.
THEOREM TotalIsExact ==
  ASSUME RemoveOnlyLive
  PROVE  Spec => []TotalIsLive
<1>1. ContentsInv => TotalIsLive
  <2> SUFFICES ASSUME ContentsInv PROVE TotalIsLive
    OBVIOUS
  <2>1. live \in [Items -> Nat] /\ zero_bucket \in Nat /\ store.total_counts \in Int
        /\ pending \in Nat
    BY StoreFields DEF ContentsInv, Accounted, IInv, TypeOK
  <2>2. \A y \in Stored \cup Zeros : live[y] \in Nat
    BY <2>1, SidesOfItems
  <2>3. Mass(live, Stored \cup Zeros) = Mass(live, Stored) + Mass(live, Zeros)
    BY <2>2, SidesOfItems, MassDisjoint
  <2>4. zero_bucket = Mass(live, Zeros) /\ store.total_counts + pending = Mass(live, Stored)
    BY DEF ContentsInv, Accounted, ZeroExact, StoreTotal
  <2> QED BY <2>1, <2>3, <2>4 DEF TotalIsLive, total_count
<1> QED BY <1>1, ContentsHold, PTL

\* A sketch that counts something in its store has a bucket to start from.
LEMMA CountedIsThere ==
  ASSUME ContentsInv, pc = "ready", store.total_counts > 0
  PROVE  ~IsEmpty(store)
<1> SUFFICES ASSUME IsEmpty(store) PROVE FALSE
  OBVIOUS
<1>1. live \in [Items -> Nat] /\ pending = 0 /\ store.total_counts \in Int
  BY StoreFields DEF ContentsInv, Accounted, IInv, TypeOK
<1>2. Present(live, Stored) = {}
  BY DEF IsEmpty, ContentsInv, Accounted, BucketsExact, HoldsExactly
<1>3. \A y \in Stored : live[y] = 0
  BY <1>1, <1>2, SidesOfItems DEF Present
<1>4. Mass(live, Stored) = 0
  BY <1>3, MassOfAbsent
<1> QED BY <1>1, <1>4 DEF ContentsInv, Accounted, StoreTotal

LEMMA NoCrashStep ==
  ASSUME RemoveOnlyLive, AskOnlyNonEmpty
  PROVE  ContentsInv /\ NoCrash /\ [Next]_vars => NoCrash'
<1> SUFFICES ASSUME ContentsInv, NoCrash, [Next]_vars PROVE NoCrash'
  OBVIOUS
<1>1. ASSUME NEW x \in Items, NEW c \in Counts, RemoveStored(x, c) PROVE NoCrash'
  <2>1. ~RemoveReadsNull(store)
    BY <1>1, ContentsRemoved
  <2> QED BY <1>1, <2>1 DEF RemoveStored, NoCrash
<1>2. ASSUME NEW rank \in Ranks, AskStore(rank) PROVE NoCrash'
  <2>1. /\ pc = "ready" /\ rank \in Ranks /\ rank >= zero_bucket
        /\ zero_bucket > 0 \/ ~IsEmpty(store)
        /\ zero_bucket \in Nat /\ store.total_counts \in Int /\ pending = 0
        /\ live \in [Items -> Nat]
    BY <1>2, StoreFields DEF AskStore, is_empty, ContentsInv, Accounted, IInv, TypeOK
  <2>2. store.total_counts \in Nat
    <3>1. Mass(live, Stored) \in Nat
      BY <2>1, SidesOfItems, MassType
    <3> QED BY <2>1, <3>1 DEF ContentsInv, Accounted, StoreTotal
  <2>3. ~IsEmpty(store)
    <3> SUFFICES ASSUME IsEmpty(store) PROVE FALSE
      OBVIOUS
    <3>1. store.total_counts = 0
      BY <2>1, <2>2, CountedIsThere
    <3>2. total_count = zero_bucket /\ zero_bucket > 0
      BY <2>1, <3>1 DEF total_count
    <3>3. rank <= zero_bucket - 1
      BY <2>1, <3>2 DEF Ranks
    <3> QED BY <2>1, <3>3, <3>2 DEF Ranks
  <2> QED BY <1>2, <2>3 DEF AskStore, NoCrash
<1>3. ASSUME NEW x \in Items, NEW c \in Counts,
             UpdateIgnored(x) \/ InsertZero(x, c) \/ RemoveZero(x, c) \/ InsertStored(x, c)
      PROVE  NoCrash'
  BY <1>3 DEF UpdateIgnored, InsertZero, RemoveZero, InsertStored, NoCrash
<1>4. ASSUME NEW rank \in Ranks, AskZero(rank) PROVE NoCrash'
  BY <1>4 DEF AskZero, NoCrash
<1>5. CASE Loop \/ UNCHANGED vars
  BY <1>5 DEF Loop, MakeRoom, InsertReturns, ScanNext, ScanReturns, vars, NoCrash
<1> QED BY <1>1, <1>2, <1>3, <1>4, <1>5 DEF Next, Update, Query

\* Callers that remove only what is present and query only sketches that are not
\* empty never make an update or a query follow the NULL pointer that an iterator
\* gives in an empty store.
THEOREM NeverCrashes ==
  ASSUME RemoveOnlyLive, AskOnlyNonEmpty
  PROVE  Spec => []NoCrash
<1>1. Init => NoCrash
  BY DEF Init, Created, NoCrash
<1> QED BY <1>1, NoCrashStep, ContentsHold, PTL DEF Spec


----------------------------------------------------------------------------
(* The total and the buckets, whatever callers remove *)

LEMMA SumInit == Init => TotalIsSum
<1> SUFFICES ASSUME Init PROVE TotalIsSum
  OBVIOUS
<1>1. PICK p \in Policies : Created(p[1], p[2], Grain)
  BY DEF Init
<1>2. store.buckets = EmptyDict /\ store.total_counts = 0 /\ pending = 0
  BY <1>1 DEF Created, NewStore
<1>3. Bids(store) = {}
  BY <1>2 DEF Bids, EmptyDict
<1> QED BY <1>2, <1>3, MassEmpty DEF TotalIsSum

LEMMA SumOfInsertion ==
  ASSUME IInv, TotalIsSum, NEW x \in Items, NEW c \in Counts, InsertStored(x, c)
  PROVE  TotalIsSum'
<1> DEFINE bid == BucketId(id_map, x.log)
           st  == InsertItem(store, bid, c)
<1>1. /\ IsStore(store) /\ ~InsertReadsNull(store) /\ bid \in Int /\ c \in Nat \ {0}
      /\ pending = 0
  BY CountsAssumption, SidesOfItems, BucketIdIsInt
  DEF IInv, TypeOK, CollapsedConsistent, CollapseStateOK, InsertStored
<1>2. /\ store.total_counts = Mass(store.buckets, Bids(store)) /\ store.total_counts \in Int
  BY <1>1, StoreFields DEF TotalIsSum
<1>3. /\ IsStore(st) /\ st.total_counts = store.total_counts
      /\ Mass(st.buckets, Bids(st)) = store.total_counts + c
  BY <1>1, <1>2, InsertItemIsStore, InsertItemSum
<1> HIDE DEF st
<1>4. CASE bid \in Bids(store)
  <2>1. store' = AddTotal(st, c) /\ pending' = 0
    BY <1>1, <1>4 DEF InsertStored, st
  <2>2. /\ AddTotal(st, c).total_counts = store.total_counts + c
        /\ AddTotal(st, c).buckets = st.buckets
    BY <1>1, <1>3, AddTotalIsStore
  <2> QED BY <1>1, <1>2, <1>3, <2>1, <2>2 DEF TotalIsSum, Bids
<1>5. CASE bid \notin Bids(store)
  <2>1. store' = st /\ pending' = c
    BY <1>5 DEF InsertStored, st
  <2> QED BY <1>3, <2>1 DEF TotalIsSum
<1> QED BY <1>4, <1>5

LEMMA SumOfRemoval ==
  ASSUME IInv, TotalIsSum, NEW x \in Items, NEW c \in Counts, RemoveStored(x, c)
  PROVE  TotalIsSum'
<1> DEFINE bid == BucketId(id_map, x.log)
<1>1. CASE Crash
  BY <1>1 DEF Crash, sketch, TotalIsSum
<1>2. CASE ~RemoveReadsNull(store) /\ store' = RemoveItem(store, bid, c) /\ UNCHANGED pending
  <2>1. /\ IsStore(store) /\ bid \in Int /\ c \in Nat \ {0} /\ pending = 0
        /\ store.total_counts \in Int
    BY CountsAssumption, SidesOfItems, StoreFields, BucketIdIsInt DEF IInv, TypeOK, RemoveStored
  <2>2. store'.total_counts - Mass(store'.buckets, Bids(store'))
          = store.total_counts - Mass(store.buckets, Bids(store))
    BY <1>2, <2>1, RemoveItemSum
  <2>3. IsStore(store')
    BY <1>2, <2>1, RemoveItemIsStore
  <2>4. /\ IsDict(store'.buckets) /\ store'.total_counts \in Int
        /\ IsFiniteSet(Bids(store')) /\ Bids(store') = DOMAIN store'.buckets
    BY <2>3, StoreFields DEF Bids
  <2>5. \A b \in Bids(store') : store'.buckets[b] \in Nat
    BY <2>4 DEF IsDict
  <2>6. Mass(store'.buckets, Bids(store')) \in Nat
    BY <2>4, <2>5, MassType
  <2> QED BY <1>2, <2>1, <2>2, <2>4, <2>6 DEF TotalIsSum
<1> QED BY <1>1, <1>2 DEF RemoveStored

LEMMA SumStep == IInv /\ TotalIsSum /\ [Next]_vars => TotalIsSum'
<1> SUFFICES ASSUME IInv, TotalIsSum, [Next]_vars PROVE TotalIsSum'
  OBVIOUS
<1>1. ASSUME NEW x \in Items, NEW c \in Counts, InsertStored(x, c) PROVE TotalIsSum'
  BY <1>1, SumOfInsertion
<1>2. ASSUME NEW x \in Items, NEW c \in Counts, RemoveStored(x, c) PROVE TotalIsSum'
  BY <1>2, SumOfRemoval
<1>3. CASE MakeRoom
  <2>1. store' = Collapse(store, id_map) /\ UNCHANGED pending
    BY <1>3 DEF MakeRoom
  <2>2. IsStore(store) /\ id_map \in Mapping
    BY DEF IInv, TypeOK
  <2> QED BY <2>1, <2>2, CollapseIsStore, CollapseKeepsSum DEF TotalIsSum
<1>4. CASE InsertReturns
  <2>1. store' = AddTotal(store, pending) /\ pending' = 0
    BY <1>4 DEF InsertReturns
  <2>2. IsStore(store) /\ pending \in Int
    BY DEF IInv, TypeOK
  <2>3. /\ store'.total_counts = store.total_counts + pending
        /\ store'.buckets = store.buckets /\ store.total_counts \in Int
    BY <2>1, <2>2, AddTotalIsStore, StoreFields
  <2> QED BY <2>1, <2>2, <2>3 DEF TotalIsSum, Bids
<1>5. ASSUME \/ \E x \in Items, c \in Counts :
                  UpdateIgnored(x) \/ InsertZero(x, c) \/ RemoveZero(x, c)
             \/ Query \/ ScanNext \/ ScanReturns \/ UNCHANGED vars
      PROVE  TotalIsSum'
  <2>1. UNCHANGED <<store, pending>>
    BY <1>5 DEF UpdateIgnored, InsertZero, RemoveZero, Query, AskZero, AskStore, Crash, ScanNext,
      ScanReturns, sketch, vars
  <2> QED BY <2>1 DEF TotalIsSum
<1> QED BY <1>1, <1>2, <1>3, <1>4, <1>5 DEF Next, Update, Loop

\* Whatever callers do, total_counts never drifts from the counts of the buckets: what a
\* removal cannot take from a bucket it does not take from the total, and the policies
\* only move counts.
THEOREM TotalIsAlwaysSum == Spec => []TotalIsSum
<1>1. Spec => []IInv
  BY InitEstablishes, StepPreserves, PTL DEF Spec
<1> QED BY <1>1, SumInit, SumStep, PTL DEF Spec


----------------------------------------------------------------------------
(* The abstract summary *)

\* What is not addressable is never present.
OnlyAddressable == \A y \in Items : ~is_addressable(y) => live[y] = 0

\* A scan has counted the items up to its bucket, and those below are not enough.
ScanInv ==
  pc = "scan" =>
    /\ scan.bid \in Bids(store)
    /\ scan.counts = zero_bucket + CountUpTo(store, scan.bid)
    /\ zero_bucket + CountBelow(store, scan.bid) <= scan.rank
    /\ scan.rank < total_count

LEMMA AddressableInit == Init => OnlyAddressable
BY DEF Init, Created, OnlyAddressable

LEMMA AddressableStep == IInv /\ OnlyAddressable /\ [Next]_vars => OnlyAddressable'
<1> SUFFICES ASSUME IInv, OnlyAddressable, [Next]_vars PROVE OnlyAddressable'
  OBVIOUS
<1>1. live \in [Items -> Nat]
  BY DEF IInv, TypeOK
<1>2. ASSUME NEW x \in Items, NEW c \in Counts, is_addressable(x),
             live' = Gained(live, x, c) \/ live' = Lost(live, x, c)
      PROVE  OnlyAddressable'
  <2>1. \A y \in Items \ {x} : live'[y] = live[y]
    BY <1>1, <1>2 DEF Gained, Lost
  <2> QED BY <1>2, <2>1 DEF OnlyAddressable, is_addressable
<1>3. ASSUME NEW x \in Items, NEW c \in Counts,
             \/ InsertZero(x, c) \/ RemoveZero(x, c) \/ InsertStored(x, c) \/ RemoveStored(x, c)
      PROVE  OnlyAddressable'
  <2>1. CASE UNCHANGED live
    BY <2>1 DEF OnlyAddressable, is_addressable
  <2>2. CASE live' # live
    <3>1. is_addressable(x)
      BY <1>3 DEF InsertZero, RemoveZero, InsertStored, RemoveStored, Zeros, Stored
    <3>2. live' = Gained(live, x, c) \/ live' = Lost(live, x, c)
      BY <1>3, <2>2 DEF InsertZero, RemoveZero, InsertStored, RemoveStored, Crash
    <3> QED BY <1>2, <3>1, <3>2
  <2> QED BY <2>1, <2>2
<1>4. ASSUME (\E x \in Items : UpdateIgnored(x)) \/ Query \/ Loop \/ UNCHANGED vars
      PROVE  OnlyAddressable'
  <2>1. UNCHANGED live
    BY <1>4 DEF UpdateIgnored, Query, AskZero, AskStore, Crash, Loop, MakeRoom, InsertReturns,
      ScanNext, ScanReturns, vars
  <2> QED BY <2>1 DEF OnlyAddressable, is_addressable
<1> QED BY <1>3, <1>4 DEF Next, Update

LEMMA ScanStep == IInv /\ TotalIsSum /\ ScanInv /\ [Next]_vars => ScanInv'
<1> SUFFICES ASSUME IInv, TotalIsSum, ScanInv, [Next]_vars, pc' = "scan" PROVE ScanInv'
  BY DEF ScanInv
<1>1. /\ IsStore(store) /\ zero_bucket \in Nat /\ store.total_counts \in Int
  BY StoreFields DEF IInv, TypeOK
<1>2. pc \in {"ready", "scan"} => store.total_counts = CountAll(store)
  BY <1>1 DEF TotalIsSum, CountAll, IInv, TypeOK
<1>3. ASSUME NEW rank \in Ranks, AskStore(rank) PROVE ScanInv'
  <2>1. /\ ~IsEmpty(store) /\ rank >= zero_bucket /\ pc = "ready" /\ UNCHANGED <<store, zero_bucket>>
        /\ scan' = [rank |-> rank, bid |-> MinBid(store),
                    counts |-> zero_bucket + BucketCount(store, MinBid(store))]
    BY <1>3 DEF AskStore, Crash, sketch
  <2>2. /\ MinBid(store) \in Bids(store) /\ CountBelow(store, MinBid(store)) = 0
        /\ MaxBid(store) \in Bids(store) /\ CountUpTo(store, MaxBid(store)) = CountAll(store)
    BY <1>1, <2>1, EndsOfScan
  <2>3. \A k \in Bids(store) : CountUpTo(store, k) = CountBelow(store, k) + BucketCount(store, k)
    BY <1>1, CountOfOne
  <2>4. /\ \A k \in Bids(store) : BucketCount(store, k) \in Nat \ {0}
        /\ \A k : CountBelow(store, k) \in Nat /\ CountUpTo(store, k) \in Nat
    BY <1>1, StoreFields, CountsAreNat DEF BucketCount, IsDict, Bids
  <2>5. total_count \in Nat /\ total_count > 0
    BY <1>1, <1>2, <2>1, <2>2, <2>3, <2>4 DEF total_count
  <2>6. rank \in Int /\ rank < total_count
    BY <2>5 DEF Ranks
  <2> QED BY <1>1, <2>1, <2>2, <2>3, <2>4, <2>6 DEF ScanInv, total_count
<1>4. CASE ScanNext
  <2> DEFINE k == scan.bid
             n == NextBid(store, k)
  <2>1. /\ pc = "scan" /\ scan.counts <= scan.rank /\ k < MaxBid(store)
        /\ scan' = [scan EXCEPT !.bid = n, !.counts = @ + BucketCount(store, n)]
        /\ UNCHANGED <<store, zero_bucket>>
    BY <1>4 DEF ScanNext, GoesOn, sketch
  <2>2. /\ k \in Bids(store)
        /\ scan.counts = zero_bucket + CountUpTo(store, k)
        /\ scan.rank < total_count
    BY <2>1 DEF ScanInv
  <2>3. n \in Bids(store) /\ CountBelow(store, n) = CountUpTo(store, k)
    BY <1>1, <2>1, <2>2, NextIsNext
  <2>4. /\ CountUpTo(store, n) = CountBelow(store, n) + BucketCount(store, n)
        /\ CountUpTo(store, k) \in Nat /\ BucketCount(store, n) \in Int
    <3>1. CountUpTo(store, n) = CountBelow(store, n) + BucketCount(store, n)
      BY <1>1, <2>3, CountOfOne
    <3>2. BucketCount(store, n) \in Int
      BY <1>1, <2>3, StoreFields DEF BucketCount, IsDict, Bids
    <3> QED BY <1>1, <3>1, <3>2, CountsAreNat
  <2>5. scan \in [rank : Int, bid : Int, counts : Int]
    BY DEF IInv, TypeOK
  <2> HIDE DEF n, k
  <2>6. /\ scan'.bid = n /\ scan'.counts = scan.counts + BucketCount(store, n)
        /\ scan'.rank = scan.rank
    BY <2>1, <2>5
  <2> QED BY <1>1, <2>1, <2>2, <2>3, <2>4, <2>5, <2>6 DEF ScanInv, total_count
<1>5. CASE UNCHANGED vars
  BY <1>5 DEF vars, ScanInv, total_count
<1>6. ~(ScanReturns \/ MakeRoom \/ InsertReturns)
  BY DEF ScanReturns, MakeRoom, InsertReturns
<1>7. ASSUME NEW rank \in Ranks, AskZero(rank) PROVE FALSE
  BY <1>7 DEF AskZero
<1>8. ASSUME NEW x \in Items, NEW c \in Counts,
             \/ UpdateIgnored(x) \/ InsertZero(x, c) \/ RemoveZero(x, c)
             \/ InsertStored(x, c) \/ RemoveStored(x, c)
      PROVE  FALSE
  BY <1>8 DEF UpdateIgnored, InsertZero, RemoveZero, InsertStored, RemoveStored, Crash
<1> QED BY <1>3, <1>4, <1>5, <1>6, <1>7, <1>8 DEF Next, Update, Query, Loop

SummaryInv == ContentsInv /\ TotalIsSum /\ OnlyAddressable /\ ScanInv

LEMMA SummaryInvHolds ==
  ASSUME RemoveOnlyLive
  PROVE  Spec => []SummaryInv
<1>1. Init => ScanInv
  BY DEF Init, Created, ScanInv
<1>2. ContentsInv => IInv
  BY DEF ContentsInv
<1> QED BY <1>1, <1>2, AddressableInit, AddressableStep, ScanStep, ContentsHold, TotalIsAlwaysSum,
           PTL DEF Spec, SummaryInv


----------------------------------------------------------------------------
(* Each step of the sketch is a step of the summary, or none. *)

\* The words of the summary mean what ours mean.
LEMMA SummaryCardinality == ASSUME NEW S PROVE Summary!Cardinality(S) = Cardinality(S)
BY DEF Summary!Cardinality, Cardinality

LEMMA SummaryRank ==
  ASSUME NEW f, NEW x, NEW r
  PROVE  Summary!IsAtRank(f, x, r) <=> IsAtRank(f, x, r)
<1>1. \A S : Summary!Mass(f, S) = Mass(f, S)
  BY SummaryCardinality DEF Summary!Mass, Summary!Units, Mass, Units
<1>2. \A a, b : Summary!Before(a, b) <=> Before(a, b)
  BY DEF Summary!Before, Before
<1>3. /\ {y \in DOMAIN f : Summary!Before(y, x)} = {y \in DOMAIN f : Before(y, x)}
      /\ {y \in DOMAIN f : ~Summary!Before(x, y)} = {y \in DOMAIN f : ~Before(x, y)}
  BY <1>2
<1> QED BY <1>1, <1>3 DEF Summary!IsAtRank, IsAtRank

LEMMA SummaryBucket ==
  ASSUME IInv, NEW x
  PROVE  Summary!BucketOf(x) =
           [sign |-> x.sign, bid |-> IF x.sign = 0 THEN 0 ELSE BucketId(id_map, x.log)]
<1>1. id_map = [type |-> LOG_UPPER, log_gamma |-> id_map.log_gamma]
  BY DEF IInv, TypeOK, Mapping
<1>2. Summary!mapping = id_map
  BY <1>1 DEF Summary!mapping, Summary!NewMapping, Summary!LOG_UPPER, LOG_UPPER
<1>3. Summary!BucketId(id_map, x.log) = BucketId(id_map, x.log)
  BY DEF Summary!BucketId, Summary!CeilDiv, Summary!FloorDiv, Summary!LOG_LOWER, BucketId, CeilDiv,
    FloorDiv, LOG_LOWER
<1> QED BY <1>2, <1>3 DEF Summary!BucketOf

LEMMA SummaryInit == Init => Summary!Init
<1> SUFFICES ASSUME Init PROVE Summary!Init
  OBVIOUS
<1>1. PICK p \in Policies : Created(p[1], p[2], Grain)
  BY DEF Init
<1>2. p[1] \in StoreType /\ p[2] \in Nat
  BY PolicyAssumption
<1>3. /\ store.store_type = p[1] /\ store.max_num_buckets = p[2]
      /\ id_map.log_gamma = Grain /\ live = [x \in Items |-> 0] /\ answer = NoAnswer
  BY <1>1 DEF Created, NewStore, NewMapping
<1>4. Summary!StoreType = StoreType
  BY DEF Summary!StoreType, Summary!UNBOUNDED_MAPSTORE, Summary!COLLAPSINGHIGH_MAPSTORE,
    Summary!COLLAPSINGLOW_MAPSTORE, Summary!COLLAPSINGALL_MAPSTORE, StoreType, UNBOUNDED_MAPSTORE,
    COLLAPSINGHIGH_MAPSTORE, COLLAPSINGLOW_MAPSTORE, COLLAPSINGALL_MAPSTORE
<1> QED BY <1>2, <1>3, <1>4 DEF Summary!Init, Summary!NoAnswer, NoAnswer

\* What the summary keeps of the sketch.
shown == <<store.store_type, store.max_num_buckets, live, id_map.log_gamma, answer>>

LEMMA UpdateIsSummarised ==
  ASSUME RemoveOnlyLive, SummaryInv, NEW x \in Items, NEW c \in Counts,
         \/ UpdateIgnored(x) \/ InsertZero(x, c) \/ RemoveZero(x, c)
         \/ InsertStored(x, c) \/ RemoveStored(x, c)
  PROVE  Summary!Next \/ UNCHANGED shown
<1>1. /\ IsStore(store) /\ CollapseStateOK(store) /\ id_map \in Mapping
      /\ live \in [Items -> Nat]
  BY DEF SummaryInv, ContentsInv, IInv, TypeOK, CollapsedConsistent
<1>2. c \in Nat \ {0}
  BY CountsAssumption
<1>3. CASE UpdateIgnored(x)
  BY <1>3 DEF UpdateIgnored, sketch, Summary!Next, Summary!Forget, Summary!NoAnswer, NoAnswer
<1>4. ASSUME UNCHANGED <<store.store_type, store.max_num_buckets, id_map.log_gamma>>,
             answer' = NoAnswer, live' = Gained(live, x, c)
      PROVE  Summary!Insert
  <2>1. live'[x] - live[x] = c /\ c > 0
    BY <1>1, <1>2, <1>4 DEF Gained
  <2>2. live' = [live EXCEPT ![x] = @ + c]
    BY <1>4 DEF Gained
  <2> QED BY <1>4, <2>1, <2>2 DEF Summary!Insert, Summary!NoAnswer, NoAnswer
<1>5. ASSUME UNCHANGED <<store.store_type, store.max_num_buckets, id_map.log_gamma>>,
             answer' = NoAnswer, live' = Lost(live, x, c), c <= live[x]
      PROVE  Summary!Remove
  <2>1. c \in 1 .. live[x]
    BY <1>1, <1>2, <1>5
  <2>2. live' = [live EXCEPT ![x] = @ - c]
    BY <1>1, <1>5 DEF Lost
  <2> QED BY <1>5, <2>1, <2>2 DEF Summary!Remove, Summary!NoAnswer, NoAnswer
<1>6. CASE InsertZero(x, c)
  <2>1. /\ UNCHANGED <<store, id_map>> /\ answer' = NoAnswer /\ live' = Gained(live, x, c)
    BY <1>6 DEF InsertZero
  <2> QED BY <1>4, <2>1 DEF Summary!Next
<1>7. CASE RemoveZero(x, c)
  <2>1. /\ UNCHANGED <<store, id_map>> /\ answer' = NoAnswer /\ live' = Lost(live, x, c)
        /\ c <= live[x]
    BY <1>7 DEF RemoveZero, MayRemove
  <2> QED BY <1>5, <2>1 DEF Summary!Next
<1>8. CASE InsertStored(x, c)
  <2> DEFINE bid == BucketId(id_map, x.log)
             st  == InsertItem(store, bid, c)
  <2>1. ~InsertReadsNull(store) /\ bid \in Int
    BY <1>1, <1>8, SidesOfItems, BucketIdIsInt DEF CollapseStateOK, InsertStored
  <2>2. /\ IsStore(st) /\ st.store_type = store.store_type
        /\ st.max_num_buckets = store.max_num_buckets
    BY <1>1, <1>2, <2>1, InsertItemIsStore
  <2>3. /\ AddTotal(st, c).store_type = st.store_type
        /\ AddTotal(st, c).max_num_buckets = st.max_num_buckets
    BY <1>2, <2>2, AddTotalIsStore
  <2>4. /\ store' = st \/ store' = AddTotal(st, c)
        /\ UNCHANGED id_map /\ answer' = NoAnswer /\ live' = Gained(live, x, c)
    BY <1>8 DEF InsertStored
  <2> HIDE DEF st
  <2> QED BY <1>4, <2>2, <2>3, <2>4 DEF Summary!Next
<1>9. CASE RemoveStored(x, c)
  <2>1. CASE Crash
    BY <2>1 DEF Crash, sketch, shown
  <2>2. CASE /\ ~RemoveReadsNull(store)
             /\ store' = RemoveItem(store, BucketId(id_map, x.log), c)
             /\ live' = Lost(live, x, c) /\ answer' = NoAnswer /\ UNCHANGED id_map
    <3>1. BucketId(id_map, x.log) \in Int /\ c <= live[x]
      BY <1>1, <1>9, SidesOfItems, BucketIdIsInt DEF RemoveStored, MayRemove
    <3>2. store'.store_type = store.store_type /\ store'.max_num_buckets = store.max_num_buckets
      BY <1>1, <1>2, <2>2, <3>1, RemoveItemStays
    <3> QED BY <1>5, <2>2, <3>1, <3>2 DEF Summary!Next
  <2> QED BY <1>9, <2>1, <2>2 DEF RemoveStored
<1> QED BY <1>3, <1>6, <1>7, <1>8, <1>9

\* While the store is collapsed uniformly there are as many occupied buckets as it has.
LEMMA OccupiedIsSize ==
  ASSUME SummaryInv, store.store_type = COLLAPSINGALL_MAPSTORE
  PROVE  Cardinality(Summary!Occupied) = NumBuckets(store)
<1> DEFINE bucket(b) == [sign |-> 1, bid |-> b]
           f == [b \in Bids(store) |-> bucket(b)]
<1>1. /\ IsStore(store) /\ live \in [Items -> Nat] /\ IInv
      /\ HoldsExactly(store, id_map, live, Stored)
  BY DEF SummaryInv, ContentsInv, IInv, TypeOK, Accounted, BucketsExact
<1>2. ~CollapsedHigh(store) /\ ~CollapsedLow(store)
  BY DEF CollapsedHigh, CollapsedLow, COLLAPSINGALL_MAPSTORE, COLLAPSINGHIGH_MAPSTORE,
    COLLAPSINGLOW_MAPSTORE
<1>3. \A y : Home(store, id_map, y) = BucketId(id_map, y.log)
  BY <1>2 DEF Home
<1>4. \A y \in Items : live[y] > 0 /\ y.sign # 0 <=> y \in Present(live, Stored)
  <2> SUFFICES ASSUME NEW y \in Items
               PROVE  live[y] > 0 /\ y.sign # 0 <=> y \in Present(live, Stored)
    OBVIOUS
  <2>1. live[y] > 0 => is_addressable(y)
    BY <1>1 DEF SummaryInv, OnlyAddressable
  <2>2. y.sign \in {-1, 0, 1}
    BY ItemsAssumption DEF IsItem
  <2> QED BY <2>1, <2>2 DEF Present, Stored, is_addressable
<1>5. Summary!Occupied = {bucket(b) : b \in Bids(store)}
  <2>1. \A y \in Present(live, Stored) : Summary!BucketOf(y) = bucket(BucketId(id_map, y.log))
    <3> SUFFICES ASSUME NEW y \in Present(live, Stored)
                 PROVE  Summary!BucketOf(y) = bucket(BucketId(id_map, y.log))
      OBVIOUS
    <3>1. y.sign = 1
      BY DEF Present, Stored
    <3> QED BY <1>1, <3>1, SummaryBucket
  <2>2. {y \in Items : live[y] > 0 /\ y.sign # 0} = Present(live, Stored)
    BY <1>4, SidesOfItems DEF Present
  <2>3. Bids(store) = {BucketId(id_map, y.log) : y \in Present(live, Stored)}
    BY <1>1, <1>3 DEF HoldsExactly
  <2>4. Summary!Occupied = {Summary!BucketOf(y) : y \in Present(live, Stored)}
    BY <2>2 DEF Summary!Occupied
  <2> QED BY <2>1, <2>3, <2>4
<1>6. f \in Bijection(Bids(store), Summary!Occupied)
  <2>1. f \in [Bids(store) -> Summary!Occupied]
    BY <1>5
  <2>2. \A a, b \in Bids(store) : f[a] = f[b] => a = b
    OBVIOUS
  <2>3. \A t \in Summary!Occupied : \E b \in Bids(store) : f[b] = t
    BY <1>5
  <2> QED BY <2>1, <2>2, <2>3 DEF Bijection, Injection, Surjection, IsInjective
<1>7. IsFiniteSet(Bids(store))
  BY <1>1, StoreFields
<1>8. ExistsBijection(Bids(store), Summary!Occupied)
  BY <1>6 DEF ExistsBijection
<1> QED BY <1>7, <1>8, FS_Bijection DEF NumBuckets

LEMMA MakeRoomIsSummarised ==
  ASSUME SummaryInv, MakeRoom
  PROVE  Summary!Next \/ UNCHANGED shown
<1>1. /\ IsStore(store) /\ id_map \in Mapping
  BY DEF SummaryInv, ContentsInv, IInv, TypeOK
<1>2. /\ store' = Collapse(store, id_map) /\ id_map' = MappingAfterCollapse(store, id_map)
      /\ UNCHANGED <<live, answer>> /\ NumBuckets(store) > store.max_num_buckets
  BY DEF MakeRoom, TooManyBuckets
<1>3. store'.store_type = store.store_type /\ store'.max_num_buckets = store.max_num_buckets
  BY <1>1, <1>2, CollapseIsStore
<1>4. CASE store.store_type = COLLAPSINGALL_MAPSTORE
  <2>1. id_map'.log_gamma = 2 * id_map.log_gamma
    BY <1>1, <1>2, <1>4 DEF MappingAfterCollapse, SquareGamma, Mapping
  <2>2. Summary!Cardinality(Summary!Occupied) > store.max_num_buckets
    BY <1>2, <1>4, OccupiedIsSize, SummaryCardinality
  <2>3. Summary!COLLAPSINGALL_MAPSTORE = COLLAPSINGALL_MAPSTORE
    BY DEF Summary!COLLAPSINGALL_MAPSTORE, COLLAPSINGALL_MAPSTORE
  <2> QED BY <1>2, <1>3, <1>4, <2>1, <2>2, <2>3 DEF Summary!Next, Summary!Coarsen
<1>5. CASE store.store_type # COLLAPSINGALL_MAPSTORE
  BY <1>2, <1>3, <1>5 DEF MappingAfterCollapse, shown
<1> QED BY <1>4, <1>5


\* What a reply promises, in our words.
LEMMA Replies ==
  ASSUME IInv, NEW rank, NEW sign, NEW bid, NEW accurate \in BOOLEAN,
         answer' = [rank |-> rank, sign |-> sign, bid |-> bid, is_accurate |-> accurate],
         UNCHANGED <<store, id_map, live>>,
         \A x \in Items : IsAtRank(live, x, rank) =>
           LET own == IF x.sign = 0 THEN 0 ELSE BucketId(id_map, x.log)
           IN  /\ x.sign = sign /\ own \in Int /\ bid \in Int
               /\ accurate => own = bid
               /\ own # bid => \/ store.store_type = COLLAPSINGHIGH_MAPSTORE /\ sign * bid <= sign * own
                               \/ store.store_type = COLLAPSINGLOW_MAPSTORE /\ sign * own <= sign * bid
               /\ store.store_type \in {UNBOUNDED_MAPSTORE, COLLAPSINGALL_MAPSTORE} => accurate
  PROVE  Summary!Next
<1>1. ASSUME NEW x \in Items, Summary!IsAtRank(live, x, rank)
      PROVE  Summary!Fits(answer', x)
  <2> DEFINE own == IF x.sign = 0 THEN 0 ELSE BucketId(id_map, x.log)
             b   == [sign |-> sign, bid |-> bid]
  <2>1. IsAtRank(live, x, rank)
    BY <1>1, SummaryRank
  <2>2. /\ x.sign = sign /\ own \in Int /\ bid \in Int
        /\ accurate => own = bid
        /\ own # bid => \/ store.store_type = COLLAPSINGHIGH_MAPSTORE /\ sign * bid <= sign * own
                        \/ store.store_type = COLLAPSINGLOW_MAPSTORE /\ sign * own <= sign * bid
        /\ store.store_type \in {UNBOUNDED_MAPSTORE, COLLAPSINGALL_MAPSTORE} => accurate
    BY <1>1, <2>1
  <2>3. Summary!BucketOf(x) = [sign |-> sign, bid |-> own]
    BY <2>2, SummaryBucket
  <2>4. sign \in {-1, 0, 1}
    BY <2>2, ItemsAssumption DEF IsItem
  <2> HIDE DEF own
  <2>5. /\ Summary!AtMost(b, Summary!BucketOf(x)) <=> sign * bid <= sign * own
        /\ Summary!AtMost(Summary!BucketOf(x), b) <=> sign * own <= sign * bid
    BY <2>3, <2>4 DEF Summary!AtMost
  <2>6. own = bid => sign * bid <= sign * own /\ sign * own <= sign * bid
    BY <2>2, <2>4
  <2>7. /\ answer'.is_accurate = accurate
        /\ [sign |-> answer'.sign, bid |-> answer'.bid] = b
    OBVIOUS
  <2>8. accurate => b = Summary!BucketOf(x)
    BY <2>2, <2>3
  <2> QED BY <2>2, <2>5, <2>6, <2>7, <2>8
    DEF Summary!Fits, Summary!UNBOUNDED_MAPSTORE, Summary!COLLAPSINGALL_MAPSTORE,
        Summary!COLLAPSINGHIGH_MAPSTORE, Summary!COLLAPSINGLOW_MAPSTORE,
        UNBOUNDED_MAPSTORE, COLLAPSINGALL_MAPSTORE, COLLAPSINGHIGH_MAPSTORE, COLLAPSINGLOW_MAPSTORE
<1>2. answer'.rank = rank
  OBVIOUS
<1>3. Summary!AnswerFits(answer')
  BY <1>1, <1>2 DEF Summary!AnswerFits
<1> QED BY <1>3 DEF Summary!Next, Summary!Reply

LEMMA ItemsOfSketch ==
  ASSUME SummaryInv
  PROVE  /\ IsFiniteSet(Items) /\ live \in [Items -> Nat]
         /\ \A y \in Items : y.log \in Int /\ y.sign \in {-1, 0, 1}
         /\ \A y \in Items : live[y] > 0 => y \in Zeros \cup Stored
         /\ zero_bucket = Mass(live, Zeros)
<1>1. live \in [Items -> Nat] /\ zero_bucket = Mass(live, Zeros)
  BY DEF SummaryInv, ContentsInv, Accounted, ZeroExact, IInv, TypeOK
<1>2. \A y \in Items : y.log \in Int /\ y.sign \in {-1, 0, 1}
  BY ItemsAssumption DEF IsItem
<1>3. \A y \in Items : live[y] > 0 => is_addressable(y)
  BY <1>1 DEF SummaryInv, OnlyAddressable
<1> QED BY <1>1, <1>2, <1>3, ItemsAssumption DEF Zeros, Stored, is_addressable

LEMMA ZeroIsSummarised ==
  ASSUME SummaryInv, NEW rank \in Ranks, AskZero(rank)
  PROVE  Summary!Next
<1>1. /\ rank < zero_bucket /\ UNCHANGED <<store, id_map, live>>
      /\ answer' = [rank |-> rank, sign |-> 0, bid |-> 0, is_accurate |-> TRUE]
  BY DEF AskZero, Answer, sketch
<1>2. IInv /\ zero_bucket \in Nat /\ store.total_counts \in Int
  BY StoreFields DEF SummaryInv, ContentsInv, IInv, TypeOK
<1>3. rank \in Int
  BY <1>2 DEF Ranks, total_count
<1>4. ASSUME NEW x \in Items, IsAtRank(live, x, rank) PROVE x.sign = 0
  <2>1. rank >= 0
    BY <1>3, <1>4, ItemsOfSketch, RankOfItem
  <2>2. Zeros \in SUBSET Items /\ {} \in SUBSET Items
    BY SidesOfItems
  <2>3. PICK y \in Zeros : live[y] > 0 /\ ~Before(y, x)
    BY <1>1, <1>3, <1>4, <2>2, ItemsOfSketch, NotAllBelow
  <2>4. PICK z \in Items \ {} : live[z] > 0 /\ ~Before(x, z)
    <3>1. Mass(live, {}) <= rank
      BY <2>1, MassEmpty
    <3> QED BY <1>3, <1>4, <2>2, <3>1, ItemsOfSketch, NotAllAbove
  <2>5. y.sign = 0 /\ z.sign >= 0 /\ z.sign \in Int /\ x.sign \in Int
    BY <2>4, ItemsOfSketch DEF Zeros, Stored
  <2> QED BY <2>3, <2>4, <2>5 DEF Before
<1>5. ASSUME NEW x \in Items, IsAtRank(live, x, rank)
      PROVE  /\ x.sign = 0 /\ 0 \in Int
             /\ (IF x.sign = 0 THEN 0 ELSE BucketId(id_map, x.log)) = 0
  BY <1>4, <1>5
<1> QED BY <1>1, <1>2, <1>5, Replies

\* The scan stops in the bucket where the item at the rank asked for is.
LEMMA ScanFinds ==
  ASSUME SummaryInv, ScanReturns, NEW x \in Items, IsAtRank(live, x, scan.rank)
  PROVE  x.sign = 1 /\ Home(store, id_map, x) = scan.bid
<1> DEFINE k  == scan.bid
           r  == scan.rank
           Lo == Zeros \cup HomeBelow(store, id_map, Stored, k)
           Hi == Zeros \cup HomeUpTo(store, id_map, Stored, k)
<1>1. /\ IsStore(store) /\ CollapseStateOK(store) /\ id_map \in Mapping
      /\ id_map.type = LOG_UPPER /\ live \in [Items -> Nat]
      /\ HoldsExactly(store, id_map, live, Stored)
      /\ zero_bucket \in Nat /\ r \in Int /\ store.total_counts \in Int
      /\ pc = "scan" /\ pending = 0
  BY StoreFields DEF SummaryInv, ContentsInv, Accounted, BucketsExact, IInv, TypeOK,
    CollapsedConsistent, ScanReturns
<1>2. /\ k \in Bids(store) /\ scan.counts = zero_bucket + CountUpTo(store, k)
      /\ zero_bucket + CountBelow(store, k) <= r
      /\ r < zero_bucket + store.total_counts
  BY <1>1 DEF SummaryInv, ScanInv, total_count
<1>3. r < zero_bucket + CountUpTo(store, k)
  <2>1. CASE scan.counts > r
    BY <1>2, <2>1
  <2>2. CASE ~(k < MaxBid(store))
    <3>1. ~IsEmpty(store) /\ Bids(store) \in SUBSET Int
      BY <1>1, <1>2, StoreFields DEF IsEmpty
    <3>2. k = MaxBid(store)
      BY <1>1, <1>2, <2>2, <3>1, EndsAreBuckets
    <3>3. CountUpTo(store, k) = CountAll(store)
      BY <1>1, <3>1, <3>2, EndsOfScan
    <3>4. store.total_counts = CountAll(store)
      BY <1>1 DEF SummaryInv, TotalIsSum, CountAll
    <3> QED BY <1>2, <3>3, <3>4
  <2>3. ~GoesOn /\ scan.counts \in Int
    BY DEF ScanReturns, SummaryInv, ContentsInv, IInv, TypeOK
  <2> QED BY <1>1, <2>1, <2>2, <2>3 DEF GoesOn
<1>4. k \in Int
  BY <1>1, <1>2, StoreFields
<1>5. /\ CountBelow(store, k) = Mass(live, HomeBelow(store, id_map, Stored, k))
      /\ CountUpTo(store, k) = Mass(live, HomeUpTo(store, id_map, Stored, k))
  <2>1. \A y \in Stored : live[y] \in Nat
    BY <1>1, SidesOfItems
  <2> QED BY <1>1, <1>4, <2>1, SidesOfItems, ItemsAround
<1>6. Lo \in SUBSET Items /\ Hi \in SUBSET Items
  BY SidesOfItems DEF HomeBelow, HomeUpTo
<1>7. ASSUME NEW D \in SUBSET Stored
      PROVE  Mass(live, Zeros \cup D) = zero_bucket + Mass(live, D)
  <2>1. IsFiniteSet(D) /\ Zeros \cap D = {} /\ \A y \in Zeros \cup D : live[y] \in Nat
    BY <1>1, SidesOfItems, FS_Subset
  <2>2. Mass(live, Zeros \cup D) = Mass(live, Zeros) + Mass(live, D)
    BY <2>1, SidesOfItems, MassDisjoint
  <2> QED BY <2>2, ItemsOfSketch
<1>8. Mass(live, Lo) <= r /\ r < Mass(live, Hi)
  BY <1>2, <1>3, <1>5, <1>7 DEF HomeBelow, HomeUpTo
<1> HIDE DEF k, r
<1>9. PICK y \in Hi : live[y] > 0 /\ ~Before(y, x)
  <2> HIDE DEF Hi
  <2> QED BY <1>1, <1>6, <1>8, ItemsOfSketch, NotAllBelow DEF r
<1>10. PICK z \in Items \ Lo : live[z] > 0 /\ ~Before(x, z)
  <2> HIDE DEF Lo
  <2> QED BY <1>1, <1>6, <1>8, ItemsOfSketch, NotAllAbove DEF r
<1>11. /\ x.log \in Int /\ x.sign \in {-1, 0, 1} /\ z.log \in Int /\ y.log \in Int
  BY <1>6, <1>9, <1>10, ItemsOfSketch
<1>12. /\ z \in Stored /\ z.sign = 1 /\ ~(Home(store, id_map, z) < k)
  BY <1>10, ItemsOfSketch DEF HomeBelow, Stored
<1>13. x.sign = 1 /\ z.log <= x.log
  BY <1>10, <1>11, <1>12 DEF Before
<1>14. y \in Stored /\ y.sign = 1 /\ Home(store, id_map, y) <= k /\ x.log <= y.log
  <2>1. y \notin Zeros
    BY <1>9, <1>13 DEF Before, Zeros
  <2> QED BY <1>9, <1>11, <1>13, <2>1 DEF Before, HomeUpTo, Stored
<1>15. /\ Home(store, id_map, z) <= Home(store, id_map, x)
       /\ Home(store, id_map, x) <= Home(store, id_map, y)
       /\ Home(store, id_map, x) \in Int /\ Home(store, id_map, y) \in Int
       /\ Home(store, id_map, z) \in Int
  BY <1>1, <1>11, <1>13, <1>14, HomeOrder, HomeIs
<1> QED BY <1>4, <1>12, <1>13, <1>14, <1>15 DEF k

LEMMA ScanIsSummarised ==
  ASSUME SummaryInv, ScanReturns
  PROVE  Summary!Next
<1> DEFINE accurate == ~InCollapsedBucket(scan.bid)
<1>1. /\ UNCHANGED <<store, id_map, live>>
      /\ answer' = [rank |-> scan.rank, sign |-> 1, bid |-> scan.bid, is_accurate |-> accurate]
  BY DEF ScanReturns, Answer, sketch
<1>2. /\ IInv /\ IsStore(store) /\ CollapseStateOK(store) /\ id_map \in Mapping
  BY DEF SummaryInv, ContentsInv, IInv, TypeOK, CollapsedConsistent
<1>3. accurate \in BOOLEAN
  BY DEF InCollapsedBucket
<1>4. store.store_type \in {UNBOUNDED_MAPSTORE, COLLAPSINGALL_MAPSTORE} => accurate
  BY DEF InCollapsedBucket, UNBOUNDED_MAPSTORE, COLLAPSINGALL_MAPSTORE, COLLAPSINGHIGH_MAPSTORE,
    COLLAPSINGLOW_MAPSTORE
<1>5. ASSUME NEW x \in Items, IsAtRank(live, x, scan.rank)
      PROVE  LET own == BucketId(id_map, x.log)
             IN  /\ x.sign = 1 /\ own \in Int /\ scan.bid \in Int
                 /\ accurate => own = scan.bid
                 /\ own # scan.bid =>
                      \/ store.store_type = COLLAPSINGHIGH_MAPSTORE /\ scan.bid <= own
                      \/ store.store_type = COLLAPSINGLOW_MAPSTORE /\ own <= scan.bid
  <2>1. x.sign = 1 /\ Home(store, id_map, x) = scan.bid
    BY <1>5, ScanFinds
  <2>2. x.log \in Int
    BY ItemsOfSketch
  <2> QED BY <1>2, <2>1, <2>2, HomeUnderPolicy DEF InCollapsedBucket, num_collapses
<1> HIDE DEF accurate
<1> QED BY <1>1, <1>2, <1>3, <1>4, <1>5, Replies

LEMMA StepIsSummarised ==
  ASSUME RemoveOnlyLive
  PROVE  SummaryInv /\ [Next]_vars => Summary!Next \/ UNCHANGED shown
<1> SUFFICES ASSUME SummaryInv, [Next]_vars PROVE Summary!Next \/ UNCHANGED shown
  OBVIOUS
<1>1. ASSUME NEW x \in Items, NEW c \in Counts,
             \/ UpdateIgnored(x) \/ InsertZero(x, c) \/ RemoveZero(x, c)
             \/ InsertStored(x, c) \/ RemoveStored(x, c)
      PROVE  Summary!Next \/ UNCHANGED shown
  BY <1>1, UpdateIsSummarised
<1>2. ASSUME NEW rank \in Ranks, AskZero(rank) PROVE Summary!Next
  BY <1>2, ZeroIsSummarised
<1>3. ASSUME NEW rank \in Ranks, AskStore(rank) PROVE Summary!Next \/ UNCHANGED shown
  <2>1. CASE Crash
    BY <2>1 DEF Crash, sketch, shown
  <2>2. CASE answer' = NoAnswer /\ UNCHANGED <<sketch, live>>
    BY <2>2 DEF sketch, Summary!Next, Summary!Forget, Summary!NoAnswer, NoAnswer
  <2> QED BY <1>3, <2>1, <2>2 DEF AskStore
<1>4. CASE MakeRoom
  BY <1>4, MakeRoomIsSummarised
<1>5. CASE InsertReturns
  <2>1. IsStore(store) /\ pending \in Int
    BY DEF SummaryInv, ContentsInv, IInv, TypeOK
  <2> QED BY <1>5, <2>1, AddTotalIsStore DEF InsertReturns, shown
<1>6. CASE ScanNext
  BY <1>6 DEF ScanNext, sketch, shown
<1>7. CASE ScanReturns
  BY <1>7, ScanIsSummarised
<1>8. CASE UNCHANGED vars
  BY <1>8 DEF vars, shown
<1> QED BY <1>1, <1>2, <1>3, <1>4, <1>5, <1>6, <1>7, <1>8 DEF Next, Update, Query, Loop

\* As long as callers remove only what is present, everything that users see of the
\* sketch is allowed by the abstract summary: an answer flagged accurate is the bucket of
\* the item at the rank asked for, another errs only to the side of the policy, and gamma
\* is squared only when the items need more buckets than allowed.
THEOREM SummaryIsImplemented ==
  ASSUME RemoveOnlyLive
  PROVE  Spec => ImplementsSummary
<1>1. SummaryInv /\ [Next]_vars => [Summary!Next]_Summary!vars
  BY StepIsSummarised DEF Summary!vars, shown
<1> QED BY <1>1, SummaryInit, SummaryInvHolds, PTL DEF Spec, ImplementsSummary, Summary!Spec

===================================================================================
