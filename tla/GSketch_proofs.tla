------------------------------ MODULE GSketch_proofs ------------------------------
(***************************************************************************)
(* Proofs about GSketch, for every set of items and every set of policies. *)
(***************************************************************************)
EXTENDS GSketch, StoreContents_proofs

\* Each policy has its own loop, and the uniform collapse runs only while there
\* are too many buckets.
LoopOfPolicy ==
  /\ pc \in {"shrink_first", "shrink_second"} =>
       store_type \in {COLLAPSINGHIGH_MAPSTORE, COLLAPSINGLOW_MAPSTORE}
  /\ pc = "collapse_all" => store_type = COLLAPSINGALL_MAPSTORE /\ size > max_sketch_size

\* The inductive invariant behind the bound and the collapsed state.
IInv == TypeOK /\ CollapsedConsistent /\ SizeBound /\ LoopOfPolicy

----------------------------------------------------------------------------
(* What the parts of the state are *)

\* One of the two stores, as IInv describes it.
SoundStore(st, type) == IsStore(st) /\ CollapseStateOK(st) /\ st.store_type = type

LEMMA StoresAreSound ==
  ASSUME IInv
  PROVE  /\ SoundStore(postore, PostoreType(store_type))
         /\ SoundStore(nestore, NestoreType(store_type))
         /\ NumBuckets(postore) \in Nat /\ NumBuckets(nestore) \in Nat
         /\ postore.total_counts \in Int /\ nestore.total_counts \in Int
         /\ id_map \in Mapping /\ id_map.type = LOG_UPPER
         /\ store_type \in StoreType /\ max_sketch_size \in Nat /\ zero_bucket \in Nat
         /\ live \in [Items -> Nat] /\ removed \in BOOLEAN
         /\ scan \in [sign : {-1, 0, 1}, asked : Int, rank : Int, bid : Int, counts : Int]
         /\ answer \in [rank : Int, sign : {-1, 0, 1}, bid : Int, is_accurate : BOOLEAN]
BY StoreFields DEF IInv, TypeOK, CollapsedConsistent, SoundStore

LEMMA TypesOfStores ==
  ASSUME NEW type \in StoreType
  PROVE  PostoreType(type) \in StoreType /\ NestoreType(type) \in StoreType
BY DEF PostoreType, NestoreType, StoreType

LEMMA AnswersAreTyped ==
  /\ NoAnswer \in [rank : Int, sign : {-1, 0, 1}, bid : Int, is_accurate : BOOLEAN]
  /\ NoScan \in [sign : {-1, 0, 1}, asked : Int, rank : Int, bid : Int, counts : Int]
BY DEF NoAnswer, NoScan

LEMMA ItemFacts ==
  ASSUME NEW x \in Items
  PROVE  x.log \in Int /\ x.sign \in {-1, 0, 1}
BY ItemsAssumption DEF IsItem

----------------------------------------------------------------------------
(* The inductive invariant *)

LEMMA InitEstablishes == Init => IInv
<1> SUFFICES ASSUME Init PROVE IInv
  OBVIOUS
<1>1. PICK p \in Policies : Created(p[1], p[2], Grain)
  BY DEF Init
<1>2. p[1] \in StoreType /\ p[2] \in Nat /\ store_type = p[1] /\ max_sketch_size = p[2]
  BY <1>1, PolicyAssumption DEF Created
<1>3. /\ postore = NewStore(PostoreType(store_type), TRUE, 0)
      /\ nestore = NewStore(NestoreType(store_type), TRUE, 0)
      /\ PostoreType(store_type) \in StoreType /\ NestoreType(store_type) \in StoreType
      /\ TRUE \in BOOLEAN /\ 0 \in Nat
  BY <1>1, <1>2, TypesOfStores DEF Created
<1>4. /\ IsStore(postore) /\ CollapseStateOK(postore) /\ NumBuckets(postore) = 0
      /\ postore.store_type = PostoreType(store_type)
  BY <1>3, NewStoreIsStore
<1>5. /\ IsStore(nestore) /\ CollapseStateOK(nestore) /\ NumBuckets(nestore) = 0
      /\ nestore.store_type = NestoreType(store_type)
  BY <1>3, NewStoreIsStore
<1>6. id_map \in Mapping /\ id_map.type = LOG_UPPER
  BY <1>1, GrainAssumption DEF Created, NewMapping, Mapping, MappingType
<1>7. /\ zero_bucket \in Nat /\ pc = "ready" /\ removed = FALSE
      /\ live \in [Items -> Nat] /\ scan = NoScan /\ answer = NoAnswer
  BY <1>1 DEF Created
<1>8. TypeOK
  BY <1>2, <1>4, <1>5, <1>6, <1>7, AnswersAreTyped DEF TypeOK
<1>9. size = 0 /\ 0 <= max_sketch_size
  BY <1>2, <1>4, <1>5 DEF size
<1> QED BY <1>4, <1>5, <1>7, <1>8, <1>9 DEF IInv, CollapsedConsistent, SizeBound, LoopOfPolicy

\* A call that leaves the stores alone and neither enters nor leaves a loop that
\* makes room.
LEMMA StoresUntouched ==
  ASSUME IInv, UNCHANGED <<config, stores, id_map>>,
         pc \in {"ready", "scan"}, pc' \in {"ready", "scan", "crashed"},
         zero_bucket' \in Nat, live' \in [Items -> Nat], removed' \in BOOLEAN,
         scan' \in [sign : {-1, 0, 1}, asked : Int, rank : Int, bid : Int, counts : Int],
         answer' \in [rank : Int, sign : {-1, 0, 1}, bid : Int, is_accurate : BOOLEAN]
  PROVE  IInv'
BY DEF IInv, TypeOK, CollapsedConsistent, SizeBound, LoopOfPolicy, config, stores, size

\* An update ends where UpdateEnds sends it, whatever it did to the stores.
LEMMA UpdatePreserves ==
  ASSUME IInv, UpdateEnds,
         SoundStore(postore', PostoreType(store_type)),
         SoundStore(nestore', NestoreType(store_type)),
         zero_bucket' \in Nat, live' \in [Items -> Nat], removed' \in BOOLEAN
  PROVE  IInv'
<1>1. /\ UNCHANGED <<store_type, max_sketch_size, id_map, scan>> /\ answer' = NoAnswer
      /\ pc' = AfterUpdate(postore', nestore')
  BY DEF UpdateEnds, config
<1>2. pc' \in {"ready", "collapse_all", "shrink_first"}
  BY <1>1 DEF AfterUpdate
<1>3. TypeOK'
  BY <1>1, <1>2, AnswersAreTyped DEF IInv, TypeOK, SoundStore
<1>4. CollapsedConsistent'
  BY DEF CollapsedConsistent, SoundStore
<1>5. NumBuckets(postore') \in Nat /\ NumBuckets(nestore') \in Nat /\ max_sketch_size \in Nat
      /\ store_type \in StoreType
  BY StoreFields DEF SoundStore, IInv, TypeOK
<1>6. size' = NumBuckets(postore') + NumBuckets(nestore')
  BY <1>5 DEF size
<1>7. SizeBound'
  BY <1>1, <1>5, <1>6 DEF SizeBound, AfterUpdate
<1>8. LoopOfPolicy'
  BY <1>1, <1>2, <1>5, <1>6 DEF LoopOfPolicy, AfterUpdate, StoreType
<1> QED BY <1>3, <1>4, <1>7, <1>8 DEF IInv

\* A store, once an item has gone into it.
LEMMA InsertedIsSound ==
  ASSUME IInv, NEW x \in Items, NEW c \in Counts, NEW st, NEW type, SoundStore(st, type)
  PROVE  /\ SoundStore(Inserted(st, x, c), type)
         /\ Inserted(st, x, c).buckets = InsertItem(st, BucketId(id_map, x.log), c).buckets
         /\ Inserted(st, x, c).total_counts = st.total_counts + c
         /\ Inserted(st, x, c).is_collapsed = st.is_collapsed
         /\ Inserted(st, x, c).num_collapses = st.num_collapses
         /\ Bids(Inserted(st, x, c)) # {}
<1> DEFINE bid == BucketId(id_map, x.log)
           one == InsertItem(st, bid, c)
<1>1. IsStore(st) /\ CollapseStateOK(st) /\ st.store_type = type /\ ~InsertReadsNull(st)
  BY DEF SoundStore, CollapseStateOK
<1>2. c \in Nat \ {0} /\ c \in Int /\ bid \in Int
  BY CountsAssumption, ItemFacts, StoresAreSound, BucketIdIsInt
<1>3. Inserted(st, x, c) = AddTotal(one, c)
  BY DEF Inserted
<1> HIDE DEF bid
<1>4. /\ IsStore(one) /\ one.store_type = st.store_type
      /\ one.is_collapsed = st.is_collapsed /\ one.num_collapses = st.num_collapses
      /\ one.total_counts = st.total_counts
  BY <1>1, <1>2, InsertItemIsStore
<1>5. CollapseStateOK(one) /\ ~IsEmpty(one)
  BY <1>1, <1>2, InsertKeepsStateOK
<1> DEFINE after == AddTotal(one, c)
<1>6. /\ IsStore(after) /\ after.store_type = st.store_type /\ after.buckets = one.buckets
      /\ after.is_collapsed = one.is_collapsed /\ after.num_collapses = one.num_collapses
      /\ after.total_counts = st.total_counts + c
  BY <1>2, <1>4, AddTotalIsStore
<1> HIDE DEF after, one
<1>7. CollapseStateOK(after) /\ Bids(after) # {}
  BY <1>4, <1>5, <1>6
  DEF CollapseStateOK, InsertReadsNull, IsEmpty, Bids, CollapsedHigh, CollapsedLow
<1> QED BY <1>1, <1>3, <1>4, <1>6, <1>7 DEF SoundStore, after, one, bid

LEMMA InsertPreserves ==
  ASSUME IInv, NEW x \in Items, NEW c \in Counts, InsertStored(x, c)
  PROVE  IInv'
<1>1. c \in Nat
  BY CountsAssumption
<1>2. live' \in [Items -> Nat] /\ zero_bucket' \in Nat /\ removed' \in BOOLEAN /\ UpdateEnds
  BY <1>1, StoresAreSound, LiveStaysTyped DEF InsertStored
<1>3. /\ SoundStore(postore', PostoreType(store_type))
      /\ SoundStore(nestore', NestoreType(store_type))
  <2>1. CASE postore' = Inserted(postore, x, c) /\ UNCHANGED nestore
    BY <2>1, StoresAreSound, InsertedIsSound
  <2>2. CASE nestore' = Inserted(nestore, x, c) /\ UNCHANGED postore
    BY <2>2, StoresAreSound, InsertedIsSound
  <2> QED BY <2>1, <2>2 DEF InsertStored
<1> QED BY <1>2, <1>3, UpdatePreserves

LEMMA RemovedIsSound ==
  ASSUME IInv, NEW x \in Items, NEW c \in Counts, NEW st, NEW type, SoundStore(st, type),
         ~RemoveReadsNull(st)
  PROVE  SoundStore(Removed(st, x, c), type)
<1>1. c \in Nat \ {0} /\ BucketId(id_map, x.log) \in Int
  BY CountsAssumption, ItemFacts, StoresAreSound, BucketIdIsInt
<1> QED BY <1>1, RemoveItemStays DEF SoundStore, Removed

LEMMA RemovePreserves ==
  ASSUME IInv, NEW x \in Items, NEW c \in Counts, RemoveStored(x, c)
  PROVE  IInv'
<1>1. CASE RemoveReadsNull(StoreOf(x)) /\ Crash
  BY <1>1, StoresUntouched, StoresAreSound DEF Crash, RemoveStored, config, stores
<1>2. CASE /\ ~RemoveReadsNull(StoreOf(x)) /\ UpdateEnds
           /\ IF x \in Positive
              THEN postore' = Removed(postore, x, c) /\ UNCHANGED nestore
              ELSE nestore' = Removed(nestore, x, c) /\ UNCHANGED postore
           /\ live' = Lost(live, x, c) /\ removed' = TRUE /\ UNCHANGED zero_bucket
  <2>1. c \in Nat
    BY CountsAssumption
  <2>2. live' \in [Items -> Nat] /\ zero_bucket' \in Nat /\ removed' \in BOOLEAN
    BY <1>2, <2>1, StoresAreSound, LiveStaysTyped
  <2>3. /\ SoundStore(postore', PostoreType(store_type))
        /\ SoundStore(nestore', NestoreType(store_type))
    <3>1. CASE x \in Positive
      BY <1>2, <3>1, StoresAreSound, RemovedIsSound DEF StoreOf
    <3>2. CASE x \notin Positive
      BY <1>2, <3>2, StoresAreSound, RemovedIsSound DEF StoreOf
    <3> QED BY <3>1, <3>2
  <2> QED BY <1>2, <2>2, <2>3, UpdatePreserves
<1> QED BY <1>1, <1>2 DEF RemoveStored

LEMMA ZeroPreserves ==
  ASSUME IInv, NEW x \in Items, NEW c \in Counts, InsertZero(x, c) \/ RemoveZero(x, c)
  PROVE  IInv'
<1>1. c \in Nat
  BY CountsAssumption
<1>2. live' \in [Items -> Nat] /\ zero_bucket' \in Nat /\ removed' \in BOOLEAN
  <2>1. zero_bucket \in Nat /\ live \in [Items -> Nat] /\ removed \in BOOLEAN
    BY StoresAreSound
  <2>2. live' \in [Items -> Nat]
    BY <1>1, <2>1, LiveStaysTyped DEF InsertZero, RemoveZero
  <2>3. zero_bucket' \in Nat
    BY <1>1, <2>1 DEF InsertZero, RemoveZero
  <2>4. removed' \in BOOLEAN
    BY <2>1 DEF InsertZero, RemoveZero
  <2> QED BY <2>2, <2>3, <2>4
<1>3. UpdateEnds /\ UNCHANGED <<postore, nestore>>
  BY DEF InsertZero, RemoveZero, stores
<1> QED BY <1>2, <1>3, StoresAreSound, UpdatePreserves

LEMMA IgnoredPreserves ==
  ASSUME IInv, NEW x \in Items, UpdateIgnored(x)
  PROVE  IInv'
<1>1. UpdateEnds /\ UNCHANGED <<postore, nestore, zero_bucket, live, removed>>
  BY DEF UpdateIgnored, stores
<1> QED BY <1>1, StoresAreSound, UpdatePreserves

\* One pass over a store: it stays sound, and what counts its items and its
\* collapses moves as collapse_impl says.
LEMMA CollapsedIsSound ==
  ASSUME IInv, NEW st, NEW type, SoundStore(st, type)
  PROVE  /\ SoundStore(Collapse(st, id_map), type)
         /\ Collapse(st, id_map).total_counts = st.total_counts
         /\ IsEmpty(Collapse(st, id_map)) => IsEmpty(st)
BY StoresAreSound, CollapseIsStore, CollapseKeepsStateOK DEF SoundStore

\* The passes that merge at an end.
LEMMA EndsPreserve ==
  ASSUME IInv, ShrinkFirst \/ ShrinkSecond
  PROVE  IInv'
<1>1. /\ UNCHANGED <<store_type, max_sketch_size, id_map, zero_bucket, pc, scan, answer, live, removed>>
      /\ pc \in {"shrink_first", "shrink_second"}
  BY DEF ShrinkFirst, ShrinkSecond, config
<1>2. \/ postore' = Collapse(postore, id_map) /\ nestore' = nestore
      \/ nestore' = Collapse(nestore, id_map) /\ postore' = postore
  BY DEF ShrinkFirst, ShrinkSecond, SetFirst, SetSecond, first, second
<1>3. /\ SoundStore(postore', PostoreType(store_type))
      /\ SoundStore(nestore', NestoreType(store_type))
  BY <1>2, StoresAreSound, CollapsedIsSound
<1>4. TypeOK' /\ CollapsedConsistent'
  BY <1>1, <1>3 DEF IInv, TypeOK, CollapsedConsistent, SoundStore
<1>5. SizeBound' /\ LoopOfPolicy'
  BY <1>1 DEF IInv, SizeBound, LoopOfPolicy
<1> QED BY <1>4, <1>5 DEF IInv

\* The ends of the loops that merge at an end: the second loop runs only when the
\* first cannot be enough, and either ends only when both stores fit.
LEMMA EndsReturn ==
  ASSUME IInv, FirstShrunk \/ SecondShrunk
  PROVE  IInv'
<1>1. UNCHANGED <<store_type, max_sketch_size, postore, nestore, id_map, zero_bucket,
                  scan, answer, live, removed>>
  BY DEF FirstShrunk, SecondShrunk, config, stores
<1>2. /\ pc' \in {"ready", "shrink_second"} /\ pc \in {"shrink_first", "shrink_second"}
  BY DEF FirstShrunk, SecondShrunk
<1>3. TypeOK' /\ CollapsedConsistent'
  BY <1>1, <1>2 DEF IInv, TypeOK, CollapsedConsistent
<1>4. pc' = "ready" => size <= max_sketch_size
  <2>1. NumBuckets(postore) \in Nat /\ NumBuckets(nestore) \in Nat /\ max_sketch_size \in Nat
    BY StoresAreSound
  <2>2. size = NumBuckets(first) + NumBuckets(second)
        /\ NumBuckets(first) \in Nat /\ NumBuckets(second) \in Nat
    BY <2>1 DEF size, first, second
  <2> QED BY <2>1, <2>2 DEF FirstShrunk, SecondShrunk, FirstLength, FirstIsEnough, SecondLength
<1>5. SizeBound' /\ LoopOfPolicy'
  BY <1>1, <1>2, <1>4 DEF IInv, SizeBound, LoopOfPolicy, size
<1> QED BY <1>3, <1>5 DEF IInv

LEMMA HalvedIsSound ==
  ASSUME IInv, NEW st, NEW type, SoundStore(st, type)
  PROVE  /\ SoundStore(Halved(st), type)
         /\ Halved(st).total_counts = st.total_counts
         /\ IsEmpty(Halved(st)) => IsEmpty(st)
BY CollapsedIsSound DEF Halved

LEMMA AllPreserves ==
  ASSUME IInv, CollapseAll
  PROVE  IInv'
<1>1. /\ UNCHANGED <<store_type, max_sketch_size, zero_bucket, scan, answer, live, removed>>
      /\ pc = "collapse_all" /\ pc' \in {"ready", "collapse_all"}
      /\ postore' = Halved(postore) /\ nestore' = Halved(nestore)
      /\ id_map' = SquareGamma(id_map)
      /\ pc' = "collapse_all" <=> NumBuckets(nestore') + NumBuckets(postore') > max_sketch_size
  BY DEF CollapseAll, config
<1>2. /\ SoundStore(postore', PostoreType(store_type))
      /\ SoundStore(nestore', NestoreType(store_type))
  BY <1>1, StoresAreSound, HalvedIsSound
<1>3. id_map' \in Mapping /\ id_map'.type = LOG_UPPER
  BY <1>1, StoresAreSound, SquareGammaIsMapping
<1>4. TypeOK' /\ CollapsedConsistent'
  BY <1>1, <1>2, <1>3 DEF IInv, TypeOK, CollapsedConsistent, SoundStore
<1>5. NumBuckets(postore') \in Nat /\ NumBuckets(nestore') \in Nat /\ max_sketch_size \in Nat
  BY <1>2, StoreFields, StoresAreSound DEF SoundStore
<1>6. SizeBound' /\ LoopOfPolicy'
  BY <1>1, <1>5 DEF IInv, SizeBound, LoopOfPolicy, size
<1> QED BY <1>4, <1>6 DEF IInv

\* A step of a scan goes to a bucket id.
LEMMA NeighboursAreInts ==
  ASSUME NEW st, IsStore(st), NEW bid \in Int
  PROVE  /\ NextBid(st, bid) \in Int /\ PrevBid(st, bid) \in Int
         /\ BucketCount(st, NextBid(st, bid)) \in Int
         /\ BucketCount(st, PrevBid(st, bid)) \in Int
<1>1. Bids(st) \in SUBSET Int /\ IsFiniteSet(Bids(st)) /\ IsDict(st.buckets)
  BY StoreFields
<1>2. NextBid(st, bid) \in Int
  <2> DEFINE above == {b \in Bids(st) : b > bid}
  <2>1. above \in SUBSET Int /\ IsFiniteSet(above)
    BY <1>1, FS_Subset
  <2>2. above # {} => Min(above) \in Int
    BY <2>1, MinIsLeast
  <2> QED BY <2>2 DEF NextBid
<1>3. PrevBid(st, bid) \in Int
  <2> DEFINE below == {b \in Bids(st) : b < bid}
  <2>1. below \in SUBSET Int /\ IsFiniteSet(below)
    BY <1>1, FS_Subset
  <2>2. below # {} => Max(below) \in Int
    BY <2>1, MaxIsGreatest
  <2> QED BY <2>2 DEF PrevBid
<1>4. \A b : BucketCount(st, b) \in Int
  BY <1>1 DEF BucketCount, IsDict, Bids
<1> QED BY <1>2, <1>3, <1>4

LEMMA RanksAreInts ==
  ASSUME IInv, NEW rank \in Ranks
  PROVE  rank \in Int
<1>1. total_count \in Int
  BY StoresAreSound DEF total_count
<1> QED BY <1>1 DEF Ranks

LEMMA StartPreserves ==
  ASSUME IInv, pc = "ready", NEW st, IsStore(st), ~IsEmpty(st), NEW sign \in {-1, 1},
         NEW asked \in Int, NEW rank \in Int, StartScan(st, sign, asked, rank)
  PROVE  IInv'
<1> DEFINE bid == IF Upwards(st, rank) THEN MinBid(st) ELSE MaxBid(st)
           counts == IF Upwards(st, rank) THEN BucketCount(st, bid)
                     ELSE st.total_counts - BucketCount(st, bid)
<1>1. MinBid(st) \in Int /\ MaxBid(st) \in Int /\ st.total_counts \in Int
  BY EndsAreBuckets, StoreFields
<1>2. \A b : BucketCount(st, b) \in Int
  BY StoreFields DEF BucketCount, IsDict, Bids
<1>3. bid \in Int
  BY <1>1
<1>4. counts \in Int
  <2> HIDE DEF bid
  <2> QED BY <1>1, <1>2
<1>5. scan' = [sign |-> sign, asked |-> asked, rank |-> rank, bid |-> bid, counts |-> counts]
      /\ pc' = "scan" /\ answer' = NoAnswer
      /\ UNCHANGED <<config, stores, id_map, zero_bucket, live, removed>>
  BY DEF StartScan
<1> HIDE DEF bid, counts
<1>6. scan' \in [sign : {-1, 0, 1}, asked : Int, rank : Int, bid : Int, counts : Int]
  BY <1>3, <1>4, <1>5
<1> QED BY <1>5, <1>6, AnswersAreTyped, StoresAreSound, StoresUntouched

\* A query reads the sketch and never changes it.
LEMMA QueryPreserves ==
  ASSUME IInv, NEW rank \in Ranks, AskNegative(rank) \/ AskZero(rank) \/ AskPositive(rank)
  PROVE  IInv'
<1>1. /\ rank \in Int /\ netotcount \in Int /\ zero_bucket \in Int /\ pc = "ready"
      /\ IsStore(postore) /\ IsStore(nestore)
  <2>1. rank \in Int
    BY RanksAreInts
  <2>2. /\ nestore.total_counts \in Int /\ zero_bucket \in Nat
        /\ IsStore(postore) /\ IsStore(nestore)
    BY StoresAreSound DEF SoundStore
  <2>3. pc = "ready"
    BY DEF AskNegative, AskZero, AskPositive, MayAsk
  <2> QED BY <2>1, <2>2, <2>3 DEF netotcount
<1>2. CASE AskZero(rank)
  <2>1. answer' \in [rank : Int, sign : {-1, 0, 1}, bid : Int, is_accurate : BOOLEAN]
    BY <1>1, <1>2 DEF AskZero, Answer
  <2> QED BY <1>1, <1>2, <2>1, StoresAreSound, StoresUntouched DEF AskZero
<1>3. CASE Crash
  BY <1>1, <1>3, StoresAreSound, StoresUntouched DEF Crash
<1>4. CASE AskNegative(rank) /\ ~IsEmpty(nestore)
  <2>1. StartScan(nestore, -1, rank, netotcount - rank - 1)
    BY <1>4 DEF AskNegative
  <2>2. netotcount - rank - 1 \in Int
    BY <1>1
  <2> QED BY <1>1, <1>4, <2>1, <2>2, StartPreserves
<1>5. CASE AskPositive(rank) /\ ~IsEmpty(postore)
  <2>1. StartScan(postore, 1, rank, rank - netotcount - zero_bucket)
    BY <1>5 DEF AskPositive
  <2>2. rank - netotcount - zero_bucket \in Int
    BY <1>1
  <2> QED BY <1>1, <1>5, <2>1, <2>2, StartPreserves
<1> QED BY <1>2, <1>3, <1>4, <1>5 DEF AskNegative, AskPositive

LEMMA ScanPreserves ==
  ASSUME IInv, ScanUp \/ ScanDown \/ ScanReturns
  PROVE  IInv'
<1>1. /\ IsStore(scanned) /\ pc = "scan"
      /\ scan.sign \in {-1, 0, 1} /\ scan.asked \in Int /\ scan.rank \in Int
      /\ scan.bid \in Int /\ scan.counts \in Int
      /\ scan \in [sign : {-1, 0, 1}, asked : Int, rank : Int, bid : Int, counts : Int]
  BY StoresAreSound DEF scanned, SoundStore, ScanUp, ScanDown, ScanReturns
<1>2. ASSUME NEW bid \in Int, NEW counts \in Int,
             scan' = [scan EXCEPT !.bid = bid, !.counts = counts],
             UNCHANGED <<config, stores, id_map, zero_bucket, pc, answer, live, removed>>
      PROVE  IInv'
  <2>1. scan' \in [sign : {-1, 0, 1}, asked : Int, rank : Int, bid : Int, counts : Int]
    BY <1>1, <1>2
  <2> QED BY <1>1, <1>2, <2>1, StoresAreSound, StoresUntouched
<1>3. CASE ScanUp
  <2> DEFINE bid == NextBid(scanned, scan.bid)
  <2>1. bid \in Int /\ scan.counts + BucketCount(scanned, bid) \in Int
    BY <1>1, NeighboursAreInts
  <2>2. scan' = [scan EXCEPT !.bid = bid, !.counts = scan.counts + BucketCount(scanned, bid)]
    BY <1>3 DEF ScanUp
  <2> HIDE DEF bid
  <2> QED BY <1>2, <1>3, <2>1, <2>2 DEF ScanUp
<1>4. CASE ScanDown
  <2> DEFINE bid == PrevBid(scanned, scan.bid)
  <2>1. bid \in Int /\ scan.counts - BucketCount(scanned, bid) \in Int
    BY <1>1, NeighboursAreInts
  <2>2. scan' = [scan EXCEPT !.bid = bid, !.counts = scan.counts - BucketCount(scanned, bid)]
    BY <1>4 DEF ScanDown
  <2> HIDE DEF bid
  <2> QED BY <1>2, <1>4, <2>1, <2>2 DEF ScanDown
<1>5. CASE ScanReturns
  <2>1. InCollapsedBucket(scanned, scan.sign, scan.bid) \in BOOLEAN
    BY DEF InCollapsedBucket
  <2>2. answer' \in [rank : Int, sign : {-1, 0, 1}, bid : Int, is_accurate : BOOLEAN]
    BY <1>1, <1>5, <2>1 DEF ScanReturns, Answer
  <2> QED BY <1>1, <1>5, <2>2, AnswersAreTyped, StoresAreSound, StoresUntouched DEF ScanReturns
<1> QED BY <1>3, <1>4, <1>5

LEMMA StepPreserves == IInv /\ [Next]_vars => IInv'
<1> SUFFICES ASSUME IInv, [Next]_vars PROVE IInv'
  OBVIOUS
<1>1. ASSUME NEW x \in Items, UpdateIgnored(x) PROVE IInv'
  BY <1>1, IgnoredPreserves
<1>2. ASSUME NEW x \in Items, NEW c \in Counts, InsertZero(x, c) \/ RemoveZero(x, c) PROVE IInv'
  BY <1>2, ZeroPreserves
<1>3. ASSUME NEW x \in Items, NEW c \in Counts, InsertStored(x, c) PROVE IInv'
  BY <1>3, InsertPreserves
<1>4. ASSUME NEW x \in Items, NEW c \in Counts, RemoveStored(x, c) PROVE IInv'
  BY <1>4, RemovePreserves
<1>5. ASSUME NEW rank \in Ranks, AskNegative(rank) \/ AskZero(rank) \/ AskPositive(rank)
      PROVE  IInv'
  BY <1>5, QueryPreserves
<1>6. CASE ShrinkFirst \/ ShrinkSecond
  BY <1>6, EndsPreserve
<1>7. CASE FirstShrunk \/ SecondShrunk
  BY <1>7, EndsReturn
<1>8. CASE CollapseAll
  BY <1>8, AllPreserves
<1>9. CASE ScanUp \/ ScanDown \/ ScanReturns
  BY <1>9, ScanPreserves
<1>10. CASE UNCHANGED vars
  BY <1>10 DEF vars, IInv, TypeOK, CollapsedConsistent, SizeBound, LoopOfPolicy, size
<1> QED BY <1>1, <1>2, <1>3, <1>4, <1>5, <1>6, <1>7, <1>8, <1>9, <1>10
        DEF Next, Update, Query, Loop, Shrink

LEMMA InvariantHolds == Spec => []IInv
<1> QED BY InitEstablishes, StepPreserves, PTL DEF Spec

----------------------------------------------------------------------------
\* Whatever the items, the policies and the behaviour of callers, every variable
\* keeps the type of the C object it stands for, and each store the policy that
\* dds_gsketch_init gave it.
THEOREM TypeCorrect == Spec => []TypeOK
<1>1. IInv => TypeOK
  BY DEF IInv
<1> QED BY <1>1, InvariantHolds, PTL

\* In both stores the flag and the count of collapses agree, and an insertion never
\* asks an empty store for its end bucket.
THEOREM CollapseStateAgrees == Spec => []CollapsedConsistent
<1>1. IInv => CollapsedConsistent
  BY DEF IInv
<1> QED BY <1>1, InvariantHolds, PTL

\* An update that returns leaves no more buckets in both stores together than were
\* asked for, whichever store the switch of base_update_impl shrank, and although the
\* second one is shrunk only when the first cannot be enough.
THEOREM SizeIsBounded == Spec => []SizeBound
<1>1. IInv => SizeBound
  BY DEF IInv
<1> QED BY <1>1, InvariantHolds, PTL

----------------------------------------------------------------------------
(* What the sketch says of the items, for callers that remove only what is *)
(* present.                                                                *)

\* A store of the items of S: its buckets and its total.
Keeps(st, m, f, S) == HoldsExactly(st, m, f, S) /\ st.total_counts = Mass(f, S)

ZeroExact == zero_bucket = Mass(live, Zeros)

\* Nothing is present that the sketch does not address.
OnlyAddressable == \A y \in Items : ~is_addressable(y) => live[y] = 0

Accounted == /\ Keeps(postore, id_map, live, Positive)
             /\ Keeps(nestore, id_map, live, Negative)
             /\ ZeroExact
             /\ OnlyAddressable

ContentsInv == IInv /\ Accounted

LEMMA SidesOfItems ==
  /\ IsFiniteSet(Positive) /\ Positive \subseteq Items
  /\ IsFiniteSet(Negative) /\ Negative \subseteq Items
  /\ IsFiniteSet(Zeros) /\ Zeros \subseteq Items
  /\ Positive \cap Negative = {} /\ Positive \cap Zeros = {} /\ Negative \cap Zeros = {}
  /\ \A y \in Items : y \in Positive \cup Negative \cup Zeros <=> is_addressable(y)
  /\ \A y \in Items : y.log \in Int
<1>1. Positive \subseteq Items /\ Negative \subseteq Items /\ Zeros \subseteq Items
  BY DEF Positive, Negative, Zeros
<1>2. IsFiniteSet(Positive) /\ IsFiniteSet(Negative) /\ IsFiniteSet(Zeros)
  BY <1>1, ItemsAssumption, FS_Subset
<1>3. Positive \cap Negative = {} /\ Positive \cap Zeros = {} /\ Negative \cap Zeros = {}
  BY DEF Positive, Negative, Zeros
<1>4. \A y \in Items : y \in Positive \cup Negative \cup Zeros <=> is_addressable(y)
  BY ItemFacts DEF Positive, Negative, Zeros, is_addressable
<1> QED BY <1>1, <1>2, <1>3, <1>4, ItemFacts

\* A store that holds nothing of a multiset without items of S.
LEMMA EmptyKeeps ==
  ASSUME NEW st, NEW m, NEW f, NEW S, Bids(st) = {}, \A y \in S : f[y] = 0
  PROVE  HoldsExactly(st, m, f, S)
<1>1. Present(f, S) = {}
  BY DEF Present
<1> QED BY <1>1 DEF HoldsExactly

\* A side of the sketch that an update of x on another side leaves alone.
LEMMA OtherSideKeeps ==
  ASSUME NEW st, NEW m, NEW f, NEW g, NEW S, Keeps(st, m, f, S), \A y \in S : g[y] = f[y]
  PROVE  Keeps(st, m, g, S)
BY SameItems, MassSame DEF Keeps

LEMMA ContentsInit == Init => ContentsInv
<1> SUFFICES ASSUME Init PROVE ContentsInv
  OBVIOUS
<1>1. PICK p \in Policies : Created(p[1], p[2], Grain)
  BY DEF Init
<1>2. /\ postore.buckets = EmptyDict /\ postore.total_counts = 0
      /\ nestore.buckets = EmptyDict /\ nestore.total_counts = 0
      /\ zero_bucket = 0 /\ \A y \in Items : live[y] = 0
  BY <1>1 DEF Created, NewStore
<1>3. Bids(postore) = {} /\ Bids(nestore) = {}
  BY <1>2 DEF Bids, EmptyDict
<1>4. Mass(live, Positive) = 0 /\ Mass(live, Negative) = 0 /\ Mass(live, Zeros) = 0
  BY <1>2, SidesOfItems, MassOfAbsent
<1>5. HoldsExactly(postore, id_map, live, Positive)
  BY <1>2, <1>3, SidesOfItems, EmptyKeeps
<1>6. HoldsExactly(nestore, id_map, live, Negative)
  BY <1>2, <1>3, SidesOfItems, EmptyKeeps
<1> QED BY <1>2, <1>4, <1>5, <1>6, InitEstablishes
        DEF ContentsInv, Accounted, Keeps, ZeroExact, OnlyAddressable

LEMMA LiveOnSides ==
  ASSUME ContentsInv
  PROVE  /\ live \in [Items -> Nat]
         /\ \A y \in Positive : live[y] \in Nat
         /\ \A y \in Negative : live[y] \in Nat
         /\ \A y \in Zeros : live[y] \in Nat
BY StoresAreSound, SidesOfItems DEF ContentsInv

\* The side that an item goes to, and the side it is taken from.
LEMMA InsertedKeeps ==
  ASSUME ContentsInv, NEW S, S \in {Positive, Negative}, NEW x \in S, NEW c \in Counts,
         NEW st, NEW type, SoundStore(st, type), Keeps(st, id_map, live, S)
  PROVE  Keeps(Inserted(st, x, c), id_map, Gained(live, x, c), S)
<1> DEFINE bid == BucketId(id_map, x.log)
<1>1. /\ IsStore(st) /\ CollapseStateOK(st) /\ id_map \in Mapping /\ st.total_counts \in Int
      /\ HoldsExactly(st, id_map, live, S) /\ st.total_counts = Mass(live, S)
  BY StoresAreSound, StoreFields DEF SoundStore, Keeps, ContentsInv
<1>2. c \in Nat \ {0} /\ c \in Nat
  BY CountsAssumption
<1>3. S \subseteq Items /\ IsFiniteSet(S) /\ x \in Items /\ live \in [Items -> Nat]
      /\ \A y \in S : y.log \in Int /\ live[y] \in Nat
  BY SidesOfItems, LiveOnSides
<1>4. Gained(live, x, c)[x] = live[x] + c
      /\ \A y \in S \ {x} : Gained(live, x, c)[y] = live[y]
  BY <1>2, <1>3 DEF Gained
<1> DEFINE g == Gained(live, x, c)
<1> HIDE DEF g
<1>5. HoldsExactly(InsertItem(st, bid, c), id_map, g, S)
  BY <1>1, <1>2, <1>3, <1>4, InsertKeepsItems DEF g
<1>6. Mass(g, S) = Mass(live, S) + c
  BY <1>2, <1>3, MassOfGained DEF g
<1>7. /\ Inserted(st, x, c).buckets = InsertItem(st, bid, c).buckets
      /\ Inserted(st, x, c).total_counts = st.total_counts + c
      /\ Inserted(st, x, c).is_collapsed = st.is_collapsed
      /\ Inserted(st, x, c).store_type = st.store_type
  BY <1>3, InsertedIsSound DEF ContentsInv, SoundStore
<1>8. /\ InsertItem(st, bid, c).is_collapsed = st.is_collapsed
      /\ InsertItem(st, bid, c).store_type = st.store_type
  BY <1>1 DEF InsertItem, IsStore
<1> HIDE DEF bid
<1>9. HoldsExactly(Inserted(st, x, c), id_map, g, S)
  BY <1>5, <1>7, <1>8, SameContents
<1> QED BY <1>1, <1>6, <1>7, <1>9 DEF Keeps, g

LEMMA RemovedKeeps ==
  ASSUME ContentsInv, NEW S, S \in {Positive, Negative}, NEW x \in S, NEW c \in Counts,
         c <= live[x],
         NEW st, NEW type, SoundStore(st, type), Keeps(st, id_map, live, S)
  PROVE  /\ ~RemoveReadsNull(st)
         /\ Keeps(Removed(st, x, c), id_map, Lost(live, x, c), S)
<1> DEFINE bid == BucketId(id_map, x.log)
           g   == Lost(live, x, c)
<1>1. /\ IsStore(st) /\ CollapseStateOK(st) /\ id_map \in Mapping /\ st.total_counts \in Int
      /\ HoldsExactly(st, id_map, live, S) /\ st.total_counts = Mass(live, S)
  BY StoresAreSound, StoreFields DEF SoundStore, Keeps, ContentsInv
<1>2. c \in Nat \ {0} /\ c \in Nat
  BY CountsAssumption
<1>3. S \subseteq Items /\ IsFiniteSet(S) /\ x \in Items /\ live \in [Items -> Nat]
      /\ \A y \in S : y.log \in Int /\ live[y] \in Nat
  BY SidesOfItems, LiveOnSides
<1>4. g[x] = live[x] - c /\ \A y \in S \ {x} : g[y] = live[y]
  BY <1>2, <1>3 DEF Lost
<1> HIDE DEF g
<1>5. /\ ~RemoveReadsNull(st)
      /\ HoldsExactly(RemoveItem(st, bid, c), id_map, g, S)
      /\ RemoveItem(st, bid, c).total_counts = st.total_counts - c
  BY <1>1, <1>2, <1>3, <1>4, RemoveKeepsItems
<1>6. Mass(g, S) = Mass(live, S) - c
  BY <1>2, <1>3, MassOfLost DEF g
<1> QED BY <1>1, <1>5, <1>6 DEF Keeps, Removed, g

\* The items of the other sides, and those that are not addressable.
LEMMA OthersUntouched ==
  ASSUME ContentsInv, NEW x \in Items, is_addressable(x), NEW c \in Nat, NEW g,
         g = Gained(live, x, c) \/ g = Lost(live, x, c)
  PROVE  /\ \A y \in Items \ {x} : g[y] = live[y]
         /\ \A y \in Items : ~is_addressable(y) => g[y] = 0
<1>1. live \in [Items -> Nat]
  BY LiveOnSides
<1>2. \A y \in Items \ {x} : g[y] = live[y]
  BY <1>1 DEF Gained, Lost
<1> QED BY <1>2 DEF ContentsInv, Accounted, OnlyAddressable

LEMMA ContentsInserted ==
  ASSUME ContentsInv, NEW x \in Items, NEW c \in Counts, InsertStored(x, c)
  PROVE  Accounted'
<1>1. /\ SoundStore(postore, PostoreType(store_type)) /\ Keeps(postore, id_map, live, Positive)
      /\ SoundStore(nestore, NestoreType(store_type)) /\ Keeps(nestore, id_map, live, Negative)
      /\ zero_bucket = Mass(live, Zeros)
  BY StoresAreSound DEF ContentsInv, Accounted, ZeroExact
<1>2. live' = Gained(live, x, c) /\ UNCHANGED <<id_map, zero_bucket>> /\ c \in Nat
  BY CountsAssumption DEF InsertStored, UpdateEnds
<1>3. x \in Positive \/ x \in Negative
  BY DEF InsertStored
<1>4. /\ \A y \in Items \ {x} : live'[y] = live[y]
      /\ \A y \in Items : ~is_addressable(y) => live'[y] = 0
  BY <1>2, <1>3, SidesOfItems, OthersUntouched
<1>5. Mass(live', Zeros) = Mass(live, Zeros)
  <2>1. \A y \in Zeros : live'[y] = live[y]
    BY <1>3, <1>4, SidesOfItems
  <2> QED BY <2>1, MassSame
<1>6. CASE x \in Positive /\ postore' = Inserted(postore, x, c) /\ nestore' = nestore
  <2>1. Keeps(postore', id_map, live', Positive)
    BY <1>1, <1>2, <1>6, InsertedKeeps
  <2>2. \A y \in Negative : live'[y] = live[y]
    BY <1>4, <1>6, SidesOfItems
  <2>3. Keeps(nestore', id_map, live', Negative)
    BY <1>1, <1>6, <2>2, OtherSideKeeps
  <2> QED BY <1>1, <1>2, <1>4, <1>5, <2>1, <2>3 DEF Accounted, ZeroExact, OnlyAddressable
<1>7. CASE x \in Negative /\ nestore' = Inserted(nestore, x, c) /\ postore' = postore
  <2>1. Keeps(nestore', id_map, live', Negative)
    BY <1>1, <1>2, <1>7, InsertedKeeps
  <2>2. \A y \in Positive : live'[y] = live[y]
    BY <1>4, <1>7, SidesOfItems
  <2>3. Keeps(postore', id_map, live', Positive)
    BY <1>1, <1>7, <2>2, OtherSideKeeps
  <2> QED BY <1>1, <1>2, <1>4, <1>5, <2>1, <2>3 DEF Accounted, ZeroExact, OnlyAddressable
<1> QED BY <1>6, <1>7 DEF InsertStored

LEMMA ContentsRemoved ==
  ASSUME RemoveOnlyLive, ContentsInv, NEW x \in Items, NEW c \in Counts, RemoveStored(x, c)
  PROVE  ~RemoveReadsNull(StoreOf(x)) /\ Accounted'
<1>1. /\ SoundStore(postore, PostoreType(store_type)) /\ Keeps(postore, id_map, live, Positive)
      /\ SoundStore(nestore, NestoreType(store_type)) /\ Keeps(nestore, id_map, live, Negative)
      /\ zero_bucket = Mass(live, Zeros)
  BY StoresAreSound DEF ContentsInv, Accounted, ZeroExact
<1>2. c \in Nat /\ c <= live[x] /\ (x \in Positive \/ x \in Negative)
  BY CountsAssumption DEF RemoveStored, MayRemove
<1>3. ~RemoveReadsNull(StoreOf(x))
  BY <1>1, <1>2, RemovedKeeps DEF StoreOf
<1>4. live' = Lost(live, x, c) /\ UNCHANGED <<id_map, zero_bucket>>
  BY <1>3 DEF RemoveStored, UpdateEnds
<1>5. /\ \A y \in Items \ {x} : live'[y] = live[y]
      /\ \A y \in Items : ~is_addressable(y) => live'[y] = 0
  BY <1>2, <1>4, SidesOfItems, OthersUntouched
<1>6. Mass(live', Zeros) = Mass(live, Zeros)
  <2>1. \A y \in Zeros : live'[y] = live[y]
    BY <1>2, <1>5, SidesOfItems
  <2> QED BY <2>1, MassSame
<1>7. CASE x \in Positive
  <2>1. postore' = Removed(postore, x, c) /\ nestore' = nestore
    BY <1>3, <1>7 DEF RemoveStored
  <2>2. Keeps(postore', id_map, live', Positive)
    BY <1>1, <1>2, <1>4, <1>7, <2>1, RemovedKeeps
  <2>3. \A y \in Negative : live'[y] = live[y]
    BY <1>5, <1>7, SidesOfItems
  <2>4. Keeps(nestore', id_map, live', Negative)
    BY <1>1, <2>1, <2>3, OtherSideKeeps
  <2> QED BY <1>1, <1>3, <1>4, <1>5, <1>6, <2>2, <2>4 DEF Accounted, ZeroExact, OnlyAddressable
<1>8. CASE x \notin Positive
  <2>1. nestore' = Removed(nestore, x, c) /\ postore' = postore /\ x \in Negative
    BY <1>2, <1>3, <1>8 DEF RemoveStored
  <2>2. Keeps(nestore', id_map, live', Negative)
    BY <1>1, <1>2, <1>4, <2>1, RemovedKeeps
  <2>3. \A y \in Positive : live'[y] = live[y]
    BY <1>5, <1>8, SidesOfItems
  <2>4. Keeps(postore', id_map, live', Positive)
    BY <1>1, <2>1, <2>3, OtherSideKeeps
  <2> QED BY <1>1, <1>3, <1>4, <1>5, <1>6, <2>2, <2>4 DEF Accounted, ZeroExact, OnlyAddressable
<1> QED BY <1>7, <1>8

LEMMA ContentsOfZero ==
  ASSUME RemoveOnlyLive, ContentsInv, NEW x \in Items, NEW c \in Counts,
         InsertZero(x, c) \/ RemoveZero(x, c)
  PROVE  Accounted'
<1>1. /\ Keeps(postore, id_map, live, Positive) /\ Keeps(nestore, id_map, live, Negative)
      /\ zero_bucket = Mass(live, Zeros) /\ zero_bucket \in Nat /\ live \in [Items -> Nat]
  BY StoresAreSound DEF ContentsInv, Accounted, ZeroExact
<1>2. x \in Zeros /\ c \in Nat /\ is_addressable(x) /\ UNCHANGED <<postore, nestore, id_map>>
  BY CountsAssumption, SidesOfItems DEF InsertZero, RemoveZero, UpdateEnds, stores
<1>3. live' = Gained(live, x, c) \/ live' = Lost(live, x, c)
  BY DEF InsertZero, RemoveZero
<1>4. /\ \A y \in Items \ {x} : live'[y] = live[y]
      /\ \A y \in Items : ~is_addressable(y) => live'[y] = 0
  BY <1>2, <1>3, OthersUntouched
<1>5. (\A y \in Positive : live'[y] = live[y]) /\ (\A y \in Negative : live'[y] = live[y])
  BY <1>2, <1>4, SidesOfItems
<1>6. Keeps(postore', id_map', live', Positive) /\ Keeps(nestore', id_map', live', Negative)
  BY <1>1, <1>2, <1>5, OtherSideKeeps
<1>7. zero_bucket' = Mass(live', Zeros)
  <2>1. CASE InsertZero(x, c)
    <3>1. live' = Gained(live, x, c) /\ zero_bucket' = zero_bucket + c
      BY <2>1 DEF InsertZero
    <3> QED BY <1>1, <1>2, <3>1, SidesOfItems, MassOfGained
  <2>2. CASE RemoveZero(x, c)
    <3>1. live' = Lost(live, x, c) /\ c <= live[x]
      BY <2>2 DEF RemoveZero, MayRemove
    <3>2. Mass(live', Zeros) = zero_bucket - c
      BY <1>1, <1>2, <3>1, SidesOfItems, MassOfLost
    <3>3. Mass(live, Zeros) = live[x] + Mass(live, Zeros \ {x}) /\ Mass(live, Zeros \ {x}) \in Nat
      BY <1>1, <1>2, SidesOfItems, LiveOnSides, MassSplit
    <3>4. live[x] \in Nat
      BY <1>1
    <3>5. zero_bucket - c >= 0
      BY <1>1, <1>2, <3>1, <3>3, <3>4
    <3> QED BY <2>2, <3>2, <3>5 DEF RemoveZero
  <2> QED BY <2>1, <2>2
<1> QED BY <1>4, <1>6, <1>7 DEF Accounted, ZeroExact, OnlyAddressable

\* A pass of a loop over one store moves its items to the buckets where the mapping
\* after it looks for them.
LEMMA PassKeeps ==
  ASSUME ContentsInv, NEW S, S \in {Positive, Negative}, NEW st, NEW type,
         SoundStore(st, type), Keeps(st, id_map, live, S)
  PROVE  /\ type # COLLAPSINGALL_MAPSTORE => Keeps(Collapse(st, id_map), id_map, live, S)
         /\ type = COLLAPSINGALL_MAPSTORE => Keeps(Halved(st), SquareGamma(id_map), live, S)
<1>1. /\ IsStore(st) /\ CollapseStateOK(st) /\ id_map \in Mapping /\ id_map.type = LOG_UPPER
      /\ HoldsExactly(st, id_map, live, S) /\ st.total_counts = Mass(live, S)
      /\ st.store_type = type
  BY StoresAreSound DEF SoundStore, Keeps, ContentsInv
<1>2. IsFiniteSet(S) /\ \A y \in S : y.log \in Int /\ live[y] \in Nat
  BY SidesOfItems, LiveOnSides
<1>3. HoldsExactly(Collapse(st, id_map), MappingAfterCollapse(st, id_map), live, S)
  BY <1>1, <1>2, CollapseKeepsItems
<1>4. Collapse(st, id_map).total_counts = st.total_counts
  BY <1>1, CollapseIsStore
<1>5. Keeps(Collapse(st, id_map), MappingAfterCollapse(st, id_map), live, S)
  BY <1>1, <1>3, <1>4 DEF Keeps
<1>6. ASSUME type = COLLAPSINGALL_MAPSTORE
      PROVE  Keeps(Halved(st), SquareGamma(id_map), live, S)
  <2>1. CASE ~IsEmpty(st)
    BY <1>1, <1>5, <1>6, <2>1 DEF Halved, MappingAfterCollapse
  <2>2. CASE IsEmpty(st)
    <3>1. Halved(st) = st /\ Bids(st) = {}
      BY <2>2 DEF Halved, IsEmpty
    <3>2. Present(live, S) = {}
      BY <1>1, <3>1 DEF HoldsExactly
    <3>3. \A y \in S : live[y] = 0
      BY <1>2, <3>2 DEF Present
    <3> QED BY <1>1, <3>1, <3>3, EmptyKeeps DEF Keeps
  <2> QED BY <2>1, <2>2
<1> QED BY <1>1, <1>5, <1>6 DEF MappingAfterCollapse

LEMMA ContentsOfShrink ==
  ASSUME ContentsInv, ShrinkFirst \/ ShrinkSecond \/ CollapseAll
  PROVE  Accounted'
<1>1. /\ SoundStore(postore, PostoreType(store_type)) /\ Keeps(postore, id_map, live, Positive)
      /\ SoundStore(nestore, NestoreType(store_type)) /\ Keeps(nestore, id_map, live, Negative)
      /\ ZeroExact /\ OnlyAddressable
  BY StoresAreSound DEF ContentsInv, Accounted
<1>2. UNCHANGED <<zero_bucket, live>>
  BY DEF ShrinkFirst, ShrinkSecond, CollapseAll
<1>3. ZeroExact' /\ OnlyAddressable'
  BY <1>1, <1>2 DEF ZeroExact, OnlyAddressable
<1>4. CASE ShrinkFirst \/ ShrinkSecond
  <2>1. store_type \in {COLLAPSINGHIGH_MAPSTORE, COLLAPSINGLOW_MAPSTORE} /\ id_map' = id_map
    BY <1>4 DEF ContentsInv, IInv, LoopOfPolicy, ShrinkFirst, ShrinkSecond
  <2>2. PostoreType(store_type) # COLLAPSINGALL_MAPSTORE /\ NestoreType(store_type) # COLLAPSINGALL_MAPSTORE
    BY <2>1 DEF PostoreType, NestoreType, COLLAPSINGHIGH_MAPSTORE, COLLAPSINGLOW_MAPSTORE,
                COLLAPSINGALL_MAPSTORE
  <2>3. \/ postore' = Collapse(postore, id_map) /\ nestore' = nestore
        \/ nestore' = Collapse(nestore, id_map) /\ postore' = postore
    BY <1>4 DEF ShrinkFirst, ShrinkSecond, SetFirst, SetSecond, first, second
  <2>4. Keeps(postore', id_map', live', Positive) /\ Keeps(nestore', id_map', live', Negative)
    BY <1>1, <1>2, <2>1, <2>2, <2>3, PassKeeps
  <2> QED BY <1>3, <2>4 DEF Accounted
<1>5. CASE CollapseAll
  <2>1. /\ store_type = COLLAPSINGALL_MAPSTORE /\ id_map' = SquareGamma(id_map)
        /\ postore' = Halved(postore) /\ nestore' = Halved(nestore)
    BY <1>5 DEF ContentsInv, IInv, LoopOfPolicy, CollapseAll
  <2>2. PostoreType(store_type) = COLLAPSINGALL_MAPSTORE /\ NestoreType(store_type) = COLLAPSINGALL_MAPSTORE
    BY <2>1 DEF PostoreType, NestoreType, COLLAPSINGHIGH_MAPSTORE, COLLAPSINGLOW_MAPSTORE,
                COLLAPSINGALL_MAPSTORE
  <2>3. Keeps(postore', id_map', live', Positive) /\ Keeps(nestore', id_map', live', Negative)
    BY <1>1, <1>2, <2>1, <2>2, PassKeeps
  <2> QED BY <1>3, <2>3 DEF Accounted
<1> QED BY <1>4, <1>5

LEMMA ContentsUntouched ==
  ASSUME ContentsInv, UNCHANGED <<stores, id_map, zero_bucket, live>>
  PROVE  Accounted'
BY DEF ContentsInv, Accounted, ZeroExact, OnlyAddressable, stores

LEMMA ContentsStep ==
  ASSUME RemoveOnlyLive
  PROVE  ContentsInv /\ [Next]_vars => ContentsInv'
<1> SUFFICES ASSUME ContentsInv, [Next]_vars PROVE Accounted'
  BY StepPreserves DEF ContentsInv
<1>1. ASSUME NEW x \in Items, UpdateIgnored(x) PROVE Accounted'
  BY <1>1, ContentsUntouched DEF UpdateIgnored, UpdateEnds
<1>2. ASSUME NEW x \in Items, NEW c \in Counts, InsertZero(x, c) \/ RemoveZero(x, c) PROVE Accounted'
  BY <1>2, ContentsOfZero
<1>3. ASSUME NEW x \in Items, NEW c \in Counts, InsertStored(x, c) PROVE Accounted'
  BY <1>3, ContentsInserted
<1>4. ASSUME NEW x \in Items, NEW c \in Counts, RemoveStored(x, c) PROVE Accounted'
  BY <1>4, ContentsRemoved
<1>5. ASSUME NEW rank \in Ranks, AskNegative(rank) \/ AskZero(rank) \/ AskPositive(rank)
      PROVE  Accounted'
  BY <1>5, ContentsUntouched DEF AskNegative, AskZero, AskPositive, StartScan, Crash
<1>6. CASE ShrinkFirst \/ ShrinkSecond \/ CollapseAll
  BY <1>6, ContentsOfShrink
<1>7. CASE FirstShrunk \/ SecondShrunk \/ ScanUp \/ ScanDown \/ ScanReturns
  BY <1>7, ContentsUntouched DEF FirstShrunk, SecondShrunk, ScanUp, ScanDown, ScanReturns
<1>8. CASE UNCHANGED vars
  BY <1>8, ContentsUntouched DEF vars, stores
<1> QED BY <1>1, <1>2, <1>3, <1>4, <1>5, <1>6, <1>7, <1>8 DEF Next, Update, Query, Loop, Shrink

LEMMA ContentsHold ==
  ASSUME RemoveOnlyLive
  PROVE  Spec => []ContentsInv
<1> QED BY ContentsInit, ContentsStep, PTL DEF Spec

\* As long as callers remove only what is present, every bucket of either store counts
\* exactly the copies of the items that the mapping of the moment puts there, although
\* the uniform collapse leaves a store without buckets alone, each end merges in its
\* own direction, and a removal may end the collapsed state of one store only.
THEOREM BucketsAreExact ==
  ASSUME RemoveOnlyLive
  PROVE  Spec => []BucketsExact
<1>1. ContentsInv => BucketsExact
  BY DEF ContentsInv, Accounted, Keeps, BucketsExact
<1> QED BY <1>1, ContentsHold, PTL

LEMMA TotalOfSides == ContentsInv => TotalIsLive
<1> SUFFICES ASSUME ContentsInv PROVE TotalIsLive
  OBVIOUS
<1>1. /\ IsFiniteSet(Positive) /\ IsFiniteSet(Negative) /\ IsFiniteSet(Zeros)
      /\ Positive \cap Negative = {} /\ Positive \cap Zeros = {} /\ Negative \cap Zeros = {}
  BY SidesOfItems
<1>2. Mass(live, Positive \cup Negative) = Mass(live, Positive) + Mass(live, Negative)
  BY <1>1, LiveOnSides, MassDisjoint
<1>3. Mass(live, (Positive \cup Negative) \cup Zeros)
        = Mass(live, Positive \cup Negative) + Mass(live, Zeros)
  <2> DEFINE P == Positive \cup Negative
  <2>1. IsFiniteSet(P) /\ P \cap Zeros = {}
    BY <1>1, FS_Union
  <2>2. \A y \in P \cup Zeros : live[y] \in Nat
    BY LiveOnSides
  <2> HIDE DEF P
  <2>3. Mass(live, P \cup Zeros) = Mass(live, P) + Mass(live, Zeros)
    BY <1>1, <2>1, <2>2, MassDisjoint
  <2> QED BY <2>3 DEF P
<1>4. Mass(live, Positive) \in Nat /\ Mass(live, Negative) \in Nat /\ Mass(live, Zeros) \in Nat
  BY <1>1, LiveOnSides, MassType
<1>5. /\ postore.total_counts = Mass(live, Positive) /\ nestore.total_counts = Mass(live, Negative)
      /\ zero_bucket = Mass(live, Zeros)
  BY DEF ContentsInv, Accounted, Keeps, ZeroExact
<1> QED BY <1>2, <1>3, <1>4, <1>5 DEF TotalIsLive, total_count

\* As long as callers remove only what is present, the total that ranks are computed
\* from is the number of items, of either sign and zeros, in the middle of a loop too.
THEOREM TotalIsExact ==
  ASSUME RemoveOnlyLive
  PROVE  Spec => []TotalIsLive
<1> QED BY TotalOfSides, ContentsHold, PTL

\* A store that counts something has a bucket to start from.
LEMMA CountedIsThere ==
  ASSUME ContentsInv, NEW S, S \in {Positive, Negative}, NEW st, Keeps(st, id_map, live, S)
  PROVE  /\ st.total_counts \in Nat
         /\ IsEmpty(st) => st.total_counts = 0
<1>1. IsFiniteSet(S) /\ \A y \in S : live[y] \in Nat
  BY SidesOfItems, LiveOnSides
<1>2. st.total_counts = Mass(live, S) /\ Mass(live, S) \in Nat
  BY <1>1, MassType DEF Keeps
<1>3. ASSUME IsEmpty(st) PROVE Mass(live, S) = 0
  <2>1. Present(live, S) = {}
    BY <1>3 DEF Keeps, HoldsExactly, IsEmpty
  <2>2. \A y \in S : live[y] = 0
    BY <1>1, <2>1 DEF Present
  <2> QED BY <2>2, MassOfAbsent
<1> QED BY <1>2, <1>3

\* One that counts nothing has none.
LEMMA EmptyOnZero ==
  ASSUME ContentsInv, NEW S, S \in {Positive, Negative}, NEW st, Keeps(st, id_map, live, S),
         st.total_counts = 0
  PROVE  IsEmpty(st)
<1> SUFFICES ASSUME NEW b \in Bids(st) PROVE FALSE
  BY DEF IsEmpty
<1>1. IsFiniteSet(S) /\ \A y \in S : live[y] \in Nat
  BY SidesOfItems, LiveOnSides
<1>2. PICK x \in Present(live, S) : b = Home(st, id_map, x)
  BY DEF Keeps, HoldsExactly
<1>3. x \in S /\ live[x] \in Nat /\ live[x] > 0
  BY <1>1, <1>2 DEF Present
<1>4. Mass(live, S) = live[x] + Mass(live, S \ {x}) /\ Mass(live, S \ {x}) \in Nat
  BY <1>1, <1>3, MassSplit
<1>5. Mass(live, S) = 0
  BY DEF Keeps
<1> QED BY <1>3, <1>4, <1>5

LEMMA NoCrashStep ==
  ASSUME RemoveOnlyLive, AskOnlyNonEmpty
  PROVE  ContentsInv /\ NoCrash /\ [Next]_vars => NoCrash'
<1> SUFFICES ASSUME ContentsInv, NoCrash, [Next]_vars PROVE NoCrash'
  OBVIOUS
<1>1. ASSUME NEW x \in Items, NEW c \in Counts, RemoveStored(x, c) PROVE NoCrash'
  <2>1. UpdateEnds
    BY <1>1, ContentsRemoved DEF RemoveStored
  <2> QED BY <2>1 DEF UpdateEnds, AfterUpdate, NoCrash
<1>2. /\ postore.total_counts \in Nat /\ (IsEmpty(postore) => postore.total_counts = 0)
      /\ nestore.total_counts \in Nat /\ (IsEmpty(nestore) => nestore.total_counts = 0)
      /\ zero_bucket \in Nat
  BY CountedIsThere, StoresAreSound DEF ContentsInv, Accounted
<1>3. ASSUME NEW rank \in Ranks, AskNegative(rank) PROVE NoCrash'
  <2>1. rank < nestore.total_counts /\ rank \in Int /\ -1 <= rank
    BY <1>2, <1>3 DEF AskNegative, netotcount, Ranks, total_count
  <2>2. ~IsEmpty(nestore)
    <3> SUFFICES ASSUME IsEmpty(nestore) PROVE FALSE
      OBVIOUS
    <3>1. rank = -1 /\ total_count = 0
      BY <1>2, <2>1 DEF Ranks, total_count
    <3>2. zero_bucket = 0 /\ postore.total_counts = 0 /\ ~is_empty
      BY <1>2, <1>3, <3>1 DEF total_count, AskNegative, MayAsk
    <3>3. ~IsEmpty(postore)
      BY <3>2 DEF is_empty
    <3> QED BY <3>2, <3>3, EmptyOnZero DEF ContentsInv, Accounted
  <2> QED BY <1>3, <2>2 DEF AskNegative, StartScan, NoCrash
<1>4. ASSUME NEW rank \in Ranks, AskPositive(rank) PROVE NoCrash'
  <2>1. ~IsEmpty(postore)
    <3> SUFFICES ASSUME IsEmpty(postore) PROVE FALSE
      OBVIOUS
    <3>1. rank >= total_count /\ rank \in Int
      BY <1>2, <1>4 DEF AskPositive, netotcount, total_count, Ranks
    <3>2. total_count = 0
      BY <1>2, <3>1 DEF Ranks, total_count
    <3>3. zero_bucket = 0 /\ nestore.total_counts = 0 /\ ~is_empty
      BY <1>2, <1>4, <3>2 DEF total_count, AskPositive, MayAsk
    <3>4. ~IsEmpty(nestore)
      BY <3>3 DEF is_empty
    <3> QED BY <3>3, <3>4, EmptyOnZero DEF ContentsInv, Accounted
  <2> QED BY <1>4, <2>1 DEF AskPositive, StartScan, NoCrash
<1>5. ASSUME NEW x \in Items, NEW c \in Counts,
             UpdateIgnored(x) \/ InsertZero(x, c) \/ RemoveZero(x, c) \/ InsertStored(x, c)
      PROVE  NoCrash'
  BY <1>5 DEF UpdateIgnored, InsertZero, RemoveZero, InsertStored, UpdateEnds, AfterUpdate, NoCrash
<1>6. ASSUME NEW rank \in Ranks, AskZero(rank) PROVE NoCrash'
  BY <1>6 DEF AskZero, NoCrash
<1>7. CASE Loop \/ UNCHANGED vars
  BY <1>7
  DEF Loop, Shrink, ShrinkFirst, FirstShrunk, ShrinkSecond, SecondShrunk, CollapseAll,
      ScanUp, ScanDown, ScanReturns, vars, NoCrash
<1> QED BY <1>1, <1>3, <1>4, <1>5, <1>6, <1>7 DEF Next, Update, Query

\* Callers that remove only what is present and query only sketches that are not empty
\* never make a call follow the NULL pointer that an iterator gives in an empty store:
\* a rank never leads to the store of a sign that has no items.
THEOREM NeverCrashes ==
  ASSUME RemoveOnlyLive, AskOnlyNonEmpty
  PROVE  Spec => []NoCrash
<1>1. Init => NoCrash
  BY DEF Init, Created, NoCrash
<1> QED BY <1>1, NoCrashStep, ContentsHold, PTL DEF Spec

----------------------------------------------------------------------------
(* Which end is given up, for callers of any kind, until the first removal. *)

Ends == store_type \in {COLLAPSINGHIGH_MAPSTORE, COLLAPSINGLOW_MAPSTORE}

\* Once the store that is shrunk second is collapsed, the sketch is full for good: the
\* first store can only grow by pushing the sketch over its bound, and is cut back to
\* one bucket before the second is touched again.  That it is full is what makes
\* KeptEndLast inductive.
FullOnceMerged ==
  ~removed /\ Ends =>
    /\ pc = "shrink_first" => size \in {max_sketch_size, max_sketch_size + 1}
    /\ pc = "shrink_second" => NumBuckets(first) <= 1 /\ size >= max_sketch_size
    /\ second.is_collapsed =>
         /\ size >= max_sketch_size
         /\ NumBuckets(first) <= (IF pc = "shrink_first" /\ size > max_sketch_size THEN 2 ELSE 1)

KeptInv == IInv /\ FullOnceMerged

LEMMA FirstAndSecond ==
  ASSUME IInv
  PROVE  /\ NumBuckets(first) \in Nat /\ NumBuckets(second) \in Nat /\ max_sketch_size \in Nat
         /\ size = NumBuckets(first) + NumBuckets(second)
         /\ IsStore(first) /\ IsStore(second) /\ id_map \in Mapping
         /\ Ends => /\ first.store_type \in {COLLAPSINGHIGH_MAPSTORE, COLLAPSINGLOW_MAPSTORE}
                    /\ second.store_type \in {COLLAPSINGHIGH_MAPSTORE, COLLAPSINGLOW_MAPSTORE}
<1>1. /\ NumBuckets(postore) \in Nat /\ NumBuckets(nestore) \in Nat /\ max_sketch_size \in Nat
      /\ IsStore(postore) /\ IsStore(nestore) /\ id_map \in Mapping
      /\ postore.store_type = PostoreType(store_type)
      /\ nestore.store_type = NestoreType(store_type)
  BY StoresAreSound DEF SoundStore
<1>2. Ends => /\ postore.store_type \in {COLLAPSINGHIGH_MAPSTORE, COLLAPSINGLOW_MAPSTORE}
              /\ nestore.store_type \in {COLLAPSINGHIGH_MAPSTORE, COLLAPSINGLOW_MAPSTORE}
  BY <1>1 DEF Ends, PostoreType, NestoreType, COLLAPSINGHIGH_MAPSTORE, COLLAPSINGLOW_MAPSTORE
<1>3. \/ first = postore /\ second = nestore
      \/ first = nestore /\ second = postore
  BY DEF first, second
<1> QED BY <1>1, <1>2, <1>3 DEF size

\* What a step may do to the first and the second store, as numbers of buckets.
LEMMA FullAfterUpdate ==
  ASSUME KeptInv, IInv', pc = "ready", UpdateEnds, UNCHANGED removed, Ends, ~removed,
         \/ /\ NumBuckets(first') \in {NumBuckets(first), NumBuckets(first) + 1}
            /\ second' = second
         \/ /\ NumBuckets(second') \in {NumBuckets(second), NumBuckets(second) + 1}
            /\ second'.is_collapsed = second.is_collapsed /\ first' = first
  PROVE  FullOnceMerged'
<1> DEFINE n1 == NumBuckets(first)
           n2 == NumBuckets(second)
           k1 == NumBuckets(first')
           k2 == NumBuckets(second')
           max == max_sketch_size
<1>1. /\ n1 \in Nat /\ n2 \in Nat /\ max \in Nat /\ size = n1 + n2
      /\ k1 \in Nat /\ k2 \in Nat /\ size' = k1 + k2
      /\ NumBuckets(postore') \in Nat /\ NumBuckets(nestore') \in Nat
  <2>1. IsStore(postore') /\ IsStore(nestore')
    BY DEF IInv, TypeOK
  <2>2. NumBuckets(postore') \in Nat /\ NumBuckets(nestore') \in Nat
    BY <2>1, StoreFields
  <2>3. \/ first' = postore' /\ second' = nestore'
        \/ first' = nestore' /\ second' = postore'
    BY DEF first, second
  <2>4. size' = NumBuckets(nestore') + NumBuckets(postore')
    BY DEF size
  <2> QED BY <2>2, <2>3, <2>4, FirstAndSecond DEF KeptInv
<1>2. \/ k1 \in {n1, n1 + 1} /\ k2 = n2
      \/ k1 = n1 /\ k2 \in {n2, n2 + 1}
  OBVIOUS
<1>3. /\ max_sketch_size' = max /\ second'.is_collapsed = second.is_collapsed
      /\ pc' = IF k1 + k2 <= max THEN "ready" ELSE "shrink_first"
      /\ removed' = removed
  <2>1. /\ store_type' = store_type /\ max_sketch_size' = max
        /\ pc' = AfterUpdate(postore', nestore')
    BY DEF UpdateEnds, config
  <2>2. size' = NumBuckets(nestore') + NumBuckets(postore')
    BY DEF size
  <2>3. NumBuckets(postore') \in Nat /\ NumBuckets(nestore') \in Nat
    BY <1>1
  <2>4. AfterUpdate(postore', nestore') = IF size' <= max THEN "ready" ELSE "shrink_first"
    BY <2>2, <2>3
    DEF AfterUpdate, Ends, UNBOUNDED_MAPSTORE, COLLAPSINGHIGH_MAPSTORE, COLLAPSINGLOW_MAPSTORE,
        COLLAPSINGALL_MAPSTORE
  <2> QED BY <1>1, <2>1, <2>4
<1>4. n1 + n2 <= max
  BY <1>1
  DEF KeptInv, IInv, SizeBound, Ends, UNBOUNDED_MAPSTORE, COLLAPSINGHIGH_MAPSTORE,
      COLLAPSINGLOW_MAPSTORE
<1>5. second.is_collapsed => n1 + n2 >= max /\ n1 <= 1
  BY <1>1 DEF KeptInv, FullOnceMerged
<1> HIDE DEF n1, n2, k1, k2, max
<1>6. pc' = "shrink_first" => k1 + k2 \in {max, max + 1}
  BY <1>1, <1>2, <1>3, <1>4
<1>7. second'.is_collapsed =>
        /\ k1 + k2 >= max
        /\ k1 <= (IF pc' = "shrink_first" /\ k1 + k2 > max THEN 2 ELSE 1)
  BY <1>1, <1>2, <1>3, <1>4, <1>5
<1>8. pc' # "shrink_second"
  BY <1>3
<1> QED BY <1>1, <1>3, <1>6, <1>7, <1>8 DEF FullOnceMerged, k1, k2, max

LEMMA FullAfterInsert ==
  ASSUME KeptInv, IInv', NEW x \in Items, NEW c \in Counts, InsertStored(x, c)
  PROVE  FullOnceMerged'
<1> SUFFICES ASSUME ~removed', Ends' PROVE FullOnceMerged'
  BY DEF FullOnceMerged
<1>1. /\ pc = "ready" /\ UpdateEnds /\ UNCHANGED <<store_type, removed>>
      /\ \/ postore' = Inserted(postore, x, c) /\ UNCHANGED nestore
         \/ nestore' = Inserted(nestore, x, c) /\ UNCHANGED postore
  BY DEF InsertStored, UpdateEnds, config
<1>2. Ends /\ ~removed /\ PositiveFirst' = PositiveFirst
  BY <1>1 DEF Ends, PositiveFirst
<1>3. \/ first' = Inserted(first, x, c) /\ second' = second
      \/ second' = Inserted(second, x, c) /\ first' = first
  <2>1. CASE PositiveFirst
    BY <1>1, <1>2, <2>1 DEF first, second
  <2>2. CASE ~PositiveFirst
    BY <1>1, <1>2, <2>2 DEF first, second
  <2> QED BY <2>1, <2>2
<1>4. ASSUME NEW st, NEW type, SoundStore(st, type)
      PROVE  /\ NumBuckets(Inserted(st, x, c)) \in {NumBuckets(st), NumBuckets(st) + 1}
             /\ Inserted(st, x, c).is_collapsed = st.is_collapsed
  <2>1. c \in Nat \ {0} /\ BucketId(id_map, x.log) \in Int
    BY CountsAssumption, ItemFacts, StoresAreSound, BucketIdIsInt DEF KeptInv
  <2>2. IsStore(st) /\ ~InsertReadsNull(st)
    BY <1>4 DEF SoundStore, CollapseStateOK
  <2>3. /\ Inserted(st, x, c).buckets = InsertItem(st, BucketId(id_map, x.log), c).buckets
        /\ Inserted(st, x, c).is_collapsed = st.is_collapsed
    BY <1>4, InsertedIsSound DEF KeptInv
  <2>4. NumBuckets(InsertItem(st, BucketId(id_map, x.log), c))
          \in {NumBuckets(st), NumBuckets(st) + 1}
    BY <2>1, <2>2, InsertAddsOne
  <2> QED BY <2>3, <2>4 DEF NumBuckets, Bids
<1>5. \E type : SoundStore(first, type)
  BY StoresAreSound DEF first, KeptInv
<1>6. \E type : SoundStore(second, type)
  BY StoresAreSound DEF second, KeptInv
<1> QED BY <1>1, <1>2, <1>3, <1>4, <1>5, <1>6, FullAfterUpdate

\* The passes: the first loop has one bucket too many and takes it away, and the second
\* runs only when the first store has at most one left.
LEMMA FullAfterShrink ==
  ASSUME KeptInv, ShrinkFirst \/ FirstShrunk \/ ShrinkSecond \/ SecondShrunk
  PROVE  FullOnceMerged'
<1> SUFFICES ASSUME ~removed', Ends' PROVE FullOnceMerged'
  BY DEF FullOnceMerged
<1> DEFINE n1 == NumBuckets(first)
           n2 == NumBuckets(second)
           k1 == NumBuckets(first')
           k2 == NumBuckets(second')
           max == max_sketch_size
<1>1. UNCHANGED <<store_type, max_sketch_size, removed>>
  BY DEF ShrinkFirst, FirstShrunk, ShrinkSecond, SecondShrunk, config
<1>2. Ends /\ ~removed /\ PositiveFirst' = PositiveFirst
  BY <1>1 DEF Ends, PositiveFirst
<1>3. /\ n1 \in Nat /\ n2 \in Nat /\ max \in Nat /\ size = n1 + n2
      /\ IsStore(first) /\ IsStore(second) /\ id_map \in Mapping
      /\ first.store_type \in {COLLAPSINGHIGH_MAPSTORE, COLLAPSINGLOW_MAPSTORE}
      /\ second.store_type \in {COLLAPSINGHIGH_MAPSTORE, COLLAPSINGLOW_MAPSTORE}
  BY <1>2, FirstAndSecond DEF KeptInv
<1>4. size' = k1 + k2
  <2>1. \/ first' = postore' /\ second' = nestore'
        \/ first' = nestore' /\ second' = postore'
    BY DEF first, second
  <2>2. size' = NumBuckets(nestore') + NumBuckets(postore')
    BY DEF size
  <2>3. \E a, b : SoundStore(postore', a) /\ SoundStore(nestore', b)
    <3>1. \/ postore' = Collapse(postore, id_map) /\ nestore' = nestore
          \/ nestore' = Collapse(nestore, id_map) /\ postore' = postore
          \/ nestore' = nestore /\ postore' = postore
      BY DEF ShrinkFirst, FirstShrunk, ShrinkSecond, SecondShrunk, SetFirst, SetSecond,
             first, second, stores
    <3> QED BY <3>1, StoresAreSound, CollapsedIsSound DEF KeptInv
  <2>4. NumBuckets(postore') \in Nat /\ NumBuckets(nestore') \in Nat
    BY <2>3, StoreFields DEF SoundStore
  <2> QED BY <2>1, <2>2, <2>4
<1>5. /\ pc = "shrink_first" => n1 + n2 \in {max, max + 1}
      /\ pc = "shrink_second" => n1 <= 1 /\ n1 + n2 >= max
      /\ second.is_collapsed =>
           /\ n1 + n2 >= max
           /\ n1 <= (IF pc = "shrink_first" /\ n1 + n2 > max THEN 2 ELSE 1)
  BY <1>2, <1>3 DEF KeptInv, FullOnceMerged
<1>6. CASE ShrinkFirst
  <2>1. first' = Collapse(first, id_map) /\ second' = second /\ pc = "shrink_first" /\ pc' = pc
    <3>1. CASE PositiveFirst
      BY <1>2, <1>6, <3>1 DEF ShrinkFirst, SetFirst, first, second
    <3>2. CASE ~PositiveFirst
      BY <1>2, <1>6, <3>2 DEF ShrinkFirst, SetFirst, first, second
    <3> QED BY <3>1, <3>2
  <2>2. k1 = IF n1 >= 2 THEN n1 - 1 ELSE n1
    BY <1>3, <2>1, CollapseMergesOne
  <2>3. k2 = n2 /\ second'.is_collapsed = second.is_collapsed
    BY <2>1
  <2>4. n1 > (IF n2 < max THEN max - n2 ELSE 1)
    BY <1>6 DEF ShrinkFirst, FirstLength, FirstIsEnough
  <2> HIDE DEF n1, n2, k1, k2, max
  <2>5. k1 + k2 = max /\ (second'.is_collapsed => k1 <= 1)
    BY <1>3, <1>5, <2>1, <2>2, <2>3, <2>4
  <2> QED BY <1>1, <1>3, <1>4, <2>1, <2>5 DEF FullOnceMerged, k1, k2, max
<1>7. CASE FirstShrunk
  <2>1. /\ first' = first /\ second' = second /\ pc = "shrink_first"
        /\ pc' = IF n2 < max THEN "ready" ELSE "shrink_second"
        /\ n1 <= (IF n2 < max THEN max - n2 ELSE 1)
    BY <1>2, <1>7 DEF FirstShrunk, first, second, stores, FirstLength, FirstIsEnough
  <2>2. k1 = n1 /\ k2 = n2 /\ second'.is_collapsed = second.is_collapsed
    BY <2>1
  <2> HIDE DEF n1, n2, k1, k2, max
  <2>3. pc' = "shrink_second" => k1 <= 1 /\ k1 + k2 >= max
    BY <1>3, <1>5, <2>1, <2>2
  <2>4. second'.is_collapsed => k1 <= 1 /\ k1 + k2 >= max
    BY <1>3, <1>5, <2>1, <2>2
  <2>5. pc' # "shrink_first"
    BY <2>1
  <2> QED BY <1>1, <1>4, <2>3, <2>4, <2>5 DEF FullOnceMerged, k1, k2, max
<1>8. CASE ShrinkSecond
  <2>1. second' = Collapse(second, id_map) /\ first' = first /\ pc = "shrink_second" /\ pc' = pc
    <3>1. CASE PositiveFirst
      BY <1>2, <1>8, <3>1 DEF ShrinkSecond, SetSecond, first, second
    <3>2. CASE ~PositiveFirst
      BY <1>2, <1>8, <3>2 DEF ShrinkSecond, SetSecond, first, second
    <3> QED BY <3>1, <3>2
  <2>2. k2 = IF n2 >= 2 THEN n2 - 1 ELSE n2
    BY <1>3, <2>1, CollapseMergesOne
  <2>3. k1 = n1
    BY <2>1
  <2>4. n2 > max - n1
    BY <1>8 DEF ShrinkSecond, SecondLength
  <2> HIDE DEF n1, n2, k1, k2, max
  <2>5. k1 <= 1 /\ k1 + k2 >= max
    BY <1>3, <1>5, <2>1, <2>2, <2>3, <2>4
  <2> QED BY <1>1, <1>4, <2>1, <2>5 DEF FullOnceMerged, k1, k2, max
<1>9. CASE SecondShrunk
  <2>1. /\ first' = first /\ second' = second /\ pc = "shrink_second" /\ pc' = "ready"
    BY <1>2, <1>9 DEF SecondShrunk, first, second, stores
  <2>2. k1 = n1 /\ k2 = n2
    BY <2>1
  <2> HIDE DEF n1, n2, k1, k2, max
  <2>3. k1 <= 1 /\ k1 + k2 >= max
    BY <1>3, <1>5, <2>1, <2>2
  <2> QED BY <1>1, <1>4, <2>1, <2>3 DEF FullOnceMerged, k1, k2, max
<1> QED BY <1>6, <1>7, <1>8, <1>9

\* Steps that leave the stores alone, outside the loops that make room.
LEMMA FullUntouched ==
  ASSUME KeptInv, UNCHANGED <<config, stores>>,
         pc \in {"ready", "scan"}, pc' \in {"ready", "scan", "crashed"},
         removed' = removed
  PROVE  FullOnceMerged'
BY DEF KeptInv, FullOnceMerged, Ends, config, stores, first, second, PositiveFirst, size

LEMMA KeptStep == KeptInv /\ [Next]_vars => KeptInv'
<1> SUFFICES ASSUME KeptInv, [Next]_vars PROVE FullOnceMerged'
  BY StepPreserves DEF KeptInv
<1>0. IInv'
  BY StepPreserves DEF KeptInv
<1>1. ASSUME NEW x \in Items, NEW c \in Counts, UpdateIgnored(x) \/ InsertZero(x, c)
      PROVE  FullOnceMerged'
  <2> SUFFICES ASSUME ~removed', Ends' PROVE FullOnceMerged'
    BY DEF FullOnceMerged
  <2>1. /\ pc = "ready" /\ UpdateEnds /\ UNCHANGED <<stores, store_type, removed>>
    BY <1>1 DEF UpdateIgnored, InsertZero, UpdateEnds, config
  <2>2. Ends /\ ~removed /\ first' = first /\ second' = second
    BY <2>1 DEF Ends, stores, first, second, PositiveFirst
  <2> QED BY <1>0, <2>1, <2>2, FullAfterUpdate
<1>2. ASSUME NEW x \in Items, NEW c \in Counts, InsertStored(x, c) PROVE FullOnceMerged'
  BY <1>0, <1>2, FullAfterInsert
<1>3. ASSUME NEW x \in Items, NEW c \in Counts, RemoveZero(x, c) \/ RemoveStored(x, c)
      PROVE  FullOnceMerged'
  <2>1. CASE removed'
    BY <2>1 DEF FullOnceMerged
  <2>2. CASE Crash /\ pc = "ready"
    BY <2>2, FullUntouched DEF Crash
  <2> QED BY <1>3, <2>1, <2>2 DEF RemoveZero, RemoveStored
<1>4. ASSUME NEW rank \in Ranks, AskNegative(rank) \/ AskZero(rank) \/ AskPositive(rank)
      PROVE  FullOnceMerged'
  BY <1>4, FullUntouched DEF AskNegative, AskZero, AskPositive, MayAsk, StartScan, Crash
<1>5. CASE ShrinkFirst \/ FirstShrunk \/ ShrinkSecond \/ SecondShrunk
  BY <1>5, FullAfterShrink
<1>6. CASE CollapseAll
  <2>1. ~Ends' 
    BY <1>6
    DEF CollapseAll, config, Ends, KeptInv, IInv, LoopOfPolicy, COLLAPSINGALL_MAPSTORE,
        COLLAPSINGHIGH_MAPSTORE, COLLAPSINGLOW_MAPSTORE
  <2> QED BY <2>1 DEF FullOnceMerged
<1>7. CASE ScanUp \/ ScanDown \/ ScanReturns
  BY <1>7, FullUntouched DEF ScanUp, ScanDown, ScanReturns
<1>8. CASE UNCHANGED vars
  BY <1>8 DEF vars, KeptInv, FullOnceMerged, Ends, first, second, PositiveFirst, size
<1> QED BY <1>1, <1>2, <1>3, <1>4, <1>5, <1>6, <1>7, <1>8 DEF Next, Update, Query, Loop, Shrink

LEMMA KeptInit == Init => KeptInv
<1> SUFFICES ASSUME Init PROVE FullOnceMerged
  BY InitEstablishes DEF KeptInv
<1>1. PICK p \in Policies : Created(p[1], p[2], Grain)
  BY DEF Init
<1>2. ~postore.is_collapsed /\ ~nestore.is_collapsed /\ pc = "ready"
  BY <1>1 DEF Created, NewStore
<1> QED BY <1>2 DEF FullOnceMerged, second

\* Until the first removal, under a policy that merges at one end, the store at the end
\* to be kept is collapsed only when the other one has at most a single bucket, and the
\* other one never grows again: what was merged is one run of the sorted items.
THEOREM KeptEndIsLast == Spec => []KeptEndLast
<1>1. KeptInv => KeptEndLast
  <2> SUFFICES ASSUME KeptInv, pc = "ready", ~removed PROVE KeptEndLast
    BY DEF KeptEndLast
  <2>1. Ends /\ second.is_collapsed => NumBuckets(first) <= 1
    BY DEF KeptInv, FullOnceMerged
  <2>2. CASE store_type = COLLAPSINGHIGH_MAPSTORE
    BY <2>1, <2>2
    DEF KeptEndLast, Ends, first, second, PositiveFirst, COLLAPSINGHIGH_MAPSTORE,
        COLLAPSINGLOW_MAPSTORE
  <2>3. CASE store_type = COLLAPSINGLOW_MAPSTORE
    BY <2>1, <2>3
    DEF KeptEndLast, Ends, first, second, PositiveFirst, COLLAPSINGHIGH_MAPSTORE,
        COLLAPSINGLOW_MAPSTORE
  <2> QED BY <2>2, <2>3 DEF KeptEndLast
<1> QED BY <1>1, KeptInit, KeptStep, PTL DEF Spec

----------------------------------------------------------------------------
(* What num_collapses says of the resolution. *)

\* The recursive definition of GammaAfter has a solution: every initial part of it
\* can be prolonged, and in one way only.
LEMMA GammaAfterIs ==
  /\ GammaAfter[0] = Grain
  /\ \A n \in Nat : GammaAfter[n] \in Nat /\ GammaAfter[n + 1] = 2 * GammaAfter[n]
<1> DEFINE Part(g, k) == /\ g \in [0 .. k -> Nat] /\ g[0] = Grain
                         /\ \A i \in 0 .. k : i + 1 <= k => g[i + 1] = 2 * g[i]
<1>1. \A k \in Nat : \E g : Part(g, k)
  <2> DEFINE T == {k \in Nat : \E g : Part(g, k)}
  <2>1. 0 \in T
    <3> DEFINE g == [i \in 0 .. 0 |-> Grain]
    <3>1. Part(g, 0)
      BY GrainAssumption
    <3> QED BY <3>1
  <2>2. ASSUME NEW k \in Nat, k \in T PROVE k + 1 \in T
    <3>1. PICK g : Part(g, k)
      BY <2>2
    <3> DEFINE h == [i \in 0 .. (k + 1) |-> IF i = k + 1 THEN 2 * g[k] ELSE g[i]]
    <3>2. g[k] \in Nat
      BY <3>1
    <3>3. h \in [0 .. (k + 1) -> Nat] /\ h[0] = Grain
      BY <3>1, <3>2
    <3>4. \A i \in 0 .. (k + 1) : i + 1 <= k + 1 => h[i + 1] = 2 * h[i]
      BY <3>1
    <3>5. Part(h, k + 1)
      BY <3>3, <3>4
    <3> HIDE DEF Part, h
    <3> QED BY <3>5
  <2> HIDE DEF T
  <2>3. Nat \subseteq T
    BY <2>1, <2>2, InductionOverNat
  <2> QED BY <2>3 DEF T
<1>2. ASSUME NEW k \in Nat, NEW l \in Nat, NEW g, NEW h, Part(g, k), Part(h, l)
      PROVE  \A i \in Nat : i <= k /\ i <= l => g[i] = h[i]
  <2> DEFINE T == {i \in Nat : i <= k /\ i <= l => g[i] = h[i]}
  <2>1. 0 \in T
    BY <1>2
  <2>2. ASSUME NEW i \in Nat, i \in T PROVE i + 1 \in T
    <3> SUFFICES ASSUME i + 1 <= k, i + 1 <= l PROVE g[i + 1] = h[i + 1]
      OBVIOUS
    <3>1. g[i] = h[i] /\ i \in 0 .. k /\ i \in 0 .. l
      BY <2>2
    <3> QED BY <1>2, <3>1
  <2> HIDE DEF T
  <2>3. Nat \subseteq T
    BY <2>1, <2>2, InductionOverNat
  <2> QED BY <2>3 DEF T
<1> DEFINE part == [k \in Nat |-> CHOOSE g : Part(g, k)]
           f    == [n \in Nat |-> part[n][n]]
           Step(w) == [n \in Nat |-> IF n = 0 THEN Grain ELSE 2 * w[n - 1]]
<1>3. \A k \in Nat : Part(part[k], k)
  BY <1>1
<1> HIDE DEF part
<1>4. f[0] = Grain /\ \A n \in Nat : f[n] \in Nat
  BY <1>3
<1>5. \A n \in Nat : f[n + 1] = 2 * f[n]
  <2> SUFFICES ASSUME NEW n \in Nat PROVE part[n + 1][n + 1] = 2 * part[n][n]
    OBVIOUS
  <2>1. Part(part[n], n) /\ Part(part[n + 1], n + 1)
    BY <1>3
  <2>2. part[n + 1][n + 1] = 2 * part[n + 1][n]
    BY <2>1
  <2> HIDE DEF Part
  <2>3. \A i \in Nat : i <= n + 1 /\ i <= n => part[n + 1][i] = part[n][i]
    <3>1. n + 1 \in Nat
      OBVIOUS
    <3> QED BY <1>2, <2>1, <3>1
  <2>4. part[n + 1][n] = part[n][n]
    BY <2>3
  <2> QED BY <2>2, <2>4
<1>6. f = Step(f)
  <2>1. \A n \in Nat : f[n] = Step(f)[n]
    <3> SUFFICES ASSUME NEW n \in Nat PROVE f[n] = Step(f)[n]
      OBVIOUS
    <3> HIDE DEF f
    <3>1. CASE n = 0
      BY <1>4, <3>1
    <3>2. CASE n # 0
      <4>1. n - 1 \in Nat /\ (n - 1) + 1 = n
        BY <3>2
      <4>2. f[n] = 2 * f[n - 1]
        BY <1>5, <4>1
      <4> QED BY <3>2, <4>2
    <3> QED BY <3>1, <3>2
  <2> QED BY <2>1
<1> HIDE DEF f
<1>7. GammaAfter = Step(GammaAfter)
  BY <1>6 DEF GammaAfter
<1>8. GammaAfter[0] = Grain
  BY <1>7
<1>9. \A n \in Nat : GammaAfter[n + 1] = 2 * GammaAfter[n]
  <2> SUFFICES ASSUME NEW n \in Nat PROVE GammaAfter[n + 1] = 2 * GammaAfter[n]
    OBVIOUS
  <2>1. n + 1 \in Nat /\ n + 1 # 0 /\ (n + 1) - 1 = n
    OBVIOUS
  <2> QED BY <1>7, <2>1
<1>10. \A n \in Nat : GammaAfter[n] \in Nat
  <2> DEFINE T == {n \in Nat : GammaAfter[n] \in Nat}
  <2>1. 0 \in T
    BY <1>8, GrainAssumption
  <2>2. \A n \in Nat : n \in T => n + 1 \in T
    BY <1>9
  <2> HIDE DEF T
  <2>3. Nat \subseteq T
    BY <2>1, <2>2, InductionOverNat
  <2> QED BY <2>3 DEF T
<1> QED BY <1>8, <1>9, <1>10


\* As long as nothing is removed, a store that took part in a collapse has buckets.
NeverDrained(st) == st.num_collapses > 0 => ~IsEmpty(st)

GammaCounted ==
  /\ store_type # COLLAPSINGALL_MAPSTORE => id_map.log_gamma = Grain
  /\ store_type = COLLAPSINGALL_MAPSTORE =>
       /\ GammaAfter[num_collapses] <= id_map.log_gamma
       /\ ~removed => /\ GammaAfter[num_collapses] = id_map.log_gamma
                      /\ NeverDrained(postore) /\ NeverDrained(nestore)

GammaInv == IInv /\ GammaCounted

GreaterOf(a, b) == IF a >= b THEN a ELSE b

LEMMA MaxOfTwo ==
  ASSUME NEW a \in Nat, NEW b \in Nat
  PROVE  Max({a, b}) = GreaterOf(a, b)
<1>1. {a, b} \in SUBSET Int /\ {a, b} # {}
  OBVIOUS
<1>2. IsFiniteSet({a, b})
  <2>1. IsFiniteSet({a})
    BY FS_Singleton
  <2>2. IsFiniteSet({a} \cup {b})
    BY <2>1, FS_AddElement
  <2>3. {a} \cup {b} = {a, b}
    OBVIOUS
  <2> QED BY <2>2, <2>3
<1>3. Max({a, b}) \in {a, b} /\ \A y \in {a, b} : y <= Max({a, b})
  BY <1>1, <1>2, MaxIsGreatest
<1> QED BY <1>3 DEF GreaterOf

\* What num_collapses depends on, in this state and in the next.
LEMMA CollapsesNow ==
  ASSUME IInv, store_type = COLLAPSINGALL_MAPSTORE
  PROVE  /\ nestore.num_collapses \in Nat /\ postore.num_collapses \in Nat
         /\ num_collapses = GreaterOf(nestore.num_collapses, postore.num_collapses)
<1>1. nestore.num_collapses \in Nat /\ postore.num_collapses \in Nat
  BY StoresAreSound, StoreFields DEF SoundStore
<1>2. Max({nestore.num_collapses, postore.num_collapses}) =
        GreaterOf(nestore.num_collapses, postore.num_collapses)
  BY <1>1, MaxOfTwo
<1> QED BY <1>1, <1>2 DEF num_collapses

LEMMA CollapsesNext ==
  ASSUME IInv', store_type' = COLLAPSINGALL_MAPSTORE
  PROVE  /\ nestore'.num_collapses \in Nat /\ postore'.num_collapses \in Nat
         /\ num_collapses' = GreaterOf(nestore'.num_collapses, postore'.num_collapses)
<1>1. IsStore(nestore') /\ IsStore(postore')
  BY DEF IInv, TypeOK
<1>2. nestore'.num_collapses \in Nat /\ postore'.num_collapses \in Nat
  BY <1>1, StoreFields
<1>3. Max({nestore'.num_collapses, postore'.num_collapses}) =
        GreaterOf(nestore'.num_collapses, postore'.num_collapses)
  BY <1>2, MaxOfTwo
<1> QED BY <1>2, <1>3 DEF num_collapses

LEMMA GammaInit == Init => GammaInv
<1> SUFFICES ASSUME Init PROVE GammaCounted
  BY InitEstablishes DEF GammaInv
<1>1. PICK p \in Policies : Created(p[1], p[2], Grain)
  BY DEF Init
<1>2. IInv
  BY InitEstablishes
<1>3. /\ id_map.log_gamma = Grain
      /\ postore.num_collapses = 0 /\ nestore.num_collapses = 0
  BY <1>1 DEF Created, NewStore, NewMapping
<1>4. store_type = COLLAPSINGALL_MAPSTORE => num_collapses = 0
  BY <1>2, <1>3, CollapsesNow DEF GreaterOf
<1> QED BY <1>3, <1>4, GammaAfterIs, GrainAssumption DEF GammaCounted, NeverDrained

\* A step that squares nothing, and under the uniform collapse changes no count of
\* collapses, and drains no store unless it removes.
LEMMA GammaUnchanged ==
  ASSUME GammaInv, IInv', UNCHANGED <<store_type, id_map>>, removed => removed',
         store_type = COLLAPSINGALL_MAPSTORE =>
           /\ postore'.num_collapses = postore.num_collapses
           /\ nestore'.num_collapses = nestore.num_collapses
           /\ ~removed' => /\ ~IsEmpty(postore) => ~IsEmpty(postore')
                           /\ ~IsEmpty(nestore) => ~IsEmpty(nestore')
  PROVE  GammaInv'
<1>1. CASE store_type # COLLAPSINGALL_MAPSTORE
  BY <1>1 DEF GammaInv, GammaCounted
<1>2. CASE store_type = COLLAPSINGALL_MAPSTORE
  <2>1. num_collapses' = num_collapses
    BY <1>2, CollapsesNow, CollapsesNext DEF GammaInv
  <2>2. /\ GammaAfter[num_collapses] <= id_map.log_gamma
        /\ ~removed => GammaAfter[num_collapses] = id_map.log_gamma
        /\ ~removed => NeverDrained(postore) /\ NeverDrained(nestore)
    BY <1>2 DEF GammaInv, GammaCounted
  <2>3. ~removed' => NeverDrained(postore') /\ NeverDrained(nestore')
    BY <1>2, <2>2 DEF NeverDrained
  <2> QED BY <1>2, <2>1, <2>2, <2>3 DEF GammaInv, GammaCounted
<1> QED BY <1>1, <1>2

\* Under the uniform collapse a removal never ends a collapsed state.
LEMMA RemovalKeepsCount ==
  ASSUME NEW st, IsStore(st), ~RemoveReadsNull(st), st.store_type = COLLAPSINGALL_MAPSTORE,
         NEW bid \in Int, NEW count \in Nat \ {0}
  PROVE  RemoveItem(st, bid, count).num_collapses = st.num_collapses
<1>1. ~DrainsEnd(st, bid, count)
  BY DEF DrainsEnd, FromLast, FromFirst, CollapsedHigh, CollapsedLow, COLLAPSINGALL_MAPSTORE,
         COLLAPSINGHIGH_MAPSTORE, COLLAPSINGLOW_MAPSTORE
<1> QED BY <1>1, StoreFields DEF RemoveItem

LEMMA GammaOfUpdate ==
  ASSUME GammaInv, IInv', NEW x \in Items, NEW c \in Counts,
         \/ UpdateIgnored(x) \/ InsertZero(x, c) \/ RemoveZero(x, c)
         \/ InsertStored(x, c) \/ RemoveStored(x, c)
  PROVE  GammaInv'
<1>1. IInv /\ c \in Nat \ {0} /\ BucketId(id_map, x.log) \in Int
  BY CountsAssumption, ItemFacts, StoresAreSound, BucketIdIsInt DEF GammaInv
<1>2. CASE UpdateIgnored(x) \/ InsertZero(x, c) \/ RemoveZero(x, c)
  <2>1. UNCHANGED <<store_type, id_map, postore, nestore>> /\ (removed => removed')
    BY <1>2 DEF UpdateIgnored, InsertZero, RemoveZero, UpdateEnds, config, stores
  <2> QED BY <2>1, GammaUnchanged
<1>3. CASE InsertStored(x, c)
  <2>1. UNCHANGED <<store_type, id_map, removed>>
    BY <1>3 DEF InsertStored, UpdateEnds, config
  <2>2. \/ postore' = Inserted(postore, x, c) /\ nestore' = nestore
        \/ nestore' = Inserted(nestore, x, c) /\ postore' = postore
    BY <1>3 DEF InsertStored
  <2>3. /\ SoundStore(postore, PostoreType(store_type))
        /\ SoundStore(nestore, NestoreType(store_type))
    BY <1>1, StoresAreSound
  <2>4. /\ postore'.num_collapses = postore.num_collapses
        /\ nestore'.num_collapses = nestore.num_collapses
        /\ ~IsEmpty(postore) => ~IsEmpty(postore')
        /\ ~IsEmpty(nestore) => ~IsEmpty(nestore')
    <3>1. /\ Inserted(postore, x, c).num_collapses = postore.num_collapses
          /\ ~IsEmpty(Inserted(postore, x, c))
          /\ Inserted(nestore, x, c).num_collapses = nestore.num_collapses
          /\ ~IsEmpty(Inserted(nestore, x, c))
      BY <1>1, <2>3, InsertedIsSound DEF IsEmpty
    <3> QED BY <2>2, <3>1
  <2> QED BY <2>1, <2>4, GammaUnchanged
<1>4. CASE RemoveStored(x, c)
  <2>1. CASE Crash
    <3>1. UNCHANGED <<store_type, id_map, removed, postore, nestore>>
      BY <2>1 DEF Crash, config, stores
    <3> QED BY <3>1, GammaUnchanged
  <2>2. CASE ~RemoveReadsNull(StoreOf(x))
    <3>1. UNCHANGED <<store_type, id_map>> /\ removed'
      BY <1>4, <2>2 DEF RemoveStored, UpdateEnds, config
    <3>2. \/ postore' = Removed(postore, x, c) /\ nestore' = nestore /\ ~RemoveReadsNull(postore)
          \/ nestore' = Removed(nestore, x, c) /\ postore' = postore /\ ~RemoveReadsNull(nestore)
      BY <1>4, <2>2 DEF RemoveStored, StoreOf
    <3>3. ASSUME store_type = COLLAPSINGALL_MAPSTORE
          PROVE  /\ postore'.num_collapses = postore.num_collapses
                 /\ nestore'.num_collapses = nestore.num_collapses
      <4>1. /\ IsStore(postore) /\ postore.store_type = COLLAPSINGALL_MAPSTORE
            /\ IsStore(nestore) /\ nestore.store_type = COLLAPSINGALL_MAPSTORE
        BY <1>1, <3>3 DEF IInv, TypeOK, PostoreType, NestoreType, COLLAPSINGALL_MAPSTORE,
          COLLAPSINGHIGH_MAPSTORE, COLLAPSINGLOW_MAPSTORE
      <4> QED BY <1>1, <3>2, <4>1, RemovalKeepsCount DEF Removed
    <3> QED BY <3>1, <3>3, GammaUnchanged
  <2> QED BY <1>4, <2>1, <2>2 DEF RemoveStored
<1> QED BY <1>2, <1>3, <1>4

\* One pass of the uniform collapse over a store.
LEMMA HalvedCounts ==
  ASSUME NEW st, IsStore(st), st.store_type = COLLAPSINGALL_MAPSTORE, id_map \in Mapping
  PROVE  /\ Halved(st).num_collapses =
              IF IsEmpty(st) THEN st.num_collapses ELSE st.num_collapses + 1
         /\ IsEmpty(Halved(st)) => IsEmpty(st)
<1>1. CanCollapse(st)
  BY DEF CanCollapse
<1> QED BY <1>1, CollapseIsStore DEF Halved

LEMMA GammaOfAll ==
  ASSUME GammaInv, IInv', CollapseAll
  PROVE  GammaInv'
<1>1. /\ store_type' = store_type /\ max_sketch_size' = max_sketch_size /\ removed' = removed
      /\ postore' = Halved(postore) /\ nestore' = Halved(nestore)
      /\ id_map' = SquareGamma(id_map) /\ pc = "collapse_all"
  BY DEF CollapseAll, config
<1>2. store_type = COLLAPSINGALL_MAPSTORE /\ size > max_sketch_size
  BY <1>1 DEF GammaInv, IInv, LoopOfPolicy
<1>3. /\ IsStore(postore) /\ postore.store_type = COLLAPSINGALL_MAPSTORE
      /\ IsStore(nestore) /\ nestore.store_type = COLLAPSINGALL_MAPSTORE
  BY <1>2 DEF GammaInv, IInv, TypeOK, PostoreType, NestoreType, COLLAPSINGALL_MAPSTORE,
    COLLAPSINGHIGH_MAPSTORE, COLLAPSINGLOW_MAPSTORE
<1>4. ~IsEmpty(postore) \/ ~IsEmpty(nestore)
  <2> SUFFICES ASSUME IsEmpty(postore), IsEmpty(nestore) PROVE FALSE
    OBVIOUS
  <2>1. NumBuckets(postore) = 0 /\ NumBuckets(nestore) = 0
    BY FS_EmptySet DEF NumBuckets, IsEmpty
  <2>2. max_sketch_size \in Nat
    BY StoresAreSound DEF GammaInv
  <2> QED BY <1>2, <2>1, <2>2 DEF size
<1>5. id_map \in Mapping
  BY StoresAreSound DEF GammaInv
<1>6. id_map.log_gamma \in Nat /\ id_map'.log_gamma = 2 * id_map.log_gamma
  BY <1>1, <1>5 DEF SquareGamma, Mapping
<1>7. /\ nestore.num_collapses \in Nat /\ postore.num_collapses \in Nat
      /\ num_collapses = GreaterOf(nestore.num_collapses, postore.num_collapses)
  BY <1>2, CollapsesNow DEF GammaInv
<1>8. num_collapses' = GreaterOf(nestore'.num_collapses, postore'.num_collapses)
  BY <1>1, <1>2, CollapsesNext
<1>9. /\ postore'.num_collapses =
           IF IsEmpty(postore) THEN postore.num_collapses ELSE postore.num_collapses + 1
      /\ nestore'.num_collapses =
           IF IsEmpty(nestore) THEN nestore.num_collapses ELSE nestore.num_collapses + 1
      /\ IsEmpty(postore') => IsEmpty(postore)
      /\ IsEmpty(nestore') => IsEmpty(nestore)
  BY <1>1, <1>3, <1>5, HalvedCounts
<1>10. num_collapses \in Nat /\ num_collapses' \in {num_collapses, num_collapses + 1}
  BY <1>7, <1>8, <1>9 DEF GreaterOf
<1>11. /\ GammaAfter[num_collapses] <= id_map.log_gamma
       /\ ~removed => GammaAfter[num_collapses] = id_map.log_gamma
       /\ ~removed => NeverDrained(postore) /\ NeverDrained(nestore)
  BY <1>2 DEF GammaInv, GammaCounted
<1>12. GammaAfter[num_collapses] \in Nat
       /\ GammaAfter[num_collapses + 1] = 2 * GammaAfter[num_collapses]
  BY <1>10, GammaAfterIs
<1>13. GammaAfter[num_collapses'] <= id_map'.log_gamma
  <2>1. CASE num_collapses' = num_collapses
    BY <1>6, <1>11, <1>12, <2>1
  <2>2. CASE num_collapses' = num_collapses + 1
    BY <1>6, <1>11, <1>12, <2>2
  <2> QED BY <1>10, <2>1, <2>2
<1>14. ASSUME ~removed'
       PROVE  /\ GammaAfter[num_collapses'] = id_map'.log_gamma
              /\ NeverDrained(postore') /\ NeverDrained(nestore')
  <2>1. ~removed
    BY <1>1, <1>14
  <2>2. /\ IsEmpty(postore) => postore.num_collapses = 0
        /\ IsEmpty(nestore) => nestore.num_collapses = 0
    BY <1>7, <1>11, <2>1 DEF NeverDrained
  <2>3. num_collapses' = num_collapses + 1
    BY <1>4, <1>7, <1>8, <1>9, <2>2 DEF GreaterOf
  <2>4. GammaAfter[num_collapses'] = id_map'.log_gamma
    BY <1>6, <1>11, <1>12, <2>1, <2>3
  <2>5. NeverDrained(postore') /\ NeverDrained(nestore')
    BY <1>7, <1>9, <2>2 DEF NeverDrained
  <2> QED BY <2>4, <2>5
<1> QED BY <1>1, <1>2, <1>13, <1>14 DEF GammaInv, GammaCounted

LEMMA GammaStep == GammaInv /\ [Next]_vars => GammaInv'
<1> SUFFICES ASSUME GammaInv, [Next]_vars PROVE GammaInv'
  OBVIOUS
<1>1. IInv /\ IInv'
  BY StepPreserves DEF GammaInv
<1>2. ASSUME NEW x \in Items, NEW c \in Counts,
             \/ UpdateIgnored(x) \/ InsertZero(x, c) \/ RemoveZero(x, c)
             \/ InsertStored(x, c) \/ RemoveStored(x, c)
      PROVE  GammaInv'
  BY <1>1, <1>2, GammaOfUpdate
<1>3. CASE CollapseAll
  BY <1>1, <1>3, GammaOfAll
<1>4. CASE ShrinkFirst \/ ShrinkSecond
  <2>1. /\ UNCHANGED <<store_type, id_map, removed, pc>>
        /\ pc \in {"shrink_first", "shrink_second"}
    BY <1>4 DEF ShrinkFirst, ShrinkSecond, config
  <2>2. store_type # COLLAPSINGALL_MAPSTORE
    BY <1>1, <2>1 DEF IInv, LoopOfPolicy, Ends, COLLAPSINGALL_MAPSTORE,
      COLLAPSINGHIGH_MAPSTORE, COLLAPSINGLOW_MAPSTORE
  <2> QED BY <1>1, <2>1, <2>2, GammaUnchanged
<1>5. ASSUME \/ FirstShrunk \/ SecondShrunk \/ ScanUp \/ ScanDown \/ ScanReturns
             \/ \E rank \in Ranks : AskNegative(rank) \/ AskZero(rank) \/ AskPositive(rank)
             \/ UNCHANGED vars
      PROVE  GammaInv'
  <2>1. UNCHANGED <<store_type, id_map, removed, postore, nestore>>
    BY <1>5 DEF FirstShrunk, SecondShrunk, ScanUp, ScanDown, ScanReturns, AskNegative,
      AskZero, AskPositive, StartScan, Crash, config, stores, vars
  <2> QED BY <1>1, <2>1, GammaUnchanged
<1> QED BY <1>2, <1>3, <1>4, <1>5 DEF Next, Update, Query, Loop, Shrink

\* num_collapses never tells more than the squarings of gamma, and exactly as many as
\* long as nothing is removed: whatever callers do, the pass that skips an empty store
\* leaves the greater of the two counts right.
THEOREM GammaIsTracked == Spec => []GammaTracksCollapses
<1>1. GammaInv => GammaTracksCollapses
  <2> SUFFICES ASSUME GammaInv PROVE GammaTracksCollapses
    OBVIOUS
  <2>1. CASE store_type # COLLAPSINGALL_MAPSTORE
    BY <2>1, GrainAssumption DEF GammaInv, GammaCounted, GammaTracksCollapses
  <2>2. CASE store_type = COLLAPSINGALL_MAPSTORE
    BY <2>2 DEF GammaInv, GammaCounted, GammaTracksCollapses
  <2> QED BY <2>1, <2>2
<1> QED BY <1>1, GammaInit, GammaStep, PTL DEF Spec


----------------------------------------------------------------------------
(* Why the loops that make room end. *)

\* A store has no more buckets than there are ids between its ends.
LEMMA SpanIsNat ==
  ASSUME NEW st, IsStore(st)
  PROVE  /\ Span(st) \in Nat
         /\ NumBuckets(st) \in Nat /\ NumBuckets(st) <= Span(st) + 1
         /\ IsEmpty(st) => Span(st) = 0 /\ NumBuckets(st) = 0
<1>1. CASE IsEmpty(st)
  <2>1. NumBuckets(st) = 0
    BY <1>1, FS_EmptySet DEF IsEmpty, NumBuckets
  <2> QED BY <1>1, <2>1 DEF Span
<1>2. CASE ~IsEmpty(st)
  <2>1. /\ MinBid(st) \in Bids(st) /\ \A b \in Bids(st) : MinBid(st) <= b
        /\ MaxBid(st) \in Bids(st) /\ \A b \in Bids(st) : b <= MaxBid(st)
        /\ Bids(st) \in SUBSET Int /\ NumBuckets(st) \in Nat
    BY <1>2, EndsAreBuckets, StoreFields
  <2>2. MinBid(st) \in Int /\ MaxBid(st) \in Int /\ MinBid(st) <= MaxBid(st)
    BY <2>1
  <2>3. /\ IsFiniteSet(MinBid(st) .. MaxBid(st))
        /\ Cardinality(MinBid(st) .. MaxBid(st)) = MaxBid(st) - MinBid(st) + 1
    BY <2>2, FS_Interval
  <2>4. Bids(st) \in SUBSET (MinBid(st) .. MaxBid(st))
    BY <2>1, <2>2
  <2>5. NumBuckets(st) <= MaxBid(st) - MinBid(st) + 1
    BY <2>3, <2>4, FS_Subset DEF NumBuckets
  <2>6. Span(st) = MaxBid(st) - MinBid(st)
    BY <1>2 DEF Span
  <2> QED BY <1>2, <2>1, <2>2, <2>5, <2>6
<1> QED BY <1>1, <1>2

\* The uniform collapse halves the distance between the ends, rounding up.
LEMMA HalvedSpan ==
  ASSUME NEW st, IsStore(st), st.store_type = COLLAPSINGALL_MAPSTORE,
         id_map \in Mapping, id_map.type = LOG_UPPER
  PROVE  Span(Halved(st)) \in Nat /\ 2 * Span(Halved(st)) <= Span(st) + 1
<1>1. CASE IsEmpty(st)
  BY <1>1, SpanIsNat DEF Halved
<1>2. CASE ~IsEmpty(st)
  <2> DEFINE after == Collapse(st, id_map)
             half(k) == HalfBid(id_map, k)
  <2>1. CanCollapse(st)
    BY DEF CanCollapse
  <2>2. IsStore(after) /\ ~IsEmpty(after)
    BY <1>2, CollapseIsStore
  <2>3. Bids(after) = {half(k) : k \in Bids(st)}
    <3>1. after.buckets = HalveAll(st, id_map)
      BY <2>1, StoreFields
      DEF Collapse, CollapsedBuckets, COLLAPSINGALL_MAPSTORE, COLLAPSINGHIGH_MAPSTORE,
          COLLAPSINGLOW_MAPSTORE
    <3> QED BY <3>1, HalveAllIsDict DEF Bids
  <2>4. /\ MinBid(st) \in Bids(st) /\ \A b \in Bids(st) : MinBid(st) <= b
        /\ MaxBid(st) \in Bids(st) /\ \A b \in Bids(st) : b <= MaxBid(st)
        /\ Bids(st) \in SUBSET Int
    BY <1>2, EndsAreBuckets, StoreFields
  <2>5. /\ MinBid(after) \in Bids(after) /\ MaxBid(after) \in Bids(after)
    BY <2>2, EndsAreBuckets
  <2> HIDE DEF after, half
  <2>6. PICK j \in Bids(st) : MinBid(after) = half(j)
    BY <2>3, <2>5
  <2>7. PICK k \in Bids(st) : MaxBid(after) = half(k)
    BY <2>3, <2>5
  <2>8. \A i \in Int : half(i) \in Int /\ i <= 2 * half(i) /\ 2 * half(i) <= i + 1
    BY HalvesOf DEF half, LowerHalf, UpperHalf
  <2>9. Span(st) = MaxBid(st) - MinBid(st) /\ Span(after) = MaxBid(after) - MinBid(after)
    BY <1>2, <2>2 DEF Span
  <2>10. Span(after) \in Nat
    BY <2>2, SpanIsNat
  <2>11. 2 * Span(after) <= Span(st) + 1
    <3>1. /\ j \in Int /\ k \in Int /\ MinBid(st) \in Int /\ MaxBid(st) \in Int
          /\ MinBid(st) <= j /\ k <= MaxBid(st)
      BY <2>4
    <3>2. /\ half(j) \in Int /\ j <= 2 * half(j)
          /\ half(k) \in Int /\ 2 * half(k) <= k + 1
      BY <2>8, <3>1
    <3> QED BY <2>6, <2>7, <2>9, <3>1, <3>2
  <2> QED BY <1>2, <2>10, <2>11 DEF Halved, after
<1> QED BY <1>1, <1>2

\* Each of the two stores may keep the buckets 0 and 1 for ever.
Roomy == store_type = COLLAPSINGALL_MAPSTORE => max_sketch_size >= 4

LEMMA AllShrinks ==
  ASSUME IInv, Roomy, CollapseAll
  PROVE  Span(postore') + Span(nestore') < Span(postore) + Span(nestore)
<1>1. /\ postore' = Halved(postore) /\ nestore' = Halved(nestore) /\ pc = "collapse_all"
  BY DEF CollapseAll
<1>2. /\ store_type = COLLAPSINGALL_MAPSTORE /\ size > max_sketch_size
      /\ max_sketch_size \in Nat /\ max_sketch_size >= 4
  BY <1>1, StoresAreSound DEF IInv, LoopOfPolicy, Roomy
<1>3. /\ IsStore(postore) /\ postore.store_type = COLLAPSINGALL_MAPSTORE
      /\ IsStore(nestore) /\ nestore.store_type = COLLAPSINGALL_MAPSTORE
      /\ id_map \in Mapping /\ id_map.type = LOG_UPPER
  BY <1>2 DEF IInv, TypeOK, PostoreType, NestoreType, COLLAPSINGALL_MAPSTORE,
    COLLAPSINGHIGH_MAPSTORE, COLLAPSINGLOW_MAPSTORE
<1>4. /\ Span(postore') \in Nat /\ 2 * Span(postore') <= Span(postore) + 1
      /\ Span(nestore') \in Nat /\ 2 * Span(nestore') <= Span(nestore) + 1
  BY <1>1, <1>3, HalvedSpan
<1>5. /\ Span(postore) \in Nat /\ Span(nestore) \in Nat
      /\ NumBuckets(postore) \in Nat /\ NumBuckets(postore) <= Span(postore) + 1
      /\ NumBuckets(nestore) \in Nat /\ NumBuckets(nestore) <= Span(nestore) + 1
  BY <1>3, SpanIsNat
<1>6. Span(postore) + Span(nestore) >= 3
  BY <1>2, <1>5 DEF size
<1> QED BY <1>4, <1>5, <1>6

\* A pass at one end merges two buckets, or finds a single one and changes nothing.
LEMMA EndsShrink ==
  ASSUME IInv, ShrinkFirst \/ ShrinkSecond
  PROVE  size' < size \/ UNCHANGED vars
<1>1. /\ UNCHANGED <<store_type, max_sketch_size, id_map, zero_bucket, pc, scan, answer,
                     live, removed>>
      /\ pc \in {"shrink_first", "shrink_second"}
  BY DEF ShrinkFirst, ShrinkSecond, config
<1>2. \/ postore' = Collapse(postore, id_map) /\ nestore' = nestore
      \/ nestore' = Collapse(nestore, id_map) /\ postore' = postore
  BY DEF ShrinkFirst, ShrinkSecond, SetFirst, SetSecond, first, second
<1>3. /\ IsStore(postore) /\ postore.store_type \in {COLLAPSINGHIGH_MAPSTORE, COLLAPSINGLOW_MAPSTORE}
      /\ IsStore(nestore) /\ nestore.store_type \in {COLLAPSINGHIGH_MAPSTORE, COLLAPSINGLOW_MAPSTORE}
      /\ id_map \in Mapping
  BY <1>1 DEF IInv, TypeOK, LoopOfPolicy, PostoreType, NestoreType
<1>4. NumBuckets(postore) \in Nat /\ NumBuckets(nestore) \in Nat
  BY <1>3, StoreFields
<1>5. ASSUME NEW st, IsStore(st),
             st.store_type \in {COLLAPSINGHIGH_MAPSTORE, COLLAPSINGLOW_MAPSTORE}
      PROVE  \/ NumBuckets(Collapse(st, id_map)) = NumBuckets(st) - 1
             \/ Collapse(st, id_map) = st
  <2>1. CASE NumBuckets(st) >= 2
    BY <1>3, <1>5, <2>1, CollapseMergesOne
  <2>2. CASE ~(NumBuckets(st) >= 2)
    <3>1. ~CanCollapse(st)
      BY <1>5, <2>2 DEF CanCollapse, COLLAPSINGALL_MAPSTORE, COLLAPSINGHIGH_MAPSTORE,
        COLLAPSINGLOW_MAPSTORE
    <3> QED BY <3>1 DEF Collapse
  <2> QED BY <2>1, <2>2
<1>6. CASE postore' = Collapse(postore, id_map) /\ nestore' = nestore
  <2>1. NumBuckets(postore') = NumBuckets(postore) - 1 \/ postore' = postore
    BY <1>3, <1>5, <1>6
  <2> QED BY <1>1, <1>4, <1>6, <2>1 DEF size, vars
<1>7. CASE nestore' = Collapse(nestore, id_map) /\ postore' = postore
  <2>1. NumBuckets(nestore') = NumBuckets(nestore) - 1 \/ nestore' = nestore
    BY <1>3, <1>5, <1>7
  <2> QED BY <1>1, <1>4, <1>7, <2>1 DEF size, vars
<1> QED BY <1>2, <1>6, <1>7

\* Every pass of a loop that makes room brings it nearer to its end, if the uniform
\* collapse may keep two buckets in each store: with room for fewer, buckets 0 and 1
\* of both stores stay where they are for ever.
THEOREM CollapseAlwaysShrinks ==
  ASSUME \A p \in Policies : p[1] = COLLAPSINGALL_MAPSTORE => p[2] >= 4
  PROVE  Spec => CollapseShrinks
<1>1. Init => Roomy
  BY DEF Init, Created, Roomy
<1>2. Roomy /\ [Next]_vars => Roomy'
  <2>1. [Next]_vars => UNCHANGED <<store_type, max_sketch_size>>
    BY DEF Next, Update, Query, Loop, Shrink, UpdateIgnored, InsertZero, RemoveZero,
      InsertStored, RemoveStored, UpdateEnds, ShrinkFirst, ShrinkSecond, FirstShrunk,
      SecondShrunk, CollapseAll, ScanUp, ScanDown, ScanReturns, AskNegative, AskZero,
      AskPositive, StartScan, Crash, config, vars
  <2> QED BY <2>1 DEF Roomy
<1>3. IInv /\ Roomy /\ [Next]_vars =>
        [pc' = pc /\ pc \in {"shrink_first", "shrink_second", "collapse_all"}
         => \/ size' < size
            \/ Span(postore') + Span(nestore') < Span(postore) + Span(nestore)]_vars
  <2> SUFFICES ASSUME IInv, Roomy, Next, pc' = pc,
                      pc \in {"shrink_first", "shrink_second", "collapse_all"}
               PROVE  \/ size' < size \/ UNCHANGED vars
                      \/ Span(postore') + Span(nestore') < Span(postore) + Span(nestore)
    OBVIOUS
  <2>1. ShrinkFirst \/ ShrinkSecond \/ CollapseAll
    BY DEF Next, Update, Query, Loop, Shrink, UpdateIgnored, InsertZero, RemoveZero,
      InsertStored, RemoveStored, ShrinkFirst, ShrinkSecond, FirstShrunk,
      SecondShrunk, CollapseAll, ScanUp, ScanDown, ScanReturns, AskNegative, AskZero,
      AskPositive, MayAsk
  <2> QED BY <2>1, AllShrinks, EndsShrink
<1> QED BY <1>1, <1>2, <1>3, InvariantHolds, PTL DEF Spec, CollapseShrinks


\* A policy that merges at one end needs two buckets.
Mergeable == store_type \in {COLLAPSINGHIGH_MAPSTORE, COLLAPSINGLOW_MAPSTORE} =>
               max_sketch_size >= 2

\* The second store is shrunk only after the first was cut back to one bucket.
FirstIsCut == pc = "shrink_second" => NumBuckets(first) <= 1

\* Where a pass has two buckets to merge: the loops of base_update_impl stop before the
\* store they shrink has less.
HasTwoToMerge ==
  /\ pc = "shrink_first" /\ NumBuckets(first) > FirstLength => NumBuckets(first) >= 2
  /\ pc = "shrink_second" /\ NumBuckets(second) > SecondLength => NumBuckets(second) >= 2

\* CollapseAlwaysShrinks allows a pass that changes nothing.  There is none as long as a
\* merging policy has room for two buckets: every pass finds two to merge.
THEOREM MergesAlwaysHaveTwo ==
  ASSUME \A p \in Policies :
           p[1] \in {COLLAPSINGHIGH_MAPSTORE, COLLAPSINGLOW_MAPSTORE} => p[2] >= 2
  PROVE  Spec => []HasTwoToMerge
<1>1. Init => Mergeable /\ FirstIsCut
  BY DEF Init, Created, Mergeable, FirstIsCut
<1>2. Mergeable /\ [Next]_vars => Mergeable'
  <2>1. [Next]_vars => UNCHANGED <<store_type, max_sketch_size>>
    BY DEF Next, Update, Query, Loop, Shrink, UpdateIgnored, InsertZero, RemoveZero,
      InsertStored, RemoveStored, UpdateEnds, ShrinkFirst, ShrinkSecond, FirstShrunk,
      SecondShrunk, CollapseAll, ScanUp, ScanDown, ScanReturns, AskNegative, AskZero,
      AskPositive, StartScan, Crash, config, vars
  <2> QED BY <2>1 DEF Mergeable
<1>3. FirstIsCut /\ [Next]_vars => FirstIsCut'
  <2> SUFFICES ASSUME FirstIsCut, [Next]_vars, pc' = "shrink_second"
               PROVE  NumBuckets(first') <= 1
    BY DEF FirstIsCut
  <2>1. UNCHANGED vars \/ FirstShrunk \/ ShrinkSecond
    <3>1. \A po, ne : AfterUpdate(po, ne) # "shrink_second"
      BY DEF AfterUpdate
    <3>2. UpdateEnds => pc' # "shrink_second"
      BY <3>1 DEF UpdateEnds
    <3>3. ~Update
      BY <3>2 DEF Update, UpdateIgnored, InsertZero, RemoveZero, InsertStored, RemoveStored, Crash
    <3>4. ~Query
      BY DEF Query, AskNegative, AskZero, AskPositive, MayAsk, StartScan, Crash
    <3> QED BY <3>3, <3>4
      DEF Next, Loop, Shrink, ShrinkFirst, SecondShrunk, CollapseAll, ScanUp, ScanDown, ScanReturns
  <2>2. CASE UNCHANGED vars
    BY <2>2 DEF FirstIsCut, vars, config, stores, first, PositiveFirst
  <2>3. CASE FirstShrunk
    <3>1. ~FirstIsEnough /\ NumBuckets(first) <= FirstLength /\ UNCHANGED <<config, stores>>
      BY <2>3 DEF FirstShrunk
    <3> QED BY <3>1 DEF FirstLength, first, PositiveFirst, config, stores
  <2>4. CASE ShrinkSecond
    <3>1. first' = first /\ pc = "shrink_second"
      BY <2>4 DEF ShrinkSecond, SetSecond, first, PositiveFirst, config
    <3> QED BY <3>1 DEF FirstIsCut
  <2> QED BY <2>1, <2>2, <2>3, <2>4
<1>4. IInv /\ Mergeable /\ FirstIsCut => HasTwoToMerge
  <2> SUFFICES ASSUME IInv, Mergeable, FirstIsCut PROVE HasTwoToMerge
    OBVIOUS
  <2>1. /\ NumBuckets(first) \in Nat /\ NumBuckets(second) \in Nat /\ max_sketch_size \in Nat
    BY FirstAndSecond
  <2>2. pc \in {"shrink_first", "shrink_second"} => max_sketch_size >= 2
    BY DEF IInv, LoopOfPolicy, Mergeable
  <2> QED BY <2>1, <2>2 DEF FirstIsCut, HasTwoToMerge, FirstLength, SecondLength, FirstIsEnough
<1> QED BY <1>1, <1>2, <1>3, <1>4, InvariantHolds, PTL DEF Spec

----------------------------------------------------------------------------
(* The abstract summary: what a scan has counted *)

\* A scan of store st for a rank has counted the items up to its bucket or those below
\* it, and the rank lies on the side that it has not left.
ScanOK(st, s) ==
  /\ s.bid \in Bids(st) /\ 0 <= s.rank /\ s.rank < st.total_counts
  /\ Upwards(st, s.rank) =>
       s.counts = CountUpTo(st, s.bid) /\ CountBelow(st, s.bid) <= s.rank
  /\ ~Upwards(st, s.rank) =>
       s.counts = CountBelow(st, s.bid) /\ s.rank < CountUpTo(st, s.bid)

\* The rank in the sketch that a rank in the store of one sign stands for.
ScanInv ==
  pc = "scan" =>
    /\ scan.sign \in {-1, 1}
    /\ ScanOK(scanned, scan)
    /\ scan.sign = 1  => scan.asked = netotcount + zero_bucket + scan.rank
    /\ scan.sign = -1 => scan.asked = netotcount - scan.rank - 1

SummaryInv == ContentsInv /\ ScanInv

LEMMA StoresAreCounted ==
  ASSUME ContentsInv
  PROVE  /\ IsStore(postore) /\ CollapseStateOK(postore) /\ postore.total_counts = CountAll(postore)
         /\ IsStore(nestore) /\ CollapseStateOK(nestore) /\ nestore.total_counts = CountAll(nestore)
         /\ postore.total_counts \in Nat /\ nestore.total_counts \in Nat /\ zero_bucket \in Nat
<1>1. /\ IsStore(postore) /\ CollapseStateOK(postore)
      /\ IsStore(nestore) /\ CollapseStateOK(nestore)
      /\ id_map \in Mapping /\ zero_bucket \in Nat
  BY StoresAreSound DEF ContentsInv, SoundStore
<1>2. /\ HoldsExactly(postore, id_map, live, Positive) /\ postore.total_counts = Mass(live, Positive)
      /\ HoldsExactly(nestore, id_map, live, Negative) /\ nestore.total_counts = Mass(live, Negative)
  BY DEF ContentsInv, Accounted, Keeps
<1>3. /\ \A y \in Positive : y.log \in Int /\ live[y] \in Nat
      /\ \A y \in Negative : y.log \in Int /\ live[y] \in Nat
  BY SidesOfItems, LiveOnSides
<1>4. CountAll(postore) = Mass(live, Positive)
  BY <1>1, <1>2, <1>3, SidesOfItems, ItemsAround, 0 \in Int
<1>5. CountAll(nestore) = Mass(live, Negative)
  BY <1>1, <1>2, <1>3, SidesOfItems, ItemsAround, 0 \in Int
<1> QED BY <1>1, <1>2, <1>4, <1>5, CountsAreNat

LEMMA ScanStarts ==
  ASSUME NEW st, IsStore(st), ~IsEmpty(st), st.total_counts = CountAll(st),
         NEW sign, NEW asked, NEW rank \in Int, 0 <= rank, rank < st.total_counts,
         StartScan(st, sign, asked, rank)
  PROVE  /\ pc' = "scan" /\ scan'.sign = sign /\ scan'.asked = asked /\ scan'.rank = rank
         /\ ScanOK(st, scan')
         /\ UNCHANGED <<config, stores, id_map, zero_bucket, live>>
<1> DEFINE up  == Upwards(st, rank)
           bid == IF up THEN MinBid(st) ELSE MaxBid(st)
           counts == IF up THEN BucketCount(st, bid) ELSE st.total_counts - BucketCount(st, bid)
<1>1. /\ MinBid(st) \in Bids(st) /\ CountBelow(st, MinBid(st)) = 0
      /\ MaxBid(st) \in Bids(st) /\ CountUpTo(st, MaxBid(st)) = CountAll(st)
  BY EndsOfScan
<1>2. \A k \in Bids(st) : /\ CountUpTo(st, k) = CountBelow(st, k) + BucketCount(st, k)
                          /\ CountBelow(st, k) \in Nat /\ CountUpTo(st, k) \in Nat
                          /\ BucketCount(st, k) \in Nat
  BY CountOfOne, CountsAreNat
<1>3. /\ pc' = "scan"
      /\ scan' = [sign |-> sign, asked |-> asked, rank |-> rank, bid |-> bid, counts |-> counts]
      /\ UNCHANGED <<config, stores, id_map, zero_bucket, live>>
  BY DEF StartScan
<1>4. CASE up
  BY <1>1, <1>2, <1>3, <1>4 DEF ScanOK
<1>5. CASE ~up
  <2>1. bid = MaxBid(st) /\ counts = CountAll(st) - BucketCount(st, MaxBid(st))
    BY <1>5
  <2>2. counts = CountBelow(st, MaxBid(st))
    BY <1>1, <1>2, <2>1
  <2> HIDE DEF bid, counts
  <2>3. scan'.bid = MaxBid(st) /\ scan'.counts = CountBelow(st, MaxBid(st)) /\ scan'.rank = rank
    BY <1>3, <2>1, <2>2
  <2> QED BY <1>1, <1>3, <1>5, <2>3 DEF ScanOK
<1> QED BY <1>4, <1>5

\* One pass of either loop of rank_to_bid.
LEMMA ScanGoesOn ==
  ASSUME ContentsInv, ScanInv, ScanUp \/ ScanDown
  PROVE  ScanInv'
<1> DEFINE st == scanned
           k  == scan.bid
           up == NextBid(st, k)
           dn == PrevBid(st, k)
<1>1. /\ pc = "scan" /\ IsStore(st)
      /\ UNCHANGED <<stores, zero_bucket, pc>>
  BY StoresAreCounted DEF ScanUp, ScanDown, scanned
<1>2. /\ scan.sign \in {-1, 1} /\ ScanOK(st, scan) /\ k \in Bids(st)
  BY <1>1 DEF ScanInv, ScanOK
<1>3. /\ scan \in [sign : {-1, 0, 1}, asked : Int, rank : Int, bid : Int, counts : Int]
  BY StoresAreSound DEF ContentsInv
<1>4. /\ \A b \in Bids(st) : CountUpTo(st, b) = CountBelow(st, b) + BucketCount(st, b)
      /\ \A b \in Bids(st) : BucketCount(st, b) \in Nat
      /\ \A b : CountBelow(st, b) \in Nat /\ CountUpTo(st, b) \in Nat
  BY <1>1, CountOfOne, CountsAreNat
<1>5. ASSUME scan'.sign = scan.sign, scan'.asked = scan.asked, scan'.rank = scan.rank,
             ScanOK(st, scan')
      PROVE  ScanInv'
  <2>1. scanned' = st
    BY <1>1, <1>5 DEF scanned, stores
  <2> HIDE DEF st
  <2> QED BY <1>1, <1>2, <1>5, <2>1 DEF ScanInv, netotcount, stores
<1>6. CASE ScanUp
  <2>1. /\ Upwards(st, scan.rank) /\ scan.counts <= scan.rank /\ k < MaxBid(st)
        /\ scan' = [scan EXCEPT !.bid = up, !.counts = @ + BucketCount(st, up)]
    BY <1>6 DEF ScanUp, GoesUp
  <2>2. up \in Bids(st) /\ CountBelow(st, up) = CountUpTo(st, k)
    BY <1>1, <1>2, <2>1, NextIsNext
  <2>3. scan.counts = CountUpTo(st, k)
    BY <1>2, <2>1 DEF ScanOK
  <2> HIDE DEF st, k, up
  <2>4. /\ scan'.sign = scan.sign /\ scan'.asked = scan.asked /\ scan'.rank = scan.rank
        /\ scan'.bid = up /\ scan'.counts = scan.counts + BucketCount(st, up)
    BY <1>3, <2>1
  <2>5. scan'.counts = CountUpTo(st, up) /\ CountBelow(st, up) <= scan.rank
    BY <1>4, <2>1, <2>2, <2>3, <2>4
  <2>6. ScanOK(st, scan')
    BY <1>2, <2>1, <2>2, <2>4, <2>5 DEF ScanOK
  <2> QED BY <1>5, <2>4, <2>6
<1>7. CASE ScanDown
  <2>1. /\ ~Upwards(st, scan.rank) /\ scan.counts > scan.rank /\ MinBid(st) < k
        /\ scan' = [scan EXCEPT !.bid = dn, !.counts = @ - BucketCount(st, dn)]
    <3>1. scan.bid > MinBid(st) <=> MinBid(st) < scan.bid
      <4>1. MinBid(st) \in Int /\ scan.bid \in Int
        BY <1>1, <1>2, <1>3, EndsAreBuckets, StoreFields DEF IsEmpty
      <4> QED BY <4>1
    <3> QED BY <1>7, <3>1 DEF ScanDown, GoesDown
  <2>2. dn \in Bids(st) /\ CountUpTo(st, dn) = CountBelow(st, k)
    BY <1>1, <1>2, <2>1, PrevIsPrev
  <2>3. scan.counts = CountBelow(st, k)
    BY <1>2, <2>1 DEF ScanOK
  <2> HIDE DEF st, k, dn
  <2>4. /\ scan'.sign = scan.sign /\ scan'.asked = scan.asked /\ scan'.rank = scan.rank
        /\ scan'.bid = dn /\ scan'.counts = scan.counts - BucketCount(st, dn)
    BY <1>3, <2>1
  <2>5. scan'.counts = CountBelow(st, dn) /\ scan.rank < CountUpTo(st, dn)
    BY <1>3, <1>4, <2>1, <2>2, <2>3, <2>4
  <2>6. ScanOK(st, scan')
    BY <1>2, <2>1, <2>2, <2>4, <2>5 DEF ScanOK
  <2> QED BY <1>5, <2>4, <2>6
<1> QED BY <1>6, <1>7


\* Where a query leads: to the store of a sign only with a rank that this store has.
LEMMA ScanBegins ==
  ASSUME ContentsInv, NEW rank \in Ranks, AskNegative(rank) \/ AskPositive(rank), pc' = "scan"
  PROVE  ScanInv'
<1>1. /\ IsStore(postore) /\ postore.total_counts = CountAll(postore)
      /\ IsStore(nestore) /\ nestore.total_counts = CountAll(nestore)
      /\ postore.total_counts \in Nat /\ nestore.total_counts \in Nat /\ zero_bucket \in Nat
  BY StoresAreCounted
<1>2. rank \in Int
  BY RanksAreInts DEF ContentsInv
<1>3. ~Crash
  BY DEF Crash
<1>4. ASSUME NEW st \in {postore, nestore}, ~IsEmpty(st)
      PROVE  /\ total_count \in Nat /\ 0 <= rank /\ rank < total_count
  <2>1. st.total_counts # 0
    BY <1>4, EmptyOnZero DEF ContentsInv, Accounted
  <2>2. total_count \in Nat /\ total_count > 0
    BY <1>1, <1>4, <2>1 DEF total_count
  <2> QED BY <2>2 DEF Ranks
<1>5. CASE AskNegative(rank)
  <2>1. /\ rank < netotcount /\ ~IsEmpty(nestore)
        /\ StartScan(nestore, -1, rank, netotcount - rank - 1)
    BY <1>3, <1>5 DEF AskNegative
  <2> DEFINE r == netotcount - rank - 1
  <2>2. r \in Int /\ 0 <= r /\ r < nestore.total_counts /\ rank = netotcount - r - 1
    BY <1>1, <1>2, <1>4, <2>1 DEF netotcount
  <2>3. StartScan(nestore, -1, rank, r)
    BY <2>1
  <2> HIDE DEF r
  <2>4. /\ pc' = "scan" /\ scan'.sign = -1 /\ scan'.asked = rank /\ scan'.rank = r
        /\ ScanOK(nestore, scan') /\ UNCHANGED <<config, stores, id_map, zero_bucket, live>>
    BY <1>1, <2>1, <2>2, <2>3, ScanStarts
  <2>5. scanned' = nestore /\ netotcount' = netotcount
    BY <2>4 DEF scanned, stores, netotcount
  <2> QED BY <2>2, <2>4, <2>5 DEF ScanInv
<1>6. CASE AskPositive(rank)
  <2>1. /\ rank >= netotcount + zero_bucket /\ ~IsEmpty(postore)
        /\ StartScan(postore, 1, rank, rank - netotcount - zero_bucket)
    BY <1>3, <1>6 DEF AskPositive
  <2> DEFINE r == rank - netotcount - zero_bucket
  <2>2. /\ r \in Int /\ 0 <= r /\ r < postore.total_counts
        /\ rank = netotcount + zero_bucket + r
    BY <1>1, <1>2, <1>4, <2>1 DEF netotcount, total_count
  <2>3. StartScan(postore, 1, rank, r)
    BY <2>1
  <2> HIDE DEF r
  <2>4. /\ pc' = "scan" /\ scan'.sign = 1 /\ scan'.asked = rank /\ scan'.rank = r
        /\ ScanOK(postore, scan') /\ UNCHANGED <<config, stores, id_map, zero_bucket, live>>
    BY <1>1, <2>1, <2>2, <2>3, ScanStarts
  <2>5. scanned' = postore /\ netotcount' = netotcount /\ zero_bucket' = zero_bucket
    BY <2>4 DEF scanned, stores, netotcount
  <2> QED BY <2>2, <2>4, <2>5 DEF ScanInv
<1> QED BY <1>5, <1>6

LEMMA ScanStep == SummaryInv /\ [Next]_vars => ScanInv'
<1> SUFFICES ASSUME SummaryInv, [Next]_vars, pc' = "scan" PROVE ScanInv'
  BY DEF ScanInv
<1>1. ContentsInv /\ ScanInv
  BY DEF SummaryInv
<1>2. ASSUME NEW rank \in Ranks, AskNegative(rank) \/ AskPositive(rank) PROVE ScanInv'
  BY <1>1, <1>2, ScanBegins
<1>3. CASE ScanUp \/ ScanDown
  BY <1>1, <1>3, ScanGoesOn
<1>4. CASE UNCHANGED vars
  BY <1>1, <1>4 DEF vars, ScanInv, scanned, netotcount
<1>5. ASSUME NEW rank \in Ranks, AskZero(rank) PROVE FALSE
  BY <1>5 DEF AskZero, MayAsk
<1>6. ASSUME NEW x \in Items, NEW c \in Counts,
             \/ UpdateIgnored(x) \/ InsertZero(x, c) \/ RemoveZero(x, c)
             \/ InsertStored(x, c) \/ RemoveStored(x, c)
      PROVE  FALSE
  BY <1>6 DEF UpdateIgnored, InsertZero, RemoveZero, InsertStored, RemoveStored, Crash,
    UpdateEnds, AfterUpdate
<1>7. ~(Shrink \/ ScanReturns)
  BY DEF Shrink, ShrinkFirst, FirstShrunk, ShrinkSecond, SecondShrunk, CollapseAll, ScanReturns
<1> QED BY <1>2, <1>3, <1>4, <1>5, <1>6, <1>7 DEF Next, Update, Query, Loop

LEMMA SummaryInvHolds ==
  ASSUME RemoveOnlyLive
  PROVE  Spec => []SummaryInv
<1>1. Init => ScanInv
  BY DEF Init, Created, ScanInv
<1> QED BY <1>1, ScanStep, ContentsInit, ContentsStep, PTL DEF Spec, SummaryInv

----------------------------------------------------------------------------
(* The abstract summary: where a scan stops *)

\* Either loop stops at the bucket that holds the rank.
LEMMA ScanStops ==
  ASSUME ContentsInv, ScanInv, ScanReturns
  PROVE  /\ scan.bid \in Bids(scanned) /\ scan.rank \in Int /\ scan.bid \in Int
         /\ CountBelow(scanned, scan.bid) <= scan.rank
         /\ scan.rank < CountUpTo(scanned, scan.bid)
<1> DEFINE st == scanned
           k  == scan.bid
<1>1. /\ IsStore(st) /\ st.total_counts = CountAll(st) /\ ScanOK(st, scan)
      /\ ~GoesUp /\ ~GoesDown
  BY StoresAreCounted DEF scanned, ScanInv, ScanReturns
<1>2. scan.rank \in Int /\ scan.counts \in Int /\ k \in Int
  BY StoresAreSound DEF ContentsInv
<1>3. k \in Bids(st) /\ 0 <= scan.rank /\ scan.rank < CountAll(st)
  BY <1>1 DEF ScanOK
<1>4. /\ MinBid(st) \in Int /\ CountBelow(st, MinBid(st)) = 0 /\ MinBid(st) <= k
      /\ MaxBid(st) \in Int /\ CountUpTo(st, MaxBid(st)) = CountAll(st) /\ k <= MaxBid(st)
  BY <1>1, <1>3, EndsOfScan, EndsAreBuckets, StoreFields DEF IsEmpty
<1>5. CASE Upwards(st, scan.rank)
  <2>1. scan.counts = CountUpTo(st, k) /\ CountBelow(st, k) <= scan.rank
    BY <1>1, <1>5 DEF ScanOK
  <2>2. scan.counts > scan.rank \/ k = MaxBid(st)
    BY <1>1, <1>2, <1>4, <1>5 DEF GoesUp
  <2> QED BY <1>2, <1>3, <1>4, <2>1, <2>2
<1>6. CASE ~Upwards(st, scan.rank)
  <2>1. scan.counts = CountBelow(st, k) /\ scan.rank < CountUpTo(st, k)
    BY <1>1, <1>6 DEF ScanOK
  <2>2. scan.counts <= scan.rank \/ k = MinBid(st)
    BY <1>1, <1>2, <1>4, <1>6 DEF GoesDown
  <2> QED BY <1>2, <1>3, <1>4, <2>1, <2>2
<1> QED BY <1>5, <1>6

LEMMA ItemsOfSketch ==
  ASSUME ContentsInv
  PROVE  /\ IsFiniteSet(Items) /\ live \in [Items -> Nat]
         /\ \A y \in Items : y.log \in Int /\ y.sign \in {-1, 0, 1}
         /\ \A y \in Items : live[y] > 0 => y \in Negative \cup Zeros \cup Positive
         /\ \A y \in Positive : y.sign = 1 /\ y.log \in Int
         /\ \A y \in Negative : y.sign = -1 /\ y.log \in Int
         /\ \A y \in Zeros : y.sign = 0
<1>1. live \in [Items -> Nat]
  BY LiveOnSides
<1>2. \A y \in Items : live[y] > 0 => y \in Negative \cup Zeros \cup Positive
  <2> SUFFICES ASSUME NEW y \in Items, live[y] > 0 PROVE y \in Negative \cup Zeros \cup Positive
    OBVIOUS
  <2>1. is_addressable(y)
    BY DEF ContentsInv, Accounted, OnlyAddressable
  <2> QED BY <2>1, SidesOfItems
<1>3. \A y \in Items : y.log \in Int /\ y.sign \in {-1, 0, 1}
  BY ItemFacts
<1> QED BY <1>1, <1>2, <1>3, ItemsAssumption DEF Positive, Negative, Zeros

\* The masses of the three sides, lowest first.
LEMMA MassOfSides ==
  ASSUME ContentsInv, NEW D \in SUBSET Positive
  PROVE  /\ Mass(live, Negative) = netotcount
         /\ Mass(live, Negative \cup Zeros) = netotcount + zero_bucket
         /\ Mass(live, (Negative \cup Zeros) \cup D) = netotcount + zero_bucket + Mass(live, D)
<1>1. /\ IsFiniteSet(Negative) /\ IsFiniteSet(Zeros) /\ IsFiniteSet(D)
      /\ Negative \cap Zeros = {} /\ (Negative \cup Zeros) \cap D = {}
  BY SidesOfItems, FS_Subset
<1>2. Mass(live, Negative) = netotcount /\ Mass(live, Zeros) = zero_bucket
  BY DEF ContentsInv, Accounted, Keeps, ZeroExact, netotcount
<1>3. \A y \in Negative \cup Zeros \cup D : live[y] \in Nat
  BY LiveOnSides
<1>4. Mass(live, Negative \cup Zeros) = Mass(live, Negative) + Mass(live, Zeros)
  BY <1>1, <1>3, MassDisjoint
<1>5. Mass(live, (Negative \cup Zeros) \cup D) = Mass(live, Negative \cup Zeros) + Mass(live, D)
  <2> DEFINE N == Negative \cup Zeros
  <2>1. IsFiniteSet(N) /\ N \cap D = {} /\ \A y \in N \cup D : live[y] \in Nat
    BY <1>1, <1>3, FS_Union
  <2> HIDE DEF N
  <2>2. Mass(live, N \cup D) = Mass(live, N) + Mass(live, D)
    BY <1>1, <2>1, MassDisjoint
  <2> QED BY <2>2 DEF N
<1> QED BY <1>2, <1>4, <1>5


LEMMA PositiveFound ==
  ASSUME ContentsInv, NEW k \in Bids(postore), NEW r \in Int,
         CountBelow(postore, k) <= r, r < CountUpTo(postore, k),
         NEW x \in Items, IsAtRank(live, x, netotcount + zero_bucket + r)
  PROVE  x.sign = 1 /\ Home(postore, id_map, x) = k
<1> DEFINE asked == netotcount + zero_bucket + r
           below == HomeBelow(postore, id_map, Positive, k)
           upto  == HomeUpTo(postore, id_map, Positive, k)
           Lo == (Negative \cup Zeros) \cup below
           Hi == (Negative \cup Zeros) \cup upto
<1>1. /\ IsStore(postore) /\ CollapseStateOK(postore)
      /\ netotcount \in Int /\ zero_bucket \in Int
  BY StoresAreCounted DEF netotcount
<1>2. /\ id_map \in Mapping /\ id_map.type = LOG_UPPER
      /\ HoldsExactly(postore, id_map, live, Positive)
  BY StoresAreSound DEF ContentsInv, Accounted, Keeps
<1>3. k \in Int
  BY <1>1, StoreFields
<1>4. /\ CountBelow(postore, k) = Mass(live, below) /\ CountUpTo(postore, k) = Mass(live, upto)
  BY <1>1, <1>2, <1>3, SidesOfItems, LiveOnSides, ItemsAround
<1>5. below \in SUBSET Positive /\ upto \in SUBSET Positive
  BY DEF HomeBelow, HomeUpTo
<1>6. Lo \in SUBSET Items /\ Hi \in SUBSET Items
  BY <1>5, SidesOfItems
<1> HIDE DEF below, upto
<1>7. asked \in Int /\ Mass(live, Lo) <= asked /\ asked < Mass(live, Hi)
  <2>1. CountBelow(postore, k) \in Int /\ CountUpTo(postore, k) \in Int
    BY <1>1, CountsAreNat
  <2> QED BY <1>1, <1>4, <1>5, <2>1, MassOfSides
<1> HIDE DEF Lo, Hi, asked
<1>8. IsAtRank(live, x, asked)
  BY DEF asked
<1>9. PICK y \in Hi : live[y] > 0 /\ ~Before(y, x)
  BY <1>6, <1>7, <1>8, ItemsOfSketch, NotAllBelow
<1>10. PICK z \in Items \ Lo : live[z] > 0 /\ ~Before(x, z)
  BY <1>6, <1>7, <1>8, ItemsOfSketch, NotAllAbove
<1>11. x.log \in Int /\ x.sign \in {-1, 0, 1}
  BY ItemsOfSketch
<1>12. z \in Positive /\ z.sign = 1 /\ z.log \in Int /\ ~(Home(postore, id_map, z) < k)
  BY <1>10, ItemsOfSketch DEF Lo, below, HomeBelow
<1>13. x.sign = 1 /\ z.log <= x.log
  BY <1>10, <1>11, <1>12 DEF Before
<1>14. y \in Positive /\ y.log \in Int /\ Home(postore, id_map, y) <= k /\ x.log <= y.log
  <2>1. y \notin Negative \cup Zeros
    BY <1>9, <1>13, ItemsOfSketch DEF Before
  <2>2. y \in Positive /\ Home(postore, id_map, y) <= k /\ y.sign = 1 /\ y.log \in Int
    BY <1>9, <2>1, ItemsOfSketch DEF Hi, upto, HomeUpTo
  <2> QED BY <1>9, <1>11, <1>13, <2>2 DEF Before
<1>15. /\ Home(postore, id_map, z) <= Home(postore, id_map, x)
       /\ Home(postore, id_map, x) <= Home(postore, id_map, y)
       /\ Home(postore, id_map, x) \in Int /\ Home(postore, id_map, y) \in Int
       /\ Home(postore, id_map, z) \in Int
  BY <1>1, <1>2, <1>11, <1>12, <1>13, <1>14, HomeOrder, HomeIs
<1> QED BY <1>3, <1>12, <1>13, <1>14, <1>15

\* The magnitudes of the negative items are counted from the other side.
LEMMA NegativeFound ==
  ASSUME ContentsInv, NEW k \in Bids(nestore), NEW r \in Int,
         CountBelow(nestore, k) <= r, r < CountUpTo(nestore, k),
         NEW x \in Items, IsAtRank(live, x, netotcount - r - 1)
  PROVE  x.sign = -1 /\ Home(nestore, id_map, x) = k
<1> DEFINE asked == netotcount - r - 1
           below == HomeBelow(nestore, id_map, Negative, k)
           upto  == HomeUpTo(nestore, id_map, Negative, k)
           Lo == Negative \ upto
           Hi == Negative \ below
<1>1. /\ IsStore(nestore) /\ CollapseStateOK(nestore) /\ netotcount \in Int
  BY StoresAreCounted DEF netotcount
<1>2. /\ id_map \in Mapping /\ id_map.type = LOG_UPPER
      /\ HoldsExactly(nestore, id_map, live, Negative)
  BY StoresAreSound DEF ContentsInv, Accounted, Keeps
<1>3. k \in Int
  BY <1>1, StoreFields
<1>4. /\ CountBelow(nestore, k) = Mass(live, below) /\ CountUpTo(nestore, k) = Mass(live, upto)
  BY <1>1, <1>2, <1>3, SidesOfItems, LiveOnSides, ItemsAround
<1>5. below \in SUBSET Negative /\ upto \in SUBSET Negative
  BY DEF HomeBelow, HomeUpTo
<1>6. Lo \in SUBSET Items /\ Hi \in SUBSET Items
  BY SidesOfItems
<1>7. ASSUME NEW D \in SUBSET Negative
      PROVE  Mass(live, D) \in Nat /\ Mass(live, Negative \ D) = netotcount - Mass(live, D)
  <2> DEFINE E == Negative \ D
  <2>1. /\ IsFiniteSet(D) /\ IsFiniteSet(E) /\ D \cap E = {} /\ D \cup E = Negative
        /\ \A y \in D \cup E : live[y] \in Nat
    BY SidesOfItems, LiveOnSides, FS_Subset
  <2> HIDE DEF E
  <2>2. Mass(live, D \cup E) = Mass(live, D) + Mass(live, E)
    BY <2>1, MassDisjoint
  <2>3. Mass(live, D) \in Nat /\ Mass(live, E) \in Nat
    BY <2>1, MassType
  <2>4. Mass(live, Negative) = netotcount
    BY DEF ContentsInv, Accounted, Keeps, netotcount
  <2>5. netotcount = Mass(live, D) + Mass(live, E)
    BY <2>1, <2>2, <2>4, Zenon
  <2>6. Mass(live, E) = netotcount - Mass(live, D)
    BY <2>3, <2>5
  <2> QED BY <2>3, <2>6 DEF E
<1> HIDE DEF below, upto
<1>8. asked \in Int /\ Mass(live, Lo) <= asked /\ asked < Mass(live, Hi)
  <2>1. /\ Mass(live, upto) \in Nat /\ Mass(live, Lo) = netotcount - Mass(live, upto)
        /\ Mass(live, below) \in Nat /\ Mass(live, Hi) = netotcount - Mass(live, below)
    BY <1>5, <1>7
  <2> HIDE DEF Lo, Hi
  <2> QED BY <1>1, <1>4, <2>1
<1> HIDE DEF Lo, Hi, asked
<1>9. IsAtRank(live, x, asked)
  BY DEF asked
<1>10. PICK y \in Hi : live[y] > 0 /\ ~Before(y, x)
  BY <1>6, <1>8, <1>9, ItemsOfSketch, NotAllBelow
<1>11. PICK z \in Items \ Lo : live[z] > 0 /\ ~Before(x, z)
  BY <1>6, <1>8, <1>9, ItemsOfSketch, NotAllAbove
<1>12. x.log \in Int /\ x.sign \in {-1, 0, 1}
  BY ItemsOfSketch
<1>13. /\ y \in Negative /\ y.sign = -1 /\ y.log \in Int
       /\ ~(Home(nestore, id_map, y) < k)
  BY <1>10, ItemsOfSketch DEF Hi, below, HomeBelow
<1>14. x.sign = -1 /\ y.log <= x.log
  BY <1>10, <1>12, <1>13 DEF Before
<1>15. z \in Negative /\ z.log \in Int /\ Home(nestore, id_map, z) <= k /\ x.log <= z.log
  <2>1. z \in Negative /\ z.sign = -1 /\ z.log \in Int
    BY <1>11, <1>14, ItemsOfSketch DEF Before
  <2>2. Home(nestore, id_map, z) <= k
    BY <1>11, <2>1 DEF Lo, upto, HomeUpTo
  <2> QED BY <1>11, <1>12, <1>14, <2>1, <2>2 DEF Before
<1>16. /\ Home(nestore, id_map, y) <= Home(nestore, id_map, x)
       /\ Home(nestore, id_map, x) <= Home(nestore, id_map, z)
       /\ Home(nestore, id_map, x) \in Int /\ Home(nestore, id_map, y) \in Int
       /\ Home(nestore, id_map, z) \in Int
  BY <1>1, <1>2, <1>12, <1>13, <1>14, <1>15, HomeOrder, HomeIs
<1> QED BY <1>3, <1>13, <1>14, <1>15, <1>16

\* A scan stops in the bucket where the item at the rank asked for is.
LEMMA ScanFinds ==
  ASSUME ContentsInv, ScanInv, ScanReturns, NEW x \in Items, IsAtRank(live, x, scan.asked)
  PROVE  x.sign = scan.sign /\ Home(scanned, id_map, x) = scan.bid
<1>1. /\ scan.sign \in {-1, 1}
      /\ scan.sign = 1  => scan.asked = netotcount + zero_bucket + scan.rank
      /\ scan.sign = -1 => scan.asked = netotcount - scan.rank - 1
  BY DEF ScanInv, ScanReturns
<1>2. CASE scan.sign = 1
  <2>1. scanned = postore
    BY <1>2 DEF scanned
  <2> QED BY <1>1, <1>2, <2>1, ScanStops, PositiveFound
<1>3. CASE scan.sign = -1
  <2>1. scanned = nestore
    BY <1>3 DEF scanned
  <2> QED BY <1>1, <1>3, <2>1, ScanStops, NegativeFound
<1> QED BY <1>1, <1>2, <1>3


----------------------------------------------------------------------------
(* Each step of the sketch is a step of the summary, or none. *)

\* The words of the summary mean what ours mean.
LEMMA SummaryCardinality == ASSUME NEW S PROVE Summary!Cardinality(S) = Cardinality(S)
BY DEF Summary!Cardinality, Cardinality

LEMMA SummaryRank ==
  ASSUME NEW f, NEW x, NEW r
  PROVE  Summary!IsAtRank(f, x, r) <=> IsAtRank(f, x, r)
<1>1. \A S : Summary!Mass(f, S) = Mass(f, S)
  BY SummaryCardinality DEF Summary!Mass, Summary!Units, Mass, Units
<1>2. \A a, b : Summary!Before(a, b) <=> Before(a, b)
  BY DEF Summary!Before, Before
<1>3. /\ {y \in DOMAIN f : Summary!Before(y, x)} = {y \in DOMAIN f : Before(y, x)}
      /\ {y \in DOMAIN f : ~Summary!Before(x, y)} = {y \in DOMAIN f : ~Before(x, y)}
  BY <1>2
<1> QED BY <1>1, <1>3 DEF Summary!IsAtRank, IsAtRank

LEMMA SummaryBucket ==
  ASSUME IInv, NEW x
  PROVE  Summary!BucketOf(x) =
           [sign |-> x.sign, bid |-> IF x.sign = 0 THEN 0 ELSE BucketId(id_map, x.log)]
<1>1. id_map = [type |-> LOG_UPPER, log_gamma |-> id_map.log_gamma]
  BY StoresAreSound DEF Mapping
<1>2. Summary!mapping = id_map
  BY <1>1 DEF Summary!mapping, Summary!NewMapping, Summary!LOG_UPPER, LOG_UPPER
<1>3. Summary!BucketId(id_map, x.log) = BucketId(id_map, x.log)
  BY DEF Summary!BucketId, Summary!CeilDiv, Summary!FloorDiv, Summary!LOG_LOWER, BucketId, CeilDiv,
    FloorDiv, LOG_LOWER
<1> QED BY <1>2, <1>3 DEF Summary!BucketOf

LEMMA SummaryInit == Init => Summary!Init
<1> SUFFICES ASSUME Init PROVE Summary!Init
  OBVIOUS
<1>1. PICK p \in Policies : Created(p[1], p[2], Grain)
  BY DEF Init
<1>2. p[1] \in StoreType /\ p[2] \in Nat
  BY PolicyAssumption
<1>3. /\ store_type = p[1] /\ max_sketch_size = p[2]
      /\ id_map.log_gamma = Grain /\ live = [x \in Items |-> 0] /\ answer = NoAnswer
  BY <1>1 DEF Created, NewMapping
<1>4. Summary!StoreType = StoreType
  BY DEF Summary!StoreType, Summary!UNBOUNDED_MAPSTORE, Summary!COLLAPSINGHIGH_MAPSTORE,
    Summary!COLLAPSINGLOW_MAPSTORE, Summary!COLLAPSINGALL_MAPSTORE, StoreType, UNBOUNDED_MAPSTORE,
    COLLAPSINGHIGH_MAPSTORE, COLLAPSINGLOW_MAPSTORE, COLLAPSINGALL_MAPSTORE
<1> QED BY <1>2, <1>3, <1>4 DEF Summary!Init, Summary!NoAnswer, NoAnswer

\* What the summary keeps of the sketch.
shown == <<store_type, max_sketch_size, live, id_map.log_gamma, answer>>

LEMMA UpdateIsSummarised ==
  ASSUME RemoveOnlyLive, IInv, NEW x \in Items, NEW c \in Counts,
         \/ UpdateIgnored(x) \/ InsertZero(x, c) \/ RemoveZero(x, c)
         \/ InsertStored(x, c) \/ RemoveStored(x, c)
  PROVE  Summary!Next \/ UNCHANGED shown
<1>1. live \in [Items -> Nat] /\ c \in Nat \ {0}
  BY StoresAreSound, CountsAssumption
<1>2. CASE UpdateIgnored(x)
  BY <1>2 DEF UpdateIgnored, UpdateEnds, config, Summary!Next, Summary!Forget, Summary!NoAnswer,
    NoAnswer
<1>3. CASE /\ InsertZero(x, c) \/ InsertStored(x, c)
  <2>1. UNCHANGED <<config, id_map>> /\ answer' = NoAnswer /\ live' = Gained(live, x, c)
    BY <1>3 DEF InsertZero, InsertStored, UpdateEnds
  <2>2. live'[x] - live[x] = c /\ c > 0
    BY <1>1, <2>1 DEF Gained
  <2>3. live' = [live EXCEPT ![x] = @ + c]
    BY <2>1 DEF Gained
  <2>4. Summary!Insert
    BY <2>1, <2>2, <2>3 DEF Summary!Insert, Summary!NoAnswer, NoAnswer, config
  <2> QED BY <2>4 DEF Summary!Next
<1>4. CASE Crash
  BY <1>4 DEF Crash, config, shown
<1>5. CASE (RemoveZero(x, c) \/ RemoveStored(x, c)) /\ ~Crash
  <2>1. /\ UNCHANGED <<config, id_map>> /\ answer' = NoAnswer /\ live' = Lost(live, x, c)
        /\ c <= live[x]
    BY <1>5 DEF RemoveZero, RemoveStored, UpdateEnds, MayRemove
  <2>2. c \in 1 .. live[x]
    BY <1>1, <2>1
  <2>3. live' = [live EXCEPT ![x] = @ - c]
    BY <1>1, <2>1 DEF Lost
  <2>4. Summary!Remove
    BY <2>1, <2>2, <2>3 DEF Summary!Remove, Summary!NoAnswer, NoAnswer, config
  <2> QED BY <2>4 DEF Summary!Next
<1> QED BY <1>2, <1>3, <1>4, <1>5

\* The buckets of one sign that the items of that sign occupy.
LEMMA OccupiedOnSide ==
  ASSUME ContentsInv, store_type = COLLAPSINGALL_MAPSTORE,
         NEW sign \in {-1, 1}, NEW st, NEW S,
         \/ sign = 1 /\ st = postore /\ S = Positive
         \/ sign = -1 /\ st = nestore /\ S = Negative
  PROVE  LET Here == {[sign |-> sign, bid |-> b] : b \in Bids(st)}
         IN  /\ {Summary!BucketOf(y) : y \in {z \in Items : live[z] > 0 /\ z.sign = sign}} = Here
             /\ IsFiniteSet(Here) /\ Cardinality(Here) = NumBuckets(st)
<1> DEFINE bucket(b) == [sign |-> sign, bid |-> b]
           Here == {bucket(b) : b \in Bids(st)}
           f == [b \in Bids(st) |-> bucket(b)]
<1>1. /\ IsStore(st) /\ st.store_type = COLLAPSINGALL_MAPSTORE
      /\ HoldsExactly(st, id_map, live, S) /\ IInv
  <2>1. PostoreType(store_type) = COLLAPSINGALL_MAPSTORE /\ NestoreType(store_type) = COLLAPSINGALL_MAPSTORE
    BY DEF PostoreType, NestoreType, COLLAPSINGHIGH_MAPSTORE, COLLAPSINGLOW_MAPSTORE,
           COLLAPSINGALL_MAPSTORE
  <2> QED BY <2>1, StoresAreSound DEF ContentsInv, SoundStore, Accounted, Keeps
<1>2. \A y : Home(st, id_map, y) = BucketId(id_map, y.log)
  BY <1>1 DEF Home, CollapsedHigh, CollapsedLow, COLLAPSINGALL_MAPSTORE, COLLAPSINGHIGH_MAPSTORE,
    COLLAPSINGLOW_MAPSTORE
<1>3. {z \in Items : live[z] > 0 /\ z.sign = sign} = Present(live, S)
  <2>1. \A z \in Items : live[z] > 0 /\ z.sign = sign => z \in S
    BY ItemsOfSketch
  <2>2. S \subseteq Items /\ \A z \in S : z.sign = sign
    BY SidesOfItems, ItemsOfSketch
  <2> QED BY <2>1, <2>2 DEF Present
<1>4. \A y \in Present(live, S) : Summary!BucketOf(y) = bucket(BucketId(id_map, y.log))
  <2> SUFFICES ASSUME NEW y \in Present(live, S)
               PROVE  Summary!BucketOf(y) = bucket(BucketId(id_map, y.log))
    OBVIOUS
  <2>1. y.sign = sign /\ sign # 0
    BY ItemsOfSketch DEF Present
  <2> QED BY <1>1, <2>1, SummaryBucket
<1>5. Bids(st) = {BucketId(id_map, y.log) : y \in Present(live, S)}
  BY <1>1, <1>2 DEF HoldsExactly
<1>6. {Summary!BucketOf(y) : y \in Present(live, S)} = Here
  BY <1>4, <1>5
<1>7. f \in Bijection(Bids(st), Here)
  <2>1. f \in [Bids(st) -> Here]
    OBVIOUS
  <2>2. \A a, b \in Bids(st) : f[a] = f[b] => a = b
    OBVIOUS
  <2>3. \A t \in Here : \E b \in Bids(st) : f[b] = t
    OBVIOUS
  <2> QED BY <2>1, <2>2, <2>3 DEF Bijection, Injection, Surjection, IsInjective
<1>8. IsFiniteSet(Bids(st))
  BY <1>1, StoreFields
<1>9. ExistsBijection(Bids(st), Here)
  BY <1>7 DEF ExistsBijection
<1>10. IsFiniteSet(Here) /\ Cardinality(Here) = NumBuckets(st)
  BY <1>8, <1>9, FS_Bijection DEF NumBuckets
<1> QED BY <1>3, <1>6, <1>10

\* While both stores are collapsed uniformly, there are as many occupied buckets as they
\* have together.
LEMMA OccupiedIsSize ==
  ASSUME ContentsInv, store_type = COLLAPSINGALL_MAPSTORE
  PROVE  Cardinality(Summary!Occupied) = size
<1> DEFINE Up   == {[sign |-> 1, bid |-> b] : b \in Bids(postore)}
           Down == {[sign |-> -1, bid |-> b] : b \in Bids(nestore)}
           At(s) == {z \in Items : live[z] > 0 /\ z.sign = s}
<1>1. /\ {Summary!BucketOf(y) : y \in At(1)} = Up
      /\ IsFiniteSet(Up) /\ Cardinality(Up) = NumBuckets(postore)
  BY OccupiedOnSide
<1>2. /\ {Summary!BucketOf(y) : y \in At(-1)} = Down
      /\ IsFiniteSet(Down) /\ Cardinality(Down) = NumBuckets(nestore)
  BY OccupiedOnSide
<1>3. {z \in Items : live[z] > 0 /\ z.sign # 0} = At(1) \cup At(-1)
  <2>1. \A z \in Items : z.sign \in {-1, 0, 1}
    BY ItemFacts
  <2> QED BY <2>1
<1>4. Summary!Occupied = Up \cup Down
  <2> HIDE DEF At, Up, Down
  <2> QED BY <1>1, <1>2, <1>3 DEF Summary!Occupied
<1>5. Up \cap Down = {}
  OBVIOUS
<1>6. NumBuckets(postore) \in Nat /\ NumBuckets(nestore) \in Nat
  BY StoresAreSound DEF ContentsInv
<1> HIDE DEF Up, Down
<1>7. Cardinality(Up \cup Down) = Cardinality(Up) + Cardinality(Down) - Cardinality({})
  BY <1>1, <1>2, <1>5, FS_Union
<1>8. Cardinality(Up \cup Down) = NumBuckets(postore) + NumBuckets(nestore)
  BY <1>1, <1>2, <1>6, <1>7, FS_EmptySet
<1> QED BY <1>4, <1>6, <1>8 DEF size

LEMMA ShrinkIsSummarised ==
  ASSUME ContentsInv, Shrink
  PROVE  Summary!Next \/ UNCHANGED shown
<1>1. CASE CollapseAll
  <2>1. store_type = COLLAPSINGALL_MAPSTORE /\ size > max_sketch_size
    BY <1>1 DEF CollapseAll, ContentsInv, IInv, LoopOfPolicy
  <2>2. id_map' = SquareGamma(id_map) /\ UNCHANGED <<config, live, answer>>
    BY <1>1 DEF CollapseAll
  <2>3. id_map'.log_gamma = 2 * id_map.log_gamma
    BY <2>2, StoresAreSound DEF ContentsInv, SquareGamma, Mapping
  <2>4. Summary!Cardinality(Summary!Occupied) > max_sketch_size
    BY <2>1, OccupiedIsSize, SummaryCardinality
  <2>5. Summary!COLLAPSINGALL_MAPSTORE = COLLAPSINGALL_MAPSTORE
    BY DEF Summary!COLLAPSINGALL_MAPSTORE, COLLAPSINGALL_MAPSTORE
  <2> QED BY <2>1, <2>2, <2>3, <2>4, <2>5 DEF Summary!Next, Summary!Coarsen, config
<1>2. CASE ~CollapseAll
  BY <1>2 DEF Shrink, ShrinkFirst, FirstShrunk, ShrinkSecond, SecondShrunk, config, shown
<1> QED BY <1>1, <1>2


----------------------------------------------------------------------------
(* What a reply promises. *)

\* How the bucket that a reply names differs from the bucket of the item.
Errs(sign, own, bid) ==
  \/ store_type = COLLAPSINGHIGH_MAPSTORE /\ sign * bid <= sign * own
  \/ store_type = COLLAPSINGLOW_MAPSTORE /\ sign * own <= sign * bid

LEMMA Replies ==
  ASSUME IInv, NEW rank, NEW sign, NEW bid, NEW accurate \in BOOLEAN,
         answer' = [rank |-> rank, sign |-> sign, bid |-> bid, is_accurate |-> accurate],
         UNCHANGED <<config, id_map, live>>,
         \A x \in Items : IsAtRank(live, x, rank) =>
           LET own == IF x.sign = 0 THEN 0 ELSE BucketId(id_map, x.log)
           IN  /\ x.sign = sign /\ own \in Int /\ bid \in Int
               /\ accurate => own = bid
               /\ own # bid => Errs(sign, own, bid)
               /\ store_type \in {UNBOUNDED_MAPSTORE, COLLAPSINGALL_MAPSTORE} => accurate
  PROVE  Summary!Next
<1>1. ASSUME NEW x \in Items, Summary!IsAtRank(live, x, rank)
      PROVE  Summary!Fits(answer', x)
  <2> DEFINE own == IF x.sign = 0 THEN 0 ELSE BucketId(id_map, x.log)
             b   == [sign |-> sign, bid |-> bid]
  <2>1. IsAtRank(live, x, rank)
    BY <1>1, SummaryRank
  <2>2. /\ x.sign = sign /\ own \in Int /\ bid \in Int
        /\ accurate => own = bid
        /\ own # bid => Errs(sign, own, bid)
        /\ store_type \in {UNBOUNDED_MAPSTORE, COLLAPSINGALL_MAPSTORE} => accurate
    BY <1>1, <2>1
  <2>3. Summary!BucketOf(x) = [sign |-> sign, bid |-> own]
    BY <2>2, SummaryBucket
  <2>4. sign \in {-1, 0, 1}
    BY <2>2, ItemFacts
  <2> HIDE DEF own
  <2>5. /\ Summary!AtMost(b, Summary!BucketOf(x)) <=> sign * bid <= sign * own
        /\ Summary!AtMost(Summary!BucketOf(x), b) <=> sign * own <= sign * bid
    BY <2>3, <2>4 DEF Summary!AtMost
  <2>6. own = bid => sign * bid <= sign * own /\ sign * own <= sign * bid
    BY <2>2, <2>4
  <2>7. /\ answer'.is_accurate = accurate
        /\ [sign |-> answer'.sign, bid |-> answer'.bid] = b
    OBVIOUS
  <2>8. accurate => b = Summary!BucketOf(x)
    BY <2>2, <2>3
  <2> QED BY <2>2, <2>5, <2>6, <2>7, <2>8
    DEF Errs, Summary!Fits, Summary!UNBOUNDED_MAPSTORE, Summary!COLLAPSINGALL_MAPSTORE,
        Summary!COLLAPSINGHIGH_MAPSTORE, Summary!COLLAPSINGLOW_MAPSTORE,
        UNBOUNDED_MAPSTORE, COLLAPSINGALL_MAPSTORE, COLLAPSINGHIGH_MAPSTORE, COLLAPSINGLOW_MAPSTORE
<1>2. answer'.rank = rank
  OBVIOUS
<1>3. Summary!AnswerFits(answer')
  BY <1>1, <1>2 DEF Summary!AnswerFits
<1> QED BY <1>3 DEF Summary!Next, Summary!Reply, config

\* The ranks between the items of either sign are those of zeros.
LEMMA ZeroIsSummarised ==
  ASSUME ContentsInv, NEW rank \in Ranks, AskZero(rank)
  PROVE  Summary!Next
<1> DEFINE none == 0
           accurate == TRUE
<1>1. /\ netotcount <= rank /\ rank < netotcount + zero_bucket /\ UNCHANGED <<config, id_map, live>>
      /\ answer' = [rank |-> rank, sign |-> none, bid |-> none, is_accurate |-> accurate]
  BY DEF AskZero, Answer
<1>2. IInv /\ rank \in Int
  BY RanksAreInts DEF ContentsInv
<1>3. ASSUME NEW x \in Items, IsAtRank(live, x, rank) PROVE x.sign = 0
  <2> DEFINE Lo == Negative
             Hi == Negative \cup Zeros
  <2>1. Lo \in SUBSET Items /\ Hi \in SUBSET Items
    BY SidesOfItems
  <2>2. Mass(live, Lo) <= rank /\ rank < Mass(live, Hi)
    <3>1. {} \in SUBSET Positive
      OBVIOUS
    <3> QED BY <1>1, <3>1, MassOfSides
  <2> HIDE DEF Lo, Hi
  <2>3. PICK y \in Hi : live[y] > 0 /\ ~Before(y, x)
    BY <1>2, <1>3, <2>1, <2>2, ItemsOfSketch, NotAllBelow
  <2>4. PICK z \in Items \ Lo : live[z] > 0 /\ ~Before(x, z)
    BY <1>2, <1>3, <2>1, <2>2, ItemsOfSketch, NotAllAbove
  <2>5. y.sign <= 0 /\ z.sign >= 0 /\ y.sign \in Int /\ z.sign \in Int /\ x.sign \in Int
    BY <2>3, <2>4, ItemsOfSketch DEF Lo, Hi
  <2> QED BY <2>3, <2>4, <2>5 DEF Before
<1>4. ASSUME NEW x \in Items, IsAtRank(live, x, rank)
      PROVE  LET own == IF x.sign = 0 THEN 0 ELSE BucketId(id_map, x.log)
             IN  /\ x.sign = none /\ own \in Int /\ none \in Int
                 /\ accurate => own = none
                 /\ own # none => Errs(none, own, none)
  BY <1>3, <1>4
<1>5. accurate \in BOOLEAN /\ accurate
  OBVIOUS
<1> HIDE DEF none, accurate
<1> QED BY <1>1, <1>2, <1>4, <1>5, Replies

\* The bucket at the end that is merged is flagged, in either store; elsewhere an item
\* is in its own bucket.
LEMMA FlagIsRight ==
  ASSUME IInv, NEW sign \in {-1, 1}, NEW st,
         (sign = 1 /\ st = postore) \/ (sign = -1 /\ st = nestore),
         NEW x, x.log \in Int
  PROVE  LET own == BucketId(id_map, x.log)
             k   == Home(st, id_map, x)
         IN  /\ own \in Int /\ k \in Int
             /\ own # k => InCollapsedBucket(st, sign, k) /\ Errs(sign, own, k)
<1> DEFINE own == BucketId(id_map, x.log)
           k   == Home(st, id_map, x)
<1>1. /\ IsStore(st) /\ CollapseStateOK(st) /\ id_map \in Mapping /\ store_type \in StoreType
      /\ st.store_type = IF sign = 1 THEN PostoreType(store_type) ELSE NestoreType(store_type)
  BY StoresAreSound DEF SoundStore
<1>2. /\ own \in Int /\ k \in Int
      /\ k # own =>
           /\ st.num_collapses > 0
           /\ \/ st.store_type = COLLAPSINGHIGH_MAPSTORE /\ k = MaxBid(st) /\ k < own
              \/ st.store_type = COLLAPSINGLOW_MAPSTORE  /\ k = MinBid(st) /\ own < k
  BY <1>1, HomeUnderPolicy
<1> HIDE DEF own, k
<1>3. ASSUME own # k PROVE InCollapsedBucket(st, sign, k) /\ Errs(sign, own, k)
  <2>1. CASE sign = 1
    <3>1. st.store_type = store_type
      BY <1>1, <2>1 DEF PostoreType
    <3> QED BY <1>2, <1>3, <2>1, <3>1 DEF InCollapsedBucket, Errs
  <2>2. CASE sign = -1
    <3>1. /\ st.store_type = COLLAPSINGHIGH_MAPSTORE <=> store_type = COLLAPSINGLOW_MAPSTORE
          /\ st.store_type = COLLAPSINGLOW_MAPSTORE <=> store_type = COLLAPSINGHIGH_MAPSTORE
      BY <1>1, <2>2 DEF NestoreType, StoreType, UNBOUNDED_MAPSTORE, COLLAPSINGALL_MAPSTORE,
        COLLAPSINGHIGH_MAPSTORE, COLLAPSINGLOW_MAPSTORE
    <3> QED BY <1>2, <1>3, <2>2, <3>1 DEF InCollapsedBucket, Errs
  <2> QED BY <2>1, <2>2
<1> QED BY <1>2, <1>3 DEF own, k

LEMMA ScanIsSummarised ==
  ASSUME SummaryInv, ScanReturns
  PROVE  Summary!Next
<1> DEFINE accurate == ~InCollapsedBucket(scanned, scan.sign, scan.bid)
<1>1. /\ UNCHANGED <<config, id_map, live>>
      /\ answer' = [rank |-> scan.asked, sign |-> scan.sign, bid |-> scan.bid,
                    is_accurate |-> accurate]
  BY DEF ScanReturns, Answer
<1>2. IInv /\ ContentsInv /\ ScanInv
  BY DEF SummaryInv, ContentsInv
<1>3. (scan.sign = 1 /\ scanned = postore) \/ (scan.sign = -1 /\ scanned = nestore)
  BY <1>2 DEF ScanInv, ScanReturns, scanned
<1>4. accurate \in BOOLEAN
  BY DEF InCollapsedBucket
<1>5. store_type \in {UNBOUNDED_MAPSTORE, COLLAPSINGALL_MAPSTORE} => accurate
  BY DEF InCollapsedBucket, UNBOUNDED_MAPSTORE, COLLAPSINGALL_MAPSTORE, COLLAPSINGHIGH_MAPSTORE,
    COLLAPSINGLOW_MAPSTORE
<1>6. ASSUME NEW x \in Items, IsAtRank(live, x, scan.asked)
      PROVE  LET own == IF x.sign = 0 THEN 0 ELSE BucketId(id_map, x.log)
             IN  /\ x.sign = scan.sign /\ own \in Int /\ scan.bid \in Int
                 /\ accurate => own = scan.bid
                 /\ own # scan.bid => Errs(scan.sign, own, scan.bid)
  <2>1. x.sign = scan.sign /\ Home(scanned, id_map, x) = scan.bid
    BY <1>2, <1>6, ScanFinds
  <2>2. x.log \in Int /\ x.sign # 0
    BY <1>3, <2>1, ItemFacts
  <2>3. LET own == BucketId(id_map, x.log)
            k   == Home(scanned, id_map, x)
        IN  /\ own \in Int /\ k \in Int
            /\ own # k => InCollapsedBucket(scanned, scan.sign, k) /\ Errs(scan.sign, own, k)
    BY <1>2, <1>3, <2>2, FlagIsRight
  <2> QED BY <2>1, <2>2, <2>3
<1> HIDE DEF accurate
<1> QED BY <1>1, <1>2, <1>4, <1>5, <1>6, Replies

LEMMA StepIsSummarised ==
  ASSUME RemoveOnlyLive
  PROVE  SummaryInv /\ [Next]_vars => Summary!Next \/ UNCHANGED shown
<1> SUFFICES ASSUME SummaryInv, [Next]_vars PROVE Summary!Next \/ UNCHANGED shown
  OBVIOUS
<1>1. ContentsInv /\ IInv
  BY DEF SummaryInv, ContentsInv
<1>2. ASSUME NEW x \in Items, NEW c \in Counts,
             \/ UpdateIgnored(x) \/ InsertZero(x, c) \/ RemoveZero(x, c)
             \/ InsertStored(x, c) \/ RemoveStored(x, c)
      PROVE  Summary!Next \/ UNCHANGED shown
  BY <1>1, <1>2, UpdateIsSummarised
<1>3. ASSUME NEW rank \in Ranks, AskZero(rank) PROVE Summary!Next
  BY <1>1, <1>3, ZeroIsSummarised
<1>4. ASSUME NEW rank \in Ranks, AskNegative(rank) \/ AskPositive(rank)
      PROVE  Summary!Next \/ UNCHANGED shown
  <2>1. CASE Crash
    BY <2>1 DEF Crash, config, shown
  <2>2. CASE answer' = NoAnswer /\ UNCHANGED <<config, id_map, live>>
    BY <2>2 DEF config, Summary!Next, Summary!Forget, Summary!NoAnswer, NoAnswer
  <2> QED BY <1>4, <2>1, <2>2 DEF AskNegative, AskPositive, StartScan
<1>5. CASE Shrink
  BY <1>1, <1>5, ShrinkIsSummarised
<1>6. CASE ScanUp \/ ScanDown
  BY <1>6 DEF ScanUp, ScanDown, config, shown
<1>7. CASE ScanReturns
  BY <1>7, ScanIsSummarised
<1>8. CASE UNCHANGED vars
  BY <1>8 DEF vars, shown
<1> QED BY <1>2, <1>3, <1>4, <1>5, <1>6, <1>7, <1>8 DEF Next, Update, Query, Loop

\* As long as callers remove only what is present, everything that users see of the
\* sketch of both signs is allowed by the same abstract summary: an answer flagged
\* accurate is the bucket of the item at the rank asked for, with its sign; another errs
\* only to the side of the policy, although the two stores merge at opposite ends; and
\* gamma is squared only when the items of both signs need more buckets than allowed.
THEOREM SummaryIsImplemented ==
  ASSUME RemoveOnlyLive
  PROVE  Spec => ImplementsSummary
<1>1. SummaryInv /\ [Next]_vars => [Summary!Next]_Summary!vars
  BY StepIsSummarised DEF Summary!vars, shown
<1> QED BY <1>1, SummaryInit, SummaryInvHolds, PTL DEF Spec, ImplementsSummary, Summary!Spec

===================================================================================
