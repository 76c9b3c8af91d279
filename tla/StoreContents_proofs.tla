--------------------------- MODULE StoreContents_proofs ---------------------------
(***************************************************************************)
(* Facts about the operators of BucketIdMapping, Mapstore and              *)
(* StoreContents, for every mapping and every store: the arithmetic of the *)
(* ids; that insertion, removal and collapsing keep a store a store, and   *)
(* what each does to the items it holds; and which bucket holds the item   *)
(* at a rank, which the scans of dds_psketch.c and dds_gsketch.c look for. *)
(***************************************************************************)
EXTENDS StoreContents, FiniteSetTheorems, FunctionTheorems, WellFoundedInduction, TLAPS

----------------------------------------------------------------------------
(* The mapping, for every logarithm and every gamma *)

\* Division by a positive integer, as bounds: the quotient of a \div b is the
\* only integer q with q * b <= a < (q + 1) * b.
LEMMA DivBounds ==
  ASSUME NEW a \in Int, NEW b \in Nat \ {0}
  PROVE  /\ a \div b \in Int
         /\ (a \div b) * b <= a
         /\ a < (a \div b) * b + b
  BY Z3

LEMMA DivUnique ==
  ASSUME NEW a \in Int, NEW b \in Nat \ {0}, NEW q \in Int,
         q * b <= a, a < q * b + b
  PROVE  a \div b = q
  BY Z3

\* Rounding up to multiples of g and then of 2 g in one step or in two.
THEOREM CeilTwice ==
  ASSUME NEW v \in Int, NEW g \in Nat \ {0}
  PROVE  CeilDiv(CeilDiv(v, g), 2) = CeilDiv(v, 2 * g)
<1> DEFINE q == (-v) \div g
           h == q \div 2
<1>1. /\ q \in Int
      /\ q * g <= -v
      /\ -v < q * g + g
  BY DivBounds
<1>2. /\ h \in Int
      /\ h * 2 <= q
      /\ q < h * 2 + 2
  BY <1>1, DivBounds
<1> HIDE DEF q
<1>3. h * (2 * g) <= -v
  <2>1. h * 2 * g <= q * g
    BY <1>1, <1>2, Z3
  <2> QED BY <1>1, <1>2, <2>1, Z3
<1> HIDE DEF h
<1>4. -v < h * (2 * g) + 2 * g
  <2>1. q + 1 <= h * 2 + 2
    BY <1>1, <1>2
  <2>2. (q + 1) * g <= (h * 2 + 2) * g
    BY <1>1, <1>2, <2>1, Z3
  <2> QED BY <1>1, <1>2, <2>2, Z3
<1>5. (-v) \div (2 * g) = h
  BY <1>2, <1>3, <1>4, DivUnique
<1>6. CeilDiv(v, g) = -q /\ CeilDiv(v, 2 * g) = -h
  BY <1>5 DEF CeilDiv, q
<1>7. CeilDiv(-q, 2) = -h
  BY <1>1 DEF CeilDiv, h
<1> QED BY <1>6, <1>7

\* The same for rounding down.
THEOREM FloorTwice ==
  ASSUME NEW v \in Int, NEW g \in Nat \ {0}
  PROVE  FloorDiv(FloorDiv(v, g), 2) = FloorDiv(v, 2 * g)
<1>1. -v \in Int /\ -(-v) = v
  OBVIOUS
<1>2. CeilDiv(CeilDiv(-v, g), 2) = CeilDiv(-v, 2 * g)
  BY <1>1, CeilTwice
<1>3. v \div g \in Int /\ v \div (2 * g) \in Int
  BY DivBounds
<1>4. (v \div g) \div 2 \in Int
  BY <1>3, DivBounds
<1> QED BY <1>1, <1>2, <1>3, <1>4 DEF CeilDiv, FloorDiv

\* The mapping the sketches use: the uniform collapse moves the count of an
\* item to the bucket where dds_get_bucket_id looks for it once gamma has been
\* squared, whatever the item and however often gamma was squared before.
THEOREM UpperCollapseAgrees ==
  ASSUME NEW m \in Mapping, m.type = LOG_UPPER, NEW v \in Int
  PROVE  HalfBid(m, BucketId(m, v)) = BucketId(SquareGamma(m), v)
<1>1. m.log_gamma \in Nat \ {0}
  BY DEF Mapping
<1>2. /\ SquareGamma(m).type = LOG_UPPER
      /\ SquareGamma(m).log_gamma = 2 * m.log_gamma
  BY DEF SquareGamma, Mapping
<1>3. LOG_UPPER # LOG_LOWER
  BY DEF LOG_UPPER, LOG_LOWER
<1> QED BY <1>1, <1>2, <1>3, CeilTwice DEF HalfBid, BucketId

\* Under the other mapping it does so for numbers from 1 up.
THEOREM LowerCollapseAgrees ==
  ASSUME NEW m \in Mapping, m.type = LOG_LOWER, NEW v \in Nat
  PROVE  HalfBid(m, BucketId(m, v)) = BucketId(SquareGamma(m), v)
<1>1. m.log_gamma \in Nat \ {0} /\ 2 * m.log_gamma \in Nat \ {0}
  BY DEF Mapping
<1>2. /\ SquareGamma(m).type = LOG_LOWER
      /\ SquareGamma(m).log_gamma = 2 * m.log_gamma
  BY DEF SquareGamma, Mapping
<1>3. LOG_UPPER # LOG_LOWER
  BY DEF LOG_UPPER, LOG_LOWER
<1>4. ASSUME NEW g \in Nat \ {0} PROVE v \div g >= 0
  <2>1. v \div g \in Int /\ v < (v \div g) * g + g
    BY DivBounds
  <2> QED BY <2>1, Z3
<1>5. v \div m.log_gamma >= 0 /\ v \div (2 * m.log_gamma) >= 0
  BY <1>1, <1>4
<1> QED BY <1>1, <1>2, <1>3, <1>5, FloorTwice DEF HalfBid, BucketId, FloorDiv

\* The sketches never report a bucket whose value is not within alpha of the
\* items in it.
THEOREM UpperValueWithinAlpha ==
  ASSUME NEW m \in Mapping, m.type = LOG_UPPER, NEW v \in Int
  PROVE  /\ ValueLow(m, BucketId(m, v)) < v
         /\ v <= ValueHigh(m, BucketId(m, v))
<1> DEFINE g == m.log_gamma
           q == (-v) \div g
<1>1. g \in Nat \ {0}
  BY DEF Mapping
<1>2. BucketId(m, v) = -q /\ m.type # LOG_LOWER
  BY DEF BucketId, CeilDiv, LOG_UPPER, LOG_LOWER
<1>3. q \in Int /\ q * g <= -v /\ -v < q * g + g
  <2> HIDE DEF g
  <2>1. -v \in Int
    OBVIOUS
  <2> QED BY <1>1, <2>1, DivBounds
<1>4. /\ ValueLow(m, BucketId(m, v)) = g * (-q - 1)
      /\ ValueHigh(m, BucketId(m, v)) = g * (-q - 1) + g
  BY <1>2 DEF ValueLow, ValueHigh
<1> HIDE DEF q, g
<1>5. g * (-q - 1) = -(q * g) - g
  BY <1>1, <1>3, Z3
<1> QED BY <1>1, <1>3, <1>4, <1>5

\* dds_get_bucket_value in integers: gamma is the fraction p / q, the bucket goes
\* from x to gamma * x, and the value reported is 2 * gamma * x / (gamma + 1).
\* For every number w of the bucket it is within alpha * w of w, where alpha is
\* (gamma - 1) / (gamma + 1), as dds_bucket_id_mapping_update sets it; both
\* sides are multiplied by q * (gamma + 1).
THEOREM BucketValueIsAccurate ==
  ASSUME NEW p \in Nat, NEW q \in Nat \ {0}, p >= q,
         NEW x \in Nat, NEW w \in Nat, x <= w, q * w <= p * x
  PROVE  /\ 2 * (p * x) - (p + q) * w <= (p - q) * w
         /\ (p + q) * w - 2 * (p * x) <= (p - q) * w
<1>1. p * x <= p * w
  BY Z3
<1> QED BY <1>1, Z3

----------------------------------------------------------------------------
(* Ends of finite sets of bucket ids *)

\* A finite set of integers that is not empty has a least element: among its
\* finite subsets without one, a minimal subset M would stay without one when
\* an element is taken out of it.
LEMMA LeastExists ==
  ASSUME NEW S \in SUBSET Int, IsFiniteSet(S), S # {}
  PROVE  \E x \in S : \A y \in S : x <= y
<1> DEFINE T == {U \in FiniteSubsetsOf(Int) : U # {} /\ ~\E x \in U : \A y \in U : x <= y}
<1> SUFFICES ASSUME ~\E x \in S : \A y \in S : x <= y
             PROVE  FALSE
  OBVIOUS
<1>1. T \subseteq FiniteSubsetsOf(Int) /\ T # {}
  BY DEF FiniteSubsetsOf
<1>2. PICK M \in T : \A U \in T : ~(<<U, M>> \in StrictSubsetOrdering(Int))
  BY <1>1, FS_StrictSubsetOrderingWellFounded, WFMin
<1>3. M \in SUBSET Int /\ IsFiniteSet(M) /\ M # {}
  BY DEF FiniteSubsetsOf
<1>4. PICK a \in M : TRUE
  BY <1>3
<1> DEFINE U == M \ {a}
<1>5. U \in FiniteSubsetsOf(Int) /\ <<U, M>> \in StrictSubsetOrdering(Int)
  BY <1>3, <1>4, FS_RemoveElement DEF FiniteSubsetsOf, StrictSubsetOrdering
<1>6. U \notin T
  BY <1>2, <1>5
<1>7. CASE U = {}
  BY <1>2, <1>3, <1>4, <1>7
<1>8. CASE U # {}
  <2>1. PICK b \in U : \A y \in U : b <= y
    BY <1>5, <1>6, <1>8
  <2>2. \A y \in M : y = a \/ b <= y
    BY <2>1
  <2>3. a \in Int /\ b \in Int /\ \A y \in M : y \in Int
    BY <1>3, <1>4, <2>1
  <2>4. \E x \in M : \A y \in M : x <= y
    BY <1>4, <2>1, <2>2, <2>3
  <2> QED BY <1>2, <2>4
<1> QED BY <1>7, <1>8

LEMMA GreatestExists ==
  ASSUME NEW S \in SUBSET Int, IsFiniteSet(S), S # {}
  PROVE  \E x \in S : \A y \in S : x >= y
<1> DEFINE N == {i \in Int : -i \in S}
           f == [i \in N |-> -i]
<1>1. N \in SUBSET Int /\ N # {}
  <2>1. PICK x \in S : TRUE
    OBVIOUS
  <2>2. -x \in Int /\ -(-x) = x
    BY <2>1
  <2> QED BY <2>1, <2>2
<1>2. f \in Injection(N, S)
  <2>1. f \in [N -> S]
    OBVIOUS
  <2>2. ASSUME NEW i \in N, NEW j \in N, f[i] = f[j] PROVE i = j
    BY <2>2
  <2> QED BY <2>1, <2>2, Fun_IsInj
<1>3. IsFiniteSet(N)
  BY <1>2, FS_Injection
<1>4. PICK n \in N : \A y \in N : n <= y
  BY <1>1, <1>3, LeastExists
<1>5. ASSUME NEW y \in S PROVE -n >= y
  <2>1. y \in Int /\ -y \in Int /\ -(-y) = y
    OBVIOUS
  <2> QED BY <1>4, <2>1
<1> QED BY <1>4, <1>5

\* Induction over the natural numbers, for a set instead of a predicate.
LEMMA InductionOverNat ==
  ASSUME NEW T, 0 \in T, \A n \in Nat : n \in T => n + 1 \in T
  PROVE  Nat \subseteq T
<1> SUFFICES ASSUME NEW k \in Nat, k \notin T PROVE FALSE
  OBVIOUS
<1> DEFINE U == {n \in 0 .. k : n \notin T}
<1>1. IsFiniteSet(0 .. k)
  BY FS_Interval
<1>2. U \in SUBSET Int /\ IsFiniteSet(U) /\ k \in U
  <2> HIDE DEF U
  <2>1. U \subseteq 0 .. k
    BY DEF U
  <2>2. IsFiniteSet(U)
    BY <1>1, <2>1, FS_Subset
  <2> QED BY <2>1, <2>2 DEF U
<1>3. PICK m \in U : \A y \in U : m <= y
  <2> HIDE DEF U
  <2> QED BY <1>2, LeastExists
<1>4. m \in Nat /\ m # 0 /\ m <= k /\ m \notin T
  OBVIOUS
<1>5. m - 1 \in Nat /\ m - 1 \in T
  BY <1>3, <1>4
<1> QED BY <1>4, <1>5

LEMMA MinIsLeast ==
  ASSUME NEW S \in SUBSET Int, IsFiniteSet(S), S # {}
  PROVE  Min(S) \in S /\ \A y \in S : Min(S) <= y
BY LeastExists DEF Min

LEMMA MaxIsGreatest ==
  ASSUME NEW S \in SUBSET Int, IsFiniteSet(S), S # {}
  PROVE  Max(S) \in S /\ \A y \in S : y <= Max(S)
<1>1. PICK x \in S : \A y \in S : x >= y
  BY GreatestExists
<1>2. Max(S) \in S /\ \A y \in S : Max(S) >= y
  BY <1>1 DEF Max
<1> QED BY <1>2

----------------------------------------------------------------------------
(* The ordered dictionary *)

LEMMA AddItemIsDict ==
  ASSUME NEW dict, IsDict(dict), NEW bid \in Int, NEW count \in Nat \ {0}
  PROVE  /\ IsDict(AddItem(dict, bid, count))
         /\ DOMAIN AddItem(dict, bid, count) = DOMAIN dict \cup {bid}
<1>1. IsFiniteSet(DOMAIN dict \cup {bid})
  BY FS_AddElement DEF IsDict
<1>2. \A b \in DOMAIN dict \cup {bid} :
        (IF b = bid THEN CountOf(dict, b) + count ELSE dict[b]) \in Nat \ {0}
  BY DEF IsDict, CountOf
<1> QED BY <1>1, <1>2 DEF IsDict, AddItem

LEMMA DropKeyIsDict ==
  ASSUME NEW dict, IsDict(dict), NEW bid
  PROVE  /\ IsDict(DropKey(dict, bid))
         /\ DOMAIN DropKey(dict, bid) = DOMAIN dict \ {bid}
<1>1. IsFiniteSet(DOMAIN dict \ {bid})
  BY FS_RemoveElement DEF IsDict
<1> QED BY <1>1 DEF IsDict, DropKey

LEMMA MergeIsDict ==
  ASSUME NEW dict, IsDict(dict), NEW from \in DOMAIN dict, NEW to \in DOMAIN dict
  PROVE  /\ IsDict(Merge(dict, from, to))
         /\ DOMAIN Merge(dict, from, to) = DOMAIN dict \ {from}
<1>1. to \in Int /\ dict[from] \in Nat \ {0}
  BY DEF IsDict
<1> DEFINE added == AddItem(dict, to, dict[from])
<1>2. IsDict(added) /\ DOMAIN added = DOMAIN dict \cup {to}
  <2> DEFINE count == dict[from]
  <2>1. count \in Nat \ {0}
    BY <1>1
  <2> HIDE DEF count
  <2>2. IsDict(AddItem(dict, to, count)) /\ DOMAIN AddItem(dict, to, count) = DOMAIN dict \cup {to}
    BY <1>1, <2>1, AddItemIsDict
  <2> QED BY <2>2 DEF count
<1>3. DOMAIN added = DOMAIN dict
  BY <1>2
<1>4. Merge(dict, from, to) = DropKey(added, from)
  BY DEF Merge
<1> HIDE DEF added
<1> QED BY <1>2, <1>3, <1>4, DropKeyIsDict

----------------------------------------------------------------------------
(* Stores *)

\* With two buckets or more the first has a successor other than itself, and
\* the last a predecessor: what collapse_impl merges are two buckets.
LEMMA EndsHaveNeighbours ==
  ASSUME NEW st, IsStore(st), NumBuckets(st) >= 2
  PROVE  /\ MinBid(st) \in Bids(st)
         /\ NextBid(st, MinBid(st)) \in Bids(st) \ {MinBid(st)}
         /\ MaxBid(st) \in Bids(st)
         /\ PrevBid(st, MaxBid(st)) \in Bids(st) \ {MaxBid(st)}
<1> DEFINE S == Bids(st)
<1>1. S \in SUBSET Int /\ IsFiniteSet(S) /\ Cardinality(S) \in Nat /\ Cardinality(S) >= 2
  BY FS_CardinalityType DEF IsStore, IsDict, Bids, NumBuckets
<1>2. S # {}
  BY <1>1, FS_EmptySet
<1>3. \A x \in S : S # {x}
  BY <1>1, FS_Singleton
<1> HIDE DEF S
<1>4. Min(S) \in S /\ \A y \in S : Min(S) <= y
  BY <1>1, <1>2, MinIsLeast
<1>5. Max(S) \in S /\ \A y \in S : y <= Max(S)
  BY <1>1, <1>2, MaxIsGreatest
<1>6. NextBid(st, Min(S)) \in S \ {Min(S)}
  <2> DEFINE after == {b \in S : b > Min(S)}
  <2>1. PICK y \in S : y # Min(S)
    BY <1>3, <1>4
  <2>2. y \in Int /\ Min(S) \in Int /\ Min(S) <= y /\ y > Min(S)
    <3>1. y \in Int /\ Min(S) \in Int /\ Min(S) <= y
      BY <1>1, <1>4
    <3> QED BY <2>1, <3>1
  <2>3. after \in SUBSET Int /\ after # {} /\ IsFiniteSet(after)
    BY <1>1, <2>2, FS_Subset
  <2>4. Min(after) \in after
    BY <2>3, MinIsLeast
  <2>5. NextBid(st, Min(S)) = Min(after)
    BY <1>4, <2>3 DEF NextBid, S
  <2>6. Min(after) \in S /\ Min(after) # Min(S)
    BY <2>2, <2>4
  <2> QED BY <2>5, <2>6
<1>7. PrevBid(st, Max(S)) \in S \ {Max(S)}
  <2> DEFINE before == {b \in S : b < Max(S)}
  <2>1. PICK y \in S : y # Max(S)
    BY <1>3, <1>5
  <2>2. y \in Int /\ Max(S) \in Int /\ y <= Max(S) /\ y < Max(S)
    <3>1. y \in Int /\ Max(S) \in Int /\ y <= Max(S)
      BY <1>1, <1>5
    <3> QED BY <2>1, <3>1
  <2>3. before \in SUBSET Int /\ before # {} /\ IsFiniteSet(before)
    BY <1>1, <2>2, FS_Subset
  <2>4. Max(before) \in before
    BY <2>3, MaxIsGreatest
  <2>5. PrevBid(st, Max(S)) = Max(before)
    BY <1>5, <2>3 DEF PrevBid, S
  <2>6. Max(before) \in S /\ Max(before) # Max(S)
    BY <2>2, <2>4
  <2> QED BY <2>5, <2>6
<1> QED BY <1>4, <1>5, <1>6, <1>7 DEF S, MinBid, MaxBid

\* HalfBid sends exactly LowerHalf and UpperHalf to a bucket
LEMMA HalvesOf ==
  ASSUME NEW m \in Mapping, NEW k \in Int
  PROVE  /\ HalfBid(m, k) \in Int
         /\ k = LowerHalf(m, HalfBid(m, k)) \/ k = UpperHalf(m, HalfBid(m, k))
<1>1. CASE m.type = LOG_UPPER
  BY <1>1, Z3 DEF HalfBid, CeilDiv, LowerHalf, UpperHalf
<1>2. CASE m.type # LOG_UPPER
  BY <1>2, Z3 DEF HalfBid, FloorDiv, LowerHalf, UpperHalf
<1> QED BY <1>1, <1>2

\* The uniform collapse keeps every id an int and every count positive, and
\* empties no store.
LEMMA HalveAllIsDict ==
  ASSUME NEW st, IsStore(st), NEW m \in Mapping
  PROVE  /\ IsDict(HalveAll(st, m))
         /\ DOMAIN HalveAll(st, m) = {HalfBid(m, k) : k \in Bids(st)}
<1> DEFINE H == {HalfBid(m, k) : k \in Bids(st)}
<1>1. Bids(st) \subseteq Int /\ IsFiniteSet(Bids(st))
  BY DEF IsStore, IsDict, Bids
<1>2. H \subseteq Int
  BY <1>1, HalvesOf
<1>3. IsFiniteSet(H)
  <2> DEFINE f == [k \in Bids(st) |-> HalfBid(m, k)]
  <2>1. f \in Surjection(Bids(st), H)
    BY DEF Surjection
  <2> QED BY <1>1, <2>1, FS_Surjection
<1>4. \A b : CountOf(st.buckets, b) \in Nat
  BY DEF IsStore, IsDict, CountOf
<1>5. ASSUME NEW b \in H
      PROVE  CountOf(st.buckets, LowerHalf(m, b)) + CountOf(st.buckets, UpperHalf(m, b))
               \in Nat \ {0}
  <2>1. PICK k \in Bids(st) : b = HalfBid(m, k)
    OBVIOUS
  <2>2. k = LowerHalf(m, b) \/ k = UpperHalf(m, b)
    BY <1>1, <2>1, HalvesOf
  <2>3. CountOf(st.buckets, k) > 0
    BY <1>1 DEF IsStore, IsDict, CountOf, Bids
  <2>4. \/ CountOf(st.buckets, LowerHalf(m, b)) > 0
        \/ CountOf(st.buckets, UpperHalf(m, b)) > 0
    BY <2>2, <2>3
  <2> HIDE DEF H
  <2> QED BY <1>4, <2>4
<1>6. HalveAll(st, m) = [b \in H |->
        CountOf(st.buckets, LowerHalf(m, b)) + CountOf(st.buckets, UpperHalf(m, b))]
  BY DEF HalveAll
<1> HIDE DEF H
<1>7. HalveAll(st, m) \in [H -> Nat \ {0}]
  BY <1>5, <1>6
<1>8. DOMAIN HalveAll(st, m) = H
  BY <1>7
<1> QED BY <1>2, <1>3, <1>7, <1>8 DEF IsDict, H

\* What IsStore says, field by field
LEMMA StoreFields ==
  ASSUME NEW st, IsStore(st)
  PROVE  /\ st = [store_type |-> st.store_type, resizable |-> st.resizable,
                  max_num_buckets |-> st.max_num_buckets, buckets |-> st.buckets,
                  total_counts |-> st.total_counts, is_collapsed |-> st.is_collapsed,
                  num_collapses |-> st.num_collapses]
         /\ st.store_type \in StoreType /\ st.resizable \in BOOLEAN
         /\ st.max_num_buckets \in Nat /\ st.total_counts \in Int
         /\ st.is_collapsed \in BOOLEAN /\ st.num_collapses \in Nat
         /\ IsDict(st.buckets)
         /\ Bids(st) \in SUBSET Int /\ IsFiniteSet(Bids(st))
         /\ NumBuckets(st) \in Nat
<1>1. Bids(st) \in SUBSET Int /\ IsFiniteSet(Bids(st))
  BY DEF IsStore, IsDict, Bids
<1>2. NumBuckets(st) \in Nat
  BY <1>1, FS_CardinalityType DEF NumBuckets
<1> QED BY <1>1, <1>2 DEF IsStore

LEMMA EndsAreBuckets ==
  ASSUME NEW st, IsStore(st), ~IsEmpty(st)
  PROVE  /\ MinBid(st) \in Bids(st) /\ \A b \in Bids(st) : MinBid(st) <= b
         /\ MaxBid(st) \in Bids(st) /\ \A b \in Bids(st) : b <= MaxBid(st)
BY StoreFields, MinIsLeast, MaxIsGreatest DEF IsEmpty, MinBid, MaxBid

\* AddTotal changes nothing but the total.
LEMMA AddTotalIsStore ==
  ASSUME NEW st, IsStore(st), NEW count \in Int
  PROVE  /\ IsStore(AddTotal(st, count))
         /\ AddTotal(st, count).buckets = st.buckets
         /\ AddTotal(st, count).total_counts = st.total_counts + count
         /\ AddTotal(st, count).store_type = st.store_type
         /\ AddTotal(st, count).resizable = st.resizable
         /\ AddTotal(st, count).max_num_buckets = st.max_num_buckets
         /\ AddTotal(st, count).is_collapsed = st.is_collapsed
         /\ AddTotal(st, count).num_collapses = st.num_collapses
BY StoreFields DEF AddTotal, IsStore

\* Unless a NULL pointer is read, an insertion goes to an int, and the store
\* stays a store with the same bookkeeping.
LEMMA InsertItemIsStore ==
  ASSUME NEW st, IsStore(st), ~InsertReadsNull(st), NEW bid \in Int, NEW count \in Nat \ {0}
  PROVE  /\ InsertTarget(st, bid) \in Int
         /\ bid \in Bids(st) => InsertTarget(st, bid) = bid
         /\ IsStore(InsertItem(st, bid, count))
         /\ Bids(InsertItem(st, bid, count)) = Bids(st) \cup {InsertTarget(st, bid)}
         /\ InsertItem(st, bid, count).total_counts = st.total_counts
         /\ InsertItem(st, bid, count).store_type = st.store_type
         /\ InsertItem(st, bid, count).resizable = st.resizable
         /\ InsertItem(st, bid, count).max_num_buckets = st.max_num_buckets
         /\ InsertItem(st, bid, count).is_collapsed = st.is_collapsed
         /\ InsertItem(st, bid, count).num_collapses = st.num_collapses
<1> DEFINE target == InsertTarget(st, bid)
<1>1. ASSUME ~IsEmpty(st)
      PROVE  MinBid(st) \in Int /\ MaxBid(st) \in Int
  BY <1>1, EndsAreBuckets, StoreFields
<1>2. target \in Int /\ (bid \in Bids(st) => target = bid)
  BY <1>1 DEF InsertTarget, InsertReadsNull
<1> HIDE DEF target
<1>3. /\ IsDict(AddItem(st.buckets, target, count))
      /\ DOMAIN AddItem(st.buckets, target, count) = Bids(st) \cup {target}
  BY <1>2, StoreFields, AddItemIsDict DEF Bids
<1> DEFINE added == AddItem(st.buckets, target, count)
<1>4. InsertItem(st, bid, count) = [st EXCEPT !.buckets = added]
  BY DEF InsertItem, target
<1> HIDE DEF added
<1>5. IsDict(added) /\ DOMAIN added = Bids(st) \cup {target}
  BY <1>3 DEF added
<1> QED BY <1>2, <1>4, <1>5, StoreFields DEF IsStore, Bids, target

\* A pass of the collapsing loop leaves a store, keeps the total, empties no
\* store, and counts the collapse exactly when it flags it.
LEMMA CollapseIsStore ==
  ASSUME NEW st, IsStore(st), NEW m \in Mapping
  PROVE  /\ IsStore(Collapse(st, m))
         /\ Collapse(st, m).store_type = st.store_type
         /\ Collapse(st, m).resizable = st.resizable
         /\ Collapse(st, m).max_num_buckets = st.max_num_buckets
         /\ Collapse(st, m).total_counts = st.total_counts
         /\ CanCollapse(st) =>
              /\ Collapse(st, m).is_collapsed
              /\ Collapse(st, m).num_collapses = st.num_collapses + 1
         /\ ~CanCollapse(st) => Collapse(st, m) = st
         /\ IsEmpty(Collapse(st, m)) => IsEmpty(st)
<1>1. CASE ~CanCollapse(st)
  BY <1>1 DEF Collapse
<1>2. CASE CanCollapse(st)
  <2> DEFINE new == CollapsedBuckets(st, m)
  <2>1. IsDict(new) /\ (DOMAIN new = {} => Bids(st) = {})
    <3>1. CASE st.store_type = COLLAPSINGLOW_MAPSTORE
      <4>1. NumBuckets(st) >= 2
        BY <1>2, <3>1 DEF CanCollapse, COLLAPSINGLOW_MAPSTORE, COLLAPSINGALL_MAPSTORE
      <4>2. /\ IsDict(MergeFirst(st))
            /\ DOMAIN MergeFirst(st) = Bids(st) \ {MinBid(st)}
        BY <4>1, StoreFields, EndsHaveNeighbours, MergeIsDict DEF MergeFirst, Bids
      <4>3. new = MergeFirst(st)
        BY <3>1 DEF CollapsedBuckets, COLLAPSINGHIGH_MAPSTORE, COLLAPSINGLOW_MAPSTORE
      <4> QED BY <4>1, <4>2, <4>3, EndsHaveNeighbours
    <3>2. CASE st.store_type = COLLAPSINGHIGH_MAPSTORE
      <4>1. NumBuckets(st) >= 2
        BY <1>2, <3>2 DEF CanCollapse, COLLAPSINGHIGH_MAPSTORE, COLLAPSINGALL_MAPSTORE
      <4>2. /\ IsDict(MergeLast(st))
            /\ DOMAIN MergeLast(st) = Bids(st) \ {MaxBid(st)}
        BY <4>1, StoreFields, EndsHaveNeighbours, MergeIsDict DEF MergeLast, Bids
      <4>3. new = MergeLast(st)
        BY <3>2 DEF CollapsedBuckets, COLLAPSINGHIGH_MAPSTORE, COLLAPSINGLOW_MAPSTORE
      <4> QED BY <4>1, <4>2, <4>3, EndsHaveNeighbours
    <3>3. CASE /\ st.store_type # COLLAPSINGLOW_MAPSTORE
               /\ st.store_type # COLLAPSINGHIGH_MAPSTORE
      <4>1. new = HalveAll(st, m)
        BY <3>3 DEF CollapsedBuckets
      <4>2. /\ IsDict(HalveAll(st, m))
            /\ DOMAIN HalveAll(st, m) = {HalfBid(m, k) : k \in Bids(st)}
        BY HalveAllIsDict
      <4>3. {HalfBid(m, k) : k \in Bids(st)} = {} => Bids(st) = {}
        OBVIOUS
      <4> QED BY <4>1, <4>2, <4>3
    <3> QED BY <3>1, <3>2, <3>3
  <2>2. Collapse(st, m) = [st EXCEPT !.buckets = new, !.is_collapsed = TRUE,
                                     !.num_collapses = @ + 1]
    BY <1>2 DEF Collapse
  <2> HIDE DEF new
  <2> DEFINE after == Collapse(st, m)
  <2>2a. st.num_collapses + 1 \in Nat
    BY StoreFields
  <2>3. /\ after \in [store_type : StoreType, resizable : BOOLEAN, max_num_buckets : Nat,
                      buckets : {new}, total_counts : Int,
                      is_collapsed : BOOLEAN, num_collapses : Nat]
        /\ after.buckets = new
        /\ after.store_type = st.store_type
        /\ after.resizable = st.resizable
        /\ after.max_num_buckets = st.max_num_buckets
        /\ after.total_counts = st.total_counts
        /\ after.is_collapsed
        /\ after.num_collapses = st.num_collapses + 1
    BY <2>2, <2>2a DEF IsStore
  <2> HIDE DEF after
  <2>4. IsStore(after) /\ (IsEmpty(after) => IsEmpty(st))
    BY <2>1, <2>3 DEF IsStore, IsEmpty, Bids
  <2> QED BY <1>2, <2>3, <2>4 DEF after
<1> QED BY <1>1, <1>2

\* A removal from a store that is not empty does nothing, or takes count units
\* from one bucket, which goes when nothing is left in it.
LEMMA RemoveItemIsStore ==
  ASSUME NEW st, IsStore(st), ~RemoveReadsNull(st), NEW bid \in Int, NEW count \in Nat \ {0}
  PROVE  LET slot  == RemoveSlot(st, bid)
             drain == DrainsEnd(st, bid, count)
             after == RemoveItem(st, bid, count)
         IN  /\ IsStore(after)
             /\ after.store_type = st.store_type
             /\ after.resizable = st.resizable
             /\ after.max_num_buckets = st.max_num_buckets
             /\ slot \notin Bids(st) \/ CountOf(st.buckets, slot) < count => after = st
             /\ slot \in Bids(st) /\ count <= CountOf(st.buckets, slot) =>
                  /\ Bids(after) = IF st.buckets[slot] = count
                                   THEN Bids(st) \ {slot} ELSE Bids(st)
                  /\ \A b \in Bids(after) :
                       after.buckets[b] = IF b = slot THEN st.buckets[b] - count
                                          ELSE st.buckets[b]
                  /\ after.total_counts = st.total_counts - count
                  /\ after.is_collapsed = (st.is_collapsed /\ ~drain)
                  /\ after.num_collapses = IF drain THEN 0 ELSE st.num_collapses
<1> DEFINE slot  == RemoveSlot(st, bid)
           drain == DrainsEnd(st, bid, count)
           left  == [st.buckets EXCEPT ![slot] = @ - count]
           kept  == IF left[slot] = 0 THEN DropKey(left, slot) ELSE left
           after == RemoveItem(st, bid, count)
<1>1. CountOf(st.buckets, slot) \in Nat
  BY StoreFields DEF IsDict, CountOf
<1>2. CASE slot \notin Bids(st) \/ CountOf(st.buckets, slot) < count
  <2>1. after = st
    BY <1>2 DEF RemoveItem
  <2>2. ~(slot \in Bids(st) /\ count <= CountOf(st.buckets, slot))
    BY <1>1, <1>2
  <2> HIDE DEF after, slot, drain
  <2>3. IsStore(after)
    BY <2>1
  <2> QED BY <2>1, <2>2, <2>3 DEF after, slot, drain
<1>3. CASE ~(slot \notin Bids(st) \/ CountOf(st.buckets, slot) < count)
  <2>1. drain \in BOOLEAN
    BY DEF DrainsEnd
  <2>2. after = [st EXCEPT !.buckets = kept, !.total_counts = @ - count,
                           !.is_collapsed = @ /\ ~drain,
                           !.num_collapses = IF drain THEN 0 ELSE @]
    BY <1>3 DEF RemoveItem
  <2>3. /\ IsDict(kept)
        /\ DOMAIN kept = IF st.buckets[slot] = count THEN Bids(st) \ {slot} ELSE Bids(st)
        /\ \A b \in DOMAIN kept :
             kept[b] = IF b = slot THEN st.buckets[b] - count ELSE st.buckets[b]
    <3> HIDE DEF slot
    <3>1. st.buckets \in [Bids(st) -> Nat \ {0}] /\ Bids(st) \subseteq Int
          /\ IsFiniteSet(Bids(st))
      BY StoreFields DEF IsDict, Bids
    <3>2. st.buckets[slot] - count \in Nat
      BY <1>3, <3>1 DEF CountOf, Bids
    <3>3. left \in [Bids(st) -> Nat] /\ left[slot] = st.buckets[slot] - count
          /\ \A b \in Bids(st) \ {slot} : left[b] = st.buckets[b]
      BY <1>3, <3>1, <3>2
    <3> HIDE DEF left
    <3>4. CASE left[slot] = 0
      <4>1. kept = [b \in Bids(st) \ {slot} |-> left[b]]
        BY <3>3, <3>4 DEF DropKey
      <4>2. kept \in [Bids(st) \ {slot} -> Nat \ {0}]
        BY <3>1, <3>3, <4>1
      <4>3. IsFiniteSet(Bids(st) \ {slot})
        BY <3>1, FS_RemoveElement
      <4>4. st.buckets[slot] = count
        BY <1>3, <3>1, <3>3, <3>4
      <4>5. IsDict(kept)
        BY <3>1, <4>2, <4>3 DEF IsDict
      <4>6. \A b \in Bids(st) \ {slot} : kept[b] = st.buckets[b]
        BY <3>3, <4>1
      <4> HIDE DEF kept
      <4> QED BY <4>2, <4>4, <4>5, <4>6
    <3>5. CASE left[slot] # 0
      <4>1. kept = left /\ kept \in [Bids(st) -> Nat \ {0}]
        BY <3>1, <3>3, <3>5
      <4>2. IsDict(kept)
        BY <3>1, <4>1 DEF IsDict
      <4>3. st.buckets[slot] # count
        BY <3>3, <3>5
      <4> HIDE DEF kept
      <4> QED BY <3>3, <4>1, <4>2, <4>3
    <3> QED BY <3>4, <3>5
  <2> HIDE DEF kept, drain
  <2>4. /\ st.total_counts - count \in Int
        /\ (st.is_collapsed /\ ~drain) \in BOOLEAN
        /\ (IF drain THEN 0 ELSE st.num_collapses) \in Nat
    BY <2>1, StoreFields
  <2>5. /\ after \in [store_type : StoreType, resizable : BOOLEAN, max_num_buckets : Nat,
                      buckets : {kept}, total_counts : Int,
                      is_collapsed : BOOLEAN, num_collapses : Nat]
        /\ after.buckets = kept
        /\ after.store_type = st.store_type
        /\ after.resizable = st.resizable
        /\ after.max_num_buckets = st.max_num_buckets
        /\ after.total_counts = st.total_counts - count
        /\ after.is_collapsed = (st.is_collapsed /\ ~drain)
        /\ after.num_collapses = IF drain THEN 0 ELSE st.num_collapses
    BY <2>2, <2>4 DEF IsStore
  <2> HIDE DEF after
  <2>6. IsStore(after) /\ Bids(after) = DOMAIN kept
    BY <2>3, <2>5 DEF IsStore, Bids
  <2> HIDE DEF slot
  <2>7. /\ slot \in Bids(st) /\ count <= CountOf(st.buckets, slot)
        /\ ~(slot \notin Bids(st) \/ CountOf(st.buckets, slot) < count)
    BY <1>1, <1>3
  <2>8. \A b \in Bids(after) :
          after.buckets[b] = IF b = slot THEN st.buckets[b] - count ELSE st.buckets[b]
    BY <2>3, <2>5, <2>6
  <2>9. Bids(after) = IF st.buckets[slot] = count THEN Bids(st) \ {slot} ELSE Bids(st)
    BY <2>3, <2>6
  <2> QED BY <2>5, <2>6, <2>7, <2>8, <2>9 DEF slot, drain, after
<1> QED BY <1>2, <1>3

----------------------------------------------------------------------------
(* The collapsed state *)

\* Collapsing flags and counts the collapse together, and a store collapsed at
\* one end keeps a bucket there.
LEMMA CollapseKeepsStateOK ==
  ASSUME NEW st, IsStore(st), NEW m \in Mapping, CollapseStateOK(st)
  PROVE  CollapseStateOK(Collapse(st, m))
<1>1. CASE ~CanCollapse(st)
  BY <1>1, CollapseIsStore
<1>2. CASE CanCollapse(st)
  <2>1. IsEmpty(Collapse(st, m)) => st.store_type = COLLAPSINGALL_MAPSTORE
    <3>1. IsEmpty(Collapse(st, m)) => IsEmpty(st)
      BY CollapseIsStore
    <3>2. IsEmpty(st) => NumBuckets(st) = 0
      BY FS_EmptySet DEF IsEmpty, NumBuckets
    <3>3. st.store_type = COLLAPSINGALL_MAPSTORE \/ NumBuckets(st) >= 2
      BY <1>2 DEF CanCollapse
    <3> QED BY <3>1, <3>2, <3>3
  <2>2. ~InsertReadsNull(Collapse(st, m))
    BY <2>1, CollapseIsStore
    DEF InsertReadsNull, CollapsedHigh, CollapsedLow, COLLAPSINGALL_MAPSTORE,
        COLLAPSINGHIGH_MAPSTORE, COLLAPSINGLOW_MAPSTORE
  <2>3. Collapse(st, m).is_collapsed /\ Collapse(st, m).num_collapses > 0
    BY <1>2, CollapseIsStore, StoreFields
  <2> QED BY <2>2, <2>3 DEF CollapseStateOK
<1> QED BY <1>1, <1>2

\* A removal that takes the last bucket of a store collapsed at one end drains
\* the end bucket, and that ends the collapsed state.
LEMMA RemoveKeepsStateOK ==
  ASSUME NEW st, IsStore(st), ~RemoveReadsNull(st), CollapseStateOK(st),
         NEW bid \in Int, NEW count \in Nat \ {0}
  PROVE  CollapseStateOK(RemoveItem(st, bid, count))
<1> DEFINE slot  == RemoveSlot(st, bid)
           after == RemoveItem(st, bid, count)
<1>1. CASE slot \notin Bids(st) \/ CountOf(st.buckets, slot) < count
  BY <1>1, RemoveItemIsStore
<1>2. CASE slot \in Bids(st) /\ count <= CountOf(st.buckets, slot)
  <2> DEFINE drain == DrainsEnd(st, bid, count)
  <2>1. /\ after.store_type = st.store_type
        /\ after.is_collapsed = (st.is_collapsed /\ ~drain)
        /\ after.num_collapses = IF drain THEN 0 ELSE st.num_collapses
        /\ Bids(after) = IF st.buckets[slot] = count THEN Bids(st) \ {slot} ELSE Bids(st)
    BY <1>2, RemoveItemIsStore
  <2>2. drain => st.is_collapsed
    BY DEF DrainsEnd, FromLast, FromFirst, CollapsedHigh, CollapsedLow
  <2>3. after.is_collapsed <=> after.num_collapses > 0
    <3> HIDE DEF after, drain
    <3>1. CASE drain
      <4>1. ~after.is_collapsed
        BY <2>1, <3>1, Zenon
      <4>2. after.num_collapses = 0 /\ ~(0 > 0)
        BY <2>1, <3>1
      <4> QED BY <4>1, <4>2
    <3>2. CASE ~drain
      <4>1. after.is_collapsed <=> st.is_collapsed
        BY <2>1, <3>2
      <4>2. after.num_collapses = st.num_collapses
        BY <2>1, <3>2
      <4> QED BY <4>1, <4>2 DEF CollapseStateOK
    <3> QED BY <3>1, <3>2
  <2>4. ASSUME InsertReadsNull(after) PROVE FALSE
    <3>1. st.is_collapsed /\ ~drain /\ Bids(after) = {}
          /\ st.store_type \in {COLLAPSINGHIGH_MAPSTORE, COLLAPSINGLOW_MAPSTORE}
      BY <2>1, <2>4 DEF InsertReadsNull, IsEmpty, CollapsedHigh, CollapsedLow
    <3>2. Bids(st) = {slot} /\ st.buckets[slot] = count
      BY <1>2, <2>1, <3>1
    <3>3. MaxBid(st) = slot /\ MinBid(st) = slot
      BY <3>2, EndsAreBuckets DEF IsEmpty
    <3>4. bid \in Int /\ slot \in Int
      BY <3>2, StoreFields
    <3>5. FromLast(st, bid) \/ FromFirst(st, bid)
      BY <3>1, <3>3, <3>4 DEF FromLast, FromFirst, CollapsedHigh, CollapsedLow, RemoveSlot
    <3> QED BY <3>1, <3>2, <3>5 DEF DrainsEnd
  <2> QED BY <2>3, <2>4 DEF CollapseStateOK
<1>3. CountOf(st.buckets, slot) \in Nat
  BY StoreFields DEF IsDict, CountOf
<1> QED BY <1>1, <1>2, <1>3

----------------------------------------------------------------------------
(* Creation, and what a caller sees of an update *)

LEMMA NewStoreIsStore ==
  ASSUME NEW type \in StoreType, NEW resizable \in BOOLEAN, NEW max \in Nat
  PROVE  LET st == NewStore(type, resizable, max)
         IN  /\ IsStore(st) /\ st.resizable = resizable /\ st.store_type = type
             /\ st.buckets = EmptyDict /\ st.total_counts = 0
             /\ ~st.is_collapsed /\ st.num_collapses = 0
             /\ CollapseStateOK(st)
             /\ NumBuckets(st) = 0
<1> DEFINE st == NewStore(type, resizable, max)
<1>1. IsDict(EmptyDict) /\ DOMAIN EmptyDict = {}
  BY FS_EmptySet DEF IsDict, EmptyDict
<1>2. /\ st.buckets = EmptyDict /\ st.resizable = resizable /\ st.store_type = type
      /\ ~st.is_collapsed /\ st.num_collapses = 0 /\ st.total_counts = 0
  BY DEF NewStore
<1>3. IsStore(st)
  BY <1>1 DEF NewStore, IsStore
<1>4. CollapseStateOK(st)
  <2> HIDE DEF st
  <2>1. (0 > 0) = FALSE
    OBVIOUS
  <2> QED BY <1>2, <2>1 DEF CollapseStateOK, InsertReadsNull, CollapsedHigh, CollapsedLow
<1>5. NumBuckets(st) = 0
  BY <1>1, <1>2, FS_EmptySet DEF NumBuckets, Bids
<1> QED BY <1>2, <1>3, <1>4, <1>5

\* Squaring gamma gives a mapping of the same kind.
LEMMA SquareGammaIsMapping ==
  ASSUME NEW m \in Mapping
  PROVE  SquareGamma(m) \in Mapping /\ SquareGamma(m).type = m.type
BY DEF SquareGamma, Mapping

LEMMA InsertKeepsStateOK ==
  ASSUME NEW st, IsStore(st), CollapseStateOK(st), NEW bid \in Int, NEW count \in Nat \ {0}
  PROVE  CollapseStateOK(InsertItem(st, bid, count)) /\ ~IsEmpty(InsertItem(st, bid, count))
<1> DEFINE after == InsertItem(st, bid, count)
<1>1. /\ Bids(after) = Bids(st) \cup {InsertTarget(st, bid)}
      /\ after.store_type = st.store_type
      /\ after.is_collapsed = st.is_collapsed /\ after.num_collapses = st.num_collapses
  BY InsertItemIsStore DEF CollapseStateOK
<1> HIDE DEF after
<1>2. ~IsEmpty(after)
  BY <1>1 DEF IsEmpty
<1> QED BY <1>1, <1>2 DEF after, CollapseStateOK, InsertReadsNull

\* A removal changes no setting of the store and makes no bucket.
LEMMA RemoveItemStays ==
  ASSUME NEW st, IsStore(st), ~RemoveReadsNull(st), CollapseStateOK(st),
         NEW bid \in Int, NEW count \in Nat \ {0}
  PROVE  LET after == RemoveItem(st, bid, count)
         IN  /\ IsStore(after) /\ CollapseStateOK(after)
             /\ after.store_type = st.store_type
             /\ after.resizable = st.resizable
             /\ after.max_num_buckets = st.max_num_buckets
             /\ Bids(after) \subseteq Bids(st)
             /\ NumBuckets(after) <= NumBuckets(st)
<1> DEFINE slot  == RemoveSlot(st, bid)
           after == RemoveItem(st, bid, count)
<1>1. CountOf(st.buckets, slot) \in Nat
  BY StoreFields DEF IsDict, CountOf
<1>2. /\ IsStore(after) /\ after.store_type = st.store_type
      /\ after.resizable = st.resizable /\ after.max_num_buckets = st.max_num_buckets
      /\ Bids(after) \subseteq Bids(st)
  <2>1. CASE slot \notin Bids(st) \/ CountOf(st.buckets, slot) < count
    BY <2>1, RemoveItemIsStore
  <2>2. CASE slot \in Bids(st) /\ count <= CountOf(st.buckets, slot)
    BY <2>2, RemoveItemIsStore
  <2> QED BY <1>1, <2>1, <2>2
<1>3. CollapseStateOK(after)
  BY RemoveKeepsStateOK
<1> HIDE DEF after
<1>4. NumBuckets(after) <= NumBuckets(st)
  BY <1>2, StoreFields, FS_Subset DEF NumBuckets
<1> QED BY <1>2, <1>3, <1>4 DEF after

----------------------------------------------------------------------------
(* How the number of buckets moves *)

LEMMA InsertAddsOne ==
  ASSUME NEW st, IsStore(st), ~InsertReadsNull(st), NEW bid \in Int, NEW count \in Nat \ {0}
  PROVE  NumBuckets(InsertItem(st, bid, count)) \in {NumBuckets(st), NumBuckets(st) + 1}
<1> DEFINE to == InsertTarget(st, bid)
<1>1. Bids(InsertItem(st, bid, count)) = Bids(st) \cup {to}
  BY InsertItemIsStore
<1>2. IsFiniteSet(Bids(st))
  BY StoreFields
<1> HIDE DEF to
<1>3. Cardinality(Bids(st) \cup {to}) \in {Cardinality(Bids(st)), Cardinality(Bids(st)) + 1}
  BY <1>2, FS_AddElement
<1> QED BY <1>1, <1>3 DEF NumBuckets

\* A pass of the policies that merge at one end takes one bucket away, as long as
\* there are two.
LEMMA CollapseMergesOne ==
  ASSUME NEW st, IsStore(st), NEW m \in Mapping,
         st.store_type \in {COLLAPSINGHIGH_MAPSTORE, COLLAPSINGLOW_MAPSTORE}
  PROVE  NumBuckets(Collapse(st, m)) =
           IF NumBuckets(st) >= 2 THEN NumBuckets(st) - 1 ELSE NumBuckets(st)
<1>1. /\ CanCollapse(st) <=> NumBuckets(st) >= 2
      /\ IsFiniteSet(Bids(st)) /\ IsDict(st.buckets) /\ NumBuckets(st) \in Nat
  BY StoreFields
  DEF CanCollapse, UNBOUNDED_MAPSTORE, COLLAPSINGHIGH_MAPSTORE, COLLAPSINGLOW_MAPSTORE,
      COLLAPSINGALL_MAPSTORE
<1>2. CASE NumBuckets(st) >= 2
  <2>1. Collapse(st, m).buckets = CollapsedBuckets(st, m)
    BY <1>1, <1>2 DEF Collapse, IsStore
  <2>2. /\ MinBid(st) \in Bids(st) /\ NextBid(st, MinBid(st)) \in Bids(st)
        /\ MaxBid(st) \in Bids(st) /\ PrevBid(st, MaxBid(st)) \in Bids(st)
    BY <1>2, EndsHaveNeighbours
  <2>3. ASSUME NEW from \in Bids(st), NEW to \in Bids(st),
               Collapse(st, m).buckets = Merge(st.buckets, from, to)
        PROVE  NumBuckets(Collapse(st, m)) = NumBuckets(st) - 1
    <3>1. DOMAIN Merge(st.buckets, from, to) = DOMAIN st.buckets \ {from}
      BY <1>1, MergeIsDict DEF Bids
    <3>2. Bids(Collapse(st, m)) = Bids(st) \ {from}
      BY <2>3, <3>1 DEF Bids
    <3>3. Cardinality(Bids(st) \ {from}) = Cardinality(Bids(st)) - 1
      BY <1>1, FS_RemoveElement
    <3> QED BY <3>2, <3>3 DEF NumBuckets
  <2>4. \/ Collapse(st, m).buckets = Merge(st.buckets, MinBid(st), NextBid(st, MinBid(st)))
        \/ Collapse(st, m).buckets = Merge(st.buckets, MaxBid(st), PrevBid(st, MaxBid(st)))
    BY <2>1
    DEF CollapsedBuckets, MergeFirst, MergeLast, COLLAPSINGHIGH_MAPSTORE, COLLAPSINGLOW_MAPSTORE
  <2>5. NumBuckets(Collapse(st, m)) = NumBuckets(st) - 1
    BY <2>2, <2>3, <2>4
  <2> QED BY <1>2, <2>5
<1>3. CASE ~(NumBuckets(st) >= 2)
  BY <1>1, <1>3 DEF Collapse
<1> QED BY <1>2, <1>3


----------------------------------------------------------------------------
(* The mass of a multiset *)

LEMMA UnitsIn ==
  ASSUME NEW live, NEW S
  PROVE  \A u : u \in Units(live, S) <=> \E x \in S : \E i \in 1 .. live[x] : u = <<x, i>>
BY DEF Units

LEMMA UpTo ==
  ASSUME NEW n \in Nat
  PROVE  IsFiniteSet(1 .. n) /\ Cardinality(1 .. n) = n
<1>1. 1 \in Int /\ n \in Int
  OBVIOUS
<1>2. IsFiniteSet(1 .. n) /\ Cardinality(1 .. n) = IF 1 > n THEN 0 ELSE n - 1 + 1
  BY <1>1, FS_Interval
<1> QED BY <1>2

LEMMA MassType ==
  ASSUME NEW live, NEW S, IsFiniteSet(S), \A x \in S : live[x] \in Nat
  PROVE  IsFiniteSet(Units(live, S)) /\ Mass(live, S) \in Nat
<1> DEFINE f == [x \in S |-> {x} \X (1 .. live[x])]
           F == {{x} \X (1 .. live[x]) : x \in S}
<1>1. f \in Surjection(S, F)
  BY DEF Surjection
<1>2. IsFiniteSet(F)
  BY <1>1, FS_Surjection
<1>3. \A x \in S : IsFiniteSet({x} \X (1 .. live[x]))
  <2> SUFFICES ASSUME NEW x \in S PROVE IsFiniteSet({x} \X (1 .. live[x]))
    OBVIOUS
  <2> DEFINE I == 1 .. live[x]
  <2>1. IsFiniteSet({x})
    BY FS_Singleton
  <2>2. IsFiniteSet(I)
    BY UpTo
  <2>3. IsFiniteSet({x} \X I)
    <3> HIDE DEF I
    <3> QED BY <2>1, <2>2, FS_Product
  <2> QED BY <2>3
<1>4. IsFiniteSet(UNION F)
  BY <1>2, <1>3, FS_UNION
<1>5. IsFiniteSet(Units(live, S))
  BY <1>4 DEF Units
<1> QED BY <1>5, FS_CardinalityType DEF Mass

LEMMA MassDisjoint ==
  ASSUME NEW live, NEW S, IsFiniteSet(S), NEW T, IsFiniteSet(T), S \cap T = {},
         \A x \in S \cup T : live[x] \in Nat
  PROVE  Mass(live, S \cup T) = Mass(live, S) + Mass(live, T)
<1>1. Units(live, S \cup T) = Units(live, S) \cup Units(live, T)
  BY DEF Units
<1>2. Units(live, S) \cap Units(live, T) = {}
  BY UnitsIn
<1>3. /\ IsFiniteSet(Units(live, S)) /\ Mass(live, S) \in Nat
      /\ IsFiniteSet(Units(live, T)) /\ Mass(live, T) \in Nat
  BY MassType
<1>4. Cardinality(Units(live, S) \cup Units(live, T))
        = Mass(live, S) + Mass(live, T) - Cardinality({})
  BY <1>2, <1>3, FS_Union DEF Mass
<1>5. Cardinality({}) = 0
  BY FS_EmptySet
<1>6. Mass(live, S \cup T) = Mass(live, S) + Mass(live, T) - 0
  BY <1>1, <1>4, <1>5 DEF Mass
<1> QED BY <1>3, <1>6

LEMMA MassEmpty == ASSUME NEW live PROVE Mass(live, {}) = 0
<1>1. Units(live, {}) = {}
  BY DEF Units
<1> QED BY <1>1, FS_EmptySet DEF Mass

LEMMA MassOne ==
  ASSUME NEW live, NEW x, live[x] \in Nat
  PROVE  Mass(live, {x}) = live[x]
<1>1. Units(live, {x}) = {x} \X (1 .. live[x])
  BY DEF Units
<1>2. IsFiniteSet({x}) /\ Cardinality({x}) = 1
  BY FS_Singleton
<1> DEFINE I == 1 .. live[x]
<1>3. IsFiniteSet(I) /\ Cardinality(I) = live[x]
  BY UpTo
<1>4. Cardinality({x} \X I) = live[x]
  <2> HIDE DEF I
  <2>1. Cardinality({x} \X I) = Cardinality({x}) * Cardinality(I)
    BY <1>2, <1>3, FS_Product
  <2>2. 1 * live[x] = live[x]
    OBVIOUS
  <2> QED BY <1>2, <1>3, <2>1, <2>2
<1> QED BY <1>1, <1>4 DEF Mass

LEMMA MassSame ==
  ASSUME NEW f, NEW g, NEW S, \A x \in S : f[x] = g[x]
  PROVE  Mass(f, S) = Mass(g, S)
<1>1. Units(f, S) = Units(g, S)
  BY DEF Units
<1> QED BY <1>1 DEF Mass

\* The copies of one member and of the others
LEMMA MassSplit ==
  ASSUME NEW live, NEW S, IsFiniteSet(S), \A y \in S : live[y] \in Nat, NEW x \in S
  PROVE  /\ Mass(live, S) = live[x] + Mass(live, S \ {x})
         /\ Mass(live, S \ {x}) \in Nat
<1>1. IsFiniteSet(S \ {x}) /\ IsFiniteSet({x})
  BY FS_RemoveElement, FS_Singleton
<1>2. Mass(live, {x}) = live[x]
  BY MassOne
<1>3. Mass(live, {x} \cup (S \ {x})) = Mass(live, {x}) + Mass(live, S \ {x})
  <2> DEFINE A == {x}
             B == S \ {x}
  <2>1. A \cap B = {} /\ \A y \in A \cup B : live[y] \in Nat
    OBVIOUS
  <2> HIDE DEF A, B
  <2>2. IsFiniteSet(A) /\ IsFiniteSet(B)
    BY <1>1 DEF A, B
  <2>3. Mass(live, A \cup B) = Mass(live, A) + Mass(live, B)
    BY <2>1, <2>2, MassDisjoint
  <2> QED BY <2>3 DEF A, B
<1>4. {x} \cup (S \ {x}) = S
  OBVIOUS
<1>5. Mass(live, S \ {x}) \in Nat
  BY <1>1, MassType
<1> QED BY <1>2, <1>3, <1>4, <1>5

LEMMA MassOfAbsent ==
  ASSUME NEW live, NEW S, \A x \in S : live[x] = 0
  PROVE  Mass(live, S) = 0
<1>1. Units(live, S) = {}
  BY UnitsIn
<1> QED BY <1>1, FS_EmptySet DEF Mass

\* More copies of one member
LEMMA MassChanged ==
  ASSUME NEW f, NEW g, NEW S, IsFiniteSet(S), NEW x \in S, NEW d \in Int,
         \A y \in S : f[y] \in Nat /\ g[y] \in Nat,
         \A y \in S \ {x} : g[y] = f[y],
         g[x] = f[x] + d
  PROVE  Mass(g, S) = Mass(f, S) + d
<1>1. Mass(f, S) = f[x] + Mass(f, S \ {x}) /\ Mass(f, S \ {x}) \in Nat
  BY MassSplit
<1>2. Mass(g, S) = g[x] + Mass(g, S \ {x})
  BY MassSplit
<1>3. Mass(g, S \ {x}) = Mass(f, S \ {x})
  BY MassSame
<1> QED BY <1>1, <1>2, <1>3

\* Only the members that are present count.
LEMMA MassOfPresent ==
  ASSUME NEW live, NEW A, NEW B, \A x \in A \cup B : live[x] \in Nat,
         \A x \in A \cup B : live[x] > 0 => (x \in A <=> x \in B)
  PROVE  Mass(live, A) = Mass(live, B)
<1>1. \A x \in A \cup B : \A i \in 1 .. live[x] : live[x] > 0
  OBVIOUS
<1>2. Units(live, A) = Units(live, B)
  BY <1>1 DEF Units
<1> QED BY <1>2 DEF Mass

----------------------------------------------------------------------------
(* A dictionary that counts the members of S by where a function h puts    *)
(* them                                                                    *)

Counted(dict, h, live, S) ==
  \A b \in Int : CountOf(dict, b) = Mass(live, {x \in S : h[x] = b})

\* For a dictionary without empty buckets this is what HoldsExactly says.
LEMMA CountedIsHolds ==
  ASSUME NEW st, IsStore(st), NEW m, NEW live, NEW S, IsFiniteSet(S),
         \A x \in S : live[x] \in Nat, NEW h \in [S -> Int], \A x \in S : h[x] = Home(st, m, x)
  PROVE  HoldsExactly(st, m, live, S) <=> Counted(st.buckets, h, live, S)
<1> DEFINE At(b) == {x \in S : h[x] = b}
<1>1. \A b : Mass(live, {x \in Present(live, S) : Home(st, m, x) = b}) = Mass(live, At(b))
  <2> SUFFICES ASSUME NEW b
               PROVE  Mass(live, {x \in Present(live, S) : Home(st, m, x) = b}) = Mass(live, At(b))
    OBVIOUS
  <2> DEFINE A == {x \in Present(live, S) : Home(st, m, x) = b}
             B == At(b)
  <2>1. \A x \in A \cup B : live[x] \in Nat
    BY DEF Present
  <2>2. \A x \in A \cup B : live[x] > 0 => (x \in A <=> x \in B)
    BY DEF Present
  <2> HIDE DEF A, B
  <2>3. Mass(live, A) = Mass(live, B)
    BY <2>1, <2>2, MassOfPresent
  <2> QED BY <2>3 DEF A, B
<1>2. \A b : (\E x \in Present(live, S) : h[x] = b) <=> Mass(live, At(b)) > 0
  <2> SUFFICES ASSUME NEW b
               PROVE  (\E x \in Present(live, S) : h[x] = b) <=> Mass(live, At(b)) > 0
    OBVIOUS
  <2>1. IsFiniteSet(At(b)) /\ \A x \in At(b) : live[x] \in Nat
    BY FS_Subset
  <2>2. ASSUME NEW x \in Present(live, S), h[x] = b PROVE Mass(live, At(b)) > 0
    <3>1. x \in At(b) /\ live[x] > 0
      BY <2>2 DEF Present
    <3> HIDE DEF At
    <3>2. Mass(live, At(b)) = live[x] + Mass(live, At(b) \ {x}) /\ Mass(live, At(b) \ {x}) \in Nat
      BY <2>1, <3>1, MassSplit
    <3> QED BY <2>1, <3>1, <3>2
  <2>3. ASSUME ~\E x \in Present(live, S) : h[x] = b PROVE ~(Mass(live, At(b)) > 0)
    <3>1. \A x \in At(b) : live[x] = 0
      BY <2>3 DEF Present
    <3> QED BY <3>1, MassOfAbsent
  <2> QED BY <2>2, <2>3
<1>3. /\ IsDict(st.buckets) /\ Bids(st) = DOMAIN st.buckets
      /\ \A b \in Bids(st) : st.buckets[b] \in Nat \ {0} /\ b \in Int
  BY StoreFields DEF IsDict, Bids
<1>4. ASSUME HoldsExactly(st, m, live, S) PROVE Counted(st.buckets, h, live, S)
  <2>1. \A b \in Bids(st) : st.buckets[b] = Mass(live, At(b))
    BY <1>1, <1>4 DEF HoldsExactly
  <2>2. \A b : b \in Bids(st) <=> \E x \in Present(live, S) : h[x] = b
    BY <1>4 DEF HoldsExactly, Present
  <2>3. ASSUME NEW b \in Int PROVE CountOf(st.buckets, b) = Mass(live, At(b))
    <3>1. CASE b \in Bids(st)
      BY <1>3, <2>1, <3>1 DEF CountOf
    <3>2. CASE b \notin Bids(st)
      <4>1. \A x \in At(b) : live[x] = 0
        BY <2>2, <3>2 DEF Present
      <4>2. Mass(live, At(b)) = 0
        BY <4>1, MassOfAbsent
      <4> QED BY <1>3, <3>2, <4>2 DEF CountOf
    <3> QED BY <3>1, <3>2
  <2> QED BY <2>3 DEF Counted
<1>5. ASSUME Counted(st.buckets, h, live, S) PROVE HoldsExactly(st, m, live, S)
  <2>1. \A b \in Int : CountOf(st.buckets, b) = Mass(live, At(b))
    BY <1>5 DEF Counted
  <2>2. \A b \in Int : b \in Bids(st) <=> Mass(live, At(b)) > 0
    BY <1>3, <2>1 DEF CountOf
  <2>3. \A b \in Bids(st) : st.buckets[b] = Mass(live, At(b))
    BY <1>3, <2>1 DEF CountOf
  <2>4. Bids(st) = {Home(st, m, x) : x \in Present(live, S)}
    <3>1. \A x \in Present(live, S) : x \in S /\ h[x] = Home(st, m, x) /\ h[x] \in Int
      BY DEF Present
    <3>2. \A b \in Int : b \in Bids(st) <=> \E x \in Present(live, S) : h[x] = b
      BY <1>2, <2>2
    <3> QED BY <1>3, <3>1, <3>2
  <2> QED BY <1>1, <2>3, <2>4 DEF HoldsExactly
<1> QED BY <1>4, <1>5

LEMMA CountOfAddItem ==
  ASSUME NEW dict, IsDict(dict), NEW k, NEW c \in Nat, NEW b
  PROVE  CountOf(AddItem(dict, k, c), b) = IF b = k THEN CountOf(dict, b) + c ELSE CountOf(dict, b)
BY DEF CountOf, AddItem, IsDict

LEMMA CountOfMerge ==
  ASSUME NEW dict, IsDict(dict), NEW from \in DOMAIN dict, NEW to \in DOMAIN dict, from # to, NEW b
  PROVE  CountOf(Merge(dict, from, to), b) =
           IF b = from THEN 0
           ELSE IF b = to THEN CountOf(dict, from) + CountOf(dict, to)
           ELSE CountOf(dict, b)
<1> DEFINE added == AddItem(dict, to, dict[from])
<1>1. DOMAIN added = DOMAIN dict
  BY DEF AddItem
<1>2. added[to] = dict[to] + dict[from]
  BY DEF AddItem, CountOf
<1>3. \A k \in DOMAIN dict \ {to} : added[k] = dict[k]
  BY DEF AddItem
<1>4. Merge(dict, from, to) = [k \in DOMAIN dict \ {from} |-> added[k]]
  BY <1>1 DEF Merge, DropKey
<1>5. dict[from] \in Nat /\ dict[to] \in Nat
  BY DEF IsDict
<1> HIDE DEF added
<1> QED BY <1>2, <1>3, <1>4, <1>5 DEF CountOf

\* HalfBid sends nothing but its two halves to a bucket.
LEMMA HalfOfHalves ==
  ASSUME NEW m \in Mapping, NEW b \in Int
  PROVE  /\ LowerHalf(m, b) \in Int /\ UpperHalf(m, b) \in Int
         /\ LowerHalf(m, b) # UpperHalf(m, b)
         /\ \A k \in Int : HalfBid(m, k) = b <=> k = LowerHalf(m, b) \/ k = UpperHalf(m, b)
<1>1. CASE m.type = LOG_UPPER
  BY <1>1, Z3 DEF HalfBid, CeilDiv, LowerHalf, UpperHalf
<1>2. CASE m.type # LOG_UPPER
  BY <1>2, Z3 DEF HalfBid, FloorDiv, LowerHalf, UpperHalf
<1> QED BY <1>1, <1>2

LEMMA CountOfHalveAll ==
  ASSUME NEW st, IsStore(st), NEW m \in Mapping, NEW b \in Int
  PROVE  CountOf(HalveAll(st, m), b) =
           CountOf(st.buckets, LowerHalf(m, b)) + CountOf(st.buckets, UpperHalf(m, b))
<1>1. Bids(st) \subseteq Int
  BY StoreFields
<1>2. DOMAIN HalveAll(st, m) = {HalfBid(m, k) : k \in Bids(st)}
  BY HalveAllIsDict
<1>3. CASE b \in DOMAIN HalveAll(st, m)
  BY <1>2, <1>3 DEF CountOf, HalveAll
<1>4. CASE b \notin DOMAIN HalveAll(st, m)
  <2>1. LowerHalf(m, b) \notin Bids(st) /\ UpperHalf(m, b) \notin Bids(st)
    BY <1>1, <1>2, <1>4, HalfOfHalves
  <2> QED BY <1>4, <2>1 DEF CountOf, Bids
<1> QED BY <1>3, <1>4

----------------------------------------------------------------------------
(* Where an item is *)

LEMMA BucketIdIsInt ==
  ASSUME NEW m \in Mapping, NEW v \in Int
  PROVE  BucketId(m, v) \in Int
BY Z3 DEF Mapping, BucketId, CeilDiv, FloorDiv

LEMMA HomeIs ==
  ASSUME NEW st, IsStore(st), CollapseStateOK(st), NEW m \in Mapping, NEW x, x.log \in Int
  PROVE  LET bid == BucketId(m, x.log)
         IN  /\ bid \in Int
             /\ Home(st, m, x) \in Int
             /\ CollapsedHigh(st) =>
                  Home(st, m, x) = IF bid <= MaxBid(st) THEN bid ELSE MaxBid(st)
             /\ CollapsedLow(st) =>
                  Home(st, m, x) = IF MinBid(st) <= bid THEN bid ELSE MinBid(st)
             /\ ~CollapsedHigh(st) /\ ~CollapsedLow(st) => Home(st, m, x) = bid
<1> DEFINE bid == BucketId(m, x.log)
<1>1. bid \in Int
  BY BucketIdIsInt
<1>2. CollapsedHigh(st) => ~CollapsedLow(st)
  BY DEF CollapsedHigh, CollapsedLow, COLLAPSINGHIGH_MAPSTORE, COLLAPSINGLOW_MAPSTORE
<1>3. Home(st, m, x) = IF CollapsedHigh(st) THEN Min({bid, MaxBid(st)})
                       ELSE IF CollapsedLow(st) THEN Max({bid, MinBid(st)}) ELSE bid
  BY DEF Home
<1>4. CollapsedHigh(st) \/ CollapsedLow(st) =>
        ~IsEmpty(st) /\ MinBid(st) \in Int /\ MaxBid(st) \in Int
  BY EndsAreBuckets, StoreFields DEF CollapseStateOK, InsertReadsNull
<1> HIDE DEF bid
<1>5. \A a \in Int : Min({bid, a}) = IF bid <= a THEN bid ELSE a
  <2> SUFFICES ASSUME NEW a \in Int PROVE Min({bid, a}) = IF bid <= a THEN bid ELSE a
    OBVIOUS
  <2>1. {bid, a} \in SUBSET Int /\ IsFiniteSet({bid, a}) /\ {bid, a} # {}
    <3>1. IsFiniteSet({bid} \cup {a})
      BY FS_Singleton, FS_AddElement
    <3>2. {bid, a} = {bid} \cup {a}
      OBVIOUS
    <3> QED BY <1>1, <3>1, <3>2
  <2>2. Min({bid, a}) \in {bid, a} /\ \A y \in {bid, a} : Min({bid, a}) <= y
    BY <2>1, MinIsLeast
  <2> QED BY <1>1, <2>2
<1>6. \A a \in Int : Max({bid, a}) = IF a <= bid THEN bid ELSE a
  <2> SUFFICES ASSUME NEW a \in Int PROVE Max({bid, a}) = IF a <= bid THEN bid ELSE a
    OBVIOUS
  <2>1. {bid, a} \in SUBSET Int /\ IsFiniteSet({bid, a}) /\ {bid, a} # {}
    <3>1. IsFiniteSet({bid} \cup {a})
      BY FS_Singleton, FS_AddElement
    <3>2. {bid, a} = {bid} \cup {a}
      OBVIOUS
    <3> QED BY <1>1, <3>1, <3>2
  <2>2. Max({bid, a}) \in {bid, a} /\ \A y \in {bid, a} : y <= Max({bid, a})
    BY <2>1, MaxIsGreatest
  <2> QED BY <1>1, <2>2
<1> QED BY <1>1, <1>2, <1>3, <1>4, <1>5, <1>6 DEF bid

\* Only the buckets and the collapsed state say where items are.
LEMMA SameContents ==
  ASSUME NEW st, NEW st2, st2.buckets = st.buckets, st2.store_type = st.store_type,
         st2.is_collapsed = st.is_collapsed, NEW m, NEW live, NEW S,
         HoldsExactly(st, m, live, S)
  PROVE  HoldsExactly(st2, m, live, S)
<1>1. Bids(st2) = Bids(st)
  BY DEF Bids
<1>2. \A x : Home(st2, m, x) = Home(st, m, x)
  BY <1>1 DEF Home, CollapsedHigh, CollapsedLow, MaxBid, MinBid
<1> QED BY <1>1, <1>2 DEF HoldsExactly

\* An insertion goes to the bucket where the item belongs and moves no other
\* item.
LEMMA InsertKeepsItems ==
  ASSUME NEW st, IsStore(st), CollapseStateOK(st), NEW m \in Mapping,
         NEW S, IsFiniteSet(S), \A y \in S : y.log \in Int,
         NEW live, \A y \in S : live[y] \in Nat, HoldsExactly(st, m, live, S),
         NEW x \in S, NEW c \in Nat \ {0},
         NEW live2, live2[x] = live[x] + c, \A y \in S \ {x} : live2[y] = live[y]
  PROVE  HoldsExactly(InsertItem(st, BucketId(m, x.log), c), m, live2, S)
<1> DEFINE bid == BucketId(m, x.log)
           target == InsertTarget(st, bid)
           st2 == InsertItem(st, bid, c)
           h == [y \in S |-> Home(st, m, y)]
<1>1. /\ bid \in Int /\ ~InsertReadsNull(st)
      /\ Bids(st) \in SUBSET Int
      /\ \A y \in S : BucketId(m, y.log) \in Int
  BY HomeIs, StoreFields DEF CollapseStateOK
<1>2. h \in [S -> Int] /\ \A y \in S : h[y] = Home(st, m, y)
  BY HomeIs
<1>3. \A y \in S : live2[y] \in Nat
  OBVIOUS
<1>4. CollapsedHigh(st) \/ CollapsedLow(st) => ~IsEmpty(st)
  BY DEF CollapseStateOK, InsertReadsNull
<1>5. ~(CollapsedHigh(st) /\ CollapsedLow(st))
  BY DEF CollapsedHigh, CollapsedLow, COLLAPSINGHIGH_MAPSTORE, COLLAPSINGLOW_MAPSTORE
<1>6. /\ ~IsEmpty(st) => /\ MinBid(st) \in Bids(st) /\ \A b \in Bids(st) : MinBid(st) <= b
                         /\ MaxBid(st) \in Bids(st) /\ \A b \in Bids(st) : b <= MaxBid(st)
  BY EndsAreBuckets
<1>7. target = Home(st, m, x)
  <2> HIDE DEF bid
  <2>1. CASE CollapsedHigh(st)
    <3>1. Home(st, m, x) = IF bid <= MaxBid(st) THEN bid ELSE MaxBid(st)
      BY <2>1, HomeIs DEF bid
    <3> QED BY <1>1, <1>4, <1>5, <1>6, <2>1, <3>1 DEF InsertTarget
  <2>2. CASE CollapsedLow(st)
    <3>1. Home(st, m, x) = IF MinBid(st) <= bid THEN bid ELSE MinBid(st)
      BY <2>2, HomeIs DEF bid
    <3> QED BY <1>1, <1>4, <1>5, <1>6, <2>2, <3>1 DEF InsertTarget
  <2>3. CASE ~CollapsedHigh(st) /\ ~CollapsedLow(st)
    <3>1. Home(st, m, x) = bid
      BY <2>3, HomeIs DEF bid
    <3> QED BY <2>3, <3>1 DEF InsertTarget
  <2> QED BY <2>1, <2>2, <2>3
<1>8. /\ IsStore(st2) /\ Bids(st2) = Bids(st) \cup {target} /\ target \in Int
      /\ st2.store_type = st.store_type /\ st2.is_collapsed = st.is_collapsed
      /\ st2.num_collapses = st.num_collapses
  BY <1>1, InsertItemIsStore
<1>9. st2.buckets = AddItem(st.buckets, target, c)
  BY StoreFields DEF InsertItem, IsStore
<1> HIDE DEF st2, target
<1>10. CollapseStateOK(st2)
  BY <1>8 DEF CollapseStateOK, InsertReadsNull, IsEmpty
<1>11. ~IsEmpty(st2)
  BY <1>8 DEF IsEmpty
<1>12. /\ MinBid(st2) \in Bids(st2) /\ \A b \in Bids(st2) : MinBid(st2) <= b
       /\ MaxBid(st2) \in Bids(st2) /\ \A b \in Bids(st2) : b <= MaxBid(st2)
  BY <1>8, <1>11, EndsAreBuckets
<1>13. (CollapsedHigh(st2) <=> CollapsedHigh(st)) /\ (CollapsedLow(st2) <=> CollapsedLow(st))
  BY <1>8 DEF CollapsedHigh, CollapsedLow
<1>14. ASSUME NEW y \in S PROVE Home(st2, m, y) = h[y]
  <2>1. CASE CollapsedHigh(st)
    <3>1. target <= MaxBid(st)
      BY <1>1, <1>4, <1>6, <1>7, <1>8, <2>1, HomeIs
    <3>2. MaxBid(st2) = MaxBid(st)
      <4>1. MaxBid(st) \in Int /\ MaxBid(st2) \in Int /\ MaxBid(st2) <= MaxBid(st)
            /\ MaxBid(st) <= MaxBid(st2)
        BY <1>1, <1>4, <1>6, <1>8, <1>12, <2>1, <3>1
      <4> QED BY <4>1
    <3> QED BY <1>2, <1>8, <1>10, <1>13, <2>1, <3>2, HomeIs
  <2>2. CASE CollapsedLow(st)
    <3>1. MinBid(st) <= target
      BY <1>1, <1>4, <1>6, <1>7, <1>8, <2>2, HomeIs
    <3>2. MinBid(st2) = MinBid(st)
      <4>1. MinBid(st) \in Int /\ MinBid(st2) \in Int /\ MinBid(st) <= MinBid(st2)
            /\ MinBid(st2) <= MinBid(st)
        BY <1>1, <1>4, <1>6, <1>8, <1>12, <2>2, <3>1
      <4> QED BY <4>1
    <3> QED BY <1>2, <1>8, <1>10, <1>13, <2>2, <3>2, HomeIs
  <2>3. CASE ~CollapsedHigh(st) /\ ~CollapsedLow(st)
    BY <1>2, <1>8, <1>10, <1>13, <2>3, HomeIs
  <2> QED BY <2>1, <2>2, <2>3
<1>15. Counted(st.buckets, h, live, S)
  <2> HIDE DEF h
  <2> QED BY <1>2, CountedIsHolds
<1>16. Counted(st2.buckets, h, live2, S)
  <2> SUFFICES ASSUME NEW b \in Int
               PROVE  CountOf(st2.buckets, b) = Mass(live2, {y \in S : h[y] = b})
    BY DEF Counted
  <2> DEFINE At == {y \in S : h[y] = b}
  <2>1. IsFiniteSet(At) /\ \A y \in At : live[y] \in Nat /\ live2[y] \in Nat
    BY <1>3, FS_Subset
  <2>2. CountOf(st.buckets, b) = Mass(live, At)
    BY <1>15 DEF Counted
  <2>3. IsDict(st.buckets)
    BY StoreFields
  <2>4. CountOf(st2.buckets, b) =
          IF b = target THEN CountOf(st.buckets, b) + c ELSE CountOf(st.buckets, b)
    BY <1>9, <2>3, CountOfAddItem
  <2>5. CASE b = target
    <3>1. x \in At
      BY <1>2, <1>7, <2>5
    <3> HIDE DEF At
    <3>2. \A y \in At \ {x} : live2[y] = live[y]
      BY DEF At
    <3>3. Mass(live2, At) = Mass(live, At) + c
      BY <2>1, <3>1, <3>2, MassChanged
    <3> QED BY <2>2, <2>4, <2>5, <3>3 DEF At
  <2>6. CASE b # target
    <3>1. \A y \in At : live2[y] = live[y]
      BY <1>2, <1>7, <2>6
    <3> HIDE DEF At
    <3>2. Mass(live2, At) = Mass(live, At)
      BY <3>1, MassSame
    <3> QED BY <2>2, <2>4, <2>6, <3>2 DEF At
  <2> QED BY <2>5, <2>6
<1>17. HoldsExactly(st2, m, live2, S)
  <2>1. \A y \in S : h[y] = Home(st2, m, y)
    BY <1>14
  <2> HIDE DEF h
  <2> QED BY <1>2, <1>3, <1>8, <1>16, <2>1, CountedIsHolds
<1> QED BY <1>17 DEF st2

\* Bucket from is merged into bucket to, and so are the items in it.
LEMMA MergeKeepsItems ==
  ASSUME NEW dict, IsDict(dict), NEW from \in DOMAIN dict, NEW to \in DOMAIN dict, from # to,
         NEW S, IsFiniteSet(S), NEW live, \A y \in S : live[y] \in Nat,
         NEW h \in [S -> Int], Counted(dict, h, live, S),
         NEW g \in [S -> Int],
         \A y \in S : live[y] > 0 => g[y] = IF h[y] = from THEN to ELSE h[y]
  PROVE  Counted(Merge(dict, from, to), g, live, S)
<1> SUFFICES ASSUME NEW b \in Int
             PROVE  CountOf(Merge(dict, from, to), b) = Mass(live, {y \in S : g[y] = b})
  BY DEF Counted
<1> DEFINE Old(a) == {y \in S : h[y] = a}
           New == {y \in S : g[y] = b}
<1>1. \A a : IsFiniteSet(Old(a)) /\ \A y \in Old(a) : live[y] \in Nat
  <2> SUFFICES ASSUME NEW a PROVE IsFiniteSet(Old(a))
    OBVIOUS
  <2> QED BY FS_Subset
<1>2. \A a \in Int : CountOf(dict, a) = Mass(live, Old(a))
  BY DEF Counted
<1>3. from \in Int /\ to \in Int
  BY DEF IsDict
<1>4. CASE b = from
  <2>1. \A y \in New : live[y] = 0
    BY <1>4
  <2>2. Mass(live, New) = 0
    BY <2>1, MassOfAbsent
  <2> QED BY <1>4, <2>2, CountOfMerge
<1>5. CASE b = to
  <2> DEFINE A == Old(from)
             B == Old(to)
  <2>1. A \cap B = {} /\ \A y \in A \cup B : live[y] \in Nat
    OBVIOUS
  <2>2. \A y \in New \cup (A \cup B) : live[y] \in Nat
    OBVIOUS
  <2>3. \A y \in New \cup (A \cup B) : live[y] > 0 => (y \in New <=> y \in A \cup B)
    BY <1>5
  <2>4. IsFiniteSet(A) /\ IsFiniteSet(B)
    BY <1>1
  <2>5. CountOf(dict, from) = Mass(live, A) /\ CountOf(dict, to) = Mass(live, B)
    BY <1>2, <1>3
  <2> HIDE DEF A, B, New
  <2>6. Mass(live, New) = Mass(live, A \cup B)
    BY <2>2, <2>3, MassOfPresent
  <2>7. Mass(live, A \cup B) = Mass(live, A) + Mass(live, B)
    BY <2>1, <2>4, MassDisjoint
  <2>8. CountOf(Merge(dict, from, to), b) = CountOf(dict, from) + CountOf(dict, to)
    BY <1>5, CountOfMerge
  <2> QED BY <2>5, <2>6, <2>7, <2>8 DEF New
<1>6. CASE b # from /\ b # to
  <2> DEFINE A == Old(b)
  <2>1. \A y \in New \cup A : live[y] \in Nat
    OBVIOUS
  <2>2. \A y \in New \cup A : live[y] > 0 => (y \in New <=> y \in A)
    BY <1>6
  <2>3. CountOf(dict, b) = Mass(live, A)
    BY <1>2
  <2> HIDE DEF A, New
  <2>4. Mass(live, New) = Mass(live, A)
    BY <2>1, <2>2, MassOfPresent
  <2>5. CountOf(Merge(dict, from, to), b) = CountOf(dict, b)
    BY <1>6, CountOfMerge
  <2> QED BY <2>3, <2>4, <2>5 DEF New
<1> QED BY <1>4, <1>5, <1>6

\* Halving all ids moves every item along.
LEMMA HalveKeepsItems ==
  ASSUME NEW st, IsStore(st), NEW m \in Mapping,
         NEW S, IsFiniteSet(S), NEW live, \A y \in S : live[y] \in Nat,
         NEW h \in [S -> Int], Counted(st.buckets, h, live, S),
         NEW g \in [S -> Int], \A y \in S : g[y] = HalfBid(m, h[y])
  PROVE  Counted(HalveAll(st, m), g, live, S)
<1> SUFFICES ASSUME NEW b \in Int
             PROVE  CountOf(HalveAll(st, m), b) = Mass(live, {y \in S : g[y] = b})
  BY DEF Counted
<1> DEFINE lower == LowerHalf(m, b)
           upper == UpperHalf(m, b)
           A == {y \in S : h[y] = lower}
           B == {y \in S : h[y] = upper}
           New == {y \in S : g[y] = b}
<1>1. /\ lower \in Int /\ upper \in Int /\ lower # upper
      /\ \A k \in Int : HalfBid(m, k) = b <=> k = lower \/ k = upper
  BY HalfOfHalves
<1>2. CountOf(HalveAll(st, m), b) = CountOf(st.buckets, lower) + CountOf(st.buckets, upper)
  BY CountOfHalveAll
<1> HIDE DEF lower, upper
<1>3. CountOf(st.buckets, lower) = Mass(live, A) /\ CountOf(st.buckets, upper) = Mass(live, B)
  BY <1>1 DEF Counted
<1>4. A \cap B = {} /\ New = A \cup B /\ \A y \in A \cup B : live[y] \in Nat
  BY <1>1
<1>5. IsFiniteSet(A) /\ IsFiniteSet(B)
  BY FS_Subset
<1>6. Mass(live, A \cup B) = Mass(live, A) + Mass(live, B)
  <2> HIDE DEF A, B
  <2> QED BY <1>4, <1>5, MassDisjoint
<1> QED BY <1>2, <1>3, <1>4, <1>6

\* A pass of the collapsing loop keeps every item where the sketch looks for it
\* afterwards, under the mapping of afterwards.
LEMMA CollapseKeepsItems ==
  ASSUME NEW st, IsStore(st), CollapseStateOK(st), NEW m \in Mapping, m.type = LOG_UPPER,
         NEW S, IsFiniteSet(S), \A y \in S : y.log \in Int,
         NEW live, \A y \in S : live[y] \in Nat, HoldsExactly(st, m, live, S)
  PROVE  HoldsExactly(Collapse(st, m), MappingAfterCollapse(st, m), live, S)
<1> DEFINE st2 == Collapse(st, m)
           m2  == MappingAfterCollapse(st, m)
           h == [y \in S |-> Home(st, m, y)]
           g == [y \in S |-> Home(st2, m2, y)]
<1>1. CASE ~CanCollapse(st)
  <2>1. st2 = st
    BY <1>1, CollapseIsStore
  <2>2. m2 = m
    BY <1>1 DEF CanCollapse, MappingAfterCollapse
  <2> QED BY <2>1, <2>2
<1>2. CASE CanCollapse(st)
  <2>1. /\ IsStore(st2) /\ CollapseStateOK(st2) /\ st2.store_type = st.store_type
        /\ st2.is_collapsed
    BY <1>2, CollapseIsStore, CollapseKeepsStateOK
  <2>2. m2 \in Mapping
    BY DEF MappingAfterCollapse, SquareGamma, Mapping
  <2>3. st2.buckets = CollapsedBuckets(st, m)
    BY <1>2 DEF Collapse, IsStore
  <2>4. IsDict(st.buckets) /\ Bids(st) \in SUBSET Int /\ IsFiniteSet(Bids(st))
    BY StoreFields
  <2> HIDE DEF st2, m2
  <2>5. h \in [S -> Int] /\ \A y \in S : h[y] = Home(st, m, y)
    BY HomeIs
  <2>6. g \in [S -> Int] /\ \A y \in S : g[y] = Home(st2, m2, y)
    BY <2>1, <2>2, HomeIs
  <2> HIDE DEF h, g
  <2>7. Counted(st.buckets, h, live, S)
    BY <2>5, CountedIsHolds
  <2>8. \A y \in S : live[y] > 0 => h[y] \in Bids(st)
    BY <2>5 DEF HoldsExactly, Present
  <2>9. \A y \in S : BucketId(m, y.log) \in Int
    BY BucketIdIsInt
  <2>10. Counted(st2.buckets, g, live, S)
    <3>1. CASE st.store_type = COLLAPSINGLOW_MAPSTORE
      <4> DEFINE from == MinBid(st)
                 to == NextBid(st, from)
      <4>1. NumBuckets(st) >= 2
        BY <1>2, <3>1 DEF CanCollapse, COLLAPSINGLOW_MAPSTORE, COLLAPSINGALL_MAPSTORE
      <4>2. from \in Bids(st) /\ to \in Bids(st) /\ from # to
        BY <4>1, EndsHaveNeighbours
      <4>3. st2.buckets = Merge(st.buckets, from, to)
        BY <2>3, <3>1 DEF CollapsedBuckets, MergeFirst, COLLAPSINGLOW_MAPSTORE, COLLAPSINGHIGH_MAPSTORE
      <4>4. Bids(st2) = Bids(st) \ {from}
        <5> HIDE DEF from, to
        <5>1. IsDict(st.buckets) /\ from \in DOMAIN st.buckets /\ to \in DOMAIN st.buckets
          BY <4>2, StoreFields DEF Bids
        <5>2. DOMAIN Merge(st.buckets, from, to) = DOMAIN st.buckets \ {from}
          BY <5>1, MergeIsDict
        <5> QED BY <4>3, <5>2 DEF Bids
      <4>5. \A b \in Bids(st) : from <= b
        BY <4>2, EndsAreBuckets DEF IsEmpty
      <4> HIDE DEF from
      <4>6. to > from /\ \A b \in Bids(st) \ {from} : to <= b
        <5> DEFINE after == {b \in Bids(st) : b > from}
        <5>1. after = Bids(st) \ {from}
          BY <2>4, <4>2, <4>5
        <5>2. after \in SUBSET Int /\ IsFiniteSet(after) /\ after # {}
          <6>1. to \in after
            BY <4>2, <5>1
          <6> QED BY <2>4, <6>1, FS_Subset
        <5>3. to = Min(after)
          BY <4>2, <5>2 DEF NextBid
        <5>4. Min(after) \in after /\ \A b \in after : Min(after) <= b
          BY <5>2, MinIsLeast
        <5> HIDE DEF to
        <5>5. to \in after /\ \A b \in after : to <= b
          BY <5>3, <5>4
        <5> QED BY <5>1, <5>5
      <4> HIDE DEF to
      <4>7. MinBid(st2) = to
        <5>1. ~IsEmpty(st2)
          BY <4>2, <4>4 DEF IsEmpty
        <5>2. MinBid(st2) \in Bids(st2) /\ \A b \in Bids(st2) : MinBid(st2) <= b
          BY <2>1, <5>1, EndsAreBuckets
        <5>3. MinBid(st2) \in Int /\ to \in Int /\ to <= MinBid(st2) /\ MinBid(st2) <= to
          BY <2>4, <4>2, <4>4, <4>6, <5>2
        <5> QED BY <5>3
      <4>8. m2 = m
        BY <3>1 DEF m2, MappingAfterCollapse, COLLAPSINGLOW_MAPSTORE, COLLAPSINGALL_MAPSTORE
      <4>9. CollapsedLow(st2)
        BY <2>1, <3>1 DEF CollapsedLow
      <4>10. ASSUME NEW y \in S, live[y] > 0
             PROVE  g[y] = IF h[y] = from THEN to ELSE h[y]
        <5> DEFINE bid == BucketId(m, y.log)
        <5>1. bid \in Int /\ h[y] \in Bids(st) /\ from \in Int /\ to \in Int /\ h[y] \in Int
          BY <2>4, <2>8, <2>9, <4>2, <4>10
        <5>2. g[y] = IF to <= bid THEN bid ELSE to
          BY <2>1, <2>2, <2>6, <4>7, <4>8, <4>9, HomeIs
        <5>3. h[y] = bid \/ (h[y] = from /\ ~(from <= bid))
          <6>1. CASE CollapsedLow(st)
            <7>1. h[y] = IF MinBid(st) <= bid THEN bid ELSE MinBid(st)
              BY <2>5, <6>1, HomeIs
            <7> QED BY <7>1 DEF from
          <6>2. CASE ~CollapsedLow(st)
            <7>1. ~CollapsedHigh(st)
              BY <3>1 DEF CollapsedHigh, COLLAPSINGLOW_MAPSTORE, COLLAPSINGHIGH_MAPSTORE
            <7> QED BY <2>5, <6>2, <7>1, HomeIs
          <6> QED BY <6>1, <6>2
        <5> HIDE DEF bid
        <5>4. CASE h[y] = from
          BY <4>6, <5>1, <5>2, <5>3, <5>4
        <5>5. CASE h[y] # from
          BY <4>6, <5>1, <5>2, <5>3, <5>5
        <5> QED BY <5>4, <5>5
      <4>11. Counted(Merge(st.buckets, from, to), g, live, S)
        BY <2>4, <2>5, <2>6, <2>7, <4>2, <4>10, MergeKeepsItems DEF Bids
      <4> QED BY <4>3, <4>11
    <3>2. CASE st.store_type = COLLAPSINGHIGH_MAPSTORE
      <4> DEFINE from == MaxBid(st)
                 to == PrevBid(st, from)
      <4>1. NumBuckets(st) >= 2
        BY <1>2, <3>2 DEF CanCollapse, COLLAPSINGHIGH_MAPSTORE, COLLAPSINGALL_MAPSTORE
      <4>2. from \in Bids(st) /\ to \in Bids(st) /\ from # to
        BY <4>1, EndsHaveNeighbours
      <4>3. st2.buckets = Merge(st.buckets, from, to)
        BY <2>3, <3>2 DEF CollapsedBuckets, MergeLast, COLLAPSINGLOW_MAPSTORE, COLLAPSINGHIGH_MAPSTORE
      <4>4. Bids(st2) = Bids(st) \ {from}
        BY <2>4, <4>2, <4>3, MergeIsDict DEF Bids
      <4>5. \A b \in Bids(st) : b <= from
        BY <4>2, EndsAreBuckets DEF IsEmpty
      <4> HIDE DEF from
      <4>6. to < from /\ \A b \in Bids(st) \ {from} : b <= to
        <5> DEFINE before == {b \in Bids(st) : b < from}
        <5>1. before = Bids(st) \ {from}
          BY <2>4, <4>2, <4>5
        <5>2. before \in SUBSET Int /\ IsFiniteSet(before) /\ before # {}
          <6>1. to \in before
            BY <4>2, <5>1
          <6> QED BY <2>4, <6>1, FS_Subset
        <5>3. to = Max(before)
          BY <4>2, <5>2 DEF PrevBid
        <5>4. Max(before) \in before /\ \A b \in before : b <= Max(before)
          BY <5>2, MaxIsGreatest
        <5> HIDE DEF to
        <5>5. to \in before /\ \A b \in before : b <= to
          BY <5>3, <5>4
        <5> QED BY <5>1, <5>5
      <4> HIDE DEF to
      <4>7. MaxBid(st2) = to
        <5>1. ~IsEmpty(st2)
          BY <4>2, <4>4 DEF IsEmpty
        <5>2. MaxBid(st2) \in Bids(st2) /\ \A b \in Bids(st2) : b <= MaxBid(st2)
          BY <2>1, <5>1, EndsAreBuckets
        <5>3. MaxBid(st2) \in Int /\ to \in Int /\ to <= MaxBid(st2) /\ MaxBid(st2) <= to
          BY <2>4, <4>2, <4>4, <4>6, <5>2
        <5> QED BY <5>3
      <4>8. m2 = m
        BY <3>2 DEF m2, MappingAfterCollapse, COLLAPSINGHIGH_MAPSTORE, COLLAPSINGALL_MAPSTORE
      <4>9. CollapsedHigh(st2)
        BY <2>1, <3>2 DEF CollapsedHigh
      <4>10. ASSUME NEW y \in S, live[y] > 0
             PROVE  g[y] = IF h[y] = from THEN to ELSE h[y]
        <5> DEFINE bid == BucketId(m, y.log)
        <5>1. bid \in Int /\ h[y] \in Bids(st) /\ from \in Int /\ to \in Int /\ h[y] \in Int
          BY <2>4, <2>8, <2>9, <4>2, <4>10
        <5>2. g[y] = IF bid <= to THEN bid ELSE to
          BY <2>1, <2>2, <2>6, <4>7, <4>8, <4>9, HomeIs
        <5>3. h[y] = bid \/ (h[y] = from /\ ~(bid <= from))
          <6>1. CASE CollapsedHigh(st)
            <7>1. h[y] = IF bid <= MaxBid(st) THEN bid ELSE MaxBid(st)
              BY <2>5, <6>1, HomeIs
            <7> QED BY <7>1 DEF from
          <6>2. CASE ~CollapsedHigh(st)
            <7>1. ~CollapsedLow(st)
              BY <3>2 DEF CollapsedLow, COLLAPSINGLOW_MAPSTORE, COLLAPSINGHIGH_MAPSTORE
            <7> QED BY <2>5, <6>2, <7>1, HomeIs
          <6> QED BY <6>1, <6>2
        <5> HIDE DEF bid
        <5>4. CASE h[y] = from
          BY <4>6, <5>1, <5>2, <5>3, <5>4
        <5>5. CASE h[y] # from
          BY <4>6, <5>1, <5>2, <5>3, <5>5
        <5> QED BY <5>4, <5>5
      <4>11. Counted(Merge(st.buckets, from, to), g, live, S)
        BY <2>4, <2>5, <2>6, <2>7, <4>2, <4>10, MergeKeepsItems DEF Bids
      <4> QED BY <4>3, <4>11
    <3>3. CASE st.store_type = COLLAPSINGALL_MAPSTORE
      <4>1. st2.buckets = HalveAll(st, m) /\ m2 = SquareGamma(m)
        BY <2>3, <3>3 DEF CollapsedBuckets, m2, MappingAfterCollapse, COLLAPSINGLOW_MAPSTORE,
                          COLLAPSINGHIGH_MAPSTORE, COLLAPSINGALL_MAPSTORE
      <4>2. ~CollapsedHigh(st) /\ ~CollapsedLow(st) /\ ~CollapsedHigh(st2) /\ ~CollapsedLow(st2)
        BY <2>1, <3>3 DEF CollapsedHigh, CollapsedLow, COLLAPSINGLOW_MAPSTORE,
                          COLLAPSINGHIGH_MAPSTORE, COLLAPSINGALL_MAPSTORE
      <4>3. ASSUME NEW y \in S PROVE g[y] = HalfBid(m, h[y])
        <5>1. h[y] = BucketId(m, y.log)
          BY <2>5, <4>2, HomeIs
        <5>2. g[y] = BucketId(SquareGamma(m), y.log)
          BY <2>1, <2>2, <2>6, <4>1, <4>2, HomeIs
        <5> QED BY <5>1, <5>2, UpperCollapseAgrees
      <4> QED BY <2>5, <2>6, <2>7, <4>1, <4>3, HalveKeepsItems
    <3> QED BY <1>2, <3>1, <3>2, <3>3, StoreFields DEF CanCollapse, StoreType
  <2>11. HoldsExactly(st2, m2, live, S)
    BY <2>1, <2>6, <2>10, CountedIsHolds
  <2> QED BY <2>11 DEF st2, m2
<1> QED BY <1>1, <1>2

\* The bucket of the item x is in the store and holds its copies, and those of no other item
\* where they are all it holds.
HomeHolds(st, m, live, S, x) ==
  /\ Home(st, m, x) \in Bids(st)
  /\ live[x] <= st.buckets[Home(st, m, x)]
  /\ live[x] = st.buckets[Home(st, m, x)] =>
       \A y \in S : Home(st, m, y) = Home(st, m, x) /\ y # x => live[y] = 0

\* The bucket of an item that is present is in the store, with at least as many
\* units as there are copies of the item.
LEMMA HomeIsBucket ==
  ASSUME NEW st, IsStore(st), NEW m, NEW S, IsFiniteSet(S),
         NEW live, \A y \in S : live[y] \in Nat, HoldsExactly(st, m, live, S),
         NEW x \in S, live[x] > 0
  PROVE  HomeHolds(st, m, live, S, x)
<1> DEFINE b == Home(st, m, x)
           At == {y \in Present(live, S) : Home(st, m, y) = b}
<1>1. x \in At /\ At \subseteq S
  BY DEF Present
<1>2. b \in Bids(st) /\ st.buckets[b] = Mass(live, At)
  BY <1>1 DEF HoldsExactly
<1>3. IsFiniteSet(At) /\ \A y \in At : live[y] \in Nat
  BY <1>1, FS_Subset
<1>4. ASSUME NEW y \in S \ {x}, Home(st, m, y) = b, live[y] > 0
      PROVE  live[x] < Mass(live, At)
  <2>1. y \in At \ {x}
    BY <1>4 DEF Present
  <2> DEFINE Rest == At \ {x}
  <2>2. IsFiniteSet(Rest) /\ \A z \in Rest : live[z] \in Nat
    BY <1>3, FS_RemoveElement
  <2>3. y \in Rest
    BY <2>1
  <2> HIDE DEF At
  <2>4. Mass(live, At) = live[x] + Mass(live, Rest) /\ Mass(live, Rest) \in Nat
    BY <1>1, <1>3, MassSplit
  <2> HIDE DEF Rest
  <2>5. Mass(live, Rest) = live[y] + Mass(live, Rest \ {y}) /\ Mass(live, Rest \ {y}) \in Nat
    BY <2>2, <2>3, MassSplit
  <2> QED BY <1>4, <2>4, <2>5
<1>5. live[x] <= Mass(live, At)
  <2> HIDE DEF At
  <2>1. Mass(live, At) = live[x] + Mass(live, At \ {x}) /\ Mass(live, At \ {x}) \in Nat
    BY <1>1, <1>3, MassSplit
  <2> QED BY <2>1
<1>6. Mass(live, At) \in Nat
  BY <1>3, MassType
<1> HIDE DEF At, b
<1>7. live[x] = st.buckets[b] => \A y \in S : Home(st, m, y) = b /\ y # x => live[y] = 0
  BY <1>2, <1>4, <1>6
<1> QED BY <1>2, <1>5, <1>7 DEF b, HomeHolds

\* A removal of copies that are there takes them from their bucket and moves no
\* other item, also when it ends the collapsed state.
LEMMA RemoveKeepsItems ==
  ASSUME NEW st, IsStore(st), CollapseStateOK(st), NEW m \in Mapping,
         NEW S, IsFiniteSet(S), \A y \in S : y.log \in Int,
         NEW live, \A y \in S : live[y] \in Nat, HoldsExactly(st, m, live, S),
         NEW x \in S, NEW c \in Nat \ {0}, c <= live[x],
         NEW live2, live2[x] = live[x] - c, \A y \in S \ {x} : live2[y] = live[y]
  PROVE  LET bid == BucketId(m, x.log)
         IN  /\ ~RemoveReadsNull(st)
             /\ HoldsExactly(RemoveItem(st, bid, c), m, live2, S)
             /\ RemoveItem(st, bid, c).total_counts = st.total_counts - c
<1> DEFINE bid == BucketId(m, x.log)
           slot == RemoveSlot(st, bid)
           drain == DrainsEnd(st, bid, c)
           st2 == RemoveItem(st, bid, c)
           h == [y \in S |-> Home(st, m, y)]
           g == [y \in S |-> Home(st2, m, y)]
<1>1. /\ bid \in Int /\ Bids(st) \in SUBSET Int /\ IsDict(st.buckets)
      /\ Bids(st) = DOMAIN st.buckets
      /\ \A b \in Bids(st) : st.buckets[b] \in Nat \ {0}
      /\ \A y \in S : BucketId(m, y.log) \in Int
  BY HomeIs, StoreFields DEF IsDict, Bids
<1>2. h \in [S -> Int] /\ \A y \in S : h[y] = Home(st, m, y)
  BY HomeIs
<1>3. \A y \in S : live2[y] \in Nat
  OBVIOUS
<1> HIDE DEF h
<1>4. /\ h[x] \in Bids(st) /\ c <= st.buckets[h[x]] /\ live[x] <= st.buckets[h[x]]
      /\ live[x] = st.buckets[h[x]] => \A y \in S \ {x} : h[y] = h[x] => live[y] = 0
  <2> DEFINE k == Home(st, m, x)
  <2>1. live[x] > 0
    OBVIOUS
  <2>2. /\ k \in Bids(st)
        /\ live[x] <= st.buckets[k]
        /\ live[x] = st.buckets[k] => \A y \in S : Home(st, m, y) = k /\ y # x => live[y] = 0
    <3>1. HomeHolds(st, m, live, S, x)
      BY <2>1, HomeIsBucket
    <3> QED BY <3>1 DEF HomeHolds
  <2>3. h[x] = k /\ \A y \in S : h[y] = Home(st, m, y)
    BY <1>2, Zenon
  <2> HIDE DEF k
  <2>4. st.buckets[k] \in Nat
    BY <1>1, <2>2
  <2>5. c <= st.buckets[k]
    BY <2>2, <2>4
  <2>6. live[x] = st.buckets[k] => \A y \in S \ {x} : h[y] = k => live[y] = 0
    BY <2>2, <2>3, Zenon
  <2> QED BY <2>2, <2>3, <2>5, <2>6, Zenon
<1>5. ~IsEmpty(st) /\ ~RemoveReadsNull(st)
  BY <1>4 DEF IsEmpty, RemoveReadsNull
<1>6. /\ MinBid(st) \in Bids(st) /\ \A b \in Bids(st) : MinBid(st) <= b
      /\ MaxBid(st) \in Bids(st) /\ \A b \in Bids(st) : b <= MaxBid(st)
  BY <1>5, EndsAreBuckets
<1>7. ~(CollapsedHigh(st) /\ CollapsedLow(st))
  BY DEF CollapsedHigh, CollapsedLow, COLLAPSINGHIGH_MAPSTORE, COLLAPSINGLOW_MAPSTORE
<1>8. slot = h[x]
  <2> HIDE DEF bid
  <2>1. CASE CollapsedHigh(st)
    <3>1. Home(st, m, x) = IF bid <= MaxBid(st) THEN bid ELSE MaxBid(st)
      BY <2>1, HomeIs DEF bid
    <3> QED BY <1>1, <1>2, <1>6, <1>7, <2>1, <3>1 DEF RemoveSlot, FromLast, FromFirst
  <2>2. CASE CollapsedLow(st)
    <3>1. Home(st, m, x) = IF MinBid(st) <= bid THEN bid ELSE MinBid(st)
      BY <2>2, HomeIs DEF bid
    <3> QED BY <1>1, <1>2, <1>6, <1>7, <2>2, <3>1 DEF RemoveSlot, FromLast, FromFirst
  <2>3. CASE ~CollapsedHigh(st) /\ ~CollapsedLow(st)
    <3>1. Home(st, m, x) = bid
      BY <2>3, HomeIs DEF bid
    <3> QED BY <1>2, <2>3, <3>1 DEF RemoveSlot, FromLast, FromFirst
  <2> QED BY <2>1, <2>2, <2>3
<1>9. slot \in Bids(st) /\ c <= CountOf(st.buckets, slot)
  BY <1>1, <1>4, <1>8 DEF CountOf
<1>10. /\ IsStore(st2) /\ CollapseStateOK(st2) /\ st2.store_type = st.store_type
       /\ Bids(st2) = IF st.buckets[slot] = c THEN Bids(st) \ {slot} ELSE Bids(st)
       /\ \A b \in Bids(st2) :
            st2.buckets[b] = IF b = slot THEN st.buckets[b] - c ELSE st.buckets[b]
       /\ st2.total_counts = st.total_counts - c
       /\ st2.is_collapsed = (st.is_collapsed /\ ~drain)
  <2> HIDE DEF bid
  <2>1. RemoveSlot(st, bid) \in Bids(st) /\ c <= CountOf(st.buckets, RemoveSlot(st, bid))
    BY <1>9
  <2>2. CollapseStateOK(st2)
    BY <1>1, <1>5, RemoveKeepsStateOK
  <2>3. /\ IsStore(st2) /\ st2.store_type = st.store_type
        /\ Bids(st2) = IF st.buckets[slot] = c THEN Bids(st) \ {slot} ELSE Bids(st)
        /\ \A b \in Bids(st2) :
             st2.buckets[b] = IF b = slot THEN st.buckets[b] - c ELSE st.buckets[b]
        /\ st2.total_counts = st.total_counts - c
        /\ st2.is_collapsed = (st.is_collapsed /\ ~drain)
    BY <1>1, <1>5, <2>1, RemoveItemIsStore
  <2> QED BY <2>2, <2>3
<1>11. drain <=> (FromLast(st, bid) \/ FromFirst(st, bid)) /\ st.buckets[slot] = c
  BY DEF DrainsEnd
<1> HIDE DEF st2, slot, drain
<1>12. (st2.is_collapsed <=> st.is_collapsed /\ ~drain)
  BY <1>10, Zenon
<1>13. g \in [S -> Int] /\ \A y \in S : g[y] = Home(st2, m, y)
  BY <1>10, HomeIs
<1> HIDE DEF g, bid
<1>14. ASSUME NEW y \in S, live2[y] > 0 PROVE g[y] = h[y]
  <2> DEFINE k == BucketId(m, y.log)
  <2>1. k \in Int
    BY <1>1
  <2>2. h[y] \in Bids(st) /\ h[y] \in Int
    <3>1. live2[y] <= live[y] /\ live[y] > 0
      BY <1>3, <1>14
    <3>2. HomeHolds(st, m, live, S, y)
      BY <3>1, HomeIsBucket
    <3> QED BY <1>1, <1>2, <3>2 DEF HomeHolds
  <2>3. st.buckets[slot] = c => h[y] # slot
    <3> SUFFICES ASSUME st.buckets[slot] = c, h[y] = slot PROVE FALSE
      OBVIOUS
    <3>1. live[x] = c /\ live2[x] = 0
      BY <1>4, <1>8
    <3>2. y \in S \ {x} /\ live[y] > 0
      BY <1>14, <3>1
    <3> QED BY <1>4, <1>8, <3>1, <3>2
  <2>4. h[y] \in Bids(st2)
    BY <1>10, <2>2, <2>3
  <2>5. ~IsEmpty(st2) /\ Bids(st2) \subseteq Bids(st)
    BY <1>10, <2>4 DEF IsEmpty
  <2>6. /\ MinBid(st2) \in Bids(st2) /\ \A b \in Bids(st2) : MinBid(st2) <= b
        /\ MaxBid(st2) \in Bids(st2) /\ \A b \in Bids(st2) : b <= MaxBid(st2)
    BY <1>10, <2>5, EndsAreBuckets
  <2>7. CASE CollapsedHigh(st)
    <3>1. h[y] = IF k <= MaxBid(st) THEN k ELSE MaxBid(st)
      BY <1>2, <2>7, HomeIs
    <3>2. CASE drain
      <4>1. st.buckets[slot] = c /\ FromLast(st, bid)
        BY <1>7, <1>11, <2>7, <3>2 DEF FromFirst
      <4>2. slot = MaxBid(st)
        BY <4>1 DEF slot, RemoveSlot
      <4>3. h[y] = k
        BY <2>1, <2>3, <3>1, <4>1, <4>2
      <4>4. ~CollapsedHigh(st2) /\ ~CollapsedLow(st2)
        BY <1>12, <3>2 DEF CollapsedHigh, CollapsedLow
      <4> QED BY <1>10, <1>13, <4>3, <4>4, HomeIs
    <3>3. CASE ~drain
      <4>1. CollapsedHigh(st2)
        BY <1>10, <1>12, <2>7, <3>3 DEF CollapsedHigh
      <4>2. MaxBid(st) \in Bids(st2)
        <5>1. CASE st.buckets[slot] = c
          <6>1. ~FromLast(st, bid)
            BY <1>11, <3>3, <5>1
          <6>2. ~(bid >= MaxBid(st)) /\ slot = bid
            BY <1>7, <2>7, <6>1 DEF FromLast, FromFirst, slot, RemoveSlot
          <6>3. slot # MaxBid(st)
            BY <1>1, <1>6, <6>2
          <6> QED BY <1>6, <1>10, <6>3
        <5>2. CASE st.buckets[slot] # c
          BY <1>6, <1>10, <5>2
        <5> QED BY <5>1, <5>2
      <4>3. MaxBid(st2) = MaxBid(st)
        <5>1. MaxBid(st) \in Int /\ MaxBid(st2) \in Int /\ MaxBid(st2) <= MaxBid(st)
              /\ MaxBid(st) <= MaxBid(st2)
          BY <1>1, <1>6, <2>5, <2>6, <4>2
        <5> QED BY <5>1
      <4> QED BY <1>10, <1>13, <3>1, <4>1, <4>3, HomeIs
    <3> QED BY <3>2, <3>3
  <2>8. CASE CollapsedLow(st)
    <3>1. h[y] = IF MinBid(st) <= k THEN k ELSE MinBid(st)
      BY <1>2, <2>8, HomeIs
    <3>2. CASE drain
      <4>1. st.buckets[slot] = c /\ FromFirst(st, bid)
        BY <1>7, <1>11, <2>8, <3>2 DEF FromLast
      <4>2. slot = MinBid(st)
        BY <1>7, <2>8, <4>1 DEF slot, RemoveSlot, FromLast
      <4>3. h[y] = k
        BY <2>1, <2>3, <3>1, <4>1, <4>2
      <4>4. ~CollapsedHigh(st2) /\ ~CollapsedLow(st2)
        BY <1>12, <3>2 DEF CollapsedHigh, CollapsedLow
      <4> QED BY <1>10, <1>13, <4>3, <4>4, HomeIs
    <3>3. CASE ~drain
      <4>1. CollapsedLow(st2)
        BY <1>10, <1>12, <2>8, <3>3 DEF CollapsedLow
      <4>2. MinBid(st) \in Bids(st2)
        <5>1. CASE st.buckets[slot] = c
          <6>1. ~FromFirst(st, bid)
            BY <1>11, <3>3, <5>1
          <6>2. ~(bid <= MinBid(st)) /\ slot = bid
            BY <1>7, <2>8, <6>1 DEF FromLast, FromFirst, slot, RemoveSlot
          <6>3. slot # MinBid(st)
            BY <1>1, <1>6, <6>2
          <6> QED BY <1>6, <1>10, <6>3
        <5>2. CASE st.buckets[slot] # c
          BY <1>6, <1>10, <5>2
        <5> QED BY <5>1, <5>2
      <4>3. MinBid(st2) = MinBid(st)
        <5>1. MinBid(st) \in Int /\ MinBid(st2) \in Int /\ MinBid(st) <= MinBid(st2)
              /\ MinBid(st2) <= MinBid(st)
          BY <1>1, <1>6, <2>5, <2>6, <4>2
        <5> QED BY <5>1
      <4> QED BY <1>10, <1>13, <3>1, <4>1, <4>3, HomeIs
    <3> QED BY <3>2, <3>3
  <2>9. CASE ~CollapsedHigh(st) /\ ~CollapsedLow(st)
    <3>1. ~CollapsedHigh(st2) /\ ~CollapsedLow(st2)
      BY <1>10, <1>12, <2>9 DEF CollapsedHigh, CollapsedLow
    <3> QED BY <1>2, <1>10, <1>13, <2>9, <3>1, HomeIs
  <2> QED BY <2>7, <2>8, <2>9
<1>15. Counted(st.buckets, h, live, S)
  BY <1>2, CountedIsHolds
<1>16. Counted(st2.buckets, g, live2, S)
  <2> SUFFICES ASSUME NEW b \in Int
               PROVE  CountOf(st2.buckets, b) = Mass(live2, {y \in S : g[y] = b})
    BY DEF Counted
  <2> DEFINE Old == {y \in S : h[y] = b}
             New == {y \in S : g[y] = b}
  <2>1. IsFiniteSet(Old) /\ \A y \in Old : live[y] \in Nat /\ live2[y] \in Nat
    BY <1>3, FS_Subset
  <2>2. CountOf(st.buckets, b) = Mass(live, Old)
    BY <1>15 DEF Counted
  <2>3. Mass(live2, New) = Mass(live2, Old)
    <3>1. \A y \in New \cup Old : live2[y] \in Nat
      BY <1>3
    <3>2. \A y \in New \cup Old : live2[y] > 0 => (y \in New <=> y \in Old)
      BY <1>14
    <3> HIDE DEF Old, New
    <3> QED BY <3>1, <3>2, MassOfPresent
  <2>4. CountOf(st2.buckets, b) =
          IF b = slot THEN CountOf(st.buckets, b) - c ELSE CountOf(st.buckets, b)
    <3>1. Bids(st2) = DOMAIN st2.buckets
      BY DEF Bids
    <3>2. CASE b = slot
      BY <1>1, <1>9, <1>10, <3>1, <3>2 DEF CountOf
    <3>3. CASE b # slot
      BY <1>1, <1>9, <1>10, <3>1, <3>3 DEF CountOf
    <3> QED BY <3>2, <3>3
  <2>5. CASE b = slot
    <3>1. x \in Old
      BY <1>8, <2>5
    <3>2. \A y \in Old \ {x} : live2[y] = live[y]
      OBVIOUS
    <3>3. -c \in Int /\ live2[x] = live[x] + (-c)
      OBVIOUS
    <3> HIDE DEF Old
    <3>4. Mass(live2, Old) = Mass(live, Old) + (-c)
      BY <2>1, <3>1, <3>2, <3>3, MassChanged
    <3>5. Mass(live, Old) \in Nat
      BY <2>1, MassType
    <3> QED BY <2>2, <2>3, <2>4, <2>5, <3>4, <3>5
  <2>6. CASE b # slot
    <3>1. \A y \in Old : live2[y] = live[y]
      BY <1>8, <2>6
    <3> HIDE DEF Old
    <3>2. Mass(live2, Old) = Mass(live, Old)
      BY <3>1, MassSame
    <3> QED BY <2>2, <2>3, <2>4, <2>6, <3>2
  <2> QED BY <2>5, <2>6
<1>17. HoldsExactly(st2, m, live2, S)
  BY <1>3, <1>10, <1>13, <1>16, CountedIsHolds
<1> QED BY <1>5, <1>10, <1>17 DEF st2, bid

----------------------------------------------------------------------------
(* The multiset after an update *)

LEMMA LiveStaysTyped ==
  ASSUME NEW All, NEW live \in [All -> Nat], NEW x \in All, NEW c \in Nat
  PROVE  /\ Gained(live, x, c) \in [All -> Nat]
         /\ Lost(live, x, c) \in [All -> Nat]
BY DEF Gained, Lost

LEMMA MassOfGained ==
  ASSUME NEW All, NEW live \in [All -> Nat], NEW x \in All, NEW c \in Nat,
         NEW S, S \subseteq All, IsFiniteSet(S)
  PROVE  Mass(Gained(live, x, c), S) = IF x \in S THEN Mass(live, S) + c ELSE Mass(live, S)
<1> DEFINE g == Gained(live, x, c)
<1>1. /\ \A y \in S : live[y] \in Nat /\ g[y] \in Nat
      /\ g[x] = live[x] + c /\ \A y \in All \ {x} : g[y] = live[y]
  BY DEF Gained
<1> HIDE DEF g
<1>2. CASE x \in S
  BY <1>1, <1>2, MassChanged DEF g
<1>3. CASE x \notin S
  BY <1>1, <1>3, MassSame DEF g
<1> QED BY <1>2, <1>3

LEMMA MassOfLost ==
  ASSUME NEW All, NEW live \in [All -> Nat], NEW x \in All, NEW c \in Nat, c <= live[x],
         NEW S, S \subseteq All, IsFiniteSet(S)
  PROVE  Mass(Lost(live, x, c), S) = IF x \in S THEN Mass(live, S) - c ELSE Mass(live, S)
<1> DEFINE g == Lost(live, x, c)
<1>1. /\ \A y \in S : live[y] \in Nat /\ g[y] \in Nat
      /\ g[x] = live[x] + (-c) /\ \A y \in All \ {x} : g[y] = live[y]
  BY DEF Lost
<1>2. -c \in Int
  OBVIOUS
<1> HIDE DEF g
<1>3. CASE x \in S
  <2>1. Mass(g, S) = Mass(live, S) + (-c)
    BY <1>1, <1>2, <1>3, MassChanged
  <2>2. Mass(live, S) \in Nat
    BY <1>1, MassType
  <2> QED BY <1>3, <2>1, <2>2 DEF g
<1>4. CASE x \notin S
  BY <1>1, <1>4, MassSame DEF g
<1> QED BY <1>3, <1>4

\* Items outside S do not matter to what a store holds of S.
LEMMA SameItems ==
  ASSUME NEW st, NEW m, NEW S, NEW f, NEW g, \A y \in S : f[y] = g[y],
         HoldsExactly(st, m, f, S)
  PROVE  HoldsExactly(st, m, g, S)
<1>1. Present(f, S) = Present(g, S)
  BY DEF Present
<1>2. \A b : Mass(f, {y \in Present(f, S) : Home(st, m, y) = b})
               = Mass(g, {y \in Present(g, S) : Home(st, m, y) = b})
  <2> SUFFICES ASSUME NEW b
               PROVE  Mass(f, {y \in Present(f, S) : Home(st, m, y) = b})
                        = Mass(g, {y \in Present(g, S) : Home(st, m, y) = b})
    OBVIOUS
  <2> DEFINE At == {y \in Present(f, S) : Home(st, m, y) = b}
  <2>1. \A y \in At : f[y] = g[y]
    BY DEF Present
  <2> HIDE DEF At
  <2>2. Mass(f, At) = Mass(g, At)
    BY <2>1, MassSame
  <2> QED BY <1>1, <2>2 DEF At
<1> QED BY <1>1, <1>2 DEF HoldsExactly


----------------------------------------------------------------------------
(* The sum of the counts of a dictionary *)

\* A dictionary that counts the members of S holds in the buckets of W as many as there
\* are members of S whose place is in W.
LEMMA CountedPart ==
  ASSUME NEW dict, IsDict(dict), NEW S, IsFiniteSet(S), NEW live, \A x \in S : live[x] \in Nat,
         NEW h \in [S -> Int], Counted(dict, h, live, S), NEW W
  PROVE  Mass(dict, DOMAIN dict \cap W) = Mass(live, {x \in S : h[x] \in W})
<1> DEFINE In(D) == {x \in S : h[x] \in D}
           At(b) == {x \in S : h[x] = b}
           T     == {n \in Nat : \A D \in SUBSET (DOMAIN dict) :
                       Cardinality(D) = n => Mass(dict, D) = Mass(live, In(D))}
<1>1. /\ IsFiniteSet(DOMAIN dict) /\ DOMAIN dict \in SUBSET Int
      /\ \A b \in DOMAIN dict : dict[b] \in Nat
  BY DEF IsDict
<1>2. \A b \in DOMAIN dict : dict[b] = Mass(live, At(b))
  BY <1>1 DEF Counted, CountOf
<1>3. 0 \in T
  <2> SUFFICES ASSUME NEW D \in SUBSET (DOMAIN dict), Cardinality(D) = 0
               PROVE  Mass(dict, D) = Mass(live, In(D))
    OBVIOUS
  <2>1. D = {}
    BY <1>1, FS_Subset, FS_EmptySet
  <2>2. In(D) = {}
    BY <2>1
  <2> HIDE DEF In
  <2> QED BY <2>1, <2>2, MassEmpty
<1>4. ASSUME NEW n \in Nat, n \in T PROVE n + 1 \in T
  <2> SUFFICES ASSUME NEW D \in SUBSET (DOMAIN dict), Cardinality(D) = n + 1
               PROVE  Mass(dict, D) = Mass(live, In(D))
    OBVIOUS
  <2>1. IsFiniteSet(D)
    BY <1>1, FS_Subset
  <2>2. PICK b \in D : TRUE
    BY <2>1, FS_EmptySet
  <2> DEFINE E == D \ {b}
  <2>3. IsFiniteSet(E) /\ Cardinality(E) = n /\ E \in SUBSET (DOMAIN dict)
    <3>1. Cardinality(D) - 1 = n
      OBVIOUS
    <3> QED BY <2>1, <2>2, <3>1, FS_RemoveElement
  <2>4. Mass(dict, E) = Mass(live, In(E))
    BY <1>4, <2>3
  <2>5. Mass(dict, D) = dict[b] + Mass(dict, E)
    <3>1. \A y \in D : dict[y] \in Nat
      BY <1>1
    <3> QED BY <2>1, <2>2, <3>1, MassSplit
  <2>6. In(D) = At(b) \cup In(E) /\ At(b) \cap In(E) = {}
    BY <2>2
  <2>7. IsFiniteSet(At(b)) /\ IsFiniteSet(In(E))
    BY FS_Subset
  <2>8. \A x \in At(b) \cup In(E) : live[x] \in Nat
    OBVIOUS
  <2>9. dict[b] = Mass(live, At(b))
    BY <1>2, <2>2
  <2> HIDE DEF At, In, E
  <2>10. Mass(live, In(D)) = Mass(live, At(b)) + Mass(live, In(E))
    BY <2>6, <2>7, <2>8, MassDisjoint
  <2> QED BY <2>4, <2>5, <2>9, <2>10
<1> DEFINE V == DOMAIN dict \cap W
<1>5. Mass(dict, V) = Mass(live, In(V))
  <2>1. V \in SUBSET (DOMAIN dict) /\ Cardinality(V) \in Nat
    BY <1>1, FS_Subset, FS_CardinalityType
  <2> HIDE DEF T, V
  <2>2. Nat \subseteq T
    BY <1>3, <1>4, InductionOverNat
  <2>3. Cardinality(V) \in T
    BY <2>1, <2>2
  <2> QED BY <2>1, <2>3 DEF T
<1>6. \A x \in S : live[x] > 0 => h[x] \in DOMAIN dict
  <2> SUFFICES ASSUME NEW x \in S, live[x] > 0, h[x] \notin DOMAIN dict PROVE FALSE
    OBVIOUS
  <2>1. h[x] \in Int /\ CountOf(dict, h[x]) = 0
    BY DEF CountOf
  <2>2. Mass(live, At(h[x])) = 0
    BY <2>1 DEF Counted
  <2>3. x \in At(h[x]) /\ IsFiniteSet(At(h[x])) /\ \A y \in At(h[x]) : live[y] \in Nat
    BY FS_Subset
  <2> HIDE DEF At
  <2>4. /\ Mass(live, At(h[x])) = live[x] + Mass(live, At(h[x]) \ {x})
        /\ Mass(live, At(h[x]) \ {x}) \in Nat
    BY <2>3, MassSplit
  <2> QED BY <2>2, <2>4
<1>7. Mass(live, In(V)) = Mass(live, In(W))
  <2>1. \A x \in In(V) \cup In(W) : live[x] \in Nat
    OBVIOUS
  <2>2. \A x \in In(V) \cup In(W) : live[x] > 0 => (x \in In(V) <=> x \in In(W))
    BY <1>6
  <2> HIDE DEF In
  <2> QED BY <2>1, <2>2, MassOfPresent
<1> QED BY <1>5, <1>7

\* A dictionary that counts the members of S holds as much as S.
LEMMA CountedTotal ==
  ASSUME NEW dict, IsDict(dict), NEW S, IsFiniteSet(S), NEW live, \A x \in S : live[x] \in Nat,
         NEW h \in [S -> Int], Counted(dict, h, live, S)
  PROVE  Mass(dict, DOMAIN dict) = Mass(live, S)
<1>1. Mass(dict, DOMAIN dict \cap Int) = Mass(live, {x \in S : h[x] \in Int})
  BY CountedPart
<1>2. DOMAIN dict \cap Int = DOMAIN dict /\ {x \in S : h[x] \in Int} = S
  BY DEF IsDict
<1> QED BY <1>1, <1>2

\* What is in the dictionary now, seen as a multiset of the ids that dict had.
LEMMA CountedByItself ==
  ASSUME NEW dict, IsDict(dict)
  PROVE  LET D == DOMAIN dict
         IN  /\ IsFiniteSet(D) /\ \A b \in D : dict[b] \in Nat
             /\ [b \in D |-> b] \in [D -> Int]
             /\ Counted(dict, [b \in D |-> b], dict, D)
<1> DEFINE D == DOMAIN dict
<1>1. IsFiniteSet(D) /\ D \in SUBSET Int /\ \A b \in D : dict[b] \in Nat
  BY DEF IsDict
<1>2. ASSUME NEW b \in Int
      PROVE  CountOf(dict, b) = Mass(dict, {x \in D : [y \in D |-> y][x] = b})
  <2>1. CASE b \in D
    <3>1. {x \in D : [y \in D |-> y][x] = b} = {b}
      BY <2>1
    <3> QED BY <1>1, <2>1, <3>1, MassOne DEF CountOf
  <2>2. CASE b \notin D
    <3>1. {x \in D : [y \in D |-> y][x] = b} = {}
      BY <2>2
    <3> QED BY <2>2, <3>1, MassEmpty DEF CountOf
  <2> QED BY <2>1, <2>2
<1> QED BY <1>1, <1>2 DEF Counted

\* Collapsing moves counts and loses none.
LEMMA CollapseKeepsSum ==
  ASSUME NEW st, IsStore(st), NEW m \in Mapping
  PROVE  Mass(Collapse(st, m).buckets, Bids(Collapse(st, m))) = Mass(st.buckets, Bids(st))
<1> DEFINE D == Bids(st)
           h == [b \in D |-> b]
           Total(dict) == Mass(dict, DOMAIN dict)
<1>1. /\ IsDict(st.buckets) /\ D \in SUBSET Int /\ D = DOMAIN st.buckets
      /\ IsFiniteSet(D) /\ \A b \in D : st.buckets[b] \in Nat
      /\ h \in [D -> Int] /\ Counted(st.buckets, h, st.buckets, D)
  BY StoreFields, CountedByItself DEF Bids
<1>2. ASSUME NEW from \in D, NEW to \in D, from # to
      PROVE  Total(Merge(st.buckets, from, to)) = Total(st.buckets)
  <2> DEFINE g == [b \in D |-> IF b = from THEN to ELSE b]
  <2>1. g \in [D -> Int] /\ \A b \in D : g[b] = IF h[b] = from THEN to ELSE h[b]
    BY <1>1
  <2>2. IsDict(Merge(st.buckets, from, to))
    BY <1>1, MergeIsDict
  <2> HIDE DEF g, h
  <2>3. Counted(Merge(st.buckets, from, to), g, st.buckets, D)
    BY <1>1, <1>2, <2>1, MergeKeepsItems
  <2> QED BY <1>1, <2>1, <2>2, <2>3, CountedTotal
<1>3. Total(HalveAll(st, m)) = Total(st.buckets)
  <2> DEFINE g == [b \in D |-> HalfBid(m, b)]
  <2>1. g \in [D -> Int] /\ \A b \in D : g[b] = HalfBid(m, h[b])
    BY <1>1, HalvesOf
  <2>2. IsDict(HalveAll(st, m))
    BY HalveAllIsDict
  <2> HIDE DEF g, h
  <2>3. Counted(HalveAll(st, m), g, st.buckets, D)
    BY <1>1, <2>1, HalveKeepsItems
  <2> QED BY <1>1, <2>1, <2>2, <2>3, CountedTotal
<1> HIDE DEF Total
<1>4. CASE ~CanCollapse(st)
  BY <1>4 DEF Collapse
<1>5. CASE CanCollapse(st)
  <2>1. Collapse(st, m).buckets = CollapsedBuckets(st, m)
    BY <1>5, StoreFields DEF Collapse
  <2>2. st.store_type \in {COLLAPSINGHIGH_MAPSTORE, COLLAPSINGLOW_MAPSTORE} =>
          NumBuckets(st) >= 2
    BY <1>5 DEF CanCollapse, COLLAPSINGALL_MAPSTORE, COLLAPSINGHIGH_MAPSTORE, COLLAPSINGLOW_MAPSTORE
  <2>3. Total(CollapsedBuckets(st, m)) = Total(st.buckets)
    <3>1. CASE st.store_type = COLLAPSINGLOW_MAPSTORE
      <4>1. /\ MinBid(st) \in D
            /\ NextBid(st, MinBid(st)) \in D \ {MinBid(st)}
        BY <2>2, <3>1, EndsHaveNeighbours
      <4> QED BY <1>2, <3>1, <4>1
        DEF CollapsedBuckets, MergeFirst, COLLAPSINGHIGH_MAPSTORE, COLLAPSINGLOW_MAPSTORE
    <3>2. CASE st.store_type = COLLAPSINGHIGH_MAPSTORE
      <4>1. /\ MaxBid(st) \in D
            /\ PrevBid(st, MaxBid(st)) \in D \ {MaxBid(st)}
        BY <2>2, <3>2, EndsHaveNeighbours
      <4> QED BY <1>2, <3>2, <4>1
        DEF CollapsedBuckets, MergeLast, COLLAPSINGHIGH_MAPSTORE, COLLAPSINGLOW_MAPSTORE
    <3>3. CASE ~(st.store_type \in {COLLAPSINGHIGH_MAPSTORE, COLLAPSINGLOW_MAPSTORE})
      BY <1>3, <3>3 DEF CollapsedBuckets
    <3> QED BY <3>1, <3>2, <3>3
  <2> QED BY <2>1, <2>3 DEF Total, Bids
<1> QED BY <1>4, <1>5

LEMMA AddItemSum ==
  ASSUME NEW dict, IsDict(dict), NEW k \in Int, NEW c \in Nat \ {0}
  PROVE  Mass(AddItem(dict, k, c), DOMAIN AddItem(dict, k, c)) = Mass(dict, DOMAIN dict) + c
<1> DEFINE after == AddItem(dict, k, c)
           D == DOMAIN dict
<1>1. /\ IsFiniteSet(D) /\ \A b \in D : dict[b] \in Nat
      /\ DOMAIN after = D \cup {k} /\ \A b \in D \cup {k} : after[b] \in Nat
  <2>1. IsDict(after) /\ DOMAIN after = D \cup {k}
    BY AddItemIsDict
  <2> HIDE DEF after
  <2> QED BY <2>1 DEF IsDict
<1>2. /\ \A b \in D \ {k} : after[b] = dict[b]
      /\ k \in D => after[k] = dict[k] + c
      /\ k \notin D => after[k] = c
  BY DEF AddItem, CountOf
<1> HIDE DEF after
<1>3. CASE k \in D
  <2>1. D \cup {k} = D
    BY <1>3
  <2> QED BY <1>1, <1>2, <1>3, <2>1, MassChanged DEF after
<1>4. CASE k \notin D
  <2>1. Mass(after, D) = Mass(dict, D)
    BY <1>2, <1>4, MassSame
  <2>2. Mass(after, {k}) = c
    BY <1>1, <1>2, <1>4, MassOne
  <2>3. D \cap {k} = {} /\ IsFiniteSet({k})
    BY <1>4, FS_Singleton
  <2>4. Mass(after, D \cup {k}) = Mass(after, D) + Mass(after, {k})
    BY <1>1, <2>3, MassDisjoint
  <2> QED BY <1>1, <2>1, <2>2, <2>4 DEF after
<1> QED BY <1>3, <1>4

LEMMA InsertItemSum ==
  ASSUME NEW st, IsStore(st), ~InsertReadsNull(st), NEW bid \in Int, NEW count \in Nat \ {0}
  PROVE  Mass(InsertItem(st, bid, count).buckets, Bids(InsertItem(st, bid, count)))
           = Mass(st.buckets, Bids(st)) + count
<1>1. InsertItem(st, bid, count).buckets = AddItem(st.buckets, InsertTarget(st, bid), count)
  BY StoreFields DEF InsertItem
<1>2. IsDict(st.buckets) /\ InsertTarget(st, bid) \in Int
  BY StoreFields, InsertItemIsStore
<1> QED BY <1>1, <1>2, AddItemSum DEF Bids

\* A removal takes as much from the buckets as from the total.
LEMMA RemoveItemSum ==
  ASSUME NEW st, IsStore(st), ~RemoveReadsNull(st), NEW bid \in Int, NEW count \in Nat \ {0}
  PROVE  LET after == RemoveItem(st, bid, count)
         IN  after.total_counts - Mass(after.buckets, Bids(after))
               = st.total_counts - Mass(st.buckets, Bids(st))
<1> DEFINE slot  == RemoveSlot(st, bid)
           after == RemoveItem(st, bid, count)
           left  == [st.buckets EXCEPT ![slot] = @ - count]
           D     == Bids(st)
<1>1. CASE slot \notin D \/ CountOf(st.buckets, slot) < count
  BY <1>1 DEF RemoveItem
<1>2. CASE slot \in D /\ ~(CountOf(st.buckets, slot) < count)
  <2>1. /\ IsDict(st.buckets) /\ D = DOMAIN st.buckets /\ IsFiniteSet(D)
        /\ \A b \in D : st.buckets[b] \in Nat
        /\ st.total_counts \in Int
    BY StoreFields DEF IsDict, Bids
  <2>2. /\ after.buckets = IF left[slot] = 0 THEN DropKey(left, slot) ELSE left
        /\ after.total_counts = st.total_counts - count
    BY <1>2, StoreFields DEF RemoveItem
  <2>3. count <= st.buckets[slot]
    BY <1>2, <2>1 DEF CountOf
  <2>4. /\ DOMAIN left = D /\ \A b \in D : left[b] \in Nat
        /\ left[slot] = st.buckets[slot] + (-count)
        /\ \A b \in D \ {slot} : left[b] = st.buckets[b]
    BY <1>2, <2>1, <2>3
  <2> HIDE DEF left, after, slot, D
  <2>5. -count \in Int
    OBVIOUS
  <2>6. Mass(left, D) = Mass(st.buckets, D) + (-count)
    BY <1>2, <2>1, <2>4, <2>5, MassChanged
  <2>7. Mass(after.buckets, Bids(after)) = Mass(left, D)
    <3>1. CASE left[slot] # 0
      BY <2>2, <2>4, <3>1 DEF Bids
    <3>2. CASE left[slot] = 0
      <4>1. /\ Bids(after) = D \ {slot}
            /\ \A b \in D \ {slot} : after.buckets[b] = left[b]
        BY <2>2, <2>4, <3>2 DEF Bids, DropKey
      <4>2. Mass(after.buckets, D \ {slot}) = Mass(left, D \ {slot})
        BY <4>1, MassSame
      <4>3. Mass(left, D) = left[slot] + Mass(left, D \ {slot}) /\ Mass(left, D \ {slot}) \in Nat
        BY <1>2, <2>1, <2>4, MassSplit
      <4> QED BY <3>2, <4>1, <4>2, <4>3
    <3> QED BY <3>1, <3>2
  <2>8. Mass(st.buckets, D) \in Nat
    BY <2>1, MassType
  <2> QED BY <2>1, <2>2, <2>6, <2>7, <2>8 DEF after, D
<1> QED BY <1>1, <1>2

----------------------------------------------------------------------------
(* What a scan adds up *)

\* The counts of the buckets below k, and of those up to k
CountBelow(st, k) == Mass(st.buckets, {b \in Bids(st) : b < k})
CountUpTo(st, k)  == Mass(st.buckets, {b \in Bids(st) : b <= k})
CountAll(st)      == Mass(st.buckets, Bids(st))

LEMMA CountsAreNat ==
  ASSUME NEW st, IsStore(st)
  PROVE  /\ IsFiniteSet(Bids(st)) /\ Bids(st) \in SUBSET Int
         /\ \A b \in Bids(st) : st.buckets[b] \in Nat
         /\ \A k : CountBelow(st, k) \in Nat /\ CountUpTo(st, k) \in Nat
         /\ CountAll(st) \in Nat
<1>1. IsFiniteSet(Bids(st)) /\ Bids(st) \in SUBSET Int /\ \A b \in Bids(st) : st.buckets[b] \in Nat
  BY StoreFields DEF IsDict, Bids
<1>2. \A D \in SUBSET Bids(st) : Mass(st.buckets, D) \in Nat
  BY <1>1, MassType, FS_Subset
<1>3. \A k : {b \in Bids(st) : b < k} \in SUBSET Bids(st) /\ {b \in Bids(st) : b <= k} \in SUBSET Bids(st)
  OBVIOUS
<1>4. Bids(st) \in SUBSET Bids(st)
  OBVIOUS
<1> QED BY <1>1, <1>2, <1>3, <1>4 DEF CountBelow, CountUpTo, CountAll

LEMMA CountOfOne ==
  ASSUME NEW st, IsStore(st), NEW k \in Bids(st)
  PROVE  /\ BucketCount(st, k) = st.buckets[k]
         /\ CountUpTo(st, k) = CountBelow(st, k) + BucketCount(st, k)
<1> DEFINE D == {b \in Bids(st) : b <= k}
           E == {b \in Bids(st) : b < k}
<1>1. /\ IsFiniteSet(Bids(st)) /\ Bids(st) \in SUBSET Int
      /\ \A b \in Bids(st) : st.buckets[b] \in Nat
  BY CountsAreNat
<1>2. D \ {k} = E /\ k \in D
  BY <1>1
<1>3. IsFiniteSet(D) /\ \A b \in D : st.buckets[b] \in Nat
  BY <1>1, FS_Subset
<1> HIDE DEF D, E
<1>4. /\ Mass(st.buckets, D) = st.buckets[k] + Mass(st.buckets, D \ {k})
      /\ Mass(st.buckets, D \ {k}) \in Nat
  BY <1>2, <1>3, MassSplit
<1>5. Mass(st.buckets, D) = Mass(st.buckets, E) + st.buckets[k]
  <2>1. Mass(st.buckets, D \ {k}) = Mass(st.buckets, E)
    BY <1>2
  <2>2. Mass(st.buckets, E) \in Nat /\ st.buckets[k] \in Nat
    BY <1>1, <1>4, <2>1
  <2> QED BY <1>4, <2>1, <2>2
<1> QED BY <1>5 DEF BucketCount, CountUpTo, CountBelow, D, E

\* One bucket up.
LEMMA NextIsNext ==
  ASSUME NEW st, IsStore(st), NEW k \in Bids(st), k < MaxBid(st)
  PROVE  LET n == NextBid(st, k)
         IN  n \in Bids(st) /\ k < n /\ CountBelow(st, n) = CountUpTo(st, k)
<1> DEFINE after == {b \in Bids(st) : b > k}
<1>1. /\ IsFiniteSet(Bids(st)) /\ Bids(st) \in SUBSET Int
  BY CountsAreNat
<1>2. MaxBid(st) \in after
  <2>1. ~IsEmpty(st)
    BY DEF IsEmpty
  <2> QED BY <1>1, <2>1, EndsAreBuckets
<1>3. after \in SUBSET Int /\ IsFiniteSet(after) /\ after # {}
  BY <1>1, <1>2, FS_Subset
<1>4. NextBid(st, k) = Min(after)
  BY <1>3 DEF NextBid
<1>5. Min(after) \in after /\ \A y \in after : Min(after) <= y
  <2> HIDE DEF after
  <2> QED BY <1>3, MinIsLeast
<1>6. {b \in Bids(st) : b < Min(after)} = {b \in Bids(st) : b <= k}
  BY <1>1, <1>5
<1> QED BY <1>4, <1>5, <1>6 DEF CountBelow, CountUpTo

\* One bucket down.
LEMMA PrevIsPrev ==
  ASSUME NEW st, IsStore(st), NEW k \in Bids(st), MinBid(st) < k
  PROVE  LET n == PrevBid(st, k)
         IN  n \in Bids(st) /\ n < k /\ CountUpTo(st, n) = CountBelow(st, k)
<1> DEFINE before == {b \in Bids(st) : b < k}
<1>1. /\ IsFiniteSet(Bids(st)) /\ Bids(st) \in SUBSET Int
  BY CountsAreNat
<1>2. MinBid(st) \in before
  <2>1. ~IsEmpty(st)
    BY DEF IsEmpty
  <2> QED BY <1>1, <2>1, EndsAreBuckets
<1>3. before \in SUBSET Int /\ IsFiniteSet(before) /\ before # {}
  BY <1>1, <1>2, FS_Subset
<1>4. PrevBid(st, k) = Max(before)
  BY <1>3 DEF PrevBid
<1>5. Max(before) \in before /\ \A y \in before : y <= Max(before)
  <2> HIDE DEF before
  <2> QED BY <1>3, MaxIsGreatest
<1>6. {b \in Bids(st) : b <= Max(before)} = {b \in Bids(st) : b < k}
  BY <1>1, <1>5
<1> QED BY <1>4, <1>5, <1>6 DEF CountBelow, CountUpTo

\* Where a scan starts.
LEMMA EndsOfScan ==
  ASSUME NEW st, IsStore(st), ~IsEmpty(st)
  PROVE  /\ MinBid(st) \in Bids(st) /\ CountBelow(st, MinBid(st)) = 0
         /\ MaxBid(st) \in Bids(st) /\ CountUpTo(st, MaxBid(st)) = CountAll(st)
<1>1. /\ MinBid(st) \in Bids(st) /\ \A b \in Bids(st) : MinBid(st) <= b
      /\ MaxBid(st) \in Bids(st) /\ \A b \in Bids(st) : b <= MaxBid(st)
      /\ Bids(st) \in SUBSET Int
  BY EndsAreBuckets, CountsAreNat
<1>2. {b \in Bids(st) : b < MinBid(st)} = {}
  BY <1>1
<1>3. {b \in Bids(st) : b <= MaxBid(st)} = Bids(st)
  BY <1>1
<1> QED BY <1>1, <1>2, <1>3, MassEmpty DEF CountBelow, CountUpTo, CountAll

----------------------------------------------------------------------------
(* What that says of the items *)

HomeBelow(st, m, S, k) == {y \in S : Home(st, m, y) < k}
HomeUpTo(st, m, S, k)  == {y \in S : Home(st, m, y) <= k}

\* The buckets below k count the items that are at home below k.
LEMMA ItemsAround ==
  ASSUME NEW st, IsStore(st), CollapseStateOK(st), NEW m \in Mapping,
         NEW S, IsFiniteSet(S), \A y \in S : y.log \in Int,
         NEW live, \A y \in S : live[y] \in Nat, HoldsExactly(st, m, live, S), NEW k \in Int
  PROVE  /\ CountBelow(st, k) = Mass(live, HomeBelow(st, m, S, k))
         /\ CountUpTo(st, k) = Mass(live, HomeUpTo(st, m, S, k))
         /\ CountAll(st) = Mass(live, S)
<1> DEFINE h == [y \in S |-> Home(st, m, y)]
<1>1. h \in [S -> Int] /\ \A y \in S : h[y] = Home(st, m, y)
  BY HomeIs
<1>2. IsDict(st.buckets) /\ Bids(st) = DOMAIN st.buckets /\ Bids(st) \in SUBSET Int
  BY StoreFields DEF Bids
<1>3. {y \in S : h[y] \in {b \in Int : b < k}} = HomeBelow(st, m, S, k)
  BY <1>1 DEF HomeBelow
<1>4. {y \in S : h[y] \in {b \in Int : b <= k}} = HomeUpTo(st, m, S, k)
  BY <1>1 DEF HomeUpTo
<1>5. /\ DOMAIN st.buckets \cap {b \in Int : b < k} = {b \in Bids(st) : b < k}
      /\ DOMAIN st.buckets \cap {b \in Int : b <= k} = {b \in Bids(st) : b <= k}
  BY <1>2
<1> HIDE DEF h
<1>6. Counted(st.buckets, h, live, S)
  BY <1>1, CountedIsHolds
<1>7. \A W : Mass(st.buckets, DOMAIN st.buckets \cap W) = Mass(live, {y \in S : h[y] \in W})
  <2> SUFFICES ASSUME NEW W
               PROVE  Mass(st.buckets, DOMAIN st.buckets \cap W) = Mass(live, {y \in S : h[y] \in W})
    OBVIOUS
  <2> DEFINE dict == st.buckets
  <2>1. /\ IsDict(dict) /\ h \in [S -> Int] /\ Counted(dict, h, live, S)
        /\ IsFiniteSet(S) /\ \A x \in S : live[x] \in Nat
    BY <1>1, <1>2, <1>6
  <2> HIDE DEF dict
  <2>2. Mass(dict, DOMAIN dict \cap W) = Mass(live, {x \in S : h[x] \in W})
    BY ONLY <2>1, CountedPart
  <2> QED BY <2>2 DEF dict
<1>8. CountAll(st) = Mass(live, S)
  BY <1>1, <1>2, <1>6, CountedTotal DEF CountAll
<1> QED BY <1>3, <1>4, <1>5, <1>7, <1>8 DEF CountBelow, CountUpTo

\* Greater numbers are in greater buckets, or in the same.
LEMMA BucketIdOrder ==
  ASSUME NEW m \in Mapping, m.type = LOG_UPPER, NEW v \in Int, NEW w \in Int, v <= w
  PROVE  BucketId(m, v) <= BucketId(m, w)
<1> DEFINE g == m.log_gamma
           a == BucketId(m, v)
           b == BucketId(m, w)
<1>1. g \in Nat \ {0} /\ a \in Int /\ b \in Int
  BY BucketIdIsInt DEF Mapping
<1>2. g * (a - 1) < v /\ w <= g * b
  <2>1. ValueLow(m, a) = g * (a - 1) /\ ValueHigh(m, b) = g * (b - 1) + g
    BY DEF ValueLow, ValueHigh, LOG_UPPER, LOG_LOWER
  <2>2. ValueLow(m, a) < v /\ w <= ValueHigh(m, b)
    BY UpperValueWithinAlpha
  <2> HIDE DEF g, a, b
  <2>3. g * (b - 1) + g = g * b
    BY <1>1, Z3
  <2> QED BY <2>1, <2>2, <2>3
<1> HIDE DEF g, a, b
<1>3. g * (a - 1) < g * b
  <2>1. g * (a - 1) \in Int /\ g * b \in Int
    BY <1>1, Z3
  <2> QED BY <1>2, <2>1
<1>4. a - 1 < b
  BY <1>1, <1>3, Z3
<1> QED BY <1>1, <1>4 DEF a, b

LEMMA HomeOrder ==
  ASSUME NEW st, IsStore(st), CollapseStateOK(st), NEW m \in Mapping, m.type = LOG_UPPER,
         NEW x, x.log \in Int, NEW y, y.log \in Int, x.log <= y.log
  PROVE  Home(st, m, x) <= Home(st, m, y)
<1>1. /\ BucketId(m, x.log) \in Int /\ BucketId(m, y.log) \in Int
      /\ BucketId(m, x.log) <= BucketId(m, y.log)
  BY BucketIdIsInt, BucketIdOrder
<1>2. CollapsedHigh(st) => ~IsEmpty(st)
  BY DEF CollapseStateOK, InsertReadsNull
<1>3. CollapsedLow(st) => ~IsEmpty(st)
  BY DEF CollapseStateOK, InsertReadsNull
<1>4. CASE CollapsedHigh(st)
  <2>1. MaxBid(st) \in Int
    BY <1>2, <1>4, EndsAreBuckets, StoreFields
  <2> QED BY <1>1, <1>4, <2>1, HomeIs
<1>5. CASE CollapsedLow(st)
  <2>1. MinBid(st) \in Int
    BY <1>3, <1>5, EndsAreBuckets, StoreFields
  <2> QED BY <1>1, <1>5, <2>1, HomeIs
<1>6. CASE ~CollapsedHigh(st) /\ ~CollapsedLow(st)
  BY <1>1, <1>6, HomeIs
<1> QED BY <1>4, <1>5, <1>6

\* How the bucket where an item is differs from its own: only in a store collapsed at
\* one end, only in the bucket at that end, and only towards the other end.
LEMMA HomeUnderPolicy ==
  ASSUME NEW st, IsStore(st), CollapseStateOK(st), NEW m \in Mapping, NEW x, x.log \in Int
  PROVE  LET own == BucketId(m, x.log)
             k   == Home(st, m, x)
         IN  /\ own \in Int /\ k \in Int
             /\ k # own =>
                  /\ st.num_collapses > 0
                  /\ \/ st.store_type = COLLAPSINGHIGH_MAPSTORE /\ k = MaxBid(st) /\ k < own
                     \/ st.store_type = COLLAPSINGLOW_MAPSTORE  /\ k = MinBid(st) /\ own < k
<1>1. BucketId(m, x.log) \in Int /\ Home(st, m, x) \in Int
  BY HomeIs
<1>2. /\ CollapsedHigh(st) \/ CollapsedLow(st) => ~IsEmpty(st)
      /\ CollapsedHigh(st) \/ CollapsedLow(st) => st.num_collapses > 0
  BY DEF CollapseStateOK, InsertReadsNull, CollapsedHigh, CollapsedLow
<1>3. CASE CollapsedHigh(st)
  <2>1. MaxBid(st) \in Int
    BY <1>2, <1>3, EndsAreBuckets, StoreFields
  <2>2. st.store_type = COLLAPSINGHIGH_MAPSTORE
    BY <1>3 DEF CollapsedHigh
  <2> QED BY <1>1, <1>2, <1>3, <2>1, <2>2, HomeIs
<1>4. CASE CollapsedLow(st)
  <2>1. MinBid(st) \in Int
    BY <1>2, <1>4, EndsAreBuckets, StoreFields
  <2>2. st.store_type = COLLAPSINGLOW_MAPSTORE
    BY <1>4 DEF CollapsedLow
  <2> QED BY <1>1, <1>2, <1>4, <2>1, <2>2, HomeIs
<1>5. CASE ~CollapsedHigh(st) /\ ~CollapsedLow(st)
  BY <1>1, <1>5, HomeIs
<1> QED BY <1>3, <1>4, <1>5

----------------------------------------------------------------------------
(* The item at a rank *)

\* The members of A that are present are in B.
LEMMA MassWithin ==
  ASSUME NEW All, IsFiniteSet(All), NEW live \in [All -> Nat],
         NEW A \in SUBSET All, NEW B \in SUBSET All, \A y \in A : live[y] > 0 => y \in B
  PROVE  Mass(live, A) \in Nat /\ Mass(live, B) \in Nat /\ Mass(live, A) <= Mass(live, B)
<1>1. /\ IsFiniteSet(A) /\ IsFiniteSet(B) /\ IsFiniteSet(B \ A) /\ IsFiniteSet(A \cap B)
  BY FS_Subset
<1>2. /\ \A y \in A \cup B : live[y] \in Nat
  OBVIOUS
<1>3. /\ Mass(live, A) \in Nat /\ Mass(live, B) \in Nat
      /\ Mass(live, B \ A) \in Nat /\ Mass(live, A \cap B) \in Nat
  BY <1>1, <1>2, MassType
<1>4. Mass(live, A) = Mass(live, A \cap B)
  <2>1. /\ \A y \in A \cup (A \cap B) : live[y] \in Nat
        /\ \A y \in A \cup (A \cap B) : live[y] > 0 => (y \in A <=> y \in A \cap B)
    BY <1>2
  <2> QED BY <2>1, MassOfPresent
<1>5. Mass(live, B) = Mass(live, A \cap B) + Mass(live, B \ A)
  <2>1. (A \cap B) \cup (B \ A) = B /\ (A \cap B) \cap (B \ A) = {}
    BY <1>2
  <2> QED BY <1>1, <1>2, <2>1, MassDisjoint
<1> QED BY <1>3, <1>4, <1>5

\* If more than r copies are in Hi, one of them is not below the item at rank r.
LEMMA NotAllBelow ==
  ASSUME NEW All, IsFiniteSet(All), NEW live \in [All -> Nat], NEW x, NEW r \in Int,
         IsAtRank(live, x, r), NEW Hi \in SUBSET All, r < Mass(live, Hi)
  PROVE  \E y \in Hi : live[y] > 0 /\ ~Before(y, x)
<1> SUFFICES ASSUME \A y \in Hi : live[y] > 0 => Before(y, x) PROVE FALSE
  OBVIOUS
<1> DEFINE L == {y \in All : Before(y, x)}
<1>1. Mass(live, L) <= r
  <2>1. DOMAIN live = All
    OBVIOUS
  <2> QED BY <2>1 DEF IsAtRank
<1>2. L \in SUBSET All /\ \A y \in Hi : live[y] > 0 => y \in L
  OBVIOUS
<1> HIDE DEF L
<1>3. Mass(live, L) \in Nat /\ Mass(live, Hi) \in Nat /\ Mass(live, Hi) <= Mass(live, L)
  BY <1>2, MassWithin
<1> QED BY <1>1, <1>3

\* If no more than r copies are in Lo, one that is not in Lo is not above the item at
\* rank r.
LEMMA NotAllAbove ==
  ASSUME NEW All, IsFiniteSet(All), NEW live \in [All -> Nat], NEW x, NEW r \in Int,
         IsAtRank(live, x, r), NEW Lo \in SUBSET All, Mass(live, Lo) <= r
  PROVE  \E y \in All \ Lo : live[y] > 0 /\ ~Before(x, y)
<1> SUFFICES ASSUME \A y \in All \ Lo : live[y] > 0 => Before(x, y) PROVE FALSE
  OBVIOUS
<1> DEFINE U == {y \in All : ~Before(x, y)}
<1>1. r < Mass(live, U)
  <2>1. DOMAIN live = All
    OBVIOUS
  <2> QED BY <2>1 DEF IsAtRank
<1>2. U \in SUBSET All /\ \A y \in U : live[y] > 0 => y \in Lo
  OBVIOUS
<1> HIDE DEF U
<1>3. Mass(live, Lo) \in Nat /\ Mass(live, U) \in Nat /\ Mass(live, U) <= Mass(live, Lo)
  BY <1>2, MassWithin
<1> QED BY <1>1, <1>3

\* A rank has an item only if it is not negative.
LEMMA RankOfItem ==
  ASSUME NEW All, IsFiniteSet(All), NEW live \in [All -> Nat], NEW x, NEW r \in Int,
         IsAtRank(live, x, r)
  PROVE  r >= 0
<1> DEFINE L == {y \in All : Before(y, x)}
<1>1. DOMAIN live = All
  OBVIOUS
<1>2. Mass(live, L) <= r
  BY <1>1 DEF IsAtRank
<1>3. L \in SUBSET All
  OBVIOUS
<1> HIDE DEF L
<1>4. Mass(live, L) \in Nat
  BY <1>3, MassWithin
<1> QED BY <1>2, <1>4

===================================================================================
