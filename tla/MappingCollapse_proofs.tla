-------------------------- MODULE MappingCollapse_proofs --------------------------
(***************************************************************************)
(* The properties of MappingCollapse for every item and any number of      *)
(* collapses; two of them provided that the items of the LOG_LOWER mapping *)
(* are at least 1.                                                         *)
(***************************************************************************)
EXTENDS MappingCollapse, StoreContents_proofs

\* The cases for which halving agrees and values are within alpha
GoodCase(type, log) == type = LOG_UPPER \/ log >= 0

IInv == /\ m \in Mapping
        /\ v \in Int
        /\ GoodCase(m.type, v)
        /\ CollapseAgrees

LEMMA CollapsedMapping ==
  ASSUME NEW mm \in Mapping
  PROVE  SquareGamma(mm) \in Mapping /\ SquareGamma(mm).type = mm.type
BY DEF SquareGamma, Mapping

LEMMA InitEstablishes ==
  ASSUME \A c \in Cases : GoodCase(c[1], c[2])
  PROVE  Init => IInv
<1> SUFFICES ASSUME Init PROVE IInv
  OBVIOUS
<1>1. PICK c \in Cases, g \in InitialGammas :
        m = NewMapping(c[1], g) /\ v = c[2] /\ bid = BucketId(m, v)
  BY DEF Init
<1>2. c[1] \in MappingType /\ c[2] \in Int /\ g \in Nat \ {0}
  BY CasesAssumption, GammasAssumption
<1>3. m \in Mapping /\ m.type = c[1]
  BY <1>1, <1>2 DEF NewMapping, Mapping
<1> QED BY <1>1, <1>2, <1>3 DEF IInv, CollapseAgrees

LEMMA StepPreserves == IInv /\ [Next]_vars => IInv'
<1> SUFFICES ASSUME IInv, [Next]_vars PROVE IInv'
  OBVIOUS
<1>1. CASE CollapseAll
  <2>1. m' = SquareGamma(m) /\ v' = v /\ bid' = HalfBid(m, BucketId(m, v))
    BY <1>1 DEF CollapseAll, IInv, CollapseAgrees
  <2>2. m' \in Mapping /\ m'.type = m.type
    BY <2>1, CollapsedMapping DEF IInv
  <2>3. HalfBid(m, BucketId(m, v)) = BucketId(SquareGamma(m), v)
    <3>1. CASE m.type = LOG_UPPER
      BY <3>1, UpperCollapseAgrees DEF IInv
    <3>2. CASE m.type = LOG_LOWER
      <4>1. v \in Nat
        BY <3>2 DEF IInv, GoodCase, LOG_UPPER, LOG_LOWER
      <4> QED BY <3>2, <4>1, LowerCollapseAgrees DEF IInv
    <3> QED BY <3>1, <3>2 DEF IInv, Mapping, MappingType
  <2> QED BY <2>1, <2>2, <2>3 DEF IInv, CollapseAgrees
<1>2. CASE UNCHANGED vars
  BY <1>2 DEF vars, IInv, CollapseAgrees
<1> QED BY <1>1, <1>2 DEF Next

\* However often gamma is squared, the count of an item is in the bucket where
\* the sketch looks for the item.
THEOREM CollapseAlwaysAgrees ==
  ASSUME \A c \in Cases : GoodCase(c[1], c[2])
  PROVE  Spec => []CollapseAgrees
<1>1. Init => IInv
  BY InitEstablishes
<1>2. IInv => CollapseAgrees
  BY DEF IInv
<1> QED BY <1>1, <1>2, StepPreserves, PTL DEF Spec

\* At every resolution the value reported for the bucket of an item is within
\* alpha of the item.
THEOREM ValueAlwaysWithinAlpha ==
  ASSUME \A c \in Cases : GoodCase(c[1], c[2])
  PROVE  Spec => []ValueWithinAlpha
<1>1. Init => IInv
  BY InitEstablishes
<1>2. IInv => ValueWithinAlpha
  <2> SUFFICES ASSUME IInv PROVE ValueWithinAlpha
    OBVIOUS
  <2> DEFINE g == m.log_gamma
  <2>1. m \in Mapping /\ v \in Int /\ g \in Nat \ {0}
    BY DEF IInv, Mapping
  <2>2. CASE m.type = LOG_UPPER
    <3>1. /\ ValueLow(m, BucketId(m, v)) < v /\ v <= ValueHigh(m, BucketId(m, v))
      BY <2>1, <2>2, UpperValueWithinAlpha
    <3>2. ValueLow(m, BucketId(m, v)) \in Int
      <4> DEFINE q == (-v) \div g
      <4>1. -v \in Int
        BY <2>1
      <4>2. q \in Int
        BY <2>1, <4>1, DivBounds
      <4>3. BucketId(m, v) = -q
        BY <2>2 DEF BucketId, CeilDiv, LOG_UPPER, LOG_LOWER
      <4>4. ValueLow(m, -q) = g * (-q - 1)
        BY <2>2 DEF ValueLow, LOG_UPPER, LOG_LOWER
      <4> HIDE DEF q, g
      <4> QED BY <2>1, <4>2, <4>3, <4>4
    <3> QED BY <2>1, <3>1, <3>2 DEF ValueWithinAlpha
  <2>3. CASE m.type = LOG_LOWER
    <3> DEFINE q == v \div g
    <3>1. q \in Int /\ q * g <= v /\ v < q * g + g
      BY <2>1, DivBounds
    <3>2. v >= 0
      BY <2>3 DEF IInv, GoodCase, LOG_UPPER, LOG_LOWER
    <3>3. q >= 0
      <4>1. CASE q < 0
        <5>1. q * g + g <= 0
          <6> HIDE DEF q, g
          <6> QED BY <2>1, <3>1, <4>1, Z3
        <5> QED BY <2>1, <3>1, <3>2, <5>1
      <4> QED BY <3>1, <4>1
    <3>4. BucketId(m, v) = q
      BY <2>3, <3>3 DEF BucketId, FloorDiv
    <3>5. ValueLow(m, q) = g * q /\ ValueHigh(m, q) = g * q + g
      BY <2>3 DEF ValueLow, ValueHigh
    <3>6. g * q = q * g /\ g * q \in Int
      <4> HIDE DEF q, g
      <4> QED BY <2>1, <3>1
    <3> HIDE DEF q, g
    <3>7. g * q <= v /\ v <= g * q + g
      BY <2>1, <3>1, <3>6
    <3> QED BY <3>4, <3>5, <3>7 DEF ValueWithinAlpha
  <2> QED BY <2>2, <2>3 DEF IInv, Mapping, MappingType
<1> QED BY <1>1, <1>2, StepPreserves, PTL DEF Spec

\* A number between two multiples of log_gamma has its id between the two factors, or
\* one below the lower under LOG_LOWER.
LEMMA IdBetween ==
  ASSUME NEW mm \in Mapping, NEW x \in Int, NEW lo \in Int, NEW hi \in Int,
         lo * mm.log_gamma <= x, x <= hi * mm.log_gamma
  PROVE  /\ BucketId(mm, x) \in Int /\ BucketId(mm, x) <= hi
         /\ mm.type = LOG_LOWER => lo - 1 <= BucketId(mm, x)
         /\ mm.type # LOG_LOWER => lo <= BucketId(mm, x)
<1> DEFINE g == mm.log_gamma
           f == x \div g
           q == (-x) \div g
<1>1. g \in Nat \ {0}
  BY DEF Mapping
<1>2. f \in Int /\ f * g <= x /\ x < f * g + g
  BY <1>1, DivBounds
<1>3. q \in Int /\ q * g <= -x /\ -x < q * g + g
  <2> HIDE DEF g
  <2>1. -x \in Int
    OBVIOUS
  <2> QED BY <1>1, <2>1, DivBounds
<1>4. lo <= f /\ f <= hi
  <2> HIDE DEF g, f, q
  <2>1. lo * g <= x /\ x <= hi * g
    BY DEF g
  <2>2. lo <= f
    BY <1>1, <1>2, <2>1, Z3
  <2>3. f <= hi
    BY <1>1, <1>2, <2>1, Z3
  <2> QED BY <2>2, <2>3
<1>5. lo <= -q /\ -q <= hi
  <2> HIDE DEF g, f, q
  <2>1. lo * g <= x /\ x <= hi * g
    BY DEF g
  <2>2. lo <= -q
    BY <1>1, <1>3, <2>1, Z3
  <2>3. -q <= hi
    BY <1>1, <1>3, <2>1, Z3
  <2> QED BY <2>2, <2>3
<1>6. CASE mm.type = LOG_LOWER
  <2>1. BucketId(mm, x) = IF f >= 0 THEN f ELSE f - 1
    BY <1>6 DEF BucketId, FloorDiv
  <2> HIDE DEF g, f, q
  <2> QED BY <1>2, <1>4, <1>6, <2>1
<1>7. CASE mm.type # LOG_LOWER
  <2>1. BucketId(mm, x) = -q
    BY <1>7 DEF BucketId, CeilDiv
  <2> HIDE DEF g, f, q
  <2> QED BY <1>3, <1>5, <1>7, <2>1
<1> QED BY <1>6, <1>7

\* The half of an int, rounded either way, is an int.
LEMMA HalfFits ==
  ASSUME NEW mm, NEW b \in INT_MIN .. INT_MAX
  PROVE  HalfBid(mm, b) \in INT_MIN .. INT_MAX
<1>1. INT_MIN \in Int /\ INT_MAX \in Nat /\ INT_MIN = -INT_MAX - 1 /\ b \in Int
  BY RangeAssumption DEF INT_MIN
<1>2. b \div 2 \in Int /\ (b \div 2) * 2 <= b /\ b < (b \div 2) * 2 + 2
  BY <1>1, DivBounds
<1>3. (-b) \div 2 \in Int /\ ((-b) \div 2) * 2 <= -b /\ -b < ((-b) \div 2) * 2 + 2
  BY <1>1, DivBounds
<1>4. FloorDiv(b, 2) \in INT_MIN .. INT_MAX
  BY <1>1, <1>2 DEF FloorDiv
<1>5. CeilDiv(b, 2) \in INT_MIN .. INT_MAX
  BY <1>1, <1>3 DEF CeilDiv
<1> QED BY <1>4, <1>5 DEF HalfBid

\* The ends of the range are not beyond the multiples that ints allow.
LEMMA RangeBounds ==
  ASSUME NEW mm \in Mapping
  PROVE  /\ max_addressable(mm) \in Int /\ max_addressable(mm) <= INT_MAX * mm.log_gamma
         /\ min_addressable(mm) \in Int
         /\ (IF mm.type = LOG_LOWER THEN INT_MIN + 1 ELSE INT_MIN) * mm.log_gamma
              <= min_addressable(mm)
<1> DEFINE g == mm.log_gamma
           a == INT_MAX * g
           b == INT_MIN * g
           c == (INT_MIN + 1) * g
<1>1. g \in Nat \ {0} /\ INT_MIN \in Int /\ INT_MAX \in Nat /\ DblMin \in Int /\ DblMax \in Int
  BY RangeAssumption DEF Mapping, INT_MIN
<1>2. a \in Int /\ b \in Int /\ c \in Int
  <2> HIDE DEF g
  <2> QED BY <1>1
<1>3. max_addressable(mm) = IF a < DblMax THEN a ELSE DblMax
  BY DEF max_addressable
<1>4. CASE mm.type = LOG_LOWER
  <2>1. min_addressable(mm) = IF c > DblMin + g THEN c ELSE DblMin + g
    BY <1>4 DEF min_addressable
  <2>2. (IF mm.type = LOG_LOWER THEN INT_MIN + 1 ELSE INT_MIN) * mm.log_gamma = c
    BY <1>4
  <2> HIDE DEF a, b, c, g
  <2>3. max_addressable(mm) \in Int /\ max_addressable(mm) <= a
    BY <1>1, <1>2, <1>3
  <2>4. min_addressable(mm) \in Int /\ c <= min_addressable(mm)
    BY <1>1, <1>2, <2>1
  <2> QED BY <2>2, <2>3, <2>4 DEF a, g
<1>5. CASE mm.type # LOG_LOWER
  <2>1. min_addressable(mm) = IF b > DblMin THEN b ELSE DblMin
    BY <1>5 DEF min_addressable
  <2>2. (IF mm.type = LOG_LOWER THEN INT_MIN + 1 ELSE INT_MIN) * mm.log_gamma = b
    BY <1>5
  <2> HIDE DEF a, b, c, g
  <2>3. max_addressable(mm) \in Int /\ max_addressable(mm) <= a
    BY <1>1, <1>2, <1>3
  <2>4. min_addressable(mm) \in Int /\ b <= min_addressable(mm)
    BY <1>1, <1>2, <2>1
  <2> QED BY <2>2, <2>3, <2>4 DEF a, g
<1> QED BY <1>4, <1>5

LEMMA FitsAtFirst == Init => BidFits
<1> SUFFICES ASSUME Init, min <= v, v <= max PROVE bid \in INT_MIN .. INT_MAX
  BY DEF BidFits
<1>1. PICK c \in Cases, g0 \in InitialGammas :
        /\ m = NewMapping(c[1], g0) /\ v = c[2] /\ bid = BucketId(m, v)
        /\ min = min_addressable(m) /\ max = max_addressable(m)
  BY DEF Init
<1>2. m \in Mapping /\ v \in Int
  BY <1>1, CasesAssumption, GammasAssumption DEF NewMapping, Mapping
<1>3. INT_MIN \in Int /\ INT_MAX \in Nat /\ INT_MIN + 1 \in Int
  BY RangeAssumption DEF INT_MIN
<1> DEFINE lo == IF m.type = LOG_LOWER THEN INT_MIN + 1 ELSE INT_MIN
           g  == m.log_gamma
<1>4. lo \in Int /\ g \in Nat /\ lo * g \in Int /\ INT_MAX * g \in Int
  <2>1. lo \in Int /\ g \in Nat
    BY <1>2, <1>3 DEF Mapping
  <2> HIDE DEF lo, g
  <2> QED BY <1>3, <2>1
<1>5. lo * g <= v /\ v <= INT_MAX * g
  <2>1. /\ lo * g <= min /\ min \in Int
        /\ max <= INT_MAX * g /\ max \in Int
    BY <1>1, <1>2, RangeBounds
  <2> HIDE DEF lo, g
  <2> QED BY <1>2, <1>4, <2>1
<1>6. /\ BucketId(m, v) \in Int /\ BucketId(m, v) <= INT_MAX
      /\ m.type = LOG_LOWER => lo - 1 <= BucketId(m, v)
      /\ m.type # LOG_LOWER => lo <= BucketId(m, v)
  <2>1. lo * m.log_gamma <= v /\ v <= INT_MAX * m.log_gamma
    BY <1>5
  <2>2. lo \in Int /\ INT_MAX \in Int
    BY <1>3, <1>4
  <2> HIDE DEF lo, g
  <2> QED BY <1>2, <2>1, <2>2, IdBetween
<1>7. IF m.type = LOG_LOWER THEN lo - 1 = INT_MIN ELSE lo = INT_MIN
  BY <1>3
<1> HIDE DEF lo, g
<1> QED BY <1>1, <1>3, <1>4, <1>6, <1>7

\* Whatever the gamma to start from, numbers in the range of the first resolution
\* have ids that are ints, at that one and at all later ones.
THEOREM BidAlwaysFits == Spec => []BidFits
<1>1. BidFits /\ [Next]_vars => BidFits'
  <2> SUFFICES ASSUME BidFits, [Next]_vars PROVE BidFits'
    OBVIOUS
  <2>1. CASE CollapseAll
    BY <2>1, HalfFits DEF CollapseAll, BidFits, INT_MIN
  <2>2. CASE UNCHANGED vars
    BY <2>2 DEF vars, BidFits, INT_MIN
  <2> QED BY <2>1, <2>2 DEF Next
<1> QED BY <1>1, FitsAtFirst, PTL DEF Spec
===================================================================================
