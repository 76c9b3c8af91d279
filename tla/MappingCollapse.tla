----------------------------- MODULE MappingCollapse -----------------------------
(***************************************************************************)
(* One item followed through uniform collapses: where its count is when    *)
(* collapse_impl has halved the ids of all buckets and the sketch has      *)
(* squared gamma, against where dds_get_bucket_id would look for the item  *)
(* under the new gamma (to add to it, or to remove it).                    *)
(***************************************************************************)
EXTENDS BucketIdMapping

CONSTANTS Cases,         \* pairs <<mapping type, logarithm of the item>>
          InitialGammas, \* the values of log_gamma to start from
          MaxGamma,      \* bound: log_gamma is not doubled beyond it
          INT_MAX,       \* the greatest int
          DblMin, DblMax \* the logarithms of the least and the greatest double

ASSUME CasesAssumption  == Cases \subseteq MappingType \X Int
ASSUME GammasAssumption == InitialGammas \subseteq Nat \ {0}
ASSUME RangeAssumption  == INT_MAX \in Nat /\ DblMin \in Int /\ DblMax \in Int

INT_MIN == -INT_MAX - 1

VARIABLES m,        \* the mapping
          v,        \* the logarithm of the item
          bid,      \* the bucket that holds its count
          min, max  \* the logarithms of the addressable range of the sketch

vars == <<m, v, bid, min, max>>

\* The numbers, as logarithms, that a sketch made with mapping mm may look up
min_addressable(mm) ==
  LET least == IF mm.type = LOG_LOWER THEN (INT_MIN + 1) * mm.log_gamma
                                      ELSE INT_MIN * mm.log_gamma
      dbl   == IF mm.type = LOG_LOWER THEN DblMin + mm.log_gamma ELSE DblMin
  IN  IF least > dbl THEN least ELSE dbl

\* A wrong max_addressable, for mutation tests: one bucket too many
max_addressable_Next(mm) ==
  LET greatest == (INT_MAX + 1) * mm.log_gamma
  IN  IF greatest < DblMax THEN greatest ELSE DblMax

max_addressable(mm) ==
  LET greatest == INT_MAX * mm.log_gamma
  IN  IF greatest < DblMax THEN greatest ELSE DblMax

\* The sketch keeps the range of its first mapping
Init == \E c \in Cases, g \in InitialGammas :
          /\ m = NewMapping(c[1], g)
          /\ v = c[2]
          /\ bid = BucketId(m, v)
          /\ min = min_addressable(m)
          /\ max = max_addressable(m)

CollapseAll == /\ 2 * m.log_gamma <= MaxGamma
               /\ bid' = HalfBid(m, bid)
               /\ m' = SquareGamma(m)
               /\ UNCHANGED <<v, min, max>>

Next == CollapseAll

Spec == Init /\ [][Next]_vars

\* The collapse moves the count of an item to the bucket where the sketch will
\* look for the item from then on.
CollapseAgrees == bid = BucketId(m, v)

\* The id of every number in the addressable range is an int, at every resolution,
\* although the range is that of the first one: no conversion in dds_get_bucket_id
\* overflows.
BidFits == min <= v /\ v <= max => bid \in INT_MIN .. INT_MAX

\* The value the sketch reports for the bucket of an item is within alpha of the
\* item (README: "alpha is the desired accuracy parameter").
ValueWithinAlpha == LET b == BucketId(m, v)
                    IN  ValueLow(m, b) <= v /\ v <= ValueHigh(m, b)
================================================================================
