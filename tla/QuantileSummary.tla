----------------------------- MODULE QuantileSummary -----------------------------
(***************************************************************************)
(* What a sketch promises its user, whatever the store behind it: a        *)
(* multiset of items that grows and shrinks, a resolution (log_gamma) that *)
(* may be given up only when the items need more buckets than allowed, and *)
(* answers to rank queries.                                                *)
(*                                                                         *)
(* An answer names a bucket: the numbers of one sign whose logarithm lies  *)
(* in ((bid - 1) * log_gamma, bid * log_gamma].  dds_get_bucket_value      *)
(* turns it into a number within relative distance alpha of all of them    *)
(* (Theorem BucketValueIsAccurate of Mapstore_proofs).                     *)
(***************************************************************************)
EXTENDS SketchItems, Mapstore

CONSTANTS Items,   \* the items that may be inserted
          Grain    \* the initial log_gamma

VARIABLES store_type,  \* the policy, and
          max_size,    \* the number of buckets allowed, chosen at creation
          live,        \* the multiset of items
          log_gamma,   \* the resolution
          answer       \* the answer of the last query

vars == <<store_type, max_size, live, log_gamma, answer>>

NoAnswer == [rank |-> -1, sign |-> 0, bid |-> 0, is_accurate |-> TRUE]

mapping == NewMapping(LOG_UPPER, log_gamma)

\* The bucket of item x at the present resolution
BucketOf(x) == [sign |-> x.sign,
                bid  |-> IF x.sign = 0 THEN 0 ELSE BucketId(mapping, x.log)]

Occupied == {BucketOf(x) : x \in {y \in Items : live[y] > 0 /\ y.sign # 0}}

\* Bucket b lies below bucket c, or is c
AtMost(b, c) ==
  \/ b.sign < c.sign
  \/ b.sign = c.sign /\ b.sign * b.bid <= c.sign * c.bid

\* If x is the item at the rank asked for: an answer flagged accurate is the
\* bucket of x.  Only the policies that merge at one end may answer otherwise:
\* one that merges the high buckets never overestimates, one that merges the
\* low buckets never underestimates.
Fits(a, x) ==
  LET b == [sign |-> a.sign, bid |-> a.bid]
  IN  /\ a.is_accurate => b = BucketOf(x)
      /\ store_type \in {UNBOUNDED_MAPSTORE, COLLAPSINGALL_MAPSTORE} => a.is_accurate
      /\ store_type = COLLAPSINGHIGH_MAPSTORE => AtMost(b, BucketOf(x))
      /\ store_type = COLLAPSINGLOW_MAPSTORE  => AtMost(BucketOf(x), b)

AnswerFits(a) == \A x \in Items : IsAtRank(live, x, a.rank) => Fits(a, x)

----------------------------------------------------------------------------
Init == /\ store_type \in StoreType
        /\ max_size \in Nat
        /\ live = [x \in Items |-> 0]
        /\ log_gamma = Grain
        /\ answer = NoAnswer

Insert == /\ \E x \in Items :
               \E c \in {live'[x] - live[x]} : c > 0 /\ live' = [live EXCEPT ![x] = @ + c]
          /\ answer' = NoAnswer
          /\ UNCHANGED <<store_type, max_size, log_gamma>>

Remove == /\ \E x \in Items :
               \E c \in 1 .. live[x] : live' = [live EXCEPT ![x] = @ - c]
          /\ answer' = NoAnswer
          /\ UNCHANGED <<store_type, max_size, log_gamma>>

\* Only the uniform collapse loses resolution, and only under pressure
Coarsen == /\ store_type = COLLAPSINGALL_MAPSTORE
           /\ Cardinality(Occupied) > max_size
           /\ log_gamma' = 2 * log_gamma
           /\ UNCHANGED <<store_type, max_size, live, answer>>

Forget == answer' = NoAnswer /\ UNCHANGED <<store_type, max_size, live, log_gamma>>

Reply == AnswerFits(answer') /\ UNCHANGED <<store_type, max_size, live, log_gamma>>

Next == Insert \/ Remove \/ Coarsen \/ Forget \/ Reply

Spec == Init /\ [][Next]_vars
================================================================================
