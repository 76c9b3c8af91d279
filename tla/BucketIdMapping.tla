---------------------------- MODULE BucketIdMapping ----------------------------
(***************************************************************************)
(* The mapping between item values and bucket ids                          *)
(* (libuddsketch/src/dds_bucket_id_mapping.c).                             *)
(*                                                                         *)
(* The code only ever looks at a positive value through its logarithm, and *)
(* at the accuracy through log_gamma.  Both are integers here, counted in  *)
(* a common unit (a grid of logarithms), so that the division the code     *)
(* rounds is exact: a value v stands for exp(v * unit) and log_gamma for   *)
(* log(gamma_value) / unit.  Squaring gamma_value doubles log_gamma.       *)
(***************************************************************************)
EXTENDS Integers

LOG_UPPER == "LOG_UPPER"
LOG_LOWER == "LOG_LOWER"
MappingType == {LOG_UPPER, LOG_LOWER}

Mapping == [type : MappingType, log_gamma : Nat \ {0}]

NewMapping(type, log_gamma) == [type |-> type, log_gamma |-> log_gamma]

\* pow(gamma_value, 2.0) handed to dds_bucket_id_mapping_update
SquareGamma(m) == [m EXCEPT !.log_gamma = 2 * @]

\* ceil(v / g) and floor(v / g) for an integer v and a positive integer g:
\* \div rounds towards minus infinity
CeilDiv(v, g)  == -((-v) \div g)
FloorDiv(v, g) == v \div g

\* A wrong BucketId, for mutation tests: rounds down under both mappings
BucketId_RoundsDown(m, v) == FloorDiv(v, m.log_gamma)

BucketId(m, v) ==
  IF m.type = LOG_LOWER
  THEN LET bid == FloorDiv(v, m.log_gamma)
       IN  IF bid >= 0 THEN bid ELSE bid - 1
  ELSE CeilDiv(v, m.log_gamma)

\* A wrong HalfBid, for mutation tests: rounds down under both mappings
HalfBid_RoundsDown(m, bid) == FloorDiv(bid, 2)

\* The bucket that the uniform collapse gives to the content of bucket bid
HalfBid(m, bid) ==
  IF m.type = LOG_UPPER THEN CeilDiv(bid, 2) ELSE FloorDiv(bid, 2)

\* dds_get_bucket_value(m, bid) is within relative distance alpha of the numbers
\* whose logarithm is between these two, and of no other: it is
\* 2 * gamma^k / (gamma + 1), where gamma^k is the upper end.
ValueLow(m, bid)  == m.log_gamma * (IF m.type = LOG_LOWER THEN bid ELSE bid - 1)
ValueHigh(m, bid) == ValueLow(m, bid) + m.log_gamma
================================================================================
