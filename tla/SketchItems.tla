------------------------------- MODULE SketchItems -------------------------------
(***************************************************************************)
(* The items a sketch is fed, and the multiset of those that were inserted *)
(* and not removed since.  This is the vocabulary of the specifications:   *)
(* the program keeps counts per bucket and never sees the items again.     *)
(*                                                                         *)
(* An item stands for a floating-point number: its sign, and the logarithm *)
(* of its magnitude in the unit of BucketIdMapping.  Sign 0 is every       *)
(* number too small to be addressable, which the sketches count in their   *)
(* zero bucket.                                                            *)
(***************************************************************************)
EXTENDS Integers, FiniteSets

IsItem(x) == x.sign \in {-1, 0, 1} /\ x.log \in Int

\* The order of the numbers that x and y stand for
Before(x, y) ==
  \/ x.sign < y.sign
  \/ x.sign = y.sign /\ x.sign * x.log < y.sign * y.log

\* live[x] is the number of copies of x
Units(live, S) == UNION {{x} \X (1 .. live[x]) : x \in S}
Mass(live, S)  == Cardinality(Units(live, S))

\* A copy of x is at position r (from 0) of the sorted sequence of all items
IsAtRank(live, x, r) ==
  /\ Mass(live, {y \in DOMAIN live : Before(y, x)}) <= r
  /\ r < Mass(live, {y \in DOMAIN live : ~Before(x, y)})
================================================================================
