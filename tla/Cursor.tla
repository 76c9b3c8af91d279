---------------------------------- MODULE Cursor ----------------------------------
(***************************************************************************)
(* What the iterators of every kind of dictionary promise.  An iterator is *)
(* a position in the sequence of the dictionary's keys, from 1, or 0 when  *)
(* it stands nowhere; a call, with its argument, takes it to another.      *)
(***************************************************************************)
EXTENDS Integers, Sequences, FiniteSets

Steps    == {"invalidate", "first", "last", "next", "prev"} \X {0}
Strides  == {"nextn", "prevn"} \X {0, 2}
Searches == {"search", "search_le", "search_lt", "search_ge", "search_gt"}

MovedTo(keys, i, call, x) ==
  LET At(j)     == IF j \in DOMAIN keys THEN j ELSE 0
      Move(n)   == IF i = 0 THEN 0 ELSE At(i + n)
      below     == Cardinality({j \in DOMAIN keys : keys[j] < x})
      upto      == Cardinality({j \in DOMAIN keys : keys[j] <= x})
  IN  CASE call = "invalidate" -> 0
        [] call = "first"      -> At(1)
        [] call = "last"       -> Len(keys)
        [] call = "next"       -> Move(1)
        [] call = "prev"       -> Move(-1)
        [] call = "nextn"      -> Move(x)
        [] call = "prevn"      -> Move(-x)
        [] call = "search"     -> IF \E j \in DOMAIN keys : keys[j] = x
                                  THEN CHOOSE j \in DOMAIN keys : keys[j] = x ELSE 0
        [] call = "search_le"  -> upto
        [] call = "search_lt"  -> below
        [] call = "search_ge"  -> At(below + 1)
        [] call = "search_gt"  -> At(upto + 1)
===================================================================================
