-------------------------------- MODULE HashCommon --------------------------------
(***************************************************************************)
(* What the two hash tables of libdict share: their sizes                  *)
(* (libuddsketch/src/dict/hashtable_common.c), when they grow, and the     *)
(* hash values of the keys.                                                *)
(***************************************************************************)
EXTENDS Cursor, SequencesExt

CONSTANTS Keys,       \* the keys that callers use
          Addresses,  \* where a node may be allocated
          NULL,       \* no node, and an unset field
          kPrimes,    \* the sizes that a table may have
          HashFuncs,  \* the hash functions that a table may be made with
          MaxHash     \* the greatest hash value

ASSUME HashAssumption ==
  /\ kPrimes \subseteq Nat \ {0} /\ kPrimes # {} /\ IsFiniteSet(kPrimes)
  /\ MaxHash \in Nat \ {0}
  /\ HashFuncs \subseteq [Keys -> 0 .. MaxHash]
  /\ NULL \notin Int

Datum(k) == <<k>>

dict_prime_geq(n) ==
  IF \E p \in kPrimes : p >= n THEN Min({p \in kPrimes : p >= n}) ELSE Max(kPrimes)

\* The load factor, 2/3
LOADFACTOR_NUMERATOR   == 2
LOADFACTOR_DENOMINATOR == 3

MustGrow(t) == LOADFACTOR_DENOMINATOR * t.count >= LOADFACTOR_NUMERATOR * t.size
===================================================================================
