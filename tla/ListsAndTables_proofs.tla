--------------------------- MODULE ListsAndTables_proofs ---------------------------
(***************************************************************************)
(* Theorems about the hash table with open addressing, for every set of    *)
(* keys, of sizes and of hash functions.                                   *)
(***************************************************************************)
EXTENDS ListsAndTables, FiniteSetTheorems, FunctionTheorems, WellFoundedInduction, TLAPS

----------------------------------------------------------------------------
(* The table with open addressing *)

\* What a slot holds that is occupied
Entry(f, k) ==
  [hash |-> IF f[k] = 0 THEN MaxHash ELSE f[k], key |-> k, datum |-> Open!Datum(k)]

\* The tables of size n, whatever is in their slots
Slots(f, n) == [0 .. n - 1 -> {Open!FreeSlot} \cup {Entry(f, k) : k \in Keys}]
OpenTables(f, n) == [hash_func : {f}, size : {n}, count : Int, slot : Slots(f, n)]

Used(t)     == {i \in DOMAIN t.slot : t.slot[i].hash # 0}
Home(t, i)  == t.slot[i].hash % t.size
KeysOf(t)   == {t.slot[i].key : i \in Used(t)}

\* Probing from the slot first up to slot s, round the end if it is below, passes slot q.
Passes(first, s, q) == IF first <= s THEN first <= q /\ q < s ELSE first <= q \/ q < s

LEMMA ModIsSlot ==
  ASSUME NEW h \in Nat, NEW n \in Nat \ {0}
  PROVE  h % n \in 0 .. n - 1
  BY Z3

\* The slots one comes to in n steps are all the slots, and those of the first m steps are
\* those that are passed on the way to the next.
LEMMA SlotsInTurn ==
  ASSUME NEW t, t.size \in Nat \ {0}, NEW first \in 0 .. t.size - 1
  PROVE  /\ \A j \in 0 .. t.size - 1 : Open!SlotAfter(t, first, j) \in 0 .. t.size - 1
         /\ \A q \in 0 .. t.size - 1 : \E j \in 0 .. t.size - 1 : Open!SlotAfter(t, first, j) = q
         /\ \A i, j \in 0 .. t.size - 1 :
              j < i <=> Passes(first, Open!SlotAfter(t, first, i), Open!SlotAfter(t, first, j))
<1>1. PICK n \in Nat \ {0} : n = t.size
  OBVIOUS
<1>2. ASSUME NEW q \in 0 .. n - 1
      PROVE  \E j \in 0 .. n - 1 : Open!SlotAfter(t, first, j) = q
  <2>1. CASE first <= q
    <3>1. q - first \in 0 .. n - 1 /\ first + (q - first) = q
      BY <1>1, <2>1
    <3> QED BY <1>1, <3>1 DEF Open!SlotAfter
  <2>2. CASE q < first
    <3>1. /\ q + n - first \in 0 .. n - 1
          /\ ~(first + (q + n - first) < n)
          /\ first + (q + n - first) - n = q
      BY <1>1, <2>2
    <3> QED BY <1>1, <3>1 DEF Open!SlotAfter
  <2> QED BY <1>1, <2>1, <2>2
<1> QED BY <1>1, <1>2 DEF Open!SlotAfter, Passes

\* A set of numbers that is not empty has a least one.
LEMMA LeastNumber ==
  ASSUME NEW S \in SUBSET Nat, S # {}
  PROVE  \E m \in S : \A k \in S : m <= k
<1>1. PICK m \in S : \A k \in S : ~(<<k, m>> \in OpToRel(<, Nat))
  BY NatLessThanWellFounded, WFMin
<1>2. \A k \in S : ~(k < m)
  BY <1>1 DEF OpToRel
<1> QED BY <1>2

\* Where probing stops for the key k: at a slot that is free or holds it. 
Stops(t, i, k, h) == t.slot[i].hash = 0 \/ (t.slot[i].hash = h /\ t.slot[i].key = k)

\* Where probing ends: at the first such slot, unless there is none
LEMMA ProbeEnds ==
  ASSUME NEW t, t.size \in Nat \ {0}, NEW k, NEW h \in Nat, NEW p, p = Open!Probe(t, k, h)
  PROVE  \/ p = NULL /\ \A i \in 0 .. t.size - 1 : ~Stops(t, i, k, h)
         \/ /\ p \in 0 .. t.size - 1 /\ Stops(t, p, k, h)
            /\ \A q \in 0 .. t.size - 1 : Passes(h % t.size, p, q) => ~Stops(t, q, k, h)
<1> DEFINE f == h % t.size
           at(j) == Open!SlotAfter(t, f, j)
           E == {j \in 0 .. t.size - 1 : Stops(t, at(j), k, h)}
<1>1. f \in 0 .. t.size - 1
  BY ModIsSlot
<1>2. p = IF E = {} THEN NULL ELSE at(Open!Min(E))
  BY Zenon DEF Open!Probe, Stops
<1> HIDE DEF f
<1>3. CASE E = {}
  <2>1. ASSUME NEW i \in 0 .. t.size - 1 PROVE ~Stops(t, i, k, h)
    <3>1. PICK j \in 0 .. t.size - 1 : at(j) = i
      BY <1>1, SlotsInTurn
    <3> QED BY <1>3, <3>1
  <2> QED BY <1>2, <1>3, <2>1
<1>4. CASE E # {}
  <2>1. Open!Min(E) \in E /\ \A j \in E : Open!Min(E) <= j
    <3>1. \A x \in E : x \in Nat
      BY <1>1
    <3>2. \E x \in E : \A y \in E : x <= y
      <4>1. E \in SUBSET Nat
        BY <3>1
      <4> HIDE DEF E
      <4> QED BY <4>1, <1>4, LeastNumber
    <3> HIDE DEF E
    <3> QED BY <3>2, Zenon DEF Open!Min
  <2>2. p = at(Open!Min(E)) /\ p \in 0 .. t.size - 1 /\ Stops(t, p, k, h)
    <3>1. PICK m \in 0 .. t.size - 1 : m = Open!Min(E)
      BY <2>1
    <3>2. p = at(m) /\ m \in E
      BY <1>2, <1>4, <2>1, <3>1
    <3>3. at(m) \in 0 .. t.size - 1 /\ Stops(t, at(m), k, h)
      BY <1>1, <3>1, <3>2, SlotsInTurn
    <3> QED BY <3>1, <3>2, <3>3
  <2>3. ASSUME NEW q \in 0 .. t.size - 1, Passes(f, p, q) PROVE ~Stops(t, q, k, h)
    <3>1. PICK j \in 0 .. t.size - 1 : at(j) = q
      BY <1>1, SlotsInTurn
    <3>2. j < Open!Min(E)
      BY <1>1, <2>1, <2>2, <2>3, <3>1, SlotsInTurn
    <3> QED BY <2>1, <3>1, <3>2
  <2> QED BY <2>2, <2>3 DEF f
<1> QED BY <1>3, <1>4

----------------------------------------------------------------------------
(* What is in the slots *)

LEMMA EntryIs ==
  ASSUME NEW f \in HashFuncs, NEW k \in Keys
  PROVE  /\ Entry(f, k).hash \in 1 .. MaxHash /\ Entry(f, k).hash \in Nat \ {0}
         /\ Entry(f, k).hash = Open!nonzero_hash([hash_func |-> f], k)
         /\ Entry(f, k).key = k /\ Entry(f, k).datum = Open!Datum(k)
         /\ Open!FreeSlot.hash = 0
<1>1. f[k] \in 0 .. MaxHash /\ MaxHash \in Nat \ {0}
  BY HashAssumption
<1> QED BY <1>1 DEF Entry, Open!FreeSlot, Open!nonzero_hash

LEMMA SlotsAre ==
  ASSUME NEW f \in HashFuncs, NEW n \in kPrimes, NEW t \in OpenTables(f, n)
  PROVE  /\ n \in Nat \ {0} /\ t.size = n /\ t.hash_func = f
         /\ DOMAIN t.slot = 0 .. n - 1 /\ t.count \in Int
         /\ Used(t) \subseteq 0 .. n - 1 /\ IsFiniteSet(Used(t))
         /\ \A i \in 0 .. n - 1 : i \notin Used(t) => t.slot[i] = Open!FreeSlot
         /\ \A i \in Used(t) : /\ t.slot[i].key \in Keys
                               /\ t.slot[i] = Entry(f, t.slot[i].key)
                               /\ t.slot[i].hash \in 1 .. MaxHash
                               /\ Home(t, i) \in 0 .. n - 1
<1>1. n \in Nat \ {0} /\ MaxHash \in Nat \ {0}
  BY HashAssumption
<1>2. /\ t.size = n /\ t.hash_func = f /\ t.count \in Int
      /\ t.slot \in Slots(f, n)
  BY DEF OpenTables
<1>3. DOMAIN t.slot = 0 .. n - 1
  BY <1>2 DEF Slots
<1>4. \A i \in 0 .. n - 1 : t.slot[i] = Open!FreeSlot \/ \E k \in Keys : t.slot[i] = Entry(f, k)
  BY <1>2 DEF Slots
<1>5. Used(t) \subseteq 0 .. n - 1
  BY <1>3 DEF Used
<1>6. IsFiniteSet(Used(t))
  <2>1. IsFiniteSet(0 .. n - 1)
    BY <1>1, FS_Interval
  <2> QED BY <1>5, <2>1, FS_Subset
<1>7. ASSUME NEW i \in 0 .. n - 1, i \notin Used(t) PROVE t.slot[i] = Open!FreeSlot
  <2>1. t.slot[i].hash = 0
    BY <1>3, <1>7 DEF Used
  <2>2. ASSUME NEW k \in Keys, t.slot[i] = Entry(f, k) PROVE FALSE
    BY <2>1, <2>2, EntryIs
  <2> QED BY <1>4, <2>2
<1>8. ASSUME NEW i \in Used(t)
      PROVE  /\ t.slot[i].key \in Keys
             /\ t.slot[i] = Entry(f, t.slot[i].key)
             /\ t.slot[i].hash \in 1 .. MaxHash
             /\ Home(t, i) \in 0 .. n - 1
  <2>1. i \in 0 .. n - 1 /\ t.slot[i].hash # 0
    BY <1>5 DEF Used
  <2>2. t.slot[i] # Open!FreeSlot
    BY <2>1 DEF Open!FreeSlot
  <2>3. PICK k \in Keys : t.slot[i] = Entry(f, k)
    BY <1>4, <2>1, <2>2
  <2>4. t.slot[i].hash \in 1 .. MaxHash /\ t.slot[i].key = k
    <3>1. Entry(f, k).hash \in 1 .. MaxHash /\ Entry(f, k).key = k
      BY EntryIs
    <3> QED BY <2>3, <3>1
  <2>5. t.slot[i].hash \in Nat
    BY <1>1, <2>4
  <2> QED BY <1>1, <1>2, <2>3, <2>4, <2>5, ModIsSlot DEF Home
<1> QED BY <1>1, <1>2, <1>3, <1>5, <1>6, <1>7, <1>8

\* Emptying a slot
Freed(t, s) == [t EXCEPT !.slot[s] = Open!FreeSlot]

LEMMA FreedIs ==
  ASSUME NEW f \in HashFuncs, NEW n \in kPrimes, NEW t \in OpenTables(f, n), NEW s \in Used(t),
         NEW v, v = Freed(t, s)
  PROVE  /\ v \in OpenTables(f, n) /\ v.count = t.count
         /\ Used(v) = Used(t) \ {s}
         /\ \A i \in Used(v) : v.slot[i] = t.slot[i] /\ Home(v, i) = Home(t, i)
         /\ \A i \in 0 .. n - 1 : i # s => v.slot[i] = t.slot[i]
         /\ v.slot[s].hash = 0
<1>1. /\ t.size = n /\ DOMAIN t.slot = 0 .. n - 1 /\ s \in 0 .. n - 1
      /\ Used(t) \subseteq 0 .. n - 1 /\ t.slot \in Slots(f, n) /\ Open!FreeSlot.hash = 0
  BY SlotsAre DEF OpenTables, Open!FreeSlot
<1>2. v = [hash_func |-> t.hash_func, size |-> t.size, count |-> t.count,
           slot |-> [t.slot EXCEPT ![s] = Open!FreeSlot]]
  BY DEF OpenTables, Freed
<1>3. v.slot \in Slots(f, n) /\ v.size = n /\ v.count = t.count
  BY <1>1, <1>2 DEF Slots
<1>4. v \in OpenTables(f, n)
  BY <1>2, <1>3 DEF OpenTables
<1>5. /\ DOMAIN v.slot = 0 .. n - 1 /\ v.slot[s].hash = 0
      /\ \A i \in 0 .. n - 1 : i # s => v.slot[i] = t.slot[i]
  <2>1. v.slot = [t.slot EXCEPT ![s] = Open!FreeSlot]
    BY <1>2
  <2> QED BY <1>1, <2>1, Zenon
<1>6. Used(v) = Used(t) \ {s}
  BY <1>1, <1>5 DEF Used
<1> QED BY <1>1, <1>3, <1>4, <1>5, <1>6 DEF Home

\* Filling one
LEMMA StoredIs ==
  ASSUME NEW f \in HashFuncs, NEW n \in kPrimes, NEW t \in OpenTables(f, n), NEW k \in Keys,
         NEW p \in 0 .. n - 1, p \notin Used(t), p = Open!Probe(t, k, Entry(f, k).hash),
         NEW v, v = Open!Stored(t, k, Entry(f, k).hash, Open!Datum(k))
  PROVE  /\ v \in OpenTables(f, n) /\ v.count = t.count
         /\ v.slot[p] = Entry(f, k) /\ Home(v, p) = Entry(f, k).hash % n
         /\ Used(v) = Used(t) \cup {p} /\ KeysOf(v) = KeysOf(t) \cup {k}
         /\ \A i \in Used(t) : v.slot[i] = t.slot[i] /\ Home(v, i) = Home(t, i)
<1>1. /\ t.size = n /\ DOMAIN t.slot = 0 .. n - 1
      /\ Used(t) \subseteq 0 .. n - 1 /\ t.slot \in Slots(f, n)
      /\ Entry(f, k).hash # 0 /\ Entry(f, k).key = k
  <2>1. t.size = n /\ DOMAIN t.slot = 0 .. n - 1 /\ Used(t) \subseteq 0 .. n - 1
    BY SlotsAre
  <2>2. t.slot \in Slots(f, n)
    BY DEF OpenTables
  <2> QED BY <2>1, <2>2, EntryIs
<1>2. v = [hash_func |-> t.hash_func, size |-> t.size, count |-> t.count,
           slot |-> [t.slot EXCEPT ![p] = Entry(f, k)]]
  BY DEF OpenTables, Open!Stored, Entry
<1>3. v.slot \in Slots(f, n) /\ v.size = n /\ v.count = t.count
  BY <1>1, <1>2 DEF Slots
<1>4. v \in OpenTables(f, n)
  BY <1>2, <1>3 DEF OpenTables
<1>5. /\ DOMAIN v.slot = 0 .. n - 1 /\ v.slot[p] = Entry(f, k)
      /\ \A i \in 0 .. n - 1 : i # p => v.slot[i] = t.slot[i]
  <2>1. v.slot = [t.slot EXCEPT ![p] = Entry(f, k)]
    BY <1>2
  <2> QED BY <1>1, <2>1, Zenon
<1>6. Used(v) = Used(t) \cup {p}
  BY <1>1, <1>5 DEF Used
<1>7. \A i \in Used(t) : v.slot[i] = t.slot[i] /\ Home(v, i) = Home(t, i)
  BY <1>1, <1>3, <1>5 DEF Home
<1>8. KeysOf(v) = KeysOf(t) \cup {k}
  BY <1>1, <1>5, <1>6, <1>7 DEF KeysOf
<1> QED BY <1>1, <1>3, <1>4, <1>5, <1>6, <1>7, <1>8 DEF Home

----------------------------------------------------------------------------
(* Every key can be reached by probing, and some slot is passed by no key. *)
(* (A slot that is free is such a slot; in a full table it is one that was *)
(* filled last.)  Seen from the slot after that one no key is before its   *)
(* first slot, which is why a removal may stop where it does.              *)

OneSlotEach(t) == \A i, j \in Used(t) : t.slot[i].key = t.slot[j].key => i = j

Reached(t, i) == \A q \in 0 .. t.size - 1 : Passes(Home(t, i), i, q) => q \in Used(t)

Uncrossed(t, l) == \A i \in Used(t) : ~Passes(Home(t, i), i, l)

AllReached(t) ==
  /\ OneSlotEach(t)
  /\ \A i \in Used(t) : Reached(t, i)
  /\ \E l \in 0 .. t.size - 1 : Uncrossed(t, l)

\* The place of slot s in the order that begins after slot l
PlaceFrom(n, l, s) == IF s > l THEN s - l - 1 ELSE s + n - l - 1

LEMMA PlacesInOrder ==
  ASSUME NEW n \in Nat \ {0}, NEW l \in 0 .. n - 1, NEW first \in 0 .. n - 1, NEW s \in 0 .. n - 1,
         ~Passes(first, s, l)
  PROVE  /\ PlaceFrom(n, l, first) <= PlaceFrom(n, l, s)
         /\ \A q \in 0 .. n - 1 :
              Passes(first, s, q) <=> /\ PlaceFrom(n, l, first) <= PlaceFrom(n, l, q)
                                      /\ PlaceFrom(n, l, q) < PlaceFrom(n, l, s)
BY DEF Passes, PlaceFrom

LEMMA PlacesDiffer ==
  ASSUME NEW n \in Nat \ {0}, NEW l \in 0 .. n - 1
  PROVE  /\ \A s \in 0 .. n - 1 : PlaceFrom(n, l, s) \in 0 .. n - 1
         /\ \A s, r \in 0 .. n - 1 : PlaceFrom(n, l, s) = PlaceFrom(n, l, r) => s = r
BY DEF PlaceFrom

LEMMA OneIsPassed ==
  ASSUME NEW n \in Nat, NEW first \in 0 .. n - 1, NEW s \in 0 .. n - 1, NEW p \in 0 .. n - 1
  PROVE  /\ s = p \/ Passes(first, s, p) \/ Passes(first, p, s)
         /\ ~Passes(first, s, s)
         /\ \A q \in 0 .. n - 1 : Passes(first, s, p) /\ Passes(first, p, q) => Passes(first, s, q)
BY DEF Passes

\* A key that can be reached is found where it is, and one that is not there is not found.
LEMMA ProbeFindsKey ==
  ASSUME NEW f \in HashFuncs, NEW n \in kPrimes, NEW t \in OpenTables(f, n), OneSlotEach(t),
         NEW i \in Used(t), Reached(t, i)
  PROVE  Open!Probe(t, t.slot[i].key, t.slot[i].hash) = i
<1> DEFINE k == t.slot[i].key
           h == t.slot[i].hash
           p == Open!Probe(t, k, h)
<1>1. /\ n \in Nat \ {0} /\ t.size = n /\ DOMAIN t.slot = 0 .. n - 1 /\ i \in 0 .. n - 1
      /\ h \in 1 .. MaxHash /\ MaxHash \in Nat /\ Home(t, i) \in 0 .. n - 1 /\ Home(t, i) = h % n
  BY SlotsAre, HashAssumption DEF Home
<1>2. Stops(t, i, k, h)
  BY DEF Stops
<1>3. \/ p = NULL /\ \A j \in 0 .. n - 1 : ~Stops(t, j, k, h)
      \/ /\ p \in 0 .. n - 1 /\ Stops(t, p, k, h)
         /\ \A q \in 0 .. n - 1 : Passes(Home(t, i), p, q) => ~Stops(t, q, k, h)
  <2>1. h \in Nat /\ p = Open!Probe(t, k, h)
    BY <1>1
  <2> HIDE DEF h, k, p
  <2> QED BY <1>1, <2>1, ProbeEnds
<1> HIDE DEF h, k, p
<1>4. p \in 0 .. n - 1 /\ Stops(t, p, k, h) /\ ~Passes(Home(t, i), p, i)
  BY <1>1, <1>2, <1>3
<1>5. CASE Passes(Home(t, i), i, p)
  <2>1. p \in Used(t)
    BY <1>1, <1>4, <1>5 DEF Reached
  <2>2. t.slot[p].key = k
    BY <1>4, <2>1 DEF Stops, Used
  <2> QED BY <2>1, <2>2 DEF OneSlotEach, k, p, h
<1> QED BY <1>1, <1>4, <1>5, OneIsPassed DEF p, k, h

LEMMA ProbeOfAbsent ==
  ASSUME NEW f \in HashFuncs, NEW n \in kPrimes, NEW t \in OpenTables(f, n),
         NEW k \in Keys, k \notin KeysOf(t), NEW p, p = Open!Probe(t, k, Entry(f, k).hash)
  PROVE  \/ p = NULL /\ Used(t) = 0 .. n - 1
         \/ /\ p \in 0 .. n - 1 /\ p \notin Used(t)
            /\ \A q \in 0 .. n - 1 : Passes(Entry(f, k).hash % n, p, q) => q \in Used(t)
<1>1. /\ n \in Nat \ {0} /\ t.size = n /\ DOMAIN t.slot = 0 .. n - 1 /\ Used(t) \subseteq 0 .. n - 1
  BY SlotsAre
<1>2. PICK h \in Nat : h = Entry(f, k).hash
  BY EntryIs
<1>3. \A j \in 0 .. n - 1 : Stops(t, j, k, h) <=> j \notin Used(t)
  BY <1>1 DEF Stops, Used, KeysOf
<1>4. \/ p = NULL /\ \A i \in 0 .. n - 1 : ~Stops(t, i, k, h)
      \/ /\ p \in 0 .. n - 1 /\ Stops(t, p, k, h)
         /\ \A q \in 0 .. n - 1 : Passes(h % n, p, q) => ~Stops(t, q, k, h)
  BY <1>1, <1>2, ProbeEnds
<1> QED BY <1>1, <1>2, <1>3, <1>4

----------------------------------------------------------------------------
(* Removal *)

\* A node that can be reached goes back to where it was.
LEMMA ReinsertedStays ==
  ASSUME NEW f \in HashFuncs, NEW n \in kPrimes, NEW t \in OpenTables(f, n), OneSlotEach(t),
         NEW i \in Used(t), Reached(t, i)
  PROVE  Open!Reinserted(t, i) = t
<1> DEFINE v == Freed(t, i)
           k == t.slot[i].key
           h == t.slot[i].hash
           p == Open!Probe(v, k, h)
<1>1. /\ n \in Nat \ {0} /\ t.size = n /\ DOMAIN t.slot = 0 .. n - 1 /\ i \in 0 .. n - 1
      /\ k \in Keys /\ t.slot[i] = Entry(f, k) /\ h = Entry(f, k).hash
      /\ Home(t, i) \in 0 .. n - 1 /\ Home(t, i) = h % n /\ h \in Nat
  <2>1. t.slot[i] = Entry(f, k) /\ k \in Keys
    BY SlotsAre
  <2>2. h \in Nat
    BY <2>1, EntryIs
  <2> QED BY <2>1, <2>2, SlotsAre DEF Home
<1>2. /\ v \in OpenTables(f, n) /\ v.size = n
      /\ Used(v) = Used(t) \ {i}
      /\ \A j \in Used(v) : v.slot[j] = t.slot[j]
      /\ v.slot[i].hash = 0
  <2>1. v \in OpenTables(f, n) => v.size = n
    BY SlotsAre
  <2> QED BY <2>1, FreedIs
<1> HIDE DEF v
<1>3. k \notin KeysOf(v)
  BY <1>2 DEF KeysOf, OneSlotEach
<1>4. \/ p = NULL /\ Used(v) = 0 .. n - 1
      \/ /\ p \in 0 .. n - 1 /\ p \notin Used(v)
         /\ \A q \in 0 .. n - 1 : Passes(Home(t, i), p, q) => q \in Used(v)
  <2> HIDE DEF k, h
  <2> QED BY <1>1, <1>2, <1>3, ProbeOfAbsent
<1>5. p = i
  <2>1. p \in 0 .. n - 1 /\ ~Passes(Home(t, i), p, i)
    BY <1>1, <1>2, <1>4
  <2>2. ASSUME Passes(Home(t, i), i, p) PROVE p = i
    BY <1>1, <1>2, <1>4, <2>1, <2>2 DEF Reached
  <2> QED BY <1>1, <2>1, <2>2, OneIsPassed
<1>6. Open!Reinserted(t, i) = Open!Stored(v, k, h, t.slot[i].datum)
  BY Zenon DEF Open!Reinserted, Freed, v, k, h
<1>7. t.slot[i].datum = Open!Datum(k) /\ t.slot[i] = [hash |-> h, key |-> k, datum |-> Open!Datum(k)]
  BY <1>1 DEF Entry
<1>8. Open!Stored(v, k, h, t.slot[i].datum) = [v EXCEPT !.slot[i] = t.slot[i]]
  BY <1>5, <1>7, Zenon DEF Open!Stored, p
<1>9. [v EXCEPT !.slot[i] = t.slot[i]] = t
  <2>1. /\ t = [hash_func |-> t.hash_func, size |-> t.size, count |-> t.count, slot |-> t.slot]
        /\ \E S : t.slot \in [0 .. n - 1 -> S]
    BY DEF OpenTables, Slots
  <2>2. v = [hash_func |-> t.hash_func, size |-> t.size, count |-> t.count,
             slot |-> [t.slot EXCEPT ![i] = Open!FreeSlot]]
    BY <2>1 DEF v, Freed
  <2>3. [v EXCEPT !.slot[i] = t.slot[i]]
          = [hash_func |-> t.hash_func, size |-> t.size, count |-> t.count,
             slot |-> [[t.slot EXCEPT ![i] = Open!FreeSlot] EXCEPT ![i] = t.slot[i]]]
    BY <2>2
  <2>4. [[t.slot EXCEPT ![i] = Open!FreeSlot] EXCEPT ![i] = t.slot[i]] = t.slot
    BY <1>1, <2>1
  <2> QED BY <2>1, <2>3, <2>4
<1> QED BY <1>6, <1>8, <1>9

\* While a removal goes on: the keys that are not yet looked at, from place x on in the
\* order that begins after slot l, may be beyond the slot q that was emptied.
Mending(t, l, q, x) ==
  /\ OneSlotEach(t) /\ Uncrossed(t, l)
  /\ q \notin Used(t) /\ PlaceFrom(t.size, l, q) < x
  /\ \A i \in Used(t), r \in 0 .. t.size - 1 :
       Passes(Home(t, i), i, r) => \/ r \in Used(t)
                                   \/ r = q /\ x <= PlaceFrom(t.size, l, i)

\* A free slot at place x, or the end of the order, leaves nothing to be done.
LEMMA MendedThere ==
  ASSUME NEW f \in HashFuncs, NEW n \in kPrimes, NEW t \in OpenTables(f, n),
         NEW l \in 0 .. n - 1, NEW q \in 0 .. n - 1, NEW x \in 1 .. n, Mending(t, l, q, x),
         \A s \in 0 .. n - 1 : PlaceFrom(n, l, s) = x => s \notin Used(t)
  PROVE  AllReached(t)
<1>1. /\ n \in Nat \ {0} /\ t.size = n /\ Used(t) \subseteq 0 .. n - 1
      /\ \A i \in Used(t) : Home(t, i) \in 0 .. n - 1
  BY SlotsAre
<1>2. ASSUME NEW i \in Used(t), NEW r \in 0 .. n - 1, Passes(Home(t, i), i, r), r \notin Used(t)
      PROVE  FALSE
  <2>1. r = q /\ x <= PlaceFrom(n, l, i)
    BY <1>1, <1>2 DEF Mending
  <2>2. x < PlaceFrom(n, l, i) /\ PlaceFrom(n, l, i) \in 0 .. n - 1
    BY <1>1, <2>1, PlacesDiffer
  <2>3. PICK s \in 0 .. n - 1 : PlaceFrom(n, l, s) = x
    <3>1. CASE l + 1 + x < n
      <4>1. l + 1 + x \in 0 .. n - 1 /\ PlaceFrom(n, l, l + 1 + x) = x
        BY <1>1, <3>1 DEF PlaceFrom
      <4> QED BY <4>1
    <3>2. CASE ~(l + 1 + x < n)
      <4>1. l + 1 + x - n \in 0 .. n - 1 /\ PlaceFrom(n, l, l + 1 + x - n) = x
        BY <1>1, <2>2, <3>2 DEF PlaceFrom
      <4> QED BY <4>1
    <3> QED BY <3>1, <3>2
  <2>4. ~Passes(Home(t, i), i, l)
    BY DEF Mending, Uncrossed
  <2>5. PlaceFrom(n, l, Home(t, i)) <= PlaceFrom(n, l, q)
    BY <1>1, <1>2, <2>1, <2>4, PlacesInOrder
  <2>6. PlaceFrom(n, l, q) < x /\ PlaceFrom(n, l, q) \in Int /\ PlaceFrom(n, l, Home(t, i)) \in Int
    BY <1>1, PlacesDiffer DEF Mending
  <2>7. PlaceFrom(n, l, Home(t, i)) <= PlaceFrom(n, l, s)
    BY <2>3, <2>5, <2>6
  <2>8. Passes(Home(t, i), i, s)
    BY <1>1, <2>2, <2>3, <2>4, <2>7, PlacesInOrder
  <2>9. s = q
    BY <1>1, <2>3, <2>8 DEF Mending
  <2> QED BY <2>3, <2>6, <2>9
<1> QED BY <1>1, <1>2 DEF AllReached, Reached, Mending


\* A pass of the loop: the node at place x goes where it belongs, which is the slot that
\* was emptied if it was beyond it, and the place where it was becomes the empty one.
LEMMA ReinsertedMends ==
  ASSUME NEW f \in HashFuncs, NEW n \in kPrimes, NEW t \in OpenTables(f, n),
         NEW l \in 0 .. n - 1, NEW q \in 0 .. n - 1, NEW s \in Used(t), NEW x,
         x = PlaceFrom(n, l, s), Mending(t, l, q, x), NEW u, u = Open!Reinserted(t, s)
  PROVE  /\ u \in OpenTables(f, n) /\ u.count = t.count
         /\ KeysOf(u) = KeysOf(t) /\ Cardinality(Used(u)) = Cardinality(Used(t))
         /\ \E r \in 0 .. n - 1 : Mending(u, l, r, x + 1)
<1> DEFINE v == Freed(t, s)
           k == t.slot[s].key
           h == t.slot[s].hash
           p == Open!Probe(v, k, h)
           first == Home(t, s)
<1>1. /\ n \in Nat \ {0} /\ t.size = n /\ DOMAIN t.slot = 0 .. n - 1 /\ s \in 0 .. n - 1
      /\ Used(t) \subseteq 0 .. n - 1 /\ IsFiniteSet(Used(t))
      /\ k \in Keys /\ t.slot[s] = Entry(f, k) /\ h = Entry(f, k).hash
      /\ first \in 0 .. n - 1 /\ first = h % n
      /\ \A i \in Used(t) : Home(t, i) \in 0 .. n - 1
  BY SlotsAre DEF Home
<1>2. /\ v \in OpenTables(f, n) /\ v.size = n /\ v.count = t.count
      /\ Used(v) = Used(t) \ {s}
      /\ \A j \in Used(v) : v.slot[j] = t.slot[j] /\ Home(v, j) = Home(t, j)
      /\ v.slot[s].hash = 0
  <2>1. v \in OpenTables(f, n) => v.size = n
    BY SlotsAre
  <2> QED BY <2>1, FreedIs
<1> HIDE DEF v
<1>3. k \notin KeysOf(v)
  BY <1>2 DEF KeysOf, OneSlotEach, Mending
<1>4. \/ p = NULL /\ Used(v) = 0 .. n - 1
      \/ /\ p \in 0 .. n - 1 /\ p \notin Used(v)
         /\ \A r \in 0 .. n - 1 : Passes(first, p, r) => r \in Used(v)
  <2> HIDE DEF k, h, first
  <2> QED BY <1>1, <1>2, <1>3, ProbeOfAbsent
<1>5. p \in 0 .. n - 1 /\ p \notin Used(v) /\ ~Passes(first, p, s)
  BY <1>1, <1>2, <1>4
<1>6. p = s \/ (p = q /\ Passes(first, s, p))
  <2>1. ASSUME Passes(first, s, p), p # s PROVE p = q
    <3>1. p \notin Used(t)
      BY <1>2, <1>5, <2>1
    <3> QED BY <1>1, <1>5, <2>1, <3>1 DEF Mending
  <2> QED BY <1>1, <1>5, <2>1, OneIsPassed
<1>7. u = Open!Stored(v, k, h, Open!Datum(k))
  <2>1. t.slot[s].datum = Open!Datum(k)
    BY <1>1, EntryIs
  <2>2. u = Open!Stored(v, k, h, t.slot[s].datum)
    BY Zenon DEF Open!Reinserted, Freed, v, k, h
  <2> QED BY <2>1, <2>2
<1> HIDE DEF k, h, p, first
<1>8. /\ u \in OpenTables(f, n) /\ u.count = t.count
      /\ u.slot[p] = Entry(f, k) /\ Home(u, p) = first
      /\ Used(u) = Used(v) \cup {p} /\ KeysOf(u) = KeysOf(v) \cup {k}
      /\ \A i \in Used(v) : u.slot[i] = t.slot[i] /\ Home(u, i) = Home(t, i)
  <2>1. p = Open!Probe(v, k, Entry(f, k).hash) /\ u = Open!Stored(v, k, Entry(f, k).hash, Open!Datum(k))
    BY <1>1, <1>7 DEF p
  <2> QED BY <1>1, <1>2, <1>5, <2>1, StoredIs
<1>9. KeysOf(u) = KeysOf(t)
  <2>1. KeysOf(v) = {t.slot[j].key : j \in Used(v)}
    BY <1>2 DEF KeysOf
  <2>2. KeysOf(t) = KeysOf(v) \cup {k}
    BY <1>2, <2>1 DEF KeysOf, k
  <2> QED BY <1>8, <2>2
<1>10. Cardinality(Used(u)) = Cardinality(Used(t))
  <2>1. IsFiniteSet(Used(v))
    BY <1>1, <1>2, FS_Subset
  <2>2. Cardinality(Used(v) \cup {p}) = Cardinality(Used(v)) + 1
    BY <1>5, <2>1, FS_AddElement
  <2>3. Cardinality(Used(v) \cup {s}) = Cardinality(Used(v)) + 1
    BY <1>2, <2>1, FS_AddElement
  <2>4. Used(v) \cup {s} = Used(t)
    BY <1>2
  <2> QED BY <1>8, <2>2, <2>3, <2>4
<1>11. u.size = n
  BY <1>8, SlotsAre
<1>12. OneSlotEach(u)
  <2>1. u.slot[p].key = k
    <3>1. Entry(f, k).key = k
      BY <1>1, EntryIs
    <3> QED BY <1>8, <3>1
  <2>2. \A i \in Used(v) : u.slot[i].key \in KeysOf(v) /\ u.slot[i].key = t.slot[i].key
    BY <1>2, <1>8 DEF KeysOf
  <2> QED BY <1>2, <1>3, <1>8, <2>1, <2>2 DEF OneSlotEach, Mending
<1>13. x \in 0 .. n - 1 /\ \A i \in 0 .. n - 1 : PlaceFrom(n, l, i) \in 0 .. n - 1
  BY <1>1, PlacesDiffer
<1>14. CASE p = s
  <2>1. Used(u) = Used(t) /\ \A i \in Used(t) : Home(u, i) = Home(t, i)
    BY <1>2, <1>8, <1>14 DEF first
  <2>2. Uncrossed(u, l)
    BY <2>1 DEF Uncrossed, Mending
  <2>3. q \notin Used(u) /\ PlaceFrom(n, l, q) < x + 1
    BY <1>1, <1>13, <2>1 DEF Mending
  <2>4. ASSUME NEW i \in Used(u), NEW r \in 0 .. n - 1, Passes(Home(u, i), i, r), r \notin Used(u)
        PROVE  r = q /\ x + 1 <= PlaceFrom(n, l, i)
    <3>1. r = q /\ x <= PlaceFrom(n, l, i)
      BY <1>1, <2>1, <2>4 DEF Mending
    <3>2. i # s
      BY <1>2, <1>4, <1>14, <2>1, <2>4, <1>5 DEF first
    <3>3. i \in 0 .. n - 1 /\ PlaceFrom(n, l, i) # x
      BY <1>1, <2>1, <3>2, PlacesDiffer
    <3>4. PICK y \in 0 .. n - 1 : y = PlaceFrom(n, l, i)
      BY <1>13, <3>3
    <3>5. PICK z \in 0 .. n - 1 : z = x
      BY <1>13
    <3>6. z <= y /\ y # z
      BY <3>1, <3>3, <3>4, <3>5
    <3>7. z + 1 <= y
      BY <1>1, <3>6
    <3> QED BY <3>1, <3>4, <3>5, <3>7
  <2>5. Mending(u, l, q, x + 1)
    BY <1>11, <1>12, <2>2, <2>3, <2>4 DEF Mending
  <2> QED BY <1>8, <1>9, <1>10, <2>5
<1>15. CASE p = q /\ p # s /\ Passes(first, s, p)
  <2>1. Used(u) = (Used(t) \ {s}) \cup {q} /\ q \notin Used(t)
    BY <1>2, <1>8, <1>15 DEF Mending
  <2>2. ~Passes(first, s, l)
    BY DEF Mending, Uncrossed, first
  <2>3. Uncrossed(u, l)
    <3>1. ~Passes(first, q, l)
      BY <1>1, <1>15, <2>2, OneIsPassed
    <3>2. \A i \in Used(v) : ~Passes(Home(u, i), i, l)
      BY <1>2, <1>8 DEF Mending, Uncrossed
    <3> QED BY <1>8, <1>15, <3>1, <3>2 DEF Uncrossed
  <2>4. s \notin Used(u) /\ PlaceFrom(n, l, s) < x + 1
    BY <1>1, <1>13, <1>15, <2>1
  <2>5. ASSUME NEW i \in Used(u), NEW r \in 0 .. n - 1, Passes(Home(u, i), i, r), r \notin Used(u)
        PROVE  r = s /\ x + 1 <= PlaceFrom(n, l, i)
    <3>1. i # q
      BY <1>4, <1>5, <1>8, <1>15, <2>5
    <3>2. i \in Used(v) /\ i \in Used(t) /\ Home(u, i) = Home(t, i)
      BY <1>2, <1>8, <1>15, <2>1, <3>1
    <3>3. r = s
      BY <1>1, <2>1, <2>5, <3>2 DEF Mending
    <3>4. ~Passes(Home(t, i), i, l) /\ Passes(Home(t, i), i, s)
      BY <2>5, <3>2, <3>3 DEF Mending, Uncrossed
    <3>5. x < PlaceFrom(n, l, i)
      BY <1>1, <3>2, <3>4, PlacesInOrder
    <3> QED BY <1>1, <1>13, <3>2, <3>3, <3>5
  <2>6. Mending(u, l, s, x + 1)
    BY <1>11, <1>12, <2>3, <2>4, <2>5 DEF Mending
  <2> QED BY <1>1, <1>8, <1>9, <1>10, <2>6
<1> QED BY <1>6, <1>14, <1>15


\* A loop that counts to n and keeps its state in S has a run.
Passing(n, S)        == [(1 .. n) \X S -> S]
IsRun(n, S, a, F, g) == /\ g \in [0 .. n -> S] /\ g[0] = a
                        /\ \A j \in 1 .. n : g[j] = F[<<j, g[j - 1]>>]

LEMMA LoopRuns ==
  ASSUME NEW n \in Nat, NEW S, NEW a \in S, NEW F \in Passing(n, S)
  PROVE  \E g : IsRun(n, S, a, F, g)
<1> USE DEF Passing, IsRun
<1> DEFINE Run(m, g) == g[0] = a /\ \A j \in 1 .. m : g[j] = F[<<j, g[j - 1]>>]
           Bad == {m \in 0 .. n : ~\E g \in [0 .. m -> S] : Run(m, g)}
<1> SUFFICES ASSUME Bad # {} PROVE FALSE
  <2>1. n \notin Bad
    OBVIOUS
  <2>2. n \in 0 .. n
    OBVIOUS
  <2> QED BY <2>1, <2>2
<1>1. PICK m \in Bad : \A k \in Bad : m <= k
  <2>1. Bad \in SUBSET Nat
    OBVIOUS
  <2> HIDE DEF Bad
  <2> QED BY <2>1, LeastNumber
<1>2. m \in 0 .. n
  OBVIOUS
<1>3. CASE m = 0
  <2>1. [j \in 0 .. 0 |-> a] \in [0 .. m -> S] /\ Run(m, [j \in 0 .. 0 |-> a])
    BY <1>3
  <2> QED BY <2>1
<1>4. CASE m # 0
  <2>1. m - 1 \in 0 .. n /\ m - 1 \notin Bad
    <3>1. m - 1 \in 0 .. n /\ ~(m <= m - 1)
      BY <1>2, <1>4
    <3> HIDE DEF Bad
    <3> QED BY <1>1, <3>1
  <2>2. PICK g \in [0 .. m - 1 -> S] : Run(m - 1, g)
    BY <2>1
  <2>3. m \in 1 .. n /\ g[m - 1] \in S
    BY <1>2, <1>4, <2>2
  <2>4. F[<<m, g[m - 1]>>] \in S
    BY <2>3
  <2> DEFINE h == [j \in 0 .. m |-> IF j = m THEN F[<<m, g[m - 1]>>] ELSE g[j]]
  <2>5. h \in [0 .. m -> S]
    BY <2>3, <2>4
  <2>6. h[m] = F[<<m, g[m - 1]>>] /\ \A j \in 0 .. m - 1 : h[j] = g[j]
    BY <2>3
  <2> HIDE DEF h
  <2>7. ASSUME NEW j \in 1 .. m PROVE h[j] = F[<<j, h[j - 1]>>]
    <3>1. CASE j = m
      BY <2>3, <2>6, <3>1
    <3>2. CASE j # m
      <4>1. j \in 1 .. m - 1 /\ j - 1 \in 0 .. m - 1 /\ j \in 0 .. m - 1
        BY <2>3, <3>2
      <4> QED BY <2>2, <2>6, <4>1
    <3> QED BY <3>1, <3>2
  <2>8. h[0] = a
    BY <2>2, <2>3, <2>6
  <2> QED BY <2>5, <2>7, <2>8
<1> QED BY <1>3, <1>4

\* What holds at the start of such a loop and after every pass holds at its end.
LEMMA LoopKeeps ==
  ASSUME NEW n \in Nat, NEW Holds \in [0 .. n -> BOOLEAN], Holds[0],
         \A j \in 1 .. n : Holds[j - 1] => Holds[j]
  PROVE  \A j \in 0 .. n : Holds[j]
<1> DEFINE Bad == {j \in 0 .. n : ~Holds[j]}
<1> SUFFICES ASSUME Bad # {} PROVE FALSE
  OBVIOUS
<1>1. PICK m \in Bad : \A k \in Bad : m <= k
  <2>1. Bad \in SUBSET Nat
    OBVIOUS
  <2> HIDE DEF Bad
  <2> QED BY <2>1, LeastNumber
<1>2. m \in 1 .. n /\ m - 1 \in 0 .. n
  OBVIOUS
<1>3. m - 1 \notin Bad
  BY <1>1, <1>2
<1> QED BY <1>2, <1>3

\* Whatever is in a table, a key that is stored leaves a table, and so does a node that is
\* put back.
LEMMA StoredIsTable ==
  ASSUME NEW f \in HashFuncs, NEW n \in kPrimes, NEW t \in OpenTables(f, n), NEW k \in Keys
  PROVE  Open!Stored(t, k, Entry(f, k).hash, Open!Datum(k)) \in OpenTables(f, n)
<1> DEFINE p == Open!Probe(t, k, Entry(f, k).hash)
<1>1. /\ t = [hash_func |-> t.hash_func, size |-> t.size, count |-> t.count, slot |-> t.slot]
      /\ t.slot \in Slots(f, n) /\ t.count \in Int /\ t.hash_func = f /\ t.size = n
  BY DEF OpenTables
<1>2. Open!Stored(t, k, Entry(f, k).hash, Open!Datum(k)) = [t EXCEPT !.slot[p] = Entry(f, k)]
  BY Zenon DEF Open!Stored, Entry
<1> HIDE DEF p
<1>3. [t.slot EXCEPT ![p] = Entry(f, k)] \in Slots(f, n)
  BY <1>1 DEF Slots
<1>4. [t EXCEPT !.slot[p] = Entry(f, k)]
        = [hash_func |-> f, size |-> n, count |-> t.count, slot |-> [t.slot EXCEPT ![p] = Entry(f, k)]]
  BY <1>1
<1> QED BY <1>1, <1>2, <1>3, <1>4 DEF OpenTables

LEMMA ReinsertedIsTable ==
  ASSUME NEW f \in HashFuncs, NEW n \in kPrimes, NEW t \in OpenTables(f, n), NEW s \in Used(t)
  PROVE  Open!Reinserted(t, s) \in OpenTables(f, n)
<1> DEFINE v == Freed(t, s)
           k == t.slot[s].key
<1>1. k \in Keys /\ t.slot[s] = Entry(f, k)
  BY SlotsAre
<1>2. v \in OpenTables(f, n)
  BY FreedIs
<1>3. t.slot[s].hash = Entry(f, k).hash /\ t.slot[s].datum = Open!Datum(k)
  <2>1. Entry(f, k).datum = Open!Datum(k)
    BY <1>1, EntryIs
  <2> QED BY <1>1, <2>1
<1>4. Open!Reinserted(t, s) = Open!Stored(v, k, t.slot[s].hash, t.slot[s].datum)
  BY Zenon DEF Open!Reinserted, Freed, v, k
<1> HIDE DEF v, k
<1> QED BY <1>1, <1>2, <1>3, <1>4, StoredIsTable

\* remove_cleanup leaves every key where probing reaches it, whether it stops at a free
\* slot or has been all the way round.
LEMMA CleanupMends ==
  ASSUME NEW f \in HashFuncs, NEW n \in kPrimes, NEW t \in OpenTables(f, n),
         NEW l \in 0 .. n - 1, NEW p \in 0 .. n - 1, NEW first \in 0 .. n - 1,
         PlaceFrom(n, l, first) <= PlaceFrom(n, l, p), Mending(t, l, p, PlaceFrom(n, l, p) + 1),
         NEW u, u = Open!Cleanup(t, first, Open!SlotAfter(t, p, 1))
  PROVE  /\ u \in OpenTables(f, n) /\ AllReached(u) /\ u.count = t.count
         /\ KeysOf(u) = KeysOf(t) /\ Cardinality(Used(u)) = Cardinality(Used(t))
<1> DEFINE start == Open!SlotAfter(t, p, 1)
           x == PlaceFrom(n, l, p)
           S == [t : OpenTables(f, n), ended : BOOLEAN]
           at(j) == Open!SlotAfter(t, start, j - 1)
           Ends(j, w) == w.ended \/ w.t.slot[at(j)].hash = 0 \/ (j > 1 /\ at(j) = first)
           Pass(j, w) == IF Ends(j, w) THEN [w EXCEPT !.ended = TRUE]
                         ELSE [w EXCEPT !.t = Open!Reinserted(@, at(j))]
           a == [t |-> t, ended |-> FALSE]
           Run(g) == g = [j \in 0 .. n |-> IF j = 0 THEN a ELSE Pass(j, g[j - 1])]
           run == CHOOSE g : Run(g)
<1>1. n \in Nat \ {0} /\ t.size = n /\ start \in 0 .. n - 1
  <2>1. n \in Nat \ {0} /\ t.size = n
    BY SlotsAre
  <2> QED BY <2>1 DEF Open!SlotAfter
<1>2. u = run[n].t
  <2>1. u = run[t.size].t
    BY Zenon, <1>1 DEF Open!Cleanup
  <2> QED BY <1>1, <2>1
<1>3. \A j \in 1 .. n : at(j) \in 0 .. n - 1
  BY <1>1 DEF Open!SlotAfter
<1>4. ASSUME NEW j \in 1 .. n, x + j < n PROVE PlaceFrom(n, l, at(j)) = x + j
  BY <1>1, <1>4 DEF Open!SlotAfter, PlaceFrom
<1> HIDE DEF at, start
<1>5. ASSUME NEW j \in 1 .. n, NEW w \in S PROVE Pass(j, w) \in S
  <2>1. CASE Ends(j, w)
    <3> HIDE DEF Ends
    <3> QED BY <2>1
  <2>2. CASE ~Ends(j, w)
    <3>1. w.t \in OpenTables(f, n) /\ at(j) \in Used(w.t)
      <4>1. w.t \in OpenTables(f, n)
        OBVIOUS
      <4>2. DOMAIN w.t.slot = 0 .. n - 1
        BY <4>1, SlotsAre
      <4> QED BY <1>3, <2>2, <4>1, <4>2 DEF Used
    <3>2. Open!Reinserted(w.t, at(j)) \in OpenTables(f, n)
      BY <3>1, ReinsertedIsTable
    <3> HIDE DEF Ends
    <3> QED BY <2>2, <3>2
  <2> QED BY <2>1, <2>2
<1>6. a \in S
  OBVIOUS
<1> HIDE DEF S, Ends, a
<1>7. Run(run)
  <2> DEFINE F == [z \in (1 .. n) \X S |-> Pass(z[1], z[2])]
  <2>1. F \in [(1 .. n) \X S -> S]
    <3>1. ASSUME NEW z \in (1 .. n) \X S PROVE Pass(z[1], z[2]) \in S
      BY <1>5
    <3> HIDE DEF Pass
    <3> QED BY <3>1
  <2>2. \A j \in 1 .. n, w \in S : F[<<j, w>>] = Pass(j, w)
    <3> HIDE DEF Pass
    <3> QED OBVIOUS
  <2> HIDE DEF F, Pass
  <2>3. PICK g \in [0 .. n -> S] : g[0] = a /\ \A j \in 1 .. n : g[j] = F[<<j, g[j - 1]>>]
    <3>1. n \in Nat
      BY <1>1
    <3>2. F \in Passing(n, S)
      BY <2>1 DEF Passing
    <3>3. PICK g : IsRun(n, S, a, F, g)
      BY <1>6, <3>1, <3>2, LoopRuns
    <3> QED BY <3>3 DEF IsRun
  <2>4. ASSUME NEW j \in 0 .. n PROVE g[j] = IF j = 0 THEN a ELSE Pass(j, g[j - 1])
    <3>1. CASE j # 0
      <4>1. j \in 1 .. n /\ j - 1 \in 0 .. n
        BY <1>1, <3>1
      <4> QED BY <2>2, <2>3, <3>1, <4>1
    <3> QED BY <2>3, <3>1
  <2>5. Run(g)
    BY <2>3, <2>4
  <2> HIDE DEF Run
  <2> QED BY <2>5
<1> HIDE DEF run
<1>8. run[0] = a /\ \A j \in 1 .. n : run[j] = Pass(j, run[j - 1])
  <2>1. \A j \in 0 .. n : run[j] = IF j = 0 THEN a ELSE Pass(j, run[j - 1])
    <3> HIDE DEF Pass
    <3> QED BY <1>7
  <2> HIDE DEF Pass, Run
  <2> QED BY <1>1, <2>1
<1> HIDE DEF Run
<1> DEFINE Same(v) == /\ v \in OpenTables(f, n) /\ v.count = t.count
                      /\ KeysOf(v) = KeysOf(t) /\ Cardinality(Used(v)) = Cardinality(Used(t))
           Goes(j, w) == /\ w.ended = FALSE /\ x + j < n - 1
                         /\ \E q \in 0 .. n - 1 : Mending(w.t, l, q, x + 1 + j)
           Good(j) == /\ run[j] \in S /\ Same(run[j].t)
                      /\ AllReached(run[j].t) \/ Goes(j, run[j])
<1>9. x \in 0 .. n - 1 /\ \A s \in 0 .. n - 1 : PlaceFrom(n, l, s) \in 0 .. n - 1
  BY <1>1, PlacesDiffer
<1>10. ASSUME NEW v \in OpenTables(f, n), NEW q \in 0 .. n - 1, Mending(v, l, q, n)
       PROVE  AllReached(v)
  BY <1>1, <1>9, <1>10, MendedThere
<1>11. Good(0)
  <2>1. run[0].t = t /\ run[0].ended = FALSE
    BY <1>8 DEF a
  <2>2. CASE x < n - 1
    BY <1>6, <1>8, <1>9, <2>1, <2>2
  <2>3. CASE ~(x < n - 1)
    <3>1. x + 1 = n
      BY <1>1, <1>9, <2>3
    <3>2. AllReached(t)
      BY <1>10, <3>1
    <3> QED BY <1>6, <1>8, <2>1, <3>2
  <2> QED BY <2>2, <2>3
<1>12. ASSUME NEW j \in 1 .. n, Good(j - 1) PROVE Good(j)
  <2> DEFINE w == run[j - 1]
             i == at(j)
  <2>1. /\ w \in S /\ w.t \in OpenTables(f, n) /\ i \in 0 .. n - 1
        /\ DOMAIN w.t.slot = 0 .. n - 1 /\ w.t.size = n
        /\ run[j] = Pass(j, w) /\ run[j] \in S
        /\ w = [t |-> w.t, ended |-> w.ended] /\ w.ended \in BOOLEAN
    <3>1. w \in S /\ w.t \in OpenTables(f, n)
      BY <1>12
    <3>2. DOMAIN w.t.slot = 0 .. n - 1 /\ w.t.size = n
      BY <3>1, SlotsAre
    <3>3. w = [t |-> w.t, ended |-> w.ended] /\ w.ended \in BOOLEAN
      BY <3>1 DEF S
    <3>4. run[j] = Pass(j, w)
      BY <1>8
    <3> HIDE DEF w, Pass
    <3> QED BY <1>3, <1>5, <3>1, <3>2, <3>3, <3>4
  <2>2. CASE Ends(j, w)
    <3>1. run[j].t = w.t
      BY <2>1, <2>2
    <3>2. CASE AllReached(w.t)
      BY <1>12, <2>1, <3>1, <3>2
    <3>3. CASE Goes(j - 1, w)
      <4>1. /\ w.ended = FALSE /\ x + j < n
            /\ \E q \in 0 .. n - 1 : Mending(w.t, l, q, x + j)
        <5>1. x + 1 + (j - 1) = x + j /\ (x + (j - 1) < n - 1 => x + j < n)
          BY <1>1, <1>9
        <5> HIDE DEF x, w
        <5> QED BY <3>3, <5>1
      <4>2. PlaceFrom(n, l, i) = x + j
        BY <1>4, <4>1
      <4>3. i # first
        BY <1>9, <4>2
      <4>4. i \notin Used(w.t)
        BY <2>2, <4>1, <4>3 DEF Ends, Used
      <4>5. \A s \in 0 .. n - 1 : PlaceFrom(n, l, s) = x + j => s \notin Used(w.t)
        BY <1>1, <2>1, <4>2, <4>4, PlacesDiffer
      <4>6. x + j \in 1 .. n
        BY <1>1, <1>9, <4>1
      <4>7. AllReached(w.t)
        BY <2>1, <4>1, <4>5, <4>6, MendedThere
      <4> QED BY <3>2, <4>7
    <3> QED BY <1>12, <3>2, <3>3
  <2>3. CASE ~Ends(j, w)
    <3>1. run[j].t = Open!Reinserted(w.t, i) /\ run[j].ended = w.ended
      BY <2>1, <2>3
    <3>2. i \in Used(w.t)
      BY <2>1, <2>3 DEF Ends, Used
    <3>3. CASE AllReached(w.t)
      <4>1. run[j].t = w.t
        BY <2>1, <3>1, <3>2, <3>3, ReinsertedStays DEF AllReached
      <4> QED BY <1>12, <2>1, <3>3, <4>1
    <3>4. CASE Goes(j - 1, w)
      <4>1. /\ w.ended = FALSE /\ x + j < n
            /\ \E q \in 0 .. n - 1 : Mending(w.t, l, q, x + j)
        <5>1. x + 1 + (j - 1) = x + j /\ (x + (j - 1) < n - 1 => x + j < n)
          BY <1>1, <1>9
        <5> HIDE DEF x, w
        <5> QED BY <3>4, <5>1
      <4>2. PICK q \in 0 .. n - 1 : Mending(w.t, l, q, x + j)
        BY <4>1
      <4>3. PlaceFrom(n, l, i) = x + j
        BY <1>4, <4>1
      <4>4. /\ run[j].t \in OpenTables(f, n) /\ run[j].t.count = w.t.count
            /\ KeysOf(run[j].t) = KeysOf(w.t) /\ Cardinality(Used(run[j].t)) = Cardinality(Used(w.t))
            /\ \E r \in 0 .. n - 1 : Mending(run[j].t, l, r, x + j + 1)
        BY <2>1, <3>1, <3>2, <4>2, <4>3, ReinsertedMends
      <4>5. Same(run[j].t)
        BY <1>12, <4>4
      <4>6. CASE x + j < n - 1
        <5>1. x + j + 1 = x + 1 + j
          BY <1>9
        <5> QED BY <2>1, <3>1, <4>1, <4>4, <4>5, <4>6, <5>1
      <4>7. CASE ~(x + j < n - 1)
        <5>1. x + j + 1 = n
          BY <1>1, <1>9, <4>1, <4>7
        <5>2. AllReached(run[j].t)
          BY <1>10, <4>4, <5>1
        <5> QED BY <2>1, <4>5, <5>2
      <4> QED BY <4>6, <4>7
    <3> QED BY <1>12, <3>3, <3>4
  <2> QED BY <2>2, <2>3
<1>13. Good(n)
  <2> DEFINE H == [j \in 0 .. n |-> Good(j)]
  <2>1. \A j \in 0 .. n : H[j] = Good(j)
    OBVIOUS
  <2>2. H \in [0 .. n -> BOOLEAN]
    OBVIOUS
  <2>3. H[0] /\ \A j \in 1 .. n : H[j - 1] => H[j]
    <3>1. \A j \in 1 .. n : j - 1 \in 0 .. n /\ j \in 0 .. n
      BY <1>1
    <3> HIDE DEF H, Good
    <3> QED BY <1>1, <1>11, <1>12, <2>1, <3>1
  <2> HIDE DEF H, Good
  <2>4. \A j \in 0 .. n : H[j]
    BY <1>1, <2>2, <2>3, LoopKeeps
  <2> QED BY <1>1, <2>1, <2>4
<1>14. ~Goes(n, run[n])
  BY <1>1, <1>9
<1> QED BY <1>2, <1>13, <1>14


\* remove_node takes away its key and no other.
LEMMA RemovalTakesKey ==
  ASSUME NEW f \in HashFuncs, NEW n \in kPrimes, NEW t \in OpenTables(f, n), AllReached(t),
         NEW p \in Used(t), NEW u, u = Open!NodeRemoved(t, p)
  PROVE  /\ u \in OpenTables(f, n) /\ AllReached(u) /\ u.count = t.count - 1
         /\ KeysOf(u) = KeysOf(t) \ {t.slot[p].key}
         /\ Cardinality(Used(u)) = Cardinality(Used(t)) - 1
<1> DEFINE v == [t EXCEPT !.slot[p] = Open!FreeSlot, !.count = @ - 1]
           w == Freed(t, p)
           first == Home(t, p)
<1>1. /\ n \in Nat \ {0} /\ t.size = n /\ t.count \in Int /\ DOMAIN t.slot = 0 .. n - 1
      /\ p \in 0 .. n - 1 /\ first \in 0 .. n - 1 /\ IsFiniteSet(Used(t)) /\ Used(t) \subseteq 0 .. n - 1
      /\ \A i \in Used(t) : Home(t, i) \in 0 .. n - 1
  BY SlotsAre
<1>2. /\ w \in OpenTables(f, n) /\ w.count = t.count
      /\ Used(w) = Used(t) \ {p}
      /\ \A i \in Used(w) : w.slot[i] = t.slot[i] /\ Home(w, i) = Home(t, i)
  BY FreedIs
<1>3. /\ v \in OpenTables(f, n) /\ v.slot = w.slot /\ v.size = n /\ w.size = n
      /\ v.count = t.count - 1
  <2>1. t = [hash_func |-> t.hash_func, size |-> t.size, count |-> t.count, slot |-> t.slot]
    BY DEF OpenTables
  <2>2. /\ v = [hash_func |-> t.hash_func, size |-> t.size, count |-> t.count - 1,
                slot |-> [t.slot EXCEPT ![p] = Open!FreeSlot]]
        /\ w = [hash_func |-> t.hash_func, size |-> t.size, count |-> t.count,
                slot |-> [t.slot EXCEPT ![p] = Open!FreeSlot]]
    <3>1. v = [hash_func |-> t.hash_func, size |-> t.size, count |-> t.count - 1,
               slot |-> [t.slot EXCEPT ![p] = Open!FreeSlot]]
      <4>1. v = [Freed(t, p) EXCEPT !.count = t.count - 1]
        BY <1>2, Zenon DEF Freed
      <4>2. Freed(t, p) = [hash_func |-> t.hash_func, size |-> t.size, count |-> t.count,
                           slot |-> [t.slot EXCEPT ![p] = Open!FreeSlot]]
        BY <2>1 DEF Freed
      <4> HIDE DEF v
      <4> QED BY <4>1, <4>2
    <3>2. w = [hash_func |-> t.hash_func, size |-> t.size, count |-> t.count,
               slot |-> [t.slot EXCEPT ![p] = Open!FreeSlot]]
      BY <2>1 DEF Freed
    <3> QED BY <3>1, <3>2
  <2>3. w.slot \in Slots(f, n) /\ t.hash_func = f
    BY <1>2 DEF OpenTables
  <2> HIDE DEF w, v
  <2> QED BY <1>1, <2>2, <2>3 DEF OpenTables
<1>4. u = Open!Cleanup(v, first, Open!SlotAfter(v, p, 1))
  <2>1. u = Open!Cleanup(v, first, Open!SlotAfter(t, p, 1))
    BY Zenon DEF Open!NodeRemoved, Home
  <2>2. Open!SlotAfter(t, p, 1) = Open!SlotAfter(v, p, 1)
    BY <1>1, <1>3 DEF Open!SlotAfter
  <2> QED BY <2>1, <2>2
<1> HIDE DEF v, w
<1>5. /\ Used(v) = Used(t) \ {p}
      /\ \A i \in Used(v) : v.slot[i] = t.slot[i] /\ Home(v, i) = Home(t, i)
  BY <1>2, <1>3 DEF Used, Home
<1>6. PICK l \in 0 .. n - 1 : Uncrossed(t, l)
  BY <1>1 DEF AllReached
<1>7. PlaceFrom(n, l, first) <= PlaceFrom(n, l, p)
  BY <1>1, <1>6, PlacesInOrder DEF Uncrossed
<1>8. Mending(v, l, p, PlaceFrom(n, l, p) + 1)
  <2>1. OneSlotEach(v) /\ Uncrossed(v, l) /\ p \notin Used(v)
    BY <1>5, <1>6 DEF OneSlotEach, Uncrossed, AllReached
  <2>2. PlaceFrom(n, l, p) \in Int /\ \A i \in Used(t) : PlaceFrom(n, l, i) \in Int
    <3>1. \A i \in 0 .. n - 1 : PlaceFrom(n, l, i) \in 0 .. n - 1
      BY <1>1, PlacesDiffer
    <3>2. \A i \in 0 .. n - 1 : PlaceFrom(n, l, i) \in Int
      BY <3>1
    <3> QED BY <1>1, <3>2
  <2>3. ASSUME NEW i \in Used(v), NEW r \in 0 .. n - 1, Passes(Home(v, i), i, r), r \notin Used(v)
        PROVE  r = p /\ PlaceFrom(n, l, p) + 1 <= PlaceFrom(n, l, i)
    <3>1. i \in Used(t) /\ Passes(Home(t, i), i, r)
      BY <1>5, <2>3
    <3>2. r = p
      BY <1>1, <1>5, <2>3, <3>1 DEF AllReached, Reached
    <3>3. ~Passes(Home(t, i), i, l)
      BY <1>6, <3>1 DEF Uncrossed
    <3>4. PlaceFrom(n, l, p) < PlaceFrom(n, l, i)
      BY <1>1, <3>1, <3>2, <3>3, PlacesInOrder
    <3> QED BY <2>2, <3>1, <3>2, <3>4
  <2>4. PlaceFrom(n, l, p) < PlaceFrom(n, l, p) + 1
    BY <2>2
  <2> QED BY <1>3, <2>1, <2>3, <2>4 DEF Mending
<1>9. KeysOf(v) = KeysOf(t) \ {t.slot[p].key}
  <2>1. KeysOf(v) = {t.slot[i].key : i \in Used(t) \ {p}}
    BY <1>5 DEF KeysOf
  <2> QED BY <2>1 DEF KeysOf, AllReached, OneSlotEach
<1>10. Cardinality(Used(v)) = Cardinality(Used(t)) - 1
  BY <1>1, <1>5, FS_RemoveElement
<1> QED BY <1>1, <1>3, <1>4, <1>7, <1>8, <1>9, <1>10, CleanupMends

----------------------------------------------------------------------------
(* Insertion *)

\* The slot that a key comes to is where probing reaches it, and nobody passes it.
LEMMA StoredIsReached ==
  ASSUME NEW f \in HashFuncs, NEW n \in kPrimes, NEW t \in OpenTables(f, n), AllReached(t),
         NEW k \in Keys, k \notin KeysOf(t), Open!Probe(t, k, Entry(f, k).hash) # NULL,
         NEW u, u = Open!Stored(t, k, Entry(f, k).hash, Open!Datum(k))
  PROVE  /\ u \in OpenTables(f, n) /\ AllReached(u) /\ u.count = t.count
         /\ KeysOf(u) = KeysOf(t) \cup {k}
         /\ Cardinality(Used(u)) = Cardinality(Used(t)) + 1
<1>1. /\ n \in Nat \ {0} /\ t.size = n /\ Used(t) \subseteq 0 .. n - 1 /\ IsFiniteSet(Used(t))
      /\ \A i \in Used(t) : Home(t, i) \in 0 .. n - 1
  BY SlotsAre
<1>2. PICK p : p = Open!Probe(t, k, Entry(f, k).hash)
  OBVIOUS
<1>3. /\ p \in 0 .. n - 1 /\ p \notin Used(t)
      /\ \A q \in 0 .. n - 1 : Passes(Entry(f, k).hash % n, p, q) => q \in Used(t)
  BY <1>2, ProbeOfAbsent
<1>4. /\ u \in OpenTables(f, n) /\ u.count = t.count
      /\ u.slot[p] = Entry(f, k) /\ Home(u, p) = Entry(f, k).hash % n
      /\ Used(u) = Used(t) \cup {p} /\ KeysOf(u) = KeysOf(t) \cup {k}
      /\ \A i \in Used(t) : u.slot[i] = t.slot[i] /\ Home(u, i) = Home(t, i)
  BY <1>2, <1>3, StoredIs
<1>5. u.size = n /\ Home(u, p) \in 0 .. n - 1
  BY <1>4, SlotsAre
<1>6. OneSlotEach(u)
  <2>1. u.slot[p].key = k
    <3>1. Entry(f, k).key = k
      BY EntryIs
    <3> QED BY <1>4, <3>1
  <2>2. \A i \in Used(t) : u.slot[i].key # k /\ u.slot[i].key = t.slot[i].key
    BY <1>4 DEF KeysOf
  <2> QED BY <1>4, <2>1, <2>2 DEF AllReached, OneSlotEach
<1>7. ASSUME NEW i \in Used(u) PROVE Reached(u, i)
  BY <1>1, <1>3, <1>4, <1>5 DEF AllReached, Reached
<1>8. Uncrossed(u, p)
  <2>1. ~Passes(Home(u, p), p, p)
    BY <1>1, <1>3, <1>5, OneIsPassed
  <2>2. ASSUME NEW i \in Used(t) PROVE ~Passes(Home(t, i), i, p)
    BY <1>1, <1>3 DEF AllReached, Reached
  <2> QED BY <1>4, <2>1, <2>2 DEF Uncrossed
<1>9. Cardinality(Used(u)) = Cardinality(Used(t)) + 1
  <2>1. Cardinality(Used(t) \cup {p}) = Cardinality(Used(t)) + 1
    BY <1>1, <1>3, FS_AddElement
  <2> QED BY <1>4, <2>1
<1>10. AllReached(u)
  BY <1>3, <1>5, <1>6, <1>7, <1>8 DEF AllReached
<1> QED BY <1>4, <1>9, <1>10


----------------------------------------------------------------------------
(* Resizing *)

LEMMA PrimeIsSize ==
  ASSUME NEW s \in Nat
  PROVE  Open!dict_prime_geq(s) \in kPrimes
<1>1. kPrimes \subseteq Nat \ {0} /\ kPrimes # {}
  BY HashAssumption
<1>2. CASE \E p \in kPrimes : p >= s
  <2> DEFINE P == {p \in kPrimes : p >= s}
  <2>1. P \in SUBSET Nat /\ P # {}
    BY <1>1, <1>2
  <2>2. Open!dict_prime_geq(s) = Open!Min(P)
    BY <1>2 DEF Open!dict_prime_geq
  <2> HIDE DEF P
  <2>3. Open!Min(P) \in P
    BY <2>1, LeastNumber, Zenon DEF Open!Min
  <2> QED BY <2>2, <2>3 DEF P
<1>3. CASE ~\E p \in kPrimes : p >= s
  <2> DEFINE D == {s - p : p \in kPrimes}
  <2>1. D \in SUBSET Nat /\ D # {}
    BY <1>1, <1>3
  <2>2. PICK d \in D : \A e \in D : d <= e
    <3> HIDE DEF D
    <3> QED BY <2>1, LeastNumber
  <2>3. PICK p \in kPrimes : d = s - p
    BY <2>2
  <2>4. \A q \in kPrimes : q <= p
    <3>1. ASSUME NEW q \in kPrimes PROVE q <= p
      <4>1. s - p <= s - q
        BY <2>2, <2>3
      <4> QED BY <1>1, <4>1
    <3> QED BY <3>1
  <2>5. Open!Max(kPrimes) \in kPrimes
    <3>1. \A q \in kPrimes : p >= q
      BY <1>1, <2>4
    <3> QED BY <3>1, Zenon DEF Open!Max
  <2> QED BY <1>3, <2>5 DEF Open!dict_prime_geq
<1> QED BY <1>2, <1>3

\* A new table is empty.
LEMMA EmptyIsReached ==
  ASSUME NEW f \in HashFuncs, NEW n \in kPrimes, NEW c \in Int,
         NEW t, t = [Open!EmptyTable(f, n) EXCEPT !.count = c]
  PROVE  /\ t \in OpenTables(f, n) /\ AllReached(t) /\ t.count = c /\ Used(t) = {} /\ KeysOf(t) = {}
<1> DEFINE E == [i \in 0 .. n - 1 |-> Open!FreeSlot]
<1>1. PICK v : v = [hash_func |-> f, size |-> n, count |-> c, slot |-> E]
  OBVIOUS
<1>2. t = v
  <2>1. t = [hash_func |-> f, size |-> n, count |-> c, slot |-> E]
    BY DEF Open!EmptyTable
  <2> HIDE DEF E
  <2> QED BY <1>1, <2>1, Zenon
<1>3. v \in OpenTables(f, n) /\ v.count = c /\ v.size = n /\ v.slot = E
  <2>1. E \in Slots(f, n)
    BY DEF Slots
  <2> HIDE DEF E
  <2> QED BY <1>1, <2>1 DEF OpenTables
<1>4. Used(v) = {}
  BY <1>3 DEF Used, Open!FreeSlot
<1>5. 0 \in 0 .. n - 1
  BY HashAssumption
<1>6. AllReached(v) /\ KeysOf(v) = {}
  BY <1>3, <1>4, <1>5 DEF AllReached, OneSlotEach, Uncrossed, KeysOf
<1> QED BY <1>2, <1>3, <1>4, <1>6

\* The table that grows or shrinks holds the same keys.
LEMMA ResizedIsReached ==
  ASSUME NEW f \in HashFuncs, NEW n \in kPrimes, NEW t \in OpenTables(f, n), AllReached(t),
         t.count = Cardinality(Used(t)), NEW s \in Nat, NEW u, u = Open!Resized(t, s)
  PROVE  \E m \in kPrimes : /\ u \in OpenTables(f, m) /\ AllReached(u) /\ u.count = t.count
                            /\ KeysOf(u) = KeysOf(t) /\ Cardinality(Used(u)) = t.count
<1> DEFINE m == Open!dict_prime_geq(s)
           S == OpenTables(f, m)
           a == [Open!EmptyTable(t.hash_func, m) EXCEPT !.count = t.count]
           Pass(i, w) == IF t.slot[i - 1].hash = 0 THEN w
                         ELSE Open!Stored(w, t.slot[i - 1].key, t.slot[i - 1].hash,
                                          t.slot[i - 1].datum)
           Run(g) == g = [i \in 0 .. t.size |-> IF i = 0 THEN a ELSE Pass(i, g[i - 1])]
           moved == CHOOSE g : Run(g)
<1>1. m \in kPrimes /\ m \in Nat \ {0}
  BY PrimeIsSize, HashAssumption
<1>2. /\ n \in Nat \ {0} /\ t.size = n /\ t.hash_func = f /\ t.count \in Int
      /\ DOMAIN t.slot = 0 .. n - 1 /\ Used(t) \subseteq 0 .. n - 1 /\ IsFiniteSet(Used(t))
  BY SlotsAre
<1>3. u = IF m = t.size \/ t.count > m THEN t ELSE moved[t.size]
  BY Zenon DEF Open!Resized
<1>4. CASE m = t.size \/ t.count > m
  BY <1>2, <1>3, <1>4
<1>5. CASE ~(m = t.size \/ t.count > m)
  <2> HIDE DEF m, moved
  <2>1. /\ a \in S /\ AllReached(a) /\ a.count = t.count /\ Used(a) = {} /\ KeysOf(a) = {}
    BY <1>1, <1>2, EmptyIsReached
  <2> HIDE DEF a
  <2>2. ASSUME NEW i \in 1 .. n, t.slot[i - 1].hash # 0
        PROVE  \E k \in Keys : /\ k = t.slot[i - 1].key /\ t.slot[i - 1].hash = Entry(f, k).hash
                               /\ t.slot[i - 1].datum = Open!Datum(k) /\ i - 1 \in Used(t)
    <3>1. i - 1 \in Used(t)
      BY <1>2, <2>2 DEF Used
    <3>2. t.slot[i - 1].key \in Keys /\ t.slot[i - 1] = Entry(f, t.slot[i - 1].key)
      BY <3>1, SlotsAre
    <3>3. Entry(f, t.slot[i - 1].key).datum = Open!Datum(t.slot[i - 1].key)
      BY <3>2, EntryIs
    <3> QED BY <3>1, <3>2, <3>3
  <2>3. ASSUME NEW i \in 1 .. n, NEW w \in S PROVE Pass(i, w) \in S
    <3>1. CASE t.slot[i - 1].hash = 0
      BY <3>1
    <3>2. CASE t.slot[i - 1].hash # 0
      <4>1. PICK k \in Keys : /\ k = t.slot[i - 1].key /\ t.slot[i - 1].hash = Entry(f, k).hash
                              /\ t.slot[i - 1].datum = Open!Datum(k)
        BY <2>2, <3>2
      <4>2. Pass(i, w) = Open!Stored(w, k, Entry(f, k).hash, Open!Datum(k))
        BY <3>2, <4>1
      <4> HIDE DEF Pass
      <4> QED BY <1>1, <4>2, StoredIsTable
    <3> QED BY <3>1, <3>2
  <2> HIDE DEF S
  <2>4. Run(moved)
    <3> DEFINE F == [z \in (1 .. n) \X S |-> Pass(z[1], z[2])]
    <3>1. F \in Passing(n, S) /\ \A i \in 1 .. n, w \in S : F[<<i, w>>] = Pass(i, w)
      <4>1. ASSUME NEW z \in (1 .. n) \X S PROVE Pass(z[1], z[2]) \in S
        <5>1. z[1] \in 1 .. n /\ z[2] \in S
          OBVIOUS
        <5> HIDE DEF Pass
        <5> QED BY <2>3, <5>1
      <4> HIDE DEF Pass
      <4> QED BY <4>1 DEF Passing
    <3> HIDE DEF F, Pass
    <3>2. PICK g : IsRun(n, S, a, F, g)
      <4>1. n \in Nat
        BY <1>2
      <4> HIDE DEF Run
      <4> QED BY <2>1, <3>1, <4>1, LoopRuns
    <3>3. ASSUME NEW i \in 0 .. n PROVE g[i] = IF i = 0 THEN a ELSE Pass(i, g[i - 1])
      <4>1. CASE i # 0
        <5>1. i \in 1 .. n /\ i - 1 \in 0 .. n
          BY <1>2, <4>1
        <5>2. g[i - 1] \in S
          BY <3>2, <5>1 DEF IsRun
        <5> QED BY <3>1, <3>2, <4>1, <5>1, <5>2 DEF IsRun
      <4> QED BY <3>2, <4>1 DEF IsRun
    <3>4. Run(g)
      BY <1>2, <3>2, <3>3 DEF IsRun
    <3> HIDE DEF Run
    <3> QED BY <3>4 DEF moved
  <2>5. moved[0] = a /\ \A i \in 1 .. n : moved[i] = Pass(i, moved[i - 1])
    <3>1. \A i \in 0 .. n : moved[i] = IF i = 0 THEN a ELSE Pass(i, moved[i - 1])
      <4> HIDE DEF Pass
      <4> QED BY <1>2, <2>4
    <3> HIDE DEF Pass, Run
    <3> QED BY <1>2, <3>1
  <2> HIDE DEF Run
  <2> DEFINE Before(i) == {j \in Used(t) : j < i}
             Good(i) == LET w == moved[i]
                        IN  /\ w \in S /\ AllReached(w) /\ w.count = t.count
                            /\ KeysOf(w) = {t.slot[j].key : j \in Before(i)}
                            /\ Cardinality(Used(w)) = Cardinality(Before(i))
  <2>6. Good(0)
    <3>1. Before(0) = {}
      BY <1>2
    <3>2. {t.slot[j].key : j \in {}} = {}
      OBVIOUS
    <3> HIDE DEF Before
    <3> QED BY <2>1, <2>5, <3>1, <3>2
  <2>7. ASSUME NEW i \in 1 .. n, Good(i - 1) PROVE Good(i)
    <3>1. PICK w : w = moved[i - 1]
      OBVIOUS
    <3>2. /\ w \in S /\ AllReached(w) /\ w.count = t.count
          /\ KeysOf(w) = {t.slot[j].key : j \in Before(i - 1)}
          /\ Cardinality(Used(w)) = Cardinality(Before(i - 1))
          /\ moved[i] = Pass(i, w)
      <4> HIDE DEF Pass, Before
      <4> QED BY <2>5, <2>7, <3>1
    <3>3. CASE t.slot[i - 1].hash = 0
      <4>1. Before(i) = Before(i - 1)
        BY <1>2, <3>3 DEF Used
      <4>2. moved[i] = w
        BY <3>2, <3>3
      <4> HIDE DEF Before
      <4> QED BY <3>2, <4>1, <4>2
    <3>4. CASE t.slot[i - 1].hash # 0
      <4>1. PICK k \in Keys : /\ k = t.slot[i - 1].key /\ t.slot[i - 1].hash = Entry(f, k).hash
                              /\ t.slot[i - 1].datum = Open!Datum(k) /\ i - 1 \in Used(t)
        BY <2>2, <3>4
      <4>2. Before(i) = Before(i - 1) \cup {i - 1} /\ i - 1 \notin Before(i - 1)
        BY <1>2, <4>1
      <4>3. k \notin KeysOf(w)
        BY <3>2, <4>1, <4>2 DEF AllReached, OneSlotEach
      <4>4. IsFiniteSet(Before(i - 1)) /\ Before(i) \subseteq Used(t)
        BY <1>2, FS_Subset
      <4> HIDE DEF Before
      <4>5. Cardinality(Before(i)) = Cardinality(Before(i - 1)) + 1
        BY <4>2, <4>4, FS_AddElement
      <4>6. Open!Probe(w, k, Entry(f, k).hash) # NULL
        <5>1. Cardinality(Before(i)) <= Cardinality(Used(t))
          BY <1>2, <4>4, FS_Subset
        <5>2. Cardinality(Used(w)) < m
          <6>1. Cardinality(Before(i - 1)) \in Nat /\ Cardinality(Used(t)) \in Nat
            BY <1>2, <4>4, FS_CardinalityType
          <6> QED BY <1>1, <1>2, <1>5, <3>2, <4>5, <5>1, <6>1
        <5>3. Cardinality(0 .. m - 1) = m
          BY <1>1, FS_Interval
        <5>4. Used(w) # 0 .. m - 1
          BY <1>1, <5>2, <5>3
        <5>5. Open!Probe(w, k, Entry(f, k).hash) \in 0 .. m - 1
          BY <1>1, <3>2, <4>3, <5>4, ProbeOfAbsent DEF S
        <5> QED BY <5>5, HashAssumption
      <4>7. PICK v : v = moved[i]
        OBVIOUS
      <4>8. v = Open!Stored(w, k, Entry(f, k).hash, Open!Datum(k))
        BY <3>2, <3>4, <4>1, <4>7
      <4>9. /\ v \in OpenTables(f, m) /\ AllReached(v) /\ v.count = w.count
            /\ KeysOf(v) = KeysOf(w) \cup {k}
            /\ Cardinality(Used(v)) = Cardinality(Used(w)) + 1
        BY <1>1, <3>2, <4>3, <4>6, <4>8, StoredIsReached DEF S
      <4>10. KeysOf(v) = {t.slot[j].key : j \in Before(i)}
        BY <3>2, <4>1, <4>2, <4>9
      <4> QED BY <3>2, <4>5, <4>7, <4>9, <4>10 DEF S
    <3> QED BY <3>3, <3>4
  <2>8. Good(n)
    <3> DEFINE H == [i \in 0 .. n |-> Good(i)]
    <3>1. \A i \in 0 .. n : H[i] = Good(i)
      OBVIOUS
    <3>2. H \in [0 .. n -> BOOLEAN]
      OBVIOUS
    <3>3. H[0] /\ \A i \in 1 .. n : H[i - 1] => H[i]
      <4>1. \A i \in 1 .. n : i - 1 \in 0 .. n /\ i \in 0 .. n
        BY <1>2
      <4> HIDE DEF H, Good
      <4> QED BY <1>2, <2>6, <2>7, <3>1, <4>1
    <3> HIDE DEF H, Good
    <3>4. \A i \in 0 .. n : H[i]
      BY <1>2, <3>2, <3>3, LoopKeeps
    <3> QED BY <1>2, <3>1, <3>4
  <2>9. Before(n) = Used(t)
    BY <1>2
  <2>10. u = moved[n]
    BY <1>2, <1>3, <1>5
  <2>11. KeysOf(t) = {t.slot[j].key : j \in Used(t)}
    BY DEF KeysOf
  <2> HIDE DEF Before
  <2> QED BY <1>1, <2>8, <2>9, <2>10, <2>11 DEF S
<1> QED BY <1>4, <1>5


----------------------------------------------------------------------------
(* The calls *)

OpenOK(t) ==
  \E f \in HashFuncs, n \in kPrimes :
    t \in OpenTables(f, n) /\ AllReached(t) /\ t.count = Cardinality(Used(t))

LEMMA SlotOfKey ==
  ASSUME NEW t, OpenOK(t), NEW k \in Keys
  PROVE  /\ \A i \in Used(t) : t.slot[i].key = k => Open!SlotOf(t, k) = i
         /\ k \notin KeysOf(t) => Open!SlotOf(t, k) = NULL
<1>1. PICK f \in HashFuncs, n \in kPrimes :
        t \in OpenTables(f, n) /\ AllReached(t) /\ t.count = Cardinality(Used(t))
  BY DEF OpenOK
<1>2. t.hash_func = f /\ Used(t) \subseteq 0 .. n - 1 /\ DOMAIN t.slot = 0 .. n - 1
  BY <1>1, SlotsAre
<1>3. PICK h : h = Entry(f, k).hash /\ h = Open!nonzero_hash(t, k)
  BY <1>2 DEF Entry, Open!nonzero_hash
<1>4. ASSUME NEW i \in Used(t), t.slot[i].key = k PROVE Open!SlotOf(t, k) = i
  <2>1. t.slot[i].hash = h
    <3>1. t.slot[i] = Entry(f, t.slot[i].key)
      BY <1>1, SlotsAre
    <3>2. t.slot[i] = Entry(f, k)
      BY <1>4, <3>1, Zenon
    <3> QED BY <1>3, <3>2
  <2>2. Open!Probe(t, k, h) = i
    BY <1>1, <1>4, <2>1, ProbeFindsKey DEF AllReached
  <2>3. i # NULL /\ t.slot[i].hash # 0
    BY <1>2, HashAssumption DEF Used
  <2> QED BY <1>3, <2>2, <2>3 DEF Open!SlotOf
<1>5. ASSUME k \notin KeysOf(t) PROVE Open!SlotOf(t, k) = NULL
  <2>1. PICK p : p = Open!Probe(t, k, h)
    OBVIOUS
  <2>2. p = NULL \/ (p \in 0 .. n - 1 /\ p \notin Used(t))
    BY <1>1, <1>3, <1>5, <2>1, ProbeOfAbsent
  <2>3. p = NULL \/ t.slot[p].hash = 0
    BY <1>2, <2>2 DEF Used
  <2> QED BY <1>3, <2>1, <2>3 DEF Open!SlotOf
<1> QED BY <1>4, <1>5

\* An insertion that grows the table first, if it does, changes no key.
LEMMA GrownIsOpen ==
  ASSUME NEW t, OpenOK(t), NEW u \in Open!Grown(t)
  PROVE  OpenOK(u) /\ KeysOf(u) = KeysOf(t)
<1>1. PICK f \in HashFuncs, n \in kPrimes :
        t \in OpenTables(f, n) /\ AllReached(t) /\ t.count = Cardinality(Used(t))
  BY DEF OpenOK
<1>2. u = t \/ u = Open!Resized(t, t.size + 1)
  BY DEF Open!Grown
<1>3. CASE u = Open!Resized(t, t.size + 1)
  <2>1. t.size + 1 \in Nat
    BY <1>1, SlotsAre
  <2>2. \E m \in kPrimes : /\ u \in OpenTables(f, m) /\ AllReached(u) /\ u.count = t.count
                           /\ KeysOf(u) = KeysOf(t) /\ Cardinality(Used(u)) = t.count
    BY <1>1, <1>3, <2>1, ResizedIsReached
  <2> QED BY <2>2 DEF OpenOK
<1> QED BY <1>2, <1>3

LEMMA OpenResize ==
  ASSUME NEW t, OpenOK(t), NEW s \in kPrimes, NEW u, u = Open!Resized(t, s)
  PROVE  OpenOK(u) /\ KeysOf(u) = KeysOf(t)
<1>1. PICK f \in HashFuncs, n \in kPrimes :
        t \in OpenTables(f, n) /\ AllReached(t) /\ t.count = Cardinality(Used(t))
  BY DEF OpenOK
<1>2. s \in Nat
  BY HashAssumption
<1>3. \E m \in kPrimes : /\ u \in OpenTables(f, m) /\ AllReached(u) /\ u.count = t.count
                         /\ KeysOf(u) = KeysOf(t) /\ Cardinality(Used(u)) = t.count
  BY <1>1, <1>2, ResizedIsReached
<1> QED BY <1>3 DEF OpenOK

Counted(t) == [t EXCEPT !.count = @ + 1]

LEMMA OpenInsert ==
  ASSUME NEW t, OpenOK(t), NEW k \in Keys, NEW h, h = Open!nonzero_hash(t, k), Open!HasRoom(t, k, h),
         NEW u, u = Counted(Open!Stored(t, k, h, Open!Datum(k)))
  PROVE  OpenOK(u) /\ k \notin KeysOf(t) /\ KeysOf(u) = KeysOf(t) \cup {k}
<1>1. PICK f \in HashFuncs, n \in kPrimes :
        t \in OpenTables(f, n) /\ AllReached(t) /\ t.count = Cardinality(Used(t))
  BY DEF OpenOK
<1>2. t.hash_func = f /\ IsFiniteSet(Used(t)) /\ t.count \in Int
  BY <1>1, SlotsAre
<1>3. h = Entry(f, k).hash
  BY <1>2 DEF Entry, Open!nonzero_hash
<1>4. Open!Probe(t, k, h) # NULL /\ t.slot[Open!Probe(t, k, h)].hash = 0
  BY Zenon DEF Open!HasRoom
<1>5. k \notin KeysOf(t)
  <2>1. ASSUME NEW i \in Used(t), t.slot[i].key = k PROVE FALSE
    <3>1. t.slot[i].hash = h
      <4>1. t.slot[i] = Entry(f, t.slot[i].key)
        BY <1>1, SlotsAre
      <4>2. t.slot[i] = Entry(f, k)
        BY <2>1, <4>1, Zenon
      <4> QED BY <1>3, <4>2
    <3>2. Open!Probe(t, k, h) = i
      BY <1>1, <2>1, <3>1, ProbeFindsKey DEF AllReached
    <3> QED BY <1>4, <3>2 DEF Used
  <2> QED BY <2>1 DEF KeysOf
<1>6. PICK v : v = Open!Stored(t, k, h, Open!Datum(k))
  OBVIOUS
<1>7. /\ v \in OpenTables(f, n) /\ AllReached(v) /\ v.count = t.count
      /\ KeysOf(v) = KeysOf(t) \cup {k}
      /\ Cardinality(Used(v)) = Cardinality(Used(t)) + 1
  BY <1>1, <1>3, <1>4, <1>5, <1>6, StoredIsReached
<1>8. u = Counted(v)
  BY <1>6
<1>9. u \in OpenTables(f, n) /\ u.count = t.count + 1 /\ u.slot = v.slot /\ u.size = v.size
  <2>1. v = [hash_func |-> v.hash_func, size |-> v.size, count |-> v.count, slot |-> v.slot]
    BY <1>7 DEF OpenTables
  <2>2. v.hash_func = f /\ v.size = n /\ v.count \in Int /\ v.slot \in Slots(f, n)
    BY <1>7 DEF OpenTables
  <2>3. u = [hash_func |-> v.hash_func, size |-> v.size, count |-> t.count + 1, slot |-> v.slot]
    BY <1>7, <1>8, <2>1 DEF Counted
  <2>4. t.count + 1 \in Int
    BY <1>2
  <2> QED BY <2>2, <2>3, <2>4 DEF OpenTables
<1>10. Used(u) = Used(v) /\ KeysOf(u) = KeysOf(v) /\ \A i \in Used(v) : Home(u, i) = Home(v, i)
  BY <1>9 DEF Used, KeysOf, Home
<1>11. AllReached(u)
  BY <1>7, <1>9, <1>10 DEF AllReached, OneSlotEach, Reached, Uncrossed
<1> QED BY <1>1, <1>5, <1>7, <1>9, <1>10, <1>11 DEF OpenOK

LEMMA OpenRemove ==
  ASSUME NEW t, OpenOK(t), NEW k \in Keys, NEW u,
         u = IF Open!SlotOf(t, k) = NULL THEN t ELSE Open!NodeRemoved(t, Open!SlotOf(t, k))
  PROVE  /\ OpenOK(u) /\ KeysOf(u) = KeysOf(t) \ {k}
<1>1. PICK f \in HashFuncs, n \in kPrimes :
        t \in OpenTables(f, n) /\ AllReached(t) /\ t.count = Cardinality(Used(t))
  BY DEF OpenOK
<1>2. CASE k \notin KeysOf(t)
  BY <1>2, SlotOfKey
<1>3. CASE k \in KeysOf(t)
  <2>1. PICK i \in Used(t) : t.slot[i].key = k
    BY <1>3 DEF KeysOf
  <2>2. Open!SlotOf(t, k) = i /\ i # NULL
    <3>1. i \in Int
      BY <1>1, SlotsAre
    <3> QED BY <2>1, <3>1, SlotOfKey, HashAssumption
  <2>3. u = Open!NodeRemoved(t, i)
    BY <2>2
  <2>4. /\ u \in OpenTables(f, n) /\ AllReached(u) /\ u.count = t.count - 1
        /\ KeysOf(u) = KeysOf(t) \ {t.slot[i].key}
        /\ Cardinality(Used(u)) = Cardinality(Used(t)) - 1
    BY <1>1, <2>3, RemovalTakesKey
  <2> QED BY <1>1, <2>1, <2>4 DEF OpenOK
<1> QED BY <1>2, <1>3

LEMMA OpenEmpty ==
  ASSUME NEW f \in HashFuncs, NEW n \in kPrimes
  PROVE  OpenOK(Open!EmptyTable(f, n)) /\ KeysOf(Open!EmptyTable(f, n)) = {}
<1>1. PICK t : t = [Open!EmptyTable(f, n) EXCEPT !.count = 0]
  OBVIOUS
<1>2. t \in OpenTables(f, n) /\ AllReached(t) /\ t.count = 0 /\ Used(t) = {} /\ KeysOf(t) = {}
  BY <1>1, EmptyIsReached
<1>3. t = Open!EmptyTable(f, n)
  BY <1>1 DEF Open!EmptyTable
<1>4. Cardinality(Used(t)) = 0
  BY <1>2, FS_EmptySet
<1> QED BY <1>2, <1>3, <1>4 DEF OpenOK


\* A call on a table with open addressing.
LEMMA OpenSteps ==
  ASSUME NEW t, OpenOK(t), NEW u,
         \/ u \in Open!Grown(t)
         \/ \E k \in Keys, w \in Open!Grown(t) :
              /\ Open!HasRoom(w, k, Open!nonzero_hash(w, k))
              /\ u = Counted(Open!Stored(w, k, Open!nonzero_hash(w, k), Open!Datum(k)))
         \/ \E k \in Keys :
              u = IF Open!SlotOf(t, k) = NULL THEN t ELSE Open!NodeRemoved(t, Open!SlotOf(t, k))
         \/ u = Open!EmptyTable(t.hash_func, t.size)
         \/ \E s \in kPrimes : u = Open!Resized(t, s)
  PROVE  /\ OpenOK(u)
         /\ \/ KeysOf(u) = KeysOf(t) \/ KeysOf(u) = {}
            \/ \E k \in Keys : \/ k \notin KeysOf(t) /\ KeysOf(u) = KeysOf(t) \cup {k}
                               \/ KeysOf(u) = KeysOf(t) \ {k}
<1>1. CASE u \in Open!Grown(t)
  BY <1>1, GrownIsOpen
<1>2. ASSUME NEW k \in Keys, NEW w \in Open!Grown(t),
             Open!HasRoom(w, k, Open!nonzero_hash(w, k)),
             u = Counted(Open!Stored(w, k, Open!nonzero_hash(w, k), Open!Datum(k)))
      PROVE  OpenOK(u) /\ k \notin KeysOf(t) /\ KeysOf(u) = KeysOf(t) \cup {k}
  <2>1. OpenOK(w) /\ KeysOf(w) = KeysOf(t)
    BY GrownIsOpen
  <2> QED BY <1>2, <2>1, OpenInsert
<1>3. ASSUME NEW k \in Keys,
             u = IF Open!SlotOf(t, k) = NULL THEN t ELSE Open!NodeRemoved(t, Open!SlotOf(t, k))
      PROVE  OpenOK(u) /\ KeysOf(u) = KeysOf(t) \ {k}
  BY <1>3, OpenRemove
<1>4. CASE u = Open!EmptyTable(t.hash_func, t.size)
  <2>1. t.hash_func \in HashFuncs /\ t.size \in kPrimes
    BY SlotsAre DEF OpenOK
  <2> QED BY <1>4, <2>1, OpenEmpty
<1>5. ASSUME NEW s \in kPrimes, u = Open!Resized(t, s)
      PROVE  OpenOK(u) /\ KeysOf(u) = KeysOf(t)
  BY <1>5, OpenResize
<1> QED BY <1>1, <1>2, <1>3, <1>4, <1>5

LEMMA OpenNextIs ==
  ASSUME Open!Next
  PROVE  \/ object' \in Open!Grown(object)
         \/ \E k \in Keys, w \in Open!Grown(object) :
              /\ Open!HasRoom(w, k, Open!nonzero_hash(w, k))
              /\ object' = Counted(Open!Stored(w, k, Open!nonzero_hash(w, k), Open!Datum(k)))
         \/ \E k \in Keys :
              object' = IF Open!SlotOf(object, k) = NULL THEN object
                        ELSE Open!NodeRemoved(object, Open!SlotOf(object, k))
         \/ object' = Open!EmptyTable(object.hash_func, object.size)
         \/ \E s \in kPrimes : object' = Open!Resized(object, s)
<1>1. CASE Open!InsertKeeps
  BY <1>1, Zenon DEF Open!InsertKeeps
<1>2. ASSUME NEW k \in Keys, Open!Insert(k)
      PROVE  \E w \in Open!Grown(object) :
               /\ Open!HasRoom(w, k, Open!nonzero_hash(w, k))
               /\ object' = Counted(Open!Stored(w, k, Open!nonzero_hash(w, k), Open!Datum(k)))
  BY <1>2, Zenon DEF Open!Insert, Counted
<1>3. ASSUME NEW k \in Keys, Open!RemoveKey(k)
      PROVE  object' = IF Open!SlotOf(object, k) = NULL THEN object
                       ELSE Open!NodeRemoved(object, Open!SlotOf(object, k))
  BY <1>3, Zenon DEF Open!RemoveKey
<1>4. CASE Open!Clear
  BY <1>4, Zenon DEF Open!Clear
<1>5. ASSUME NEW s \in kPrimes, Open!Resize(s) PROVE object' = Open!Resized(object, s)
  BY <1>5, Zenon DEF Open!Resize
<1> QED BY <1>1, <1>2, <1>3, <1>4, <1>5, Zenon DEF Open!Next


LEMMA OpenIsTyped ==
  ASSUME OpenOK(object)
  PROVE  Open!TypeOK
<1>1. PICK f \in HashFuncs, n \in kPrimes :
        /\ object \in OpenTables(f, n) /\ AllReached(object)
        /\ object.count = Cardinality(Used(object))
  BY DEF OpenOK
<1>2. /\ n \in Nat \ {0} /\ object.size = n /\ object.hash_func = f
      /\ DOMAIN object.slot = 0 .. n - 1 /\ Used(object) \subseteq 0 .. n - 1
      /\ \A i \in 0 .. n - 1 : i \notin Used(object) => object.slot[i] = Open!FreeSlot
      /\ \A i \in Used(object) : object.slot[i].key \in Keys
                                 /\ object.slot[i] = Entry(f, object.slot[i].key)
  BY <1>1, SlotsAre
<1>3. object.count \in 0 .. n
  <2>1. Cardinality(0 .. n - 1) = n /\ IsFiniteSet(0 .. n - 1)
    <3>1. n \in Nat \ {0}
      BY <1>2
    <3> QED BY <3>1, FS_Interval
  <2>2. Cardinality(Used(object)) <= n /\ Cardinality(Used(object)) \in Nat
    BY <1>2, <2>1, FS_Subset, FS_CardinalityType
  <2> QED BY <1>1, <1>2, <2>2
<1>4. ASSUME NEW i \in 0 .. n - 1
      PROVE  \/ object.slot[i] = Open!FreeSlot
             \/ object.slot[i] \in [hash : 1 .. MaxHash, key : Keys,
                                    datum : {Open!Datum(k) : k \in Keys}]
  <2>1. CASE i \in Used(object)
    <3>1. PICK k \in Keys : object.slot[i] = Entry(f, k)
      BY <1>2, <2>1
    <3>2. /\ Entry(f, k).hash \in 1 .. MaxHash
          /\ Entry(f, k) = [hash |-> Entry(f, k).hash, key |-> k, datum |-> Open!Datum(k)]
      BY EntryIs DEF Entry
    <3> QED BY <3>1, <3>2
  <2> QED BY <1>2, <2>1
<1> QED BY <1>2, <1>3, <1>4 DEF Open!TypeOK

LEMMA SameCardinality ==
  ASSUME NEW S
  PROVE  Open!Cardinality(S) = Cardinality(S)
BY Zenon DEF Open!Cardinality, Cardinality

LEMMA OpenIsSound ==
  ASSUME OpenOK(object)
  PROVE  Open!Sound
<1>1. PICK f \in HashFuncs, n \in kPrimes :
        /\ object \in OpenTables(f, n) /\ AllReached(object)
        /\ object.count = Cardinality(Used(object))
  BY DEF OpenOK
<1>2. /\ n \in Nat \ {0} /\ object.size = n
      /\ DOMAIN object.slot = 0 .. n - 1 /\ Used(object) \subseteq 0 .. n - 1
      /\ \A i \in 0 .. n - 1 : i \notin Used(object) => object.slot[i] = Open!FreeSlot
      /\ \A i \in Used(object) : Home(object, i) \in 0 .. n - 1
  BY <1>1, SlotsAre
<1>3. Open!hashtable2_verify(object)
  <2>1. ASSUME NEW i \in DOMAIN object.slot, object.slot[i].hash = 0
        PROVE  object.slot[i].datum = NULL
    <3>1. object.slot[i] = Open!FreeSlot
      BY <1>2, <2>1 DEF Used
    <3> QED BY <3>1 DEF Open!FreeSlot
  <2>2. object.count = Cardinality({i \in DOMAIN object.slot : object.slot[i].hash # 0})
    BY <1>1, Zenon DEF Used
  <2>3. \A i \in DOMAIN object.slot : object.slot[i].hash = 0 => object.slot[i].datum = NULL
    BY <2>1
  <2>4. object.count = Open!Cardinality({i \in DOMAIN object.slot : object.slot[i].hash # 0})
    BY <2>2, SameCardinality
  <2> QED BY <2>3, <2>4, Zenon DEF Open!hashtable2_verify
<1>4. \A i, j \in Used(object) : object.slot[i].key = object.slot[j].key => i = j
  BY <1>1 DEF AllReached, OneSlotEach
<1>5. ASSUME NEW i \in Used(object)
      PROVE  IF Home(object, i) <= i THEN Home(object, i) .. i \subseteq Used(object)
             ELSE DOMAIN object.slot \ (i + 1 .. Home(object, i) - 1) \subseteq Used(object)
  <2>1. PICK first \in 0 .. n - 1 : first = Home(object, i)
    BY <1>2
  <2>2. i \in 0 .. n - 1 /\ \A q \in 0 .. n - 1 : q = i \/ Passes(first, i, q) => q \in Used(object)
    BY <1>1, <1>2, <2>1 DEF AllReached, Reached
  <2>3. CASE first <= i
    <3>1. ASSUME NEW q \in first .. i PROVE q \in Used(object)
      BY <1>2, <2>2, <2>3 DEF Passes
    <3> QED BY <2>1, <2>3, <3>1
  <2>4. CASE ~(first <= i)
    <3>1. ASSUME NEW q \in DOMAIN object.slot, q \notin i + 1 .. first - 1 PROVE q \in Used(object)
      BY <1>2, <2>2, <2>4, <3>1 DEF Passes
    <3> QED BY <2>1, <2>4, <3>1
  <2> QED BY <2>3, <2>4
<1>6. Used(object) = {i \in DOMAIN object.slot : object.slot[i].hash # 0}
  BY DEF Used
<1> QED BY <1>3, <1>4, <1>5, <1>6, Zenon DEF Open!Sound, Home

LEMMA OpenSearchesRight ==
  ASSUME OpenOK(object)
  PROVE  Open!SearchesRight
<1> DEFINE with(k) == {i \in DOMAIN object.slot : object.slot[i].hash # 0 /\ object.slot[i].key = k}
<1>1. PICK f \in HashFuncs, n \in kPrimes : object \in OpenTables(f, n) /\ AllReached(object)
  BY DEF OpenOK
<1>2. Used(object) \subseteq Int
  BY <1>1, SlotsAre
<1>3. ASSUME NEW k \in Keys
      PROVE  Open!SlotOf(object, k) = IF with(k) = {} THEN NULL ELSE Open!Min(with(k))
  <2>1. with(k) = {i \in Used(object) : object.slot[i].key = k}
    BY DEF Used
  <2>2. CASE with(k) = {}
    <3>1. k \notin KeysOf(object)
      BY <2>1, <2>2 DEF KeysOf
    <3> QED BY <2>2, <3>1, SlotOfKey
  <2>3. CASE with(k) # {}
    <3>1. PICK i \in Used(object) : object.slot[i].key = k
      BY <2>1, <2>3
    <3>2. with(k) = {i}
      BY <1>1, <2>1, <3>1 DEF AllReached, OneSlotEach
    <3>3. Open!Min({i}) = i
      BY <1>2, <3>1 DEF Open!Min
    <3>4. Open!SlotOf(object, k) = i
      BY <3>1, SlotOfKey
    <3> QED BY <2>3, <3>2, <3>3, <3>4
  <2> QED BY <2>2, <2>3
<1> HIDE DEF with
<1>4. \A k \in Keys : with(k) = {i \in DOMAIN object.slot : object.slot[i].hash # 0
                                                           /\ object.slot[i].key = k}
  BY DEF with
<1> QED BY <1>3, Zenon DEF Open!SearchesRight, with

LEMMA OpenMapIs ==
  ASSUME NEW t, OpenOK(t)
  PROVE  Open!MapOf(t) = [k \in KeysOf(t) |-> Open!Datum(k)]
<1>1. PICK f \in HashFuncs, n \in kPrimes : t \in OpenTables(f, n) /\ AllReached(t)
  BY DEF OpenOK
<1>2. Open!MapOf(t) = [k \in KeysOf(t) |-> t.slot[CHOOSE i \in Used(t) : t.slot[i].key = k].datum]
  BY Zenon DEF Open!MapOf, KeysOf, Used
<1>3. ASSUME NEW k \in KeysOf(t)
      PROVE  t.slot[CHOOSE i \in Used(t) : t.slot[i].key = k].datum = Open!Datum(k)
  <2>1. PICK i : i = CHOOSE j \in Used(t) : t.slot[j].key = k
    OBVIOUS
  <2>2. i \in Used(t) /\ t.slot[i].key = k
    BY <2>1 DEF KeysOf
  <2>3. k \in Keys /\ t.slot[i] = Entry(f, k)
    BY <1>1, <2>2, SlotsAre
  <2>4. Entry(f, k).datum = Open!Datum(k)
    BY <2>3, EntryIs
  <2> QED BY <2>1, <2>3, <2>4
<1> QED BY <1>2, <1>3


----------------------------------------------------------------------------
(* Any kind that holds a key at a time with its datum is a map. *)

LEMMA MapSteps ==
  ASSUME NEW K, NEW L, Contents = [k \in K |-> Datum(k)], Contents' = [k \in L |-> Datum(k)],
         \/ L = K \/ L = {}
         \/ \E k \in Keys : (k \notin K /\ L = K \cup {k}) \/ L = K \ {k}
  PROVE  [Map!Next \/ Map!Clear]_Contents
<1>1. DOMAIN Contents = K /\ DOMAIN Contents' = L /\ \A k \in K : Contents[k] = Datum(k)
  OBVIOUS
<1>2. CASE L = K
  BY <1>2
<1>3. CASE L = {}
  BY <1>1, <1>3 DEF Map!Clear
<1>4. ASSUME NEW k \in Keys, k \notin K, L = K \cup {k}
      PROVE  Map!Next
  <2>1. Map!Put(k)
    BY <1>1, <1>4 DEF Map!Put
  <2>2. K # L
    BY <1>4
  <2> QED BY <1>1, <2>1, <2>2, Zenon DEF Map!Next
<1>5. ASSUME NEW k \in Keys, k \in K, L = K \ {k}
      PROVE  Map!Next
  <2>1. Map!Delete(k)
    BY <1>1, <1>5 DEF Map!Delete, Map!Restrict
  <2>2. K # L
    BY <1>5
  <2> QED BY <1>1, <2>1, <2>2, Zenon DEF Map!Next
<1>6. \A k \in Keys : k \notin K => K \ {k} = K
  OBVIOUS
<1> QED BY <1>2, <1>3, <1>4, <1>5, <1>6


----------------------------------------------------------------------------
(* The theorems about open addressing.  The kind of a dictionary never     *)
(* changes.                                                                *)

IsOpen == kind = "hashtable2" /\ OpenOK(object)

LEMMA OpenStarts ==
  ASSUME Init, kind = "hashtable2"
  PROVE  IsOpen /\ Contents = [k \in {} |-> Datum(k)]
<1>1. Open!Init
  BY DEF Init
<1>2. PICK f \in HashFuncs, n \in kPrimes : object = Open!EmptyTable(f, n)
  BY <1>1 DEF Open!Init
<1>3. OpenOK(object) /\ KeysOf(object) = {}
  BY <1>2, OpenEmpty
<1>4. Contents = Open!MapOf(object)
  BY DEF Contents
<1>5. Open!MapOf(object) = [k \in KeysOf(object) |-> Open!Datum(k)]
  BY <1>3, OpenMapIs
<1> QED BY <1>3, <1>4, <1>5 DEF IsOpen

LEMMA OpenGoesOn ==
  ASSUME IsOpen, [Next]_vars
  PROVE  IsOpen' /\ [Map!Next \/ Map!Clear]_Contents
<1>1. Contents = [k \in KeysOf(object) |-> Datum(k)]
  <2>1. Contents = Open!MapOf(object)
    BY DEF Contents, IsOpen
  <2>2. Open!MapOf(object) = [k \in KeysOf(object) |-> Open!Datum(k)]
    BY OpenMapIs DEF IsOpen
  <2>3. \A k : Open!Datum(k) = Datum(k)
    BY DEF Open!Datum, Datum
  <2> QED BY <2>1, <2>2, <2>3
<1>2. CASE OpenNext
  <2>1. kind' = "hashtable2" /\ Open!Next
    BY <1>2 DEF OpenNext
  <2>2. PICK u : u = object'
    OBVIOUS
  <2>3. /\ OpenOK(u)
        /\ \/ KeysOf(u) = KeysOf(object) \/ KeysOf(u) = {}
           \/ \E k \in Keys : \/ k \notin KeysOf(object) /\ KeysOf(u) = KeysOf(object) \cup {k}
                              \/ KeysOf(u) = KeysOf(object) \ {k}
    <3>1. OpenOK(object)
      BY DEF IsOpen
    <3> QED BY <2>1, <2>2, <3>1, OpenNextIs, OpenSteps
  <2>4. Contents' = [k \in KeysOf(u) |-> Datum(k)]
    <3>1. Contents' = Open!MapOf(u)
      BY <2>1, <2>2 DEF Contents
    <3>2. Open!MapOf(u) = [k \in KeysOf(u) |-> Open!Datum(k)]
      BY <2>3, OpenMapIs
    <3>3. \A k : Open!Datum(k) = Datum(k)
      BY DEF Open!Datum, Datum
    <3> QED BY <3>1, <3>2, <3>3
  <2>5. IsOpen'
    BY <2>1, <2>2, <2>3 DEF IsOpen
  <2> QED BY <1>1, <2>3, <2>4, <2>5, MapSteps
<1>3. CASE UNCHANGED vars
  <2>1. kind' = kind /\ object' = object
    BY <1>3 DEF vars
  <2>2. Contents' = Contents
    BY <2>1, Zenon DEF Contents
  <2> QED BY <2>1, <2>2 DEF IsOpen
<1> QED BY <1>2, <1>3 DEF Next, ListNext, ChainedNext, IsOpen

\* Open addressing, whatever is inserted and removed and however full the table is: hash
\* values, keys and data have their types.
THEOREM OpenTypeCorrect ==
  Spec /\ kind = "hashtable2" => []TypeOK
<1>1. Init /\ kind = "hashtable2" => IsOpen
  BY OpenStarts
<1>2. IsOpen /\ [Next]_vars => IsOpen'
  BY OpenGoesOn
<1>3. IsOpen => TypeOK
  BY OpenIsTyped DEF IsOpen, TypeOK
<1> QED BY <1>1, <1>2, <1>3, PTL DEF Spec

\* The count is right, no key is there twice, and no slot between the first one of a key
\* and where it is is free, though a removal only goes on to the next free slot or,
\* in a full table, to the first slot of the key it removes (remove_cleanup).
THEOREM OpenAlwaysSound ==
  Spec /\ kind = "hashtable2" => []Sound
<1>1. Init /\ kind = "hashtable2" => IsOpen
  BY OpenStarts
<1>2. IsOpen /\ [Next]_vars => IsOpen'
  BY OpenGoesOn
<1>3. IsOpen => Sound
  BY OpenIsSound DEF IsOpen, Sound
<1> QED BY <1>1, <1>2, <1>3, PTL DEF Spec

\* So hashtable2_search finds every key that is there, and ends without one that is not.
THEOREM OpenSearchesAlwaysRight ==
  Spec /\ kind = "hashtable2" => []SearchesRight
<1>1. Init /\ kind = "hashtable2" => IsOpen
  BY OpenStarts
<1>2. IsOpen /\ [Next]_vars => IsOpen'
  BY OpenGoesOn
<1>3. IsOpen => SearchesRight
  BY OpenSearchesRight DEF IsOpen, SearchesRight
<1> QED BY <1>1, <1>2, <1>3, PTL DEF Spec

\* A call brings at most one key, takes away at most one, or clears the table: growing, shrinking and
\* repairing lose nothing, and every key keeps its datum.
THEOREM OpenImplementsMap ==
  Spec /\ kind = "hashtable2" => ImplementsMap
<1>1. Init /\ kind = "hashtable2" => IsOpen /\ Map!Init
  <2> SUFFICES ASSUME Init, kind = "hashtable2" PROVE IsOpen /\ Map!Init
    OBVIOUS
  <2>1. IsOpen /\ Contents = [k \in {} |-> Datum(k)]
    BY OpenStarts
  <2>2. DOMAIN Contents = {}
    BY <2>1
  <2> QED BY <2>1, <2>2 DEF Map!Init
<1>2. IsOpen /\ [Next]_vars => IsOpen' /\ [Map!Next \/ Map!Clear]_Contents
  BY OpenGoesOn
<1> QED BY <1>1, <1>2, PTL DEF Spec, ImplementsMap, Map!ClearableSpec


----------------------------------------------------------------------------
(* The iterators of a table with open addressing *)

\* The occupied slots, in order
SlotsInOrder(t, s) ==
  /\ s \in Seq(0 .. t.size - 1)
  /\ \A i, j \in 1 .. Len(s) : i < j => s[i] < s[j]
  /\ \A q \in 0 .. t.size - 1 : q \in Used(t) <=> \E i \in 1 .. Len(s) : s[i] = q

LEMMA SequenceIs ==
  ASSUME NEW T, NEW s \in Seq(T)
  PROVE  Len(s) \in Nat /\ s \in [1 .. Len(s) -> T] /\ DOMAIN s = 1 .. Len(s)
OBVIOUS

LEMMA NodesInOrder ==
  ASSUME NEW f \in HashFuncs, NEW n \in kPrimes, NEW t \in OpenTables(f, n)
  PROVE  SlotsInOrder(t, Open!Nodes(t))
<1> DEFINE S == Seq(0 .. n - 1)
           Pass(i, s) == IF t.slot[i - 1].hash = 0 THEN s ELSE Append(s, i - 1)
           Run(g) == g = [i \in 0 .. t.size |-> IF i = 0 THEN <<>> ELSE Pass(i, g[i - 1])]
           before == CHOOSE g : Run(g)
<1>1. /\ n \in Nat \ {0} /\ t.size = n /\ DOMAIN t.slot = 0 .. n - 1 /\ Used(t) \subseteq 0 .. n - 1
  BY SlotsAre
<1>2. Open!Nodes(t) = before[n]
  <2>1. Open!Nodes(t) = before[t.size]
    BY Zenon DEF Open!Nodes
  <2> QED BY <1>1, <2>1
<1>3. ASSUME NEW i \in 1 .. n, NEW s \in S PROVE Pass(i, s) \in S
  <2>1. i - 1 \in 0 .. n - 1
    BY <1>1
  <2>2. Append(s, i - 1) \in S
    BY <2>1
  <2> HIDE DEF S
  <2> QED BY <2>2
<1>4. <<>> \in S
  OBVIOUS
<1> HIDE DEF S
<1>5. Run(before)
  <2> DEFINE F == [z \in (1 .. n) \X S |-> Pass(z[1], z[2])]
  <2>1. F \in Passing(n, S) /\ \A i \in 1 .. n, s \in S : F[<<i, s>>] = Pass(i, s)
    <3>1. ASSUME NEW z \in (1 .. n) \X S PROVE Pass(z[1], z[2]) \in S
      <4>1. z[1] \in 1 .. n /\ z[2] \in S
        OBVIOUS
      <4> HIDE DEF Pass
      <4> QED BY <1>3, <4>1
    <3> HIDE DEF Pass
    <3> QED BY <3>1 DEF Passing
  <2> HIDE DEF F, Pass
  <2>2. PICK g : IsRun(n, S, <<>>, F, g)
    <3>1. n \in Nat
      BY <1>1
    <3> HIDE DEF Run
    <3> QED BY <1>4, <2>1, <3>1, LoopRuns
  <2>3. ASSUME NEW i \in 0 .. n PROVE g[i] = IF i = 0 THEN <<>> ELSE Pass(i, g[i - 1])
    <3>1. CASE i # 0
      <4>1. i \in 1 .. n /\ i - 1 \in 0 .. n
        BY <1>1, <3>1
      <4>2. g[i - 1] \in S
        BY <2>2, <4>1 DEF IsRun
      <4> QED BY <2>1, <2>2, <3>1, <4>1, <4>2 DEF IsRun
    <3> QED BY <2>2, <3>1 DEF IsRun
  <2>4. Run(g)
    BY <1>1, <2>2, <2>3 DEF IsRun
  <2> HIDE DEF Run
  <2> QED BY <2>4 DEF before
<1> HIDE DEF before
<1>6. before[0] = <<>> /\ \A i \in 1 .. n : before[i] = Pass(i, before[i - 1])
  <2>1. \A i \in 0 .. n : before[i] = IF i = 0 THEN <<>> ELSE Pass(i, before[i - 1])
    <3> HIDE DEF Pass
    <3> QED BY <1>1, <1>5
  <2> HIDE DEF Pass, Run
  <2> QED BY <1>1, <2>1
<1> HIDE DEF Run
<1> DEFINE Below(m, s) == /\ s \in S
                          /\ \A i, j \in 1 .. Len(s) : i < j => s[i] < s[j]
                          /\ \A i \in 1 .. Len(s) : s[i] < m
                          /\ \A q \in 0 .. n - 1 :
                               q \in Used(t) /\ q < m <=> \E i \in 1 .. Len(s) : s[i] = q
<1>7. Below(0, before[0])
  <2>1. Len(<<>>) = 0
    OBVIOUS
  <2> QED BY <1>4, <1>6, <2>1
<1>8. ASSUME NEW m \in 1 .. n, NEW s, Below(m - 1, s) PROVE Below(m, Pass(m, s))
  <2>1. CASE t.slot[m - 1].hash = 0
    <3>1. m - 1 \notin Used(t)
      BY <2>1 DEF Used
    <3> QED BY <1>1, <1>8, <2>1, <3>1 DEF S
  <2>2. CASE t.slot[m - 1].hash # 0
    <3>1. m - 1 \in Used(t) /\ m - 1 \in 0 .. n - 1
      BY <1>1, <2>2 DEF Used
    <3>2. PICK L \in Nat : L = Len(s) /\ s \in [1 .. L -> 0 .. n - 1]
      <4>1. s \in Seq(0 .. n - 1)
        BY <1>8 DEF S
      <4> QED BY <4>1, SequenceIs
    <3>3. PICK r : r = Pass(m, s)
      OBVIOUS
    <3>4. /\ r \in S /\ Len(r) = L + 1 /\ r[L + 1] = m - 1
          /\ \A i \in 1 .. L : r[i] = s[i]
      <4>1. r = Append(s, m - 1)
        BY <2>2, <3>3
      <4>2. s \in Seq(0 .. n - 1)
        BY <1>8 DEF S
      <4>3. r \in S
        BY <1>3, <1>8, <3>3
      <4> QED BY <3>1, <3>2, <4>1, <4>2, <4>3
    <3>5. \A i \in 1 .. L : s[i] < m - 1 /\ s[i] \in Int
      BY <1>8, <3>2
    <3>6. \A i \in 1 .. L + 1 : i \in 1 .. L \/ i = L + 1
      BY <3>2
    <3>7. \A i, j \in 1 .. L + 1 : i < j => r[i] < r[j]
      BY <1>8, <3>2, <3>4, <3>5, <3>6
    <3>8. \A i \in 1 .. L + 1 : r[i] < m
      BY <3>4, <3>5, <3>6
    <3>9. ASSUME NEW q \in 0 .. n - 1
          PROVE  q \in Used(t) /\ q < m <=> \E i \in 1 .. L + 1 : r[i] = q
      <4>1. q \in Used(t) /\ q < m - 1 <=> \E i \in 1 .. L : s[i] = q
        BY <1>8, <3>2
      <4>2. (\E i \in 1 .. L + 1 : r[i] = q) <=> (\E i \in 1 .. L : s[i] = q) \/ q = m - 1
        <5>1. L + 1 \in 1 .. L + 1 /\ \A i \in 1 .. L : i \in 1 .. L + 1
          BY <3>2
        <5> QED BY <3>4, <3>6, <5>1
      <4>3. q < m <=> q < m - 1 \/ q = m - 1
        OBVIOUS
      <4> QED BY <3>1, <4>1, <4>2, <4>3
    <3> QED BY <3>2, <3>3, <3>4, <3>7, <3>8, <3>9
  <2> QED BY <2>1, <2>2
<1>9. Below(n, before[n])
  <2> DEFINE H == [m \in 0 .. n |-> Below(m, before[m])]
  <2> HIDE DEF Pass, Below
  <2>1. \A m \in 0 .. n : H[m] = Below(m, before[m])
    OBVIOUS
  <2>2. H \in [0 .. n -> BOOLEAN]
    BY DEF Below
  <2>3. H[0] /\ \A m \in 1 .. n : H[m - 1] => H[m]
    <3>1. \A m \in 1 .. n : m - 1 \in 0 .. n /\ m \in 0 .. n
      BY <1>1
    <3> HIDE DEF H
    <3> QED BY <1>1, <1>6, <1>7, <1>8, <2>1, <3>1
  <2> HIDE DEF H
  <2>4. \A m \in 0 .. n : H[m]
    BY <1>1, <2>2, <2>3, LoopKeeps
  <2> QED BY <1>1, <2>1, <2>4
<1>10. \A q \in 0 .. n - 1 : q < n
  BY <1>1
<1> QED BY <1>1, <1>2, <1>9, <1>10 DEF SlotsInOrder, S

\* Where an iterator stands that is at position i of the order, and the position that one
\* reaches which leaves the order or stays in it.
Place(s, i)  == IF i = 0 THEN -1 ELSE s[i]
Within(L, j) == IF j \in 1 .. L THEN j ELSE 0

Ordered(t, s, L) == /\ L \in Nat /\ t.size \in Nat /\ s \in [1 .. L -> 0 .. t.size - 1]
                    /\ \A i, j \in 1 .. L : i < j => s[i] < s[j]
                    /\ \A q \in 0 .. t.size - 1 :
                         t.slot[q].hash # 0 <=> \E i \in 1 .. L : s[i] = q

LEMMA EndOfSet ==
  ASSUME NEW S \in SUBSET Int, NEW m \in S
  PROVE  /\ (\A q \in S : m <= q) => Open!Min(S) = m
         /\ (\A q \in S : q <= m) => Open!Max(S) = m
<1>1. ASSUME \A q \in S : m <= q PROVE Open!Min(S) = m
  <2>1. \E x \in S : \A y \in S : x <= y
    BY <1>1
  <2>2. PICK x : x = Open!Min(S)
    OBVIOUS
  <2>3. x \in S /\ \A y \in S : x <= y
    BY <2>1, <2>2, Zenon DEF Open!Min
  <2>4. x <= m /\ m <= x /\ x \in Int /\ m \in Int
    BY <1>1, <2>3
  <2> QED BY <2>2, <2>4
<1>2. ASSUME \A q \in S : q <= m PROVE Open!Max(S) = m
  <2>1. \E x \in S : \A y \in S : x >= y
    BY <1>2
  <2>2. PICK x : x = Open!Max(S)
    OBVIOUS
  <2>3. x \in S /\ \A y \in S : x >= y
    BY <2>1, <2>2, Zenon DEF Open!Max
  <2>4. x <= m /\ m <= x /\ x \in Int /\ m \in Int
    BY <1>2, <2>3
  <2> QED BY <2>2, <2>4
<1> QED BY <1>1, <1>2

LEMMA NextOfPlace ==
  ASSUME NEW t, NEW s, NEW L, Ordered(t, s, L), NEW i \in 0 .. L
  PROVE  Open!IterNext(t, Place(s, i)) = Place(s, IF i = 0 THEN 0 ELSE Within(L, i + 1))
<1> DEFINE after == {j \in Place(s, i) + 1 .. t.size - 1 : t.slot[j].hash # 0}
<1> USE DEF Ordered
<1>1. CASE i = 0
  <2>1. Place(s, i) = -1 /\ -1 < 0
    BY <1>1 DEF Place
  <2>2. Open!IterNext(t, Place(s, i)) = -1
    BY <2>1, Zenon DEF Open!IterNext
  <2> QED BY <1>1, <2>1, <2>2 DEF Place
<1>2. CASE i # 0
  <2>1. Place(s, i) \in 0 .. t.size - 1 /\ i \in 1 .. L
    BY <1>2 DEF Place
  <2>2. ~(Place(s, i) < 0)
    BY <2>1
  <2>3. ASSUME NEW q \in after PROVE \E j \in 1 .. L : s[j] = q /\ i < j
    <3>1. q \in 0 .. t.size - 1 /\ t.slot[q].hash # 0 /\ s[i] < q
      BY <1>2, <2>1 DEF Place
    <3>2. PICK j \in 1 .. L : s[j] = q
      BY <3>1
    <3>3. ~(j <= i)
      <4>1. j = i \/ j < i => s[j] = s[i] \/ s[j] < s[i]
        BY <2>1, <3>2
      <4>2. s[i] \in Int /\ q \in Int
        BY <2>1, <3>1
      <4> QED BY <2>1, <3>1, <3>2, <4>1, <4>2
    <3> QED BY <2>1, <3>2, <3>3
  <2>4. CASE i = L
    <3>1. after = {}
      <4> HIDE DEF after
      <4> QED BY <2>3, <2>4
    <3>2. Within(L, i + 1) = 0
      BY <2>4 DEF Within
    <3> QED BY <1>2, <3>1, <3>2, Zenon DEF Open!IterNext, Place
  <2>5. CASE i # L
    <3>1. i + 1 \in 1 .. L /\ i < i + 1
      BY <2>1, <2>5
    <3>2. s[i + 1] \in after
      BY <1>2, <2>1, <3>1 DEF Place
    <3>3. \A q \in after : s[i + 1] <= q
      <4>1. ASSUME NEW q \in after PROVE s[i + 1] <= q
        <5>1. PICK j \in 1 .. L : s[j] = q /\ i < j
          BY <2>3
        <5>2. j = i + 1 \/ i + 1 < j
          BY <2>1, <5>1
        <5> QED BY <3>1, <5>1, <5>2
      <4> QED BY <4>1
    <3>4. after \subseteq Int
      BY <2>1
    <3> HIDE DEF after
    <3>5. Open!Min(after) = s[i + 1]
      BY <3>2, <3>3, <3>4, EndOfSet
    <3>6. after # {} /\ Within(L, i + 1) = i + 1 /\ i + 1 # 0
      BY <3>1, <3>2 DEF Within
    <3>7. Open!IterNext(t, Place(s, i)) = Open!Min(after)
      BY <2>2, <3>6, Zenon DEF Open!IterNext, after
    <3> QED BY <1>2, <3>5, <3>6, <3>7 DEF Place
  <2> QED BY <2>4, <2>5
<1> QED BY <1>1, <1>2

LEMMA PrevOfPlace ==
  ASSUME NEW t, NEW s, NEW L, Ordered(t, s, L), NEW i \in 0 .. L
  PROVE  Open!IterPrev(t, Place(s, i)) = Place(s, IF i = 0 THEN 0 ELSE Within(L, i - 1))
<1> DEFINE before == {j \in 0 .. Place(s, i) - 1 : t.slot[j].hash # 0}
<1> USE DEF Ordered
<1>1. CASE i = 0
  <2>1. Place(s, i) = -1 /\ -1 < 0
    BY <1>1 DEF Place
  <2>2. Open!IterPrev(t, Place(s, i)) = -1
    BY <2>1, Zenon DEF Open!IterPrev
  <2> QED BY <1>1, <2>1, <2>2 DEF Place
<1>2. CASE i # 0
  <2>1. Place(s, i) \in 0 .. t.size - 1 /\ i \in 1 .. L
    BY <1>2 DEF Place
  <2>2. ~(Place(s, i) < 0)
    BY <2>1
  <2>3. ASSUME NEW q \in before PROVE \E j \in 1 .. L : s[j] = q /\ j < i
    <3>1. q \in 0 .. t.size - 1 /\ t.slot[q].hash # 0 /\ q < s[i]
      BY <1>2, <2>1 DEF Place
    <3>2. PICK j \in 1 .. L : s[j] = q
      BY <3>1
    <3>3. ~(i <= j)
      <4>1. i = j \/ i < j => s[i] = s[j] \/ s[i] < s[j]
        BY <2>1, <3>2
      <4>2. s[i] \in Int /\ q \in Int
        BY <2>1, <3>1
      <4> QED BY <2>1, <3>1, <3>2, <4>1, <4>2
    <3> QED BY <2>1, <3>2, <3>3
  <2>4. CASE i = 1
    <3>1. before = {}
      <4> HIDE DEF before
      <4> QED BY <2>3, <2>4
    <3>2. Within(L, i - 1) = 0
      BY <2>4 DEF Within
    <3> QED BY <1>2, <3>1, <3>2, Zenon DEF Open!IterPrev, Place
  <2>5. CASE i # 1
    <3>1. i - 1 \in 1 .. L /\ i - 1 < i
      BY <2>1, <2>5
    <3>2. s[i - 1] \in before
      BY <1>2, <2>1, <3>1 DEF Place
    <3>3. \A q \in before : q <= s[i - 1]
      <4>1. ASSUME NEW q \in before PROVE q <= s[i - 1]
        <5>1. PICK j \in 1 .. L : s[j] = q /\ j < i
          BY <2>3
        <5>2. j = i - 1 \/ j < i - 1
          BY <2>1, <5>1
        <5> QED BY <3>1, <5>1, <5>2
      <4> QED BY <4>1
    <3>4. before \subseteq Int
      BY <2>1
    <3> HIDE DEF before
    <3>5. Open!Max(before) = s[i - 1]
      BY <3>2, <3>3, <3>4, EndOfSet
    <3>6. before # {} /\ Within(L, i - 1) = i - 1 /\ i - 1 # 0
      BY <3>1, <3>2 DEF Within
    <3>7. Open!IterPrev(t, Place(s, i)) = Open!Max(before)
      BY <2>2, <3>6, Zenon DEF Open!IterPrev, before
    <3> QED BY <1>2, <3>5, <3>6, <3>7 DEF Place
  <2> QED BY <2>4, <2>5
<1> QED BY <1>1, <1>2

LEMMA EndsOfOrder ==
  ASSUME NEW t, NEW s, NEW L, Ordered(t, s, L)
  PROVE  /\ Open!IterFirst(t) = Place(s, Within(L, 1))
         /\ Open!IterLast(t) = Place(s, L)
<1> DEFINE used == {j \in 0 .. t.size - 1 : t.slot[j].hash # 0}
<1> USE DEF Ordered
<1>1. \A q \in used : \E j \in 1 .. L : s[j] = q
  OBVIOUS
<1>2. \A j \in 1 .. L : s[j] \in used
  OBVIOUS
<1>3. used \subseteq Int
  OBVIOUS
<1>4. /\ Open!IterFirst(t) = IF used = {} THEN -1 ELSE Open!Min(used)
      /\ Open!IterLast(t) = IF used = {} THEN -1 ELSE Open!Max(used)
  BY Zenon DEF Open!IterFirst, Open!IterLast, used
<1> HIDE DEF used
<1>5. CASE L = 0
  <2>1. used = {}
    BY <1>1, <1>5
  <2> QED BY <1>4, <1>5, <2>1 DEF Place, Within
<1>6. CASE L # 0
  <2>1. 1 \in 1 .. L /\ L \in 1 .. L /\ Within(L, 1) = 1
    BY <1>6 DEF Within
  <2>2. \A j \in 1 .. L : j = 1 \/ 1 < j
    OBVIOUS
  <2>3. \A j \in 1 .. L : j = L \/ j < L
    OBVIOUS
  <2>4. \A q \in used : s[1] <= q /\ q <= s[L]
    <3>1. ASSUME NEW q \in used PROVE s[1] <= q /\ q <= s[L]
      <4>1. PICK j \in 1 .. L : s[j] = q
        BY <1>1
      <4> QED BY <1>3, <2>1, <2>2, <2>3, <4>1
    <3> QED BY <3>1
  <2>5. s[1] \in used /\ s[L] \in used
    BY <1>2, <2>1
  <2>6. Open!Min(used) = s[1]
    <3>1. \A q \in used : s[1] <= q
      BY <2>4
    <3> QED BY <1>3, <2>5, <3>1, EndOfSet
  <2>7. Open!Max(used) = s[L]
    <3>1. \A q \in used : q <= s[L]
      BY <2>4
    <3> QED BY <1>3, <2>5, <3>1, EndOfSet
  <2> QED BY <1>4, <1>6, <2>1, <2>5, <2>6, <2>7 DEF Place
<1> QED BY <1>5, <1>6


\* The steps a call of nextn takes are those one by one.
LEMMA StridesForth ==
  ASSUME NEW t, NEW s, NEW L, Ordered(t, s, L), NEW i \in 0 .. L, NEW x \in {0, 2}
  PROVE  Open!hashtable2_itor(t, Place(s, i), "nextn", x) =
           Place(s, IF i = 0 THEN 0 ELSE Within(L, i + x))
<1> DEFINE S      == {Place(s, j) : j \in 0 .. L}
           to(j)  == IF j = 0 THEN 0 ELSE Within(L, j + 1)
           F      == [z \in (1 .. x) \X S |-> Open!IterNext(t, z[2])]
           Run(g) == g = [j \in 0 .. x |-> IF j = 0 THEN Place(s, i)
                                           ELSE Open!IterNext(t, g[j - 1])]
           taken  == CHOOSE g : Run(g)
<1>1. L \in Nat
  BY DEF Ordered
<1>2. \A j \in 0 .. L : to(j) \in 0 .. L
  BY <1>1 DEF Within
<1>3. \A j \in 0 .. L : Open!IterNext(t, Place(s, j)) = Place(s, to(j))
  BY NextOfPlace
<1>4. Place(s, i) \in S
  OBVIOUS
<1>5. \A p \in S : Open!IterNext(t, p) \in S
  <2> HIDE DEF to
  <2> QED BY <1>2, <1>3
<1> HIDE DEF S
<1>6. F \in Passing(x, S) /\ \A j \in 1 .. x, p \in S : F[<<j, p>>] = Open!IterNext(t, p)
  BY <1>5 DEF Passing
<1> HIDE DEF F, to
<1>7. PICK g : IsRun(x, S, Place(s, i), F, g)
  <2>1. x \in Nat
    OBVIOUS
  <2> HIDE DEF Run
  <2> QED BY <1>4, <1>6, <2>1, LoopRuns
<1>8. ASSUME NEW j \in 0 .. x
      PROVE  g[j] = IF j = 0 THEN Place(s, i) ELSE Open!IterNext(t, g[j - 1])
  <2>1. CASE j # 0
    <3>1. j \in 1 .. x /\ j - 1 \in 0 .. x
      BY <2>1
    <3>2. g[j - 1] \in S
      BY <1>7, <3>1 DEF IsRun
    <3> QED BY <1>6, <1>7, <2>1, <3>1, <3>2 DEF IsRun
  <2> QED BY <1>7, <2>1 DEF IsRun
<1>9. Run(taken)
  <2>1. Run(g)
    BY <1>7, <1>8 DEF IsRun
  <2> HIDE DEF Run
  <2> QED BY <2>1
<1> HIDE DEF taken
<1>10. \A j \in 0 .. x : taken[j] = IF j = 0 THEN Place(s, i) ELSE Open!IterNext(t, taken[j - 1])
  BY <1>9
<1>11. Open!hashtable2_itor(t, Place(s, i), "nextn", x) = taken[x]
  BY Zenon DEF Open!hashtable2_itor, taken
<1> HIDE DEF Run
<1>12. CASE x = 0
  <2>1. taken[x] = Place(s, i)
    BY <1>10, <1>12
  <2>2. i = IF i = 0 THEN 0 ELSE Within(L, i + x)
    BY <1>1, <1>12 DEF Within
  <2> QED BY <1>11, <2>1, <2>2
<1>13. CASE x = 2
  <2>1. taken[0] = Place(s, i)
    BY <1>10, <1>13
  <2>2. taken[1] = Open!IterNext(t, taken[1 - 1])
    BY <1>10, <1>13
  <2>3. taken[2] = Open!IterNext(t, taken[2 - 1])
    BY <1>10, <1>13
  <2>4. 1 - 1 = 0 /\ 2 - 1 = 1
    OBVIOUS
  <2>5. taken[1] = Place(s, to(i))
    BY <1>3, <2>1, <2>2, <2>4
  <2>6. taken[2] = Place(s, to(to(i)))
    BY <1>2, <1>3, <2>3, <2>4, <2>5
  <2>7. to(to(i)) = IF i = 0 THEN 0 ELSE Within(L, i + x)
    BY <1>1, <1>13 DEF to, Within
  <2> QED BY <1>11, <1>13, <2>6, <2>7
<1> QED BY <1>12, <1>13

\* The steps a call of prevn takes are those one by one.
LEMMA StridesBack ==
  ASSUME NEW t, NEW s, NEW L, Ordered(t, s, L), NEW i \in 0 .. L, NEW x \in {0, 2}
  PROVE  Open!hashtable2_itor(t, Place(s, i), "prevn", x) =
           Place(s, IF i = 0 THEN 0 ELSE Within(L, i - x))
<1> DEFINE S      == {Place(s, j) : j \in 0 .. L}
           to(j)  == IF j = 0 THEN 0 ELSE Within(L, j - 1)
           F      == [z \in (1 .. x) \X S |-> Open!IterPrev(t, z[2])]
           Run(g) == g = [j \in 0 .. x |-> IF j = 0 THEN Place(s, i)
                                           ELSE Open!IterPrev(t, g[j - 1])]
           taken  == CHOOSE g : Run(g)
<1>1. L \in Nat
  BY DEF Ordered
<1>2. \A j \in 0 .. L : to(j) \in 0 .. L
  BY <1>1 DEF Within
<1>3. \A j \in 0 .. L : Open!IterPrev(t, Place(s, j)) = Place(s, to(j))
  BY PrevOfPlace
<1>4. Place(s, i) \in S
  OBVIOUS
<1>5. \A p \in S : Open!IterPrev(t, p) \in S
  <2> HIDE DEF to
  <2> QED BY <1>2, <1>3
<1> HIDE DEF S
<1>6. F \in Passing(x, S) /\ \A j \in 1 .. x, p \in S : F[<<j, p>>] = Open!IterPrev(t, p)
  BY <1>5 DEF Passing
<1> HIDE DEF F, to
<1>7. PICK g : IsRun(x, S, Place(s, i), F, g)
  <2>1. x \in Nat
    OBVIOUS
  <2> HIDE DEF Run
  <2> QED BY <1>4, <1>6, <2>1, LoopRuns
<1>8. ASSUME NEW j \in 0 .. x
      PROVE  g[j] = IF j = 0 THEN Place(s, i) ELSE Open!IterPrev(t, g[j - 1])
  <2>1. CASE j # 0
    <3>1. j \in 1 .. x /\ j - 1 \in 0 .. x
      BY <2>1
    <3>2. g[j - 1] \in S
      BY <1>7, <3>1 DEF IsRun
    <3> QED BY <1>6, <1>7, <2>1, <3>1, <3>2 DEF IsRun
  <2> QED BY <1>7, <2>1 DEF IsRun
<1>9. Run(taken)
  <2>1. Run(g)
    BY <1>7, <1>8 DEF IsRun
  <2> HIDE DEF Run
  <2> QED BY <2>1
<1> HIDE DEF taken
<1>10. \A j \in 0 .. x : taken[j] = IF j = 0 THEN Place(s, i) ELSE Open!IterPrev(t, taken[j - 1])
  BY <1>9
<1>11. Open!hashtable2_itor(t, Place(s, i), "prevn", x) = taken[x]
  BY Zenon DEF Open!hashtable2_itor, taken
<1> HIDE DEF Run
<1>12. CASE x = 0
  <2>1. taken[x] = Place(s, i)
    BY <1>10, <1>12
  <2>2. i = IF i = 0 THEN 0 ELSE Within(L, i - x)
    BY <1>1, <1>12 DEF Within
  <2> QED BY <1>11, <2>1, <2>2
<1>13. CASE x = 2
  <2>1. taken[0] = Place(s, i)
    BY <1>10, <1>13
  <2>2. taken[1] = Open!IterPrev(t, taken[1 - 1])
    BY <1>10, <1>13
  <2>3. taken[2] = Open!IterPrev(t, taken[2 - 1])
    BY <1>10, <1>13
  <2>4. 1 - 1 = 0 /\ 2 - 1 = 1
    OBVIOUS
  <2>5. taken[1] = Place(s, to(i))
    BY <1>3, <2>1, <2>2, <2>4
  <2>6. taken[2] = Place(s, to(to(i)))
    BY <1>2, <1>3, <2>3, <2>4, <2>5
  <2>7. to(to(i)) = IF i = 0 THEN 0 ELSE Within(L, i - x)
    BY <1>1, <1>13 DEF to, Within
  <2> QED BY <1>11, <1>13, <2>6, <2>7
<1> QED BY <1>12, <1>13


LEMMA OpenIteratorsRight ==
  ASSUME OpenOK(object)
  PROVE  Open!IteratorsRight
<1>1. PICK f \in HashFuncs, n \in kPrimes : object \in OpenTables(f, n) /\ AllReached(object)
  BY DEF OpenOK
<1>2. /\ n \in Nat \ {0} /\ object.size = n /\ DOMAIN object.slot = 0 .. n - 1
      /\ Used(object) \subseteq 0 .. n - 1
  BY <1>1, SlotsAre
<1>3. PICK s : s = Open!Nodes(object)
  OBVIOUS
<1>4. SlotsInOrder(object, s)
  BY <1>1, <1>3, NodesInOrder
<1>5. s \in Seq(0 .. n - 1)
  BY <1>2, <1>4 DEF SlotsInOrder
<1>6. PICK L \in Nat : L = Len(s) /\ s \in [1 .. L -> 0 .. n - 1] /\ DOMAIN s = 1 .. L
  BY <1>5, SequenceIs
<1>7. Ordered(object, s, L)
  <2>1. \A q \in 0 .. n - 1 : q \in Used(object) <=> object.slot[q].hash # 0
    BY <1>2 DEF Used
  <2> QED BY <1>2, <1>4, <1>6, <2>1 DEF Ordered, SlotsInOrder
<1> DEFINE keys == [i \in DOMAIN Open!Nodes(object) |-> object.slot[Open!Nodes(object)[i]].key]
           Calls == Open!Steps \cup Open!Strides \cup ({"search"} \X Keys)
           Right(i, call, x) ==
             Open!hashtable2_itor(object, Place(s, i), call, x) =
               Place(s, Open!MovedTo(keys, i, call, x))
<1>8. DOMAIN keys = 1 .. L /\ \A i \in 1 .. L : keys[i] = object.slot[s[i]].key
  BY <1>3, <1>6
<1>9. Len(keys) = L
  <2>1. keys = [i \in 1 .. L |-> object.slot[s[i]].key]
    BY <1>3, <1>6
  <2> QED BY <1>6, <2>1
<1> HIDE DEF keys
<1>10. ASSUME NEW i \in 0 .. L, NEW x
       PROVE  /\ Open!MovedTo(keys, i, "invalidate", x) = 0
              /\ Open!MovedTo(keys, i, "first", x) = Within(L, 1)
              /\ Open!MovedTo(keys, i, "last", x) = L
              /\ Open!MovedTo(keys, i, "next", x) = IF i = 0 THEN 0 ELSE Within(L, i + 1)
              /\ Open!MovedTo(keys, i, "prev", x) = IF i = 0 THEN 0 ELSE Within(L, i - 1)
              /\ Open!MovedTo(keys, i, "nextn", x) = IF i = 0 THEN 0 ELSE Within(L, i + x)
              /\ Open!MovedTo(keys, i, "prevn", x) = IF i = 0 THEN 0 ELSE Within(L, i - x)
              /\ Open!MovedTo(keys, i, "search", x) =
                   IF \E j \in 1 .. L : keys[j] = x
                   THEN CHOOSE j \in 1 .. L : keys[j] = x ELSE 0
  BY <1>8, <1>9 DEF Open!MovedTo, Within
<1>11. ASSUME NEW i \in 0 .. L
       PROVE  /\ Open!hashtable2_itor(object, Place(s, i), "invalidate", 0) = -1
              /\ Open!hashtable2_itor(object, Place(s, i), "first", 0) = Open!IterFirst(object)
              /\ Open!hashtable2_itor(object, Place(s, i), "last", 0) = Open!IterLast(object)
              /\ Open!hashtable2_itor(object, Place(s, i), "next", 0) =
                   Open!IterNext(object, Place(s, i))
              /\ Open!hashtable2_itor(object, Place(s, i), "prev", 0) =
                   Open!IterPrev(object, Place(s, i))
  BY Zenon DEF Open!hashtable2_itor
<1>12. ASSUME NEW i \in 0 .. L, NEW call \in {"invalidate", "first", "last", "next", "prev"}
       PROVE  Right(i, call, 0)
  <2>1. CASE call = "invalidate"
    BY <1>10, <1>11, <2>1 DEF Place
  <2>2. CASE call = "first"
    BY <1>7, <1>10, <1>11, <2>2, EndsOfOrder
  <2>3. CASE call = "last"
    BY <1>7, <1>10, <1>11, <2>3, EndsOfOrder
  <2>4. CASE call = "next"
    BY <1>7, <1>10, <1>11, <2>4, NextOfPlace
  <2>5. CASE call = "prev"
    BY <1>7, <1>10, <1>11, <2>5, PrevOfPlace
  <2> QED BY <1>12, <2>1, <2>2, <2>3, <2>4, <2>5
<1>13. ASSUME NEW i \in 0 .. L, NEW x \in {0, 2}
       PROVE  Right(i, "nextn", x) /\ Right(i, "prevn", x)
  BY <1>7, <1>10, StridesForth, StridesBack
<1>14. ASSUME NEW i \in 0 .. L, NEW x \in Keys PROVE Right(i, "search", x)
  <2>1. Open!hashtable2_itor(object, Place(s, i), "search", x) =
          IF Open!SlotOf(object, x) = NULL THEN -1 ELSE Open!SlotOf(object, x)
    BY Zenon DEF Open!hashtable2_itor
  <2>2. \A j \in 1 .. L : s[j] \in Used(object) /\ s[j] \in Int
    BY <1>2, <1>4, <1>6 DEF SlotsInOrder
  <2>3. CASE \E j \in 1 .. L : keys[j] = x
    <3>1. PICK j : j = CHOOSE q \in 1 .. L : keys[q] = x
      OBVIOUS
    <3>2. j \in 1 .. L /\ keys[j] = x
      BY <2>3, <3>1
    <3>3. Open!SlotOf(object, x) = s[j]
      BY <1>8, <2>2, <3>2, SlotOfKey
    <3>4. s[j] # NULL /\ j # 0
      BY <2>2, <3>2, HashAssumption
    <3>5. Open!MovedTo(keys, i, "search", x) = j
      BY <1>10, <2>3, <3>1
    <3>6. Open!hashtable2_itor(object, Place(s, i), "search", x) = s[j]
      BY <2>1, <3>3, <3>4
    <3> QED BY <3>4, <3>5, <3>6 DEF Place
  <2>4. CASE ~\E j \in 1 .. L : keys[j] = x
    <3>1. x \notin KeysOf(object)
      <4>1. ASSUME NEW q \in Used(object) PROVE object.slot[q].key # x
        <5>1. PICK j \in 1 .. L : s[j] = q
          BY <1>2, <1>4, <1>6 DEF SlotsInOrder
        <5> QED BY <1>8, <2>4, <5>1
      <4> QED BY <4>1 DEF KeysOf
    <3>2. Open!SlotOf(object, x) = NULL
      BY <3>1, SlotOfKey
    <3>3. Open!MovedTo(keys, i, "search", x) = 0
      BY <1>10, <2>4
    <3> QED BY <2>1, <3>2, <3>3 DEF Place
  <2> QED BY <2>3, <2>4
<1> HIDE DEF Right
<1>15. ASSUME NEW i \in 0 .. L, NEW c \in Calls PROVE Right(i, c[1], c[2])
  <2>1. CASE c \in Open!Steps
    <3>1. c[1] \in {"invalidate", "first", "last", "next", "prev"} /\ c[2] = 0
      BY <2>1 DEF Open!Steps
    <3> QED BY <1>12, <3>1
  <2>2. CASE c \in Open!Strides
    <3>1. c[1] \in {"nextn", "prevn"} /\ c[2] \in {0, 2}
      BY <2>2 DEF Open!Strides
    <3> QED BY <1>13, <3>1
  <2>3. CASE c \in {"search"} \X Keys
    <3>1. c[1] = "search" /\ c[2] \in Keys
      BY <2>3
    <3> QED BY <1>14, <3>1
  <2> QED BY <2>1, <2>2, <2>3
<1>16. \A i \in 0 .. Len(keys), c \in Calls :
         Open!hashtable2_itor(object, Place(s, i), c[1], c[2]) =
           Place(s, Open!MovedTo(keys, i, c[1], c[2]))
  BY <1>9, <1>15 DEF Right
<1> QED BY <1>3, <1>16, Zenon DEF Open!IteratorsRight, keys, Place

\* An iterator goes through all the slots that are occupied, in either direction, in single
\* steps and strides, and a search puts it at the slot of its key.
THEOREM OpenIteratorsAlwaysRight ==
  Spec /\ kind = "hashtable2" => []IteratorsRight
<1>1. Init /\ kind = "hashtable2" => IsOpen
  BY OpenStarts
<1>2. IsOpen /\ [Next]_vars => IsOpen'
  BY OpenGoesOn
<1>3. IsOpen => IteratorsRight
  BY OpenIteratorsRight DEF IsOpen, IteratorsRight
<1> QED BY <1>1, <1>2, <1>3, PTL DEF Spec

=====================================================================================
