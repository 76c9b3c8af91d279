------------------------------ MODULE ListsAndTables ------------------------------
(***************************************************************************)
(* A dictionary that is not a tree, as its users see it (libuddsketch/     *)
(* include/dict/dict.h): a skip list or one of the two hash tables, behind *)
(* the same table of functions as the trees of module Dict.                *)
(***************************************************************************)
EXTENDS HashCommon

CONSTANTS HEAD,     \* the head of a skip list
          max_link  \* the number of its links

ASSUME ListAssumption == /\ Keys \subseteq Int
                         /\ max_link \in Nat \ {0}
                         /\ NULL \notin Addresses /\ HEAD \notin Addresses /\ NULL # HEAD

VARIABLES kind,   \* whose vtable the dictionary has
          object  \* what its functions work on

vars == <<kind, object>>

List    == INSTANCE SkipList WITH list <- object
Chained == INSTANCE Hashtable WITH table <- object
Open    == INSTANCE Hashtable2 WITH table <- object

Kinds == {"skiplist", "hashtable", "hashtable2"}

\* The *_dict_new functions
Init == \/ kind = "skiplist" /\ List!Init
        \/ kind = "hashtable" /\ Chained!Init
        \/ kind = "hashtable2" /\ Open!Init

\* The calls, by the kind that answers them
ListNext    == kind = "skiplist" /\ List!Next /\ UNCHANGED kind
ChainedNext == kind = "hashtable" /\ Chained!Next /\ UNCHANGED kind
OpenNext    == kind = "hashtable2" /\ Open!Next /\ UNCHANGED kind

Next == ListNext \/ ChainedNext \/ OpenNext

Spec == Init /\ [][Next]_vars

----------------------------------------------------------------------------
\* The types of what each kind keeps.
TypeOK ==
  CASE kind = "skiplist"   -> List!TypeOK
    [] kind = "hashtable"  -> Chained!TypeOK
    [] kind = "hashtable2" -> Open!TypeOK

\* After any call dict_verify finds nothing wrong, and what it leaves out is right too: the
\* levels of a skip list nest; a chain of the one table holds each key once, after any
\* resize; and in the other every key can be reached by probing, whatever was
\* removed before it and however full the table is.
Sound ==
  CASE kind = "skiplist"   -> List!LevelsNest
    [] kind = "hashtable"  -> Chained!Sound
    [] kind = "hashtable2" -> Open!Sound

\* A search finds the keys that are there, and those near them where the kind keeps an order.
SearchesRight ==
  CASE kind = "skiplist"   -> List!SearchesRight
    [] kind = "hashtable"  -> Chained!SearchesRight
    [] kind = "hashtable2" -> Open!SearchesRight

\* An iterator goes through all of the keys, in either direction.
IteratorsRight ==
  CASE kind = "skiplist"   -> List!IteratorsRight
    [] kind = "hashtable"  -> Chained!IteratorsRight
    [] kind = "hashtable2" -> Open!IteratorsRight

\* The pointers to data that callers hold stay good in the kinds that allocate
\* their nodes: a node keeps its key and its datum until it goes, even when the table it is
\* in grows or shrinks.
PointersStay ==
  [][kind # "hashtable2" =>
       \A n \in (DOMAIN object.heap \cap DOMAIN object'.heap) \ {HEAD} :
         /\ object'.heap[n].key = object.heap[n].key
         /\ object'.heap[n].datum = object.heap[n].datum]_object

\* Any kind is a map: growing and shrinking, failing to for want of memory, and
\* repairing the slots after a removal lose no key and no datum and bring none back.
Contents ==
  CASE kind = "skiplist"   -> List!MapOf(object)
    [] kind = "hashtable"  -> Chained!MapOf(object)
    [] kind = "hashtable2" -> Open!MapOf(object)

Map == INSTANCE OrderedMap WITH map <- Contents

ImplementsMap == Map!ClearableSpec
===================================================================================
