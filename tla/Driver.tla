---------------------------------- MODULE Driver ----------------------------------
(***************************************************************************)
(* The program that users run (uddsketch-test/main.c): it makes a sketch   *)
(* from the options, feeds it a file of numbers, sorts the file, and       *)
(* compares every percentile of the sketch with the exact one.  It         *)
(* composes with the sketch of its choice, PSketch or GSketch, whose loops *)
(* run in steps of their own.                                              *)
(***************************************************************************)
EXTENDS StoreContents, Sequences, TLC

CONSTANTS Items,    \* the numbers that files are made of
          Grain,    \* log_gamma for the alpha of the options
          MaxLog,   \* the logarithm of the greatest addressable value
          Files,    \* the files: sequences of items
          Options,  \* records of the options -s, -b and -n
          Hundred   \* the number of percentiles, but for the first: 100 in the code

ASSUME ItemsAssumption   == IsFiniteSet(Items) /\ \A x \in Items : IsItem(x)
ASSUME FilesAssumption   == IsFiniteSet(Files) /\ Files \subseteq Seq(Items)
ASSUME HundredAssumption == Hundred \in Nat \ {0} /\ MaxLog \in Int

UNIFORM_WITH_INITIAL_ALPHA == "ALL_INITIAL_ALPHA"
BACKWARD_COLLAPSES == 11

ASSUME OptionsAssumption ==
  \A o \in Options : /\ o.s \in StoreType \cup {UNIFORM_WITH_INITIAL_ALPHA}
                     /\ o.b \in Nat /\ o.n \in BOOLEAN

\* The grid of logarithms has the points that the finer alpha needs
ASSUME GrainAssumption == Grain \in Nat \ {0} /\ Grain % 2 ^ (BACKWARD_COLLAPSES - 1) = 0

VARIABLES neg_items,                          \* option -n
          istream, i, p,                      \* the numbers, and the indices of the loops
          at,                                 \* which part of main runs
          sketch_quantiles, exact_quantiles,  \* the results, from percentile 0 on
          store_type, max_sketch_size,        \* the options, and fields of a dds_gsketch
          postore, nestore, removed,          \* those of a dds_gsketch only
          store, pending,                     \* those of a dds_psketch only
          id_map, zero_bucket, pc, scan, answer, live  \* those of both

options == <<neg_items, store_type, max_sketch_size>>
results == <<sketch_quantiles, exact_quantiles>>
main    == <<options, istream, i, p, at, results>>
gonly   == <<postore, nestore, removed>>
ponly   == <<store, pending>>
both    == <<id_map, zero_bucket, pc, scan, answer, live>>
vars    == <<main, gonly, ponly, both>>

MaxLength == Max({Len(f) : f \in Files})

P == INSTANCE PSketch WITH Counts <- {1}, Policies <- {}, MaxLive <- MaxLength,
       RemoveOnlyLive <- TRUE, AskOnlyNonEmpty <- FALSE

G == INSTANCE GSketch WITH Counts <- {1}, Policies <- {},
       MaxLive <- [type \in StoreType |-> MaxLength],
       RemoveOnlyLive <- TRUE, AskOnlyNonEmpty <- FALSE

----------------------------------------------------------------------------
(* The sketch behind the calls of dds_sketch.c.  Of the one that was not   *)
(* made nothing changes.                                                   *)
PStep(action) == ~neg_items /\ action /\ UNCHANGED gonly
GStep(action) == neg_items /\ action /\ UNCHANGED ponly

total_count       == IF neg_items THEN G!total_count ELSE P!total_count
is_addressable(x) == IF neg_items THEN G!is_addressable(x) ELSE P!is_addressable(x)

dds_sketch_update(x) ==
  \/ PStep(P!UpdateIgnored(x) \/ P!InsertZero(x, 1) \/ P!InsertStored(x, 1))
  \/ GStep(G!UpdateIgnored(x) \/ G!InsertZero(x, 1) \/ G!InsertStored(x, 1))

dds_sketch_get_quantile(rank) ==
  \/ PStep(P!AskZero(rank) \/ P!AskStore(rank))
  \/ GStep(G!AskNegative(rank) \/ G!AskZero(rank) \/ G!AskPositive(rank))

----------------------------------------------------------------------------
(* main *)

StoreTypeOf(o) == IF o.s = UNIFORM_WITH_INITIAL_ALPHA THEN COLLAPSINGALL_MAPSTORE ELSE o.s
BoundOf(o)     == IF o.s = UNBOUNDED_MAPSTORE THEN 0 ELSE o.b

\* atanh(alpha) is half of log(gamma)
LogGammaOf(o)  == IF o.s = UNIFORM_WITH_INITIAL_ALPHA
                  THEN Grain \div 2 ^ (BACKWARD_COLLAPSES - 1) ELSE Grain

NoStore == NewStore(UNBOUNDED_MAPSTORE, FALSE, 0)

Init == /\ istream \in Files
        /\ \E o \in Options :
             /\ neg_items = o.n
             /\ IF o.n
                THEN /\ G!Created(StoreTypeOf(o), BoundOf(o), LogGammaOf(o))
                     /\ store = NoStore /\ pending = 0
                ELSE /\ P!Created(StoreTypeOf(o), BoundOf(o), LogGammaOf(o))
                     /\ store_type = StoreTypeOf(o) /\ max_sketch_size = BoundOf(o)
                     /\ postore = NoStore /\ nestore = NoStore /\ removed = FALSE
        /\ i = 0 /\ p = 0
        /\ at = "fill"
        /\ sketch_quantiles = <<>> /\ exact_quantiles = <<>>

Fill == /\ at = "fill" /\ pc = "ready"
        /\ i < Len(istream)
        /\ dds_sketch_update(istream[i + 1])
        /\ i' = i + 1
        /\ UNCHANGED <<options, istream, p, at, results>>

Sort == /\ at = "fill" /\ pc = "ready"
        /\ i = Len(istream)
        /\ istream' = SortSeq(istream, Before)
        /\ at' = "ask"
        /\ UNCHANGED <<options, i, p, results, gonly, ponly, both>>

Ask == /\ at = "ask" /\ pc = "ready"
       /\ dds_sketch_get_quantile((p * (total_count - 1)) \div Hundred)
       /\ at' = "compare"
       /\ UNCHANGED <<options, istream, i, p, results>>

\* A wrong ExactRank, for mutation tests: rounds up
ExactRank_Up(n) == CeilDiv(p * (n - 1), Hundred)

\* n, the number of numbers, is not 0 here: the quantile of an empty sketch ends the program
ExactRank(n) == (p * (n - 1)) \div Hundred

Compare == /\ at = "compare" /\ pc = "ready"
           /\ sketch_quantiles' = Append(sketch_quantiles, answer)
           /\ exact_quantiles' = Append(exact_quantiles, istream[ExactRank(Len(istream)) + 1])
           /\ p' = p + 1
           /\ at' = IF p < Hundred THEN "ask" ELSE "done"
           /\ UNCHANGED <<options, istream, i, gonly, ponly, both>>

SketchRuns == (PStep(P!Loop) \/ GStep(G!Loop)) /\ UNCHANGED main

Next == Fill \/ Sort \/ Ask \/ Compare \/ SketchRuns

Spec == Init /\ [][Next]_vars

\* One thread runs, and nothing but the machine can stop it
FairSpec == Spec /\ WF_vars(Next)

----------------------------------------------------------------------------
Summary == INSTANCE QuantileSummary WITH
  max_size <- max_sketch_size, log_gamma <- id_map.log_gamma

\* The buckets that the file would need at the alpha of the options
BucketsAtUserAlpha ==
  {<<x.sign, BucketId(NewMapping(LOG_UPPER, Grain), x.log)>> :
     x \in {istream[k] : k \in {j \in DOMAIN istream : /\ is_addressable(istream[j])
                                                       /\ istream[j].sign # 0}}}

\* The statistics compare like with like: unless the sketch was not fed some number of the
\* file, the bucket it names at every percentile is the exact quantile's, or is flagged as
\* the one that absorbed it.  And if the file fits the bound at the alpha of the options,
\* the resolution of the uniform collapse, the finer initial alpha included, is
\* no worse than that alpha at the end: every error is printed in green.
QuantilesAgree ==
  /\ (\A k \in DOMAIN istream : is_addressable(istream[k])) =>
       \A k \in DOMAIN exact_quantiles : Summary!Fits(sketch_quantiles[k], exact_quantiles[k])
  /\ Cardinality(BucketsAtUserAlpha) <= max_sketch_size => id_map.log_gamma <= Grain

\* No call of main follows a NULL pointer.
NoCrash == pc # "crashed"

\* The program comes to an end, with all the percentiles, on every file that has a number
\* for the sketch, whatever must be collapsed on the way.
ProgramEnds ==
  (\E k \in DOMAIN istream : is_addressable(istream[k])) ~>
    at = "done" /\ Len(exact_quantiles) = Hundred + 1
===================================================================================
