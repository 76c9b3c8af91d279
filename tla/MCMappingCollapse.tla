--------------------------- MODULE MCMappingCollapse ---------------------------
(* Every logarithm from -40 to 40 under the mapping the sketches use; only  *)
(* numbers from 1 up under the other one, which reports values below 1 too  *)
(* low.                                                                     *)
EXTENDS MappingCollapse

GoodCases == ({LOG_UPPER} \X (-40 .. 40)) \cup ({LOG_LOWER} \X (0 .. 40))

\* The ints end the range for the gammas 1 and 2, the doubles for the others
MCDblMin == -30
================================================================================
