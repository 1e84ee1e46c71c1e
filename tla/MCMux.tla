------------------------------- MODULE MCMux -------------------------------
(* Three streams in different time bases, in files of different formats.   *)
EXTENDS Mux

Base == [tb |-> [s \in Streams |-> IF s = 1 THEN 3 ELSE 2],
         first |-> [s \in Streams |-> IF s = 1 THEN {-2, 1} ELSE {-1, 0}],
         delay |-> [s \in Streams |-> 0],
         delta |-> 0, avoid |-> "nonnegative", nonstrict |-> FALSE,
         direct |-> FALSE, flushes |-> FALSE, faults |-> 0]

MCSetups ==
  {Base,
   [Base EXCEPT !.delta = 1, !.avoid = "zero", !.delay[0] = 1],
   [Base EXCEPT !.avoid = "no", !.nonstrict = TRUE, !.flushes = TRUE],
   [Base EXCEPT !.direct = TRUE],
   [Base EXCEPT !.delta = 1, !.faults = 1, !.first[1] = {1}]}
=============================================================================
