------------------------------ MODULE MCPlayer ------------------------------
EXTENDS Player

Plain == [delay |-> 0, framedrop |-> FALSE, loops |-> 0, ioError |-> FALSE,
          noautoexit |-> FALSE, allocFails |-> FALSE, maxSeeks |-> 0, maxPauses |-> 0]

(* A stream played twice until it ends, one with a decoder that delays and *)
(* a user who seeks and pauses, one that drops pictures, one that fails to *)
(* read, and one that fails to allocate an overlay.                        *)
MCSetups ==
  {[Plain EXCEPT !.loops = 1],
   [Plain EXCEPT !.delay = 1, !.noautoexit = TRUE, !.maxSeeks = 1, !.maxPauses = 1],
   [Plain EXCEPT !.framedrop = TRUE, !.maxSeeks = 1],
   [Plain EXCEPT !.ioError = TRUE, !.maxPauses = 1],
   [Plain EXCEPT !.allocFails = TRUE]}
=============================================================================
