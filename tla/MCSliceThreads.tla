--------------------------- MODULE MCSliceThreads ---------------------------
(* Model-checking instances of SliceThreads. *)
EXTENDS SliceThreads
=============================================================================
