------------------------------ MODULE MCBuffer ------------------------------
(* Model-checking instance of Buffer: one thread with two pointers and one *)
(* with one.                                                               *)
EXTENDS Buffer, TLC

CONSTANTS t1, t2, s1, s2, s3

MCOwner == s1 :> t1 @@ s2 :> t1 @@ s3 :> t2
BlockSymmetry == Permutations(Blocks)
=============================================================================
