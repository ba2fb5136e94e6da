--------------------------- MODULE MCTokenBucket ---------------------------
(***************************************************************************)
(* Instances of TokenBucket for TLC.                                       *)
(***************************************************************************)
EXTENDS TokenBucket, TLC

CallSymmetry == Permutations(Calls)
=============================================================================
