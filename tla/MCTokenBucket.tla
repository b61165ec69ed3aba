--------------------------- MODULE MCTokenBucket ----------------------------
(* Small instance of TokenBucket for TLC.                                  *)
EXTENDS TokenBucket, TLC

CONSTANTS t1, t2

ThreadSymmetry == Permutations(Threads)
=============================================================================
