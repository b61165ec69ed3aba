--------------------------- MODULE MCFixedWindow ----------------------------
(* Small instances of FixedWindow for TLC.                                 *)
EXTENDS FixedWindow, TLC

CONSTANTS t1, t2, t3, k1, k2

Symmetry == Permutations(Callers) \cup Permutations(Keys)
=============================================================================
