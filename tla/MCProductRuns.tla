---------------------------- MODULE MCProductRuns ----------------------------
(* Instances of ProductRuns for TLC.  Keys and processes are only compared, *)
(* so any permutation of them gives the same behaviours.                    *)
EXTENDS ProductRuns, TLC

Interchangeable == Permutations(Key) \cup Permutations(Process)
=============================================================================
