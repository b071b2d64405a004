----------------------------- MODULE MCMergeJob ------------------------------
(* MergeJob on small instances for TLC.                                    *)
EXTENDS MergeJob

CONSTANTS k1, k2
=============================================================================
