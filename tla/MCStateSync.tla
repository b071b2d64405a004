----------------------------- MODULE MCStateSync -----------------------------
(* StateSync on small instances for TLC.                                   *)
EXTENDS StateSync, TLC

Symmetry == Permutations(Pipelines)
=============================================================================
