-------------------------- MODULE MCDatabaseBinding --------------------------
(* DatabaseBinding on small instances for TLC.                             *)
EXTENDS DatabaseBinding, TLC

CONSTANTS orders, items, events   \* tables

Symmetry == Permutations(Tables)
=============================================================================
