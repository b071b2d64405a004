-------------------------- MODULE MCInternalTables --------------------------
(* InternalTables on small instances for TLC.                              *)
EXTENDS InternalTables

CONSTANTS r1, r2, h1, h2
=============================================================================
