----------------------------- MODULE MCSqlReads -----------------------------
(* SqlReads on small instances for TLC.                                    *)
EXTENDS SqlReads

CONSTANTS c1, c2
=============================================================================
