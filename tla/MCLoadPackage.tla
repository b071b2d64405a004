---------------------------- MODULE MCLoadPackage ----------------------------
(* LoadPackage on small instances for TLC.                                 *)
EXTENDS LoadPackage

CONSTANTS events, totals   \* tables
=============================================================================
