---------------------------- MODULE MCSourceRead -----------------------------
(* SourceRead on small instances for TLC.                                  *)
EXTENDS SourceRead
=============================================================================
