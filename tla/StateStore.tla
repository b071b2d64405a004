------------------------------ MODULE StateStore ------------------------------
(***************************************************************************)
(* What a pipeline is promised of its stored state: the destination holds  *)
(* one state per pipeline, that of its newest completed load, and a load   *)
(* can only move it forward.                                               *)
(***************************************************************************)
EXTENDS Integers

CONSTANT Pipelines

VARIABLE stored   \* the load id whose state a restore returns, 0 if none

Init == stored = [p \in Pipelines |-> 0]

Advance(p) ==
    /\ stored'[p] > stored[p]
    /\ stored' = [stored EXCEPT ![p] = stored'[p]]

Next == \E p \in Pipelines : Advance(p)

Spec == Init /\ [][Next]_stored
=============================================================================
