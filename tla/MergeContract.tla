---------------------------- MODULE MergeContract ----------------------------
(***************************************************************************)
(* What a merge job promises of each key of its table.  A key has the rows *)
(* it had at first until the job gives it those the merge ends with, once  *)
(* and for good: no repeated attempt takes them back.  A job that reports  *)
(* success has done so for every key.  The one exception is a job that has *)
(* not seen what was in the table: it leaves the file's rows and no other, *)
(* of all keys at once and for good.  Of a key that another run loads      *)
(* meanwhile nothing is promised.                                          *)
(***************************************************************************)
CONSTANT Keys

VARIABLES state,   \* of each key: "first", "merged", "file" or "shared"
          done     \* does the job report success?

vars == <<state, done>>

Init == state \in [Keys -> {"first", "merged"}] /\ done = FALSE

\* An attempt merges the keys in S, and may be through when none is left.
Merge(S) ==
    /\ ~done
    /\ \A key \in S : state[key] = "first"
    /\ state' = [key \in Keys |-> IF key \in S THEN "merged" ELSE state[key]]
    /\ done' \in BOOLEAN
    /\ done' => \A key \in Keys : state'[key] # "first"

\* An attempt that saw no rows replaces the table by the file.
Overwrite ==
    /\ ~done /\ done' = TRUE
    /\ state' = [key \in Keys |-> IF state[key] = "shared" THEN "shared" ELSE "file"]

\* The job is run again over what it did.
Repeat == done /\ done' = FALSE /\ UNCHANGED state

\* Another run loads a row with the key.
Share(key) == state' = [state EXCEPT ![key] = "shared"] /\ UNCHANGED done

Next ==
    \/ \E S \in SUBSET Keys : Merge(S)
    \/ Overwrite
    \/ Repeat
    \/ \E key \in Keys : Share(key)

Spec == Init /\ [][Next]_vars
=============================================================================
