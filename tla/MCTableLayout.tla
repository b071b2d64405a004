---------------------------- MODULE MCTableLayout ---------------------------
(* TableLayout on small instances for TLC.                                 *)
EXTENDS TableLayout

Columns == <<"date", "time">>

By(form, column, transform) == [form |-> form, column |-> column, transform |-> transform]

Order(form, column, direction, nulls) ==
    [form |-> form, column |-> column, direction |-> direction, nulls |-> nulls]

Partitions ==
    {<<>>,
     <<By("pair", "date", "day")>>,
     <<By("mapping", "time", "unset"), By("name", "date", "unset")>>,
     <<By("pair", "date", "unset")>>,
     <<By("mapping", "date", "unknown")>>,
     <<By("mapping", "gone", "day")>>,
     <<By("name", NoColumn, "unset")>>,
     <<By("other", "date", "unset")>>}

Sorts ==
    {<<>>,
     <<Order("pair", "time", "desc", "unset")>>,
     <<Order("mapping", "time", "asc", "last"), Order("pair", "date", "unset", "first")>>,
     <<Order("name", "date", "unset", "unset"), Order("name", "time", "unset", "unset")>>,
     <<Order("pair", "time", "unknown", "unset")>>,
     <<Order("mapping", "gone", "asc", "unset")>>,
     <<Order("mapping", NoColumn, "unset", "unset")>>}
=============================================================================
