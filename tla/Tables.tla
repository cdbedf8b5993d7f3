------------------------------- MODULE Tables -------------------------------
(***************************************************************************)
(* MDBXConnection/utils.hpp as the databases over MDBX use it: a table is  *)
(* a function from keys to values, and a map of the caller is one too.     *)
(***************************************************************************)
EXTENDS Integers

NoRecords == [k \in {} |-> 0]
With(table, k, v) == [x \in DOMAIN table \cup {k} |-> IF x = k THEN v ELSE table[x]]
\* The records of list named by taken, over those of table.
Overlaid(table, list, taken) ==
    [i \in taken \cup DOMAIN table |-> IF i \in taken THEN list[i] ELSE table[i]]

\* MDBX_APPEND refuses a key below the last one of the table.
Puttable(table, k, batch_write) == batch_write => \A x \in DOMAIN table : x <= k
put_raw_key(t, k, value, batch_write) ==
    IF t.ok /\ Puttable(t.table, k, batch_write)
    THEN [t EXCEPT !.table = With(@, k, value)]
    ELSE [t EXCEPT !.ok = FALSE]
\* Records already in the map stay as they are: emplace.
get_all_fixed_map(table, out_map) ==
    [k \in DOMAIN table \cup DOMAIN out_map |-> IF k \in DOMAIN out_map THEN out_map[k] ELSE table[k]]
=============================================================================
