------------------------------- MODULE Tables -------------------------------
(* Database tables and keyed records: functions from the ids with a row.   *)

IsTable(table, Id, Rows) == DOMAIN table \subseteq Id /\ table \in [DOMAIN table -> Rows]

NoRows == [x \in {} |-> x]

\* A table with a row written, and with a row gone.
Put(table, id, row) == [x \in DOMAIN table \cup {id} |-> IF x = id THEN row ELSE table[x]]
Without(table, id) == [x \in DOMAIN table \ {id} |-> table[x]]
=============================================================================
