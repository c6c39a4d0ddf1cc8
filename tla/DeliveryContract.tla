-------------------------- MODULE DeliveryContract --------------------------
(***************************************************************************)
(* What a table of deliveries promises: a row is opened once, every        *)
(* attempt is counted, there are at most Limit of them, and a row that was *)
(* sent, skipped or given up never changes again.                          *)
(***************************************************************************)
EXTENDS Naturals

CONSTANTS Row, Limit

VARIABLES
    table,      \* table[r]: the status of r and its attempts
    removed     \* rows that were deleted, with what they are about

vars == <<table, removed>>

Absent == [status |-> "none", attempts |-> 0]

Open(row) == row.status \in {"pending", "failed"} /\ row.attempts < Limit

\* The steps of one row.
Created(row, new) ==
    row = Absent /\ new \in {[status |-> "pending", attempts |-> 0],
                             [status |-> "sent", attempts |-> 1]}
Attempted(row, new) ==
    /\ Open(row)
    /\ new.attempts = row.attempts + 1
    /\ new.status \in {"sent", "failed", "skipped"}

Init == table = [r \in Row |-> Absent] /\ removed = {}

Next ==
    \/ /\ table' \in [Row -> {table'[r] : r \in Row}]
       /\ \A r \in Row : \/ table'[r] = table[r]
                         \/ r \notin removed /\ Created(table[r], table'[r])
                         \/ Attempted(table[r], table'[r])
       /\ UNCHANGED removed
    \/ \E gone \in SUBSET Row :
         /\ removed' = removed \cup gone
         /\ table' = [r \in Row |-> IF r \in gone THEN Absent ELSE table[r]]

Spec == Init /\ [][Next]_vars
=============================================================================
