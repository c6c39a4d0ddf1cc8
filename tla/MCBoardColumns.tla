--------------------------- MODULE MCBoardColumns ---------------------------
(* Model values and symmetry for the run of BoardColumns.                  *)
EXTENDS BoardColumns, TLC

CONSTANTS c1, c2, c3, n1, n2, n3, t1, q1, q2

\* Rows, names and requests are interchangeable.
Symmetry == Permutations(Column) \cup Permutations(Name) \cup Permutations(Request)
=============================================================================
