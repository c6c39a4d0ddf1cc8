---------------------------- MODULE MCTaskParts -----------------------------
(* Model values and symmetry for the run of TaskParts.                     *)
EXTENDS TaskParts, TLC

CONSTANTS i1, c1, c2, x, y, e1, e2, p1, w1, w2, f1, q1, q2

(* One item suffices for every overlap on a row; the parts share values.   *)
Symmetry == Permutations(Client) \cup Permutations(Title) \cup Permutations(Entry)
            \cup Permutations(Call)
=============================================================================
