------------------------------ MODULE MCTasks -------------------------------
(* Model values and symmetry for the runs of Tasks.                        *)
EXTENDS Tasks, TLC

CONSTANTS t1, t2, c1, c2, c3, k1, k2, x1, x2

CompareAndSetKinds == {"patch", "move"}

ClientSymmetry == Permutations(Client)
=============================================================================
