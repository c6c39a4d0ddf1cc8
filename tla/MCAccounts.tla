----------------------------- MODULE MCAccounts -----------------------------
(* Model values and symmetry for the run of Accounts.                      *)
EXTENDS Accounts, TLC

CONSTANTS u1, e1, e2, s1, s2, s3, t1, t2, q1, q2

\* Rows of a table and requests are interchangeable.
Symmetry == Permutations(Session) \cup Permutations(Token) \cup Permutations(Request)
            \cup Permutations(Email)
=============================================================================
