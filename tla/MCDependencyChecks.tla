------------------------- MODULE MCDependencyChecks -------------------------
(* Model values for the run of DependencyChecks.                           *)
EXTENDS DependencyChecks

CONSTANTS t1, t2, t3, c1, c2
=============================================================================
