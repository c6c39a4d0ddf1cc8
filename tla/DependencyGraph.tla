-------------------------- MODULE DependencyGraph ---------------------------
(***************************************************************************)
(* Directed graphs of task dependencies.  An edge <<x, y>> says that task  *)
(* x blocks task y.  Reachability and acyclicity are defined by closed     *)
(* sets, without recursion, so that the same definitions serve TLC and the *)
(* proofs.                                                                 *)
(***************************************************************************)

\* S is closed: no edge of E leaves it.
Closed(S, N, E) == \A x \in S, y \in N : <<x, y>> \in E => y \in S

\* y is reached from x by zero or more edges: every closed set with x has y.
Reaches(x, y, N, E) ==
    \A S \in SUBSET N : x \in S /\ Closed(S, N, E) => y \in S

\* No tasks wait for each other in a circle: every nonempty set of tasks has
\* one that blocks none of the set.
Acyclic(N, E) ==
    \A S \in SUBSET N :
        S # {} => \E x \in S : \A y \in S : <<x, y>> \notin E
=============================================================================
