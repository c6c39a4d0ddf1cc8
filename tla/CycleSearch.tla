---------------------------- MODULE CycleSearch -----------------------------
(***************************************************************************)
(* would_create_dependency_cycle of domain/collaboration.py: the iterative *)
(* depth-first search that decides whether the edge blocker -> blocked     *)
(* would close a cycle, one step for each turn of its loop.  Every graph   *)
(* on Node and every pair of tasks is an initial state.                    *)
(***************************************************************************)
EXTENDS DependencyGraph, Naturals, Sequences, FiniteSets

CONSTANT Node       \* the tasks of a project; finitely many

VARIABLES
    edges, blocker, blocked,    \* the arguments
    stack,                      \* list of tasks, the last one is popped
    seen,                       \* tasks whose successors were pushed
    result                      \* "running", then "cycle" or "free"

vars == <<edges, blocker, blocked, stack, seen, result>>

TypeOK == /\ edges \subseteq Node \X Node
          /\ blocker \in Node /\ blocked \in Node
          /\ stack \in Seq(Node)
          /\ seen \subseteq Node
          /\ result \in {"running", "cycle", "free"}

Init == /\ edges \in SUBSET (Node \X Node)
        /\ blocker \in Node /\ blocked \in Node
        /\ stack = <<blocked>>
        /\ seen = {}
        /\ result = IF blocker = blocked THEN "cycle" ELSE "running"

Elements(s) == {s[i] : i \in 1..Len(s)}

\* adjacency.get(current, ()) is a set: it is iterated in some order.
SuccessorsBack(x) == {y \in Node : <<y, x>> \in edges}   \* fault: edges reversed

Successors(x) == {y \in Node : <<x, y>> \in edges}

Orders(S) == {s \in [1..Cardinality(S) -> S] : Elements(s) = S}

Top == stack[Len(stack)]
Peeked == stack                              \* fault: the top is read, not popped
Popped == SubSeq(stack, 1, Len(stack) - 1)

Found == /\ result = "running" /\ stack # <<>>
         /\ Top = blocker
         /\ result' = "cycle"
         /\ stack' = Popped
         /\ UNCHANGED <<edges, blocker, blocked, seen>>

Skip == /\ result = "running" /\ stack # <<>>
        /\ Top # blocker /\ Top \in seen
        /\ stack' = Popped
        /\ UNCHANGED <<edges, blocker, blocked, seen, result>>

Expand == /\ result = "running" /\ stack # <<>>
          /\ Top # blocker /\ Top \notin seen
          /\ seen' = seen \cup {Top}
          /\ \E order \in Orders(Successors(Top)) : stack' = Popped \o order
          /\ UNCHANGED <<edges, blocker, blocked, result>>

Exhausted == /\ result = "running" /\ stack = <<>>
             /\ result' = "free"
             /\ UNCHANGED <<edges, blocker, blocked, stack, seen>>

Next == Found \/ Skip \/ Expand \/ Exhausted

Spec == Init /\ [][Next]_vars

-----------------------------------------------------------------------------
\* The answer is right for every graph, cyclic ones included: a cycle is
\* reported exactly when blocked already reaches blocker.
ResultCorrect ==
    /\ result = "cycle" => Reaches(blocked, blocker, Node, edges)
    /\ result = "free" => ~Reaches(blocked, blocker, Node, edges)

\* The search ends, also on graphs that already have a cycle.
Terminates == <>(result # "running")
=============================================================================
