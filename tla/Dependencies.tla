---------------------------- MODULE Dependencies ----------------------------
(***************************************************************************)
(* The dependencies between the tasks of one project: create_dependency    *)
(* and delete_dependency of api/routes/tasks.py, with the archive and the  *)
(* restore of tasks, which decide what the cycle check looks at.           *)
(*                                                                         *)
(* create_dependency takes no lock.  Under READ COMMITTED each statement   *)
(* has a snapshot of its own, so the two access checks, the read of the    *)
(* edges and the insert are four steps of the request.                     *)
(***************************************************************************)
EXTENDS DependencyGraph, ProjectRows, Naturals, FiniteSets

CONSTANTS
    Client,      \* clients, each with at most one create_dependency running
    MaxEdges     \* bound: requests begin while there are fewer rows

ASSUME MaxEdgesAssumption == MaxEdges \in Nat

VARIABLES
    edges,       \* rows of task_dependencies: <<blocker, blocked>>
    live,        \* tasks with deleted_at IS NULL
    adding,      \* adding[c]: the create_dependency of c, or NotAdding
    \* History, for the properties:
    missed       \* <<e, f>>: row e was inserted after a check that did not read
                 \* f, which stood at the insert

vars == <<edges, live, adding, missed>>

\* saw is history: the rows the check has read.
Adding == [phase: {"begun", "accessed", "checked"}, blocker: Task, blocked: Task,
           saw: SUBSET (Task \X Task)]
NotAdding == [phase |-> "idle"]

\* The CHECK constraint of the table (blocker_task_id <> blocked_task_id) never
\* has to refuse a row that create_dependency inserts.
TypeOK == /\ edges \subseteq Task \X Task
          /\ \A e \in edges : e[1] # e[2]
          /\ live \subseteq Task
          /\ adding \in [Client -> Adding \cup {NotAdding}]
         /\ missed \subseteq edges \X edges

Init == /\ edges = {} /\ missed = {}
        /\ live = Task
        /\ adding = [c \in Client |-> NotAdding]

-----------------------------------------------------------------------------
\* The edges the check reads: both ends among the tasks that are not archived.
EdgesAmong(S) == {e \in edges : e[1] \in S /\ e[2] \in S}

\* would_create_dependency_cycle; CycleSearch has its depth-first search.
CheckForgetsSelf(blocker, blocked, E) ==     \* fault: a task may block itself
    blocker # blocked /\ Reaches(blocked, blocker, Task, E)

CheckBackwards(blocker, blocked, E) ==       \* fault: searches from the blocker
    Reaches(blocker, blocked, Task, E)

WouldCreateCycle(blocker, blocked, E) == Reaches(blocked, blocker, Task, E)

\* _task_access of the blocked task, then of the blocker: 404 when archived.
BeginAdding(c, blocker, blocked) ==
    /\ adding[c] = NotAdding
    /\ blocked \in live
    /\ Cardinality(edges) < MaxEdges
    /\ adding' = [adding EXCEPT ![c] =
            [phase |-> "begun", blocker |-> blocker, blocked |-> blocked, saw |-> {}]]
    /\ UNCHANGED <<edges, live, missed>>

Access(c) ==
    /\ adding[c].phase = "begun"
    /\ adding[c].blocker \in live
    /\ adding' = [adding EXCEPT ![c].phase = "accessed"]
    /\ UNCHANGED <<edges, live, missed>>

\* Read the edges and look for a cycle; 409 when the new edge would close one.
Check(c) ==
    LET r == adding[c] IN
    /\ r.phase = "accessed"
    /\ adding' = [adding EXCEPT ![c] =
            IF WouldCreateCycle(r.blocker, r.blocked, EdgesAmong(live))
            THEN NotAdding ELSE [r EXCEPT !.phase = "checked", !.saw = EdgesAmong(live)]]
    /\ UNCHANGED <<edges, live, missed>>

\* An existing row is returned as it is; otherwise the row is inserted (a
\* concurrent duplicate fails on the unique constraint) and committed.
Insert(c) ==
    LET r == adding[c]
        e == <<r.blocker, r.blocked>> IN
    /\ r.phase = "checked"
    /\ edges' = edges \cup {e}
    /\ missed' = IF e \in edges THEN missed ELSE missed \cup ({e} \X (edges \ r.saw))
    /\ adding' = [adding EXCEPT ![c] = NotAdding]
    /\ UNCHANGED live

\* The request ends without a row: 404, a role check fails, the worker dies.
FailAdding(c) ==
    /\ adding[c] # NotAdding
    /\ adding' = [adding EXCEPT ![c] = NotAdding]
    /\ UNCHANGED <<edges, live, missed>>

\* delete_dependency, through either end that is not archived.
Delete(e) ==
    /\ e \in edges
    /\ {e[1], e[2]} \cap live # {}
    /\ edges' = edges \ {e}
    /\ missed' = {p \in missed : e \notin {p[1], p[2]}}
    /\ UNCHANGED <<live, adding>>

\* archive_task and restore_task keep the rows of task_dependencies.
Archive(t) == /\ t \in live
              /\ live' = live \ {t}
              /\ UNCHANGED <<edges, adding, missed>>

Restore(t) == /\ t \in Task \ live
              /\ live' = live \cup {t}
              /\ UNCHANGED <<edges, adding, missed>>

Next == \/ \E c \in Client :
             \/ \E blocker, blocked \in Task : BeginAdding(c, blocker, blocked)
             \/ Access(c) \/ Check(c) \/ Insert(c) \/ FailAdding(c)
        \/ \E e \in edges : Delete(e)
        \/ \E t \in Task : Archive(t) \/ Restore(t)

Spec == Init /\ [][Next]_vars

-----------------------------------------------------------------------------
(* Rows close a circle only if one of them was inserted after a check that *)
(* had not read another one of the circle, because it was inserted in      *)
(* between or hung on an archived task: create_dependency refuses every    *)
(* circle it can see, however requests, deletions, archives and restores   *)
(* interleave.                                                             *)
CirclesWereMissed ==
    \A circle \in SUBSET edges :
        (circle \X circle) \cap missed = {} => Acyclic(Task, circle)
=============================================================================
