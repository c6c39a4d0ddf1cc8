------------------------------ MODULE TaskRows ------------------------------
(***************************************************************************)
(* The data that TaskPilot keeps about one task (models.py, class Task)    *)
(* and what a client sees of it (schemas.py, class TaskOut), shared by the *)
(* abstract contract TaskContract and by the detailed module Tasks.        *)
(*                                                                         *)
(* completed_at is reduced to whether it is set and deleted_at to whether  *)
(* the task is archived; title stands for every plain field of a patch.    *)
(***************************************************************************)
EXTENDS Naturals

CONSTANTS
    Task,       \* identities of tasks
    Client,     \* clients; each waits for the answer to its one request
    Column,     \* identities of board columns
    Title,      \* values of the plain fields of a task
    NoTask      \* "no row", and "no copy of the row"

Statuses == {"open", "in_progress", "review", "done"}

\* A row of the tasks table.
Row == [version: Nat, title: Title, status: Statuses, completed: BOOLEAN,
        archived: BOOLEAN, column: Column]

\* The representation the API returns: TaskOut has no completed_at and no
\* deleted_at.
Copy == [version: Nat, title: Title, status: Statuses, column: Column]

ASSUME NoTaskAssumption == NoTask \notin Row /\ NoTask \notin Copy

TaskOut(row) == [version |-> row.version, title |-> row.title,
                 status |-> row.status, column |-> row.column]

\* The row create_task and duplicate_task insert: model defaults for version,
\* status, completed_at and deleted_at.
NewRow(title, column) ==
    [version |-> 1, title |-> title, status |-> "open", completed |-> FALSE,
     archived |-> FALSE, column |-> column]
=============================================================================
