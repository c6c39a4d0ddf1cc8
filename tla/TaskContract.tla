---------------------------- MODULE TaskContract ----------------------------
(***************************************************************************)
(* What optimistic concurrency promises to the clients of one workspace    *)
(* (README.md and docs/ARCHITECTURE.md: a monotonic version, HTTP 409      *)
(* instead of a silent overwrite).  Every write is one atomic step, taken  *)
(* by a client whose copy of the task is the task itself; there are no     *)
(* requests, no loaded rows and no compare-and-set.  Module Tasks          *)
(* implements it as long as every client write goes through the            *)
(* compare-and-set of patch_task and move_task.                            *)
(***************************************************************************)
EXTENDS TaskRows

VARIABLES
    tasks,      \* tasks[t]: the row of t, or NoTask
    copies,     \* copies[c][t]: what client c last saw of t, or NoTask
    columns,    \* the columns that exist
    resolved    \* resolved[t]: how often the tasks that t blocks were told
                \* that t is done

vars == <<tasks, copies, columns, resolved>>

Init == /\ tasks = [t \in Task |-> NoTask]
        /\ copies = [c \in Client |-> [t \in Task |-> NoTask]]
        /\ columns = Column
        /\ resolved = [t \in Task |-> 0]

\* A row appears at version 1, open, in some column that exists.
Create(t) == /\ tasks[t] = NoTask
             /\ \E title \in Title, k \in columns :
                   tasks' = [tasks EXCEPT ![t] = NewRow(title, k)]
             /\ UNCHANGED <<copies, columns, resolved>>

\* A client sees the current task.
See(c, t) == /\ tasks[t] # NoTask
             /\ copies' = [copies EXCEPT ![c][t] = TaskOut(tasks[t])]
             /\ UNCHANGED <<tasks, columns, resolved>>

\* A client whose copy is up to date replaces the task by its next version;
\* completed_at follows the status, and the tasks blocked by t are told exactly
\* when t becomes done.
Write(c, t) ==
    /\ tasks[t] # NoTask
    /\ copies[c][t] = TaskOut(tasks[t])
    /\ tasks' = [tasks EXCEPT ![t] = tasks'[t]]
    /\ tasks'[t].version = tasks[t].version + 1
    /\ tasks'[t].completed = (tasks'[t].status = "done")
    /\ tasks'[t].column \in columns
    /\ resolved' = [resolved EXCEPT ![t] =
                      IF tasks[t].status # "done" /\ tasks'[t].status = "done"
                      THEN @ + 1 ELSE @]
    /\ UNCHANGED <<copies, columns>>

\* A manager deletes a column; its tasks go to another one, each at a new
\* version.
DropColumn(k) ==
    /\ columns' = columns \ {k}
    /\ \E dest \in columns' :
         tasks' = [t \in Task |->
                     IF tasks[t] # NoTask /\ tasks[t].column = k
                     THEN [tasks[t] EXCEPT !.version = @ + 1, !.column = dest]
                     ELSE tasks[t]]
    /\ UNCHANGED <<copies, resolved>>

Next == \/ \E t \in Task : Create(t)
        \/ \E c \in Client, t \in Task : See(c, t) \/ Write(c, t)
        \/ \E k \in columns : DropColumn(k)

Spec == Init /\ [][Next]_vars
=============================================================================
