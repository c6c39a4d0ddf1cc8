------------------------------- MODULE Tasks --------------------------------
(***************************************************************************)
(* Task requests against the tasks table, as the FastAPI handlers of       *)
(* api/routes/tasks.py and api/routes/task_collaboration.py run them on    *)
(* PostgreSQL at READ COMMITTED.                                           *)
(*                                                                         *)
(* A handler is two transactions, seen by the others as three steps:       *)
(*   Begin    reads the row (_task_access) into the session,               *)
(*   a commit writes it: patch and move by a compare-and-set on version,   *)
(*            archive and restore by an ORM flush, an UPDATE by id whose   *)
(*            values were computed from the row that Begin read,           *)
(*   Respond  re-reads the row (db.refresh) and answers the client.        *)
(* An UPDATE holds its row lock until the commit, so the two are one step. *)
(***************************************************************************)
EXTENDS TaskRows

CONSTANTS
    DoneColumn,  \* columns named "done" in a project that auto-completes
    Kind,        \* the kinds of request the clients make
    Unset,       \* a field the body of a patch leaves out
    MaxVersion   \* bound: no request starts on a row at this version

Kinds == {"patch", "move", "archive", "restore"}

ASSUME KindAssumption == Kind \subseteq Kinds
ASSUME DoneColumnAssumption == DoneColumn \subseteq Column
ASSUME UnsetAssumption == Unset \notin Title /\ Unset \notin Statuses
ASSUME MaxVersionAssumption == MaxVersion \in Nat

VARIABLES
    tasks,      \* tasks[t]: the committed row of t, or NoTask
    copies,     \* copies[c][t]: the last TaskOut of t that c received
    columns,    \* the board columns that exist
    resolved,   \* resolved[t]: rounds of dependency.resolved notifications
    request     \* request[c]: the request of c that a worker is serving

vars == <<tasks, copies, columns, resolved, request>>

\* The body of a request without its version: TaskPatch, TaskMove, or none.
PatchBody == [title: Title \cup {Unset}, status: Statuses \cup {Unset}]
MoveBody  == [column: Column]
NoBody    == [empty: {TRUE}]

BodyOf(kind) == CASE kind = "patch" -> PatchBody
                  [] kind = "move"  -> MoveBody
                  [] OTHER          -> NoBody

\* loaded is the ORM object of the session, base the version the client sent.
Request ==
    [phase: {"loaded", "committed"}, kind: Kinds, task: Task, base: Nat,
     body: PatchBody \cup MoveBody \cup NoBody, loaded: Row]

Idle == [phase |-> "idle"]

TypeOK ==
    /\ tasks \in [Task -> Row \cup {NoTask}]
    /\ copies \in [Client -> [Task -> Copy \cup {NoTask}]]
    /\ columns \subseteq Column
    /\ resolved \in [Task -> Nat]
    /\ request \in [Client -> Request \cup {Idle}]
    /\ \A c \in Client : request[c] # Idle =>
          /\ request[c].body \in BodyOf(request[c].kind)
          /\ tasks[request[c].task] # NoTask

Init == /\ tasks = [t \in Task |-> NoTask]
        /\ copies = [c \in Client |-> [t \in Task |-> NoTask]]
        /\ columns = Column
        /\ resolved = [t \in Task |-> 0]
        /\ request = [c \in Client |-> Idle]

-----------------------------------------------------------------------------
(* Requests that are one transaction for everybody else.                   *)

\* create_task, duplicate_task and convert_subtask insert a row; the foreign
\* key refuses a column that is gone.
CreateTask(t, title, k) ==
    /\ tasks[t] = NoTask
    /\ k \in columns
    /\ tasks' = [tasks EXCEPT ![t] = NewRow(title, k)]
    /\ UNCHANGED <<copies, columns, resolved, request>>

\* GET of a task, of a board or of the archived tasks.
Read(c, t) ==
    /\ request[c] = Idle
    /\ tasks[t] # NoTask
    /\ copies' = [copies EXCEPT ![c][t] = TaskOut(tasks[t])]
    /\ UNCHANGED <<tasks, columns, resolved, request>>

\* delete_column locks every column of the project, so no task can enter or
\* be created in one while it runs; it moves the tasks of the column, the
\* archived ones too, each at its next version.
MovedOutLive(row, k, dest) ==            \* fault: archived tasks stay behind
    IF row # NoTask /\ row.column = k /\ ~row.archived
    THEN [row EXCEPT !.version = @ + 1, !.column = dest]
    ELSE row

MovedOutUnversioned(row, k, dest) ==     \* fault: the version is not bumped
    IF row # NoTask /\ row.column = k THEN [row EXCEPT !.column = dest] ELSE row

MovedOut(row, k, dest) ==
    IF row # NoTask /\ row.column = k
    THEN [row EXCEPT !.version = @ + 1, !.column = dest]
    ELSE row

DeleteColumn(k, dest) ==
    /\ {k, dest} \subseteq columns
    /\ k # dest
    /\ \A t \in Task : tasks[t] # NoTask => tasks[t].version < MaxVersion
    /\ tasks' = [t \in Task |-> MovedOut(tasks[t], k, dest)]
    /\ columns' = columns \ {k}
    /\ UNCHANGED <<copies, resolved, request>>

-----------------------------------------------------------------------------
(* The three steps of a patch, a move, an archive or a restore.            *)

\* _task_access: 404 for an archived task, except in restore.  Restoring a
\* task that is not archived returns at once and is no request here.
Accessible(row, kind) == row.archived = (kind = "restore")

Begin(c, kind, t, body) ==
    /\ request[c] = Idle
    /\ copies[c][t] # NoTask /\ tasks[t] # NoTask
    /\ Accessible(tasks[t], kind)
    /\ kind = "move" => body.column \in columns
    /\ tasks[t].version < MaxVersion
    /\ request' = [request EXCEPT ![c] =
                     [phase |-> "loaded", kind |-> kind, task |-> t,
                      base |-> copies[c][t].version, body |-> body,
                      loaded |-> tasks[t]]]
    /\ UNCHANGED <<tasks, copies, columns, resolved>>

GivenNull(value, default) == value       \* fault: null fields are not dropped

Given(value, default) == IF value = Unset THEN default ELSE value

\* Fault: reopening a task leaves completed_at set.
PatchedStaysCompleted(row, loaded, body, version) ==
    [row EXCEPT
       !.version = version,
       !.title = Given(body.title, @),
       !.status = Given(body.status, @),
       !.completed = (body.status = "done") \/ @]

\* patch_task decides from the status it loaded whether completed_at is set,
\* cleared or left alone.
Patched(row, loaded, body, version) ==
    [row EXCEPT
       !.version = version,
       !.title = Given(body.title, @),
       !.status = Given(body.status, @),
       !.completed =
          IF body.status = "done" /\ loaded.status # "done" THEN TRUE
          ELSE IF body.status \notin {"done", Unset} /\ loaded.status = "done"
               THEN FALSE ELSE @]

\* move_task completes the task when the column is the project's done column.
Moved(row, body, version) ==
    LET done == body.column \in DoneColumn IN
    [row EXCEPT !.version = version,
                !.column = body.column,
                !.status = IF done THEN "done" ELSE @,
                !.completed = done \/ @]

\* The WHERE clause of patch_task and move_task.
MatchesNewer(row, base) == row.version >= base   \* fault: any newer version too

Matches(row, base) == row.version = base

Answering(c) == request' = [request EXCEPT ![c].phase = "committed"]

\* The dependents are notified when the status loaded was not done and the
\* status written is.
ResolvesAgain(loaded, row) == row.status = "done"   \* fault: every write of a done task

Resolves(loaded, row) == loaded.status # "done" /\ row.status = "done"

\* UPDATE tasks ... WHERE id = ... AND version = base, and COMMIT.
CompareAndSet(c, row) ==
    LET r == request[c] IN
    /\ Matches(tasks[r.task], r.base)
    /\ tasks' = [tasks EXCEPT ![r.task] = row]
    /\ resolved' = [resolved EXCEPT ![r.task] =
                      IF Resolves(r.loaded, row) THEN @ + 1 ELSE @]
    /\ Answering(c)
    /\ UNCHANGED <<copies, columns>>

CommitPatch(c) ==
    LET r == request[c] IN
    /\ r.phase = "loaded" /\ r.kind = "patch"
    /\ CompareAndSet(c, Patched(tasks[r.task], r.loaded, r.body, r.base + 1))

\* The foreign key refuses a destination deleted since it was looked up.
CommitMove(c) ==
    LET r == request[c] IN
    /\ r.phase = "loaded" /\ r.kind = "move"
    /\ r.body.column \in columns
    /\ CompareAndSet(c, Moved(tasks[r.task], r.body, r.base + 1))

\* archive_task and restore_task set deleted_at and version += 1 on the object
\* they loaded; the flush writes these two columns WHERE id = ... only.
Relabelled(row, loaded, kind) ==
    [row EXCEPT !.archived = (kind = "archive"), !.version = loaded.version + 1]

CommitLifecycle(c) ==
    LET r == request[c] IN
    /\ r.phase = "loaded" /\ r.kind \in {"archive", "restore"}
    /\ tasks' = [tasks EXCEPT ![r.task] = Relabelled(@, r.loaded, r.kind)]
    /\ Answering(c)
    /\ UNCHANGED <<copies, columns, resolved>>

\* db.refresh reads the row again, after the commit, for the answer.
Respond(c) ==
    LET t == request[c].task IN
    /\ request[c].phase = "committed"
    /\ copies' = [copies EXCEPT ![c][t] = TaskOut(tasks[t])]
    /\ request' = [request EXCEPT ![c] = Idle]
    /\ UNCHANGED <<tasks, columns, resolved>>

\* HTTP 409: the compare-and-set matched no row; the client keeps its copy.
Conflict(c) ==
    LET r == request[c] IN
    /\ r.phase = "loaded" /\ r.kind \in {"patch", "move"}
    /\ ~Matches(tasks[r.task], r.base)
    /\ request' = [request EXCEPT ![c] = Idle]
    /\ UNCHANGED <<tasks, copies, columns, resolved>>

\* The client gets no task back: the request failed before its commit (a role
\* check, a validation, a foreign key, a dead worker) or the answer was lost.
Fail(c) ==
    /\ request[c] # Idle
    /\ request' = [request EXCEPT ![c] = Idle]
    /\ UNCHANGED <<tasks, copies, columns, resolved>>

-----------------------------------------------------------------------------
Next ==
    \/ \E t \in Task, title \in Title, k \in Column : CreateTask(t, title, k)
    \/ \E k, dest \in Column : DeleteColumn(k, dest)
    \/ \E c \in Client :
         \/ \E t \in Task : Read(c, t)
         \/ \E kind \in Kind, t \in Task :
              \E body \in BodyOf(kind) : Begin(c, kind, t, body)
         \/ CommitPatch(c) \/ CommitMove(c) \/ CommitLifecycle(c)
         \/ Respond(c) \/ Conflict(c) \/ Fail(c)

Spec == Init /\ [][Next]_vars
-----------------------------------------------------------------------------
(* Properties.                                                             *)

\* A version number names one state of a task: a client whose copy carries the
\* current version has the current fields, although the row may have been
\* written many times since it was read.  patch_task and move_task rest on it.
VersionNamesState ==
    \A c \in Client, t \in Task :
        copies[c][t] # NoTask /\ copies[c][t].version = tasks[t].version
            => copies[c][t] = TaskOut(tasks[t])

\* completed_at is set exactly on the tasks whose status is done, although the
\* handlers compute it from a status read before the UPDATE.
CompletedIffDone ==
    \A t \in Task : tasks[t] # NoTask =>
        tasks[t].completed = (tasks[t].status = "done")

\* When the compare-and-set of a patch or a move is going to match, the row that
\* the handler loaded before it (and from which it took previous_status) is
\* still the row being written.
LoadedRowIsCurrent ==
    \A c \in Client : request[c] # Idle => LET r == request[c] IN
        r.phase = "loaded" /\ Matches(tasks[r.task], r.base)
            => r.loaded = tasks[r.task]

\* No task is ever in a column that was deleted, archived tasks included.
ColumnExists ==
    \A t \in Task : tasks[t] # NoTask => tasks[t].column \in columns

\* No two states of a row share a version: every write of it, the deletion of
\* its column included, makes the version grow.
VersionGrows ==
    \A t \in Task :
        tasks[t] # NoTask /\ tasks'[t] # tasks[t]
            => tasks'[t].version > tasks[t].version
EveryWriteIsVersioned == [][VersionGrows]_tasks

\* docs/ARCHITECTURE.md: an update or a move is refused rather than silently
\* overwrite another collaborator: when one commits, nothing had been written
\* since the copy that its client edited.
Commits(c) == /\ request[c] # Idle /\ request[c].phase = "loaded"
              /\ request'[c] # Idle /\ request'[c].phase = "committed"
              /\ request[c].kind \in {"patch", "move"}
OverwritesOnlySeen ==
    \A c \in Client : LET t == request[c].task IN
        Commits(c) => copies[c][t] = TaskOut(tasks[t])
NoSilentOverwrite == [][OverwritesOnlySeen]_vars

\* The dependents of a task are told that it is done by the commit that makes
\* it done, by that one only, and once.
NotifiesCompletion ==
    \A t \in Task :
        resolved'[t] = IF /\ tasks[t] # NoTask
                          /\ tasks[t].status # "done"
                          /\ tasks'[t].status = "done"
                       THEN resolved[t] + 1 ELSE resolved[t]
NotifiedOncePerCompletion == [][NotifiesCompletion]_vars

\* Load, compare-and-set and refresh together look like one atomic write by a
\* client whose copy is up to date.
Contract == INSTANCE TaskContract
ImplementsContract == Contract!Spec
=============================================================================
