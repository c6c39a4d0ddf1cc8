---------------------------- MODULE BoardColumns ----------------------------
(***************************************************************************)
(* The columns of one board (backend/app/api/routes/projects.py): they are *)
(* created, renamed, reordered and deleted by requests that overlap, while *)
(* tasks are created in them and moved between them (tasks.py).            *)
(*                                                                         *)
(* create_column and rename_column check first and write later, without a  *)
(* lock.  reorder_columns and delete_column SELECT the columns ORDER BY    *)
(* position FOR UPDATE: the order is that of the snapshot the statement    *)
(* began with; its rows are then locked one by one, in that order, and     *)
(* those deleted meanwhile are dropped.  Then both write all positions.    *)
(* A request begins while the project is not archived.                     *)
(***************************************************************************)
EXTENDS ProjectRows, Naturals, FiniteSets

CONSTANTS
    Column, Name,
    Request,        \* requests that may be in progress together
    Shift,          \* what a renumbering first adds to every position
    MaxPosition     \* bound: the largest position

ASSUME NobodyAssumption == Nobody \notin Column \cup Name \cup Task \cup Request
ASSUME ShiftAssumption == /\ Shift \in Nat /\ MaxPosition \in Nat
                          /\ IsFiniteSet(Column) /\ Cardinality(Column) <= Shift

VARIABLES
    column,     \* column[c]: the row of board_columns, NoColumn if there is none
    task,       \* task[t]: the column of t, Nobody before t is created
    request,    \* request[q]: the request q, between two of its steps
    overlap     \* history: what overlapping requests may have left wrong

boardVars == <<column, task, request, overlap>>

Options(S) == S \cup {Nobody}
Kinds == {"create", "rename", "reorder", "delete", "move"}

NoColumn == [name |-> Nobody, position |-> 0]

Exists(c) == column[c] # NoColumn
Columns == {c \in Column : Exists(c)}

NoOrder == [c \in {} |-> 0]
Idle == [at |-> "idle", kind |-> "none", column |-> Nobody, name |-> Nobody, position |-> 0,
         order |-> NoOrder, locked |-> {}, task |-> Nobody, tasks |-> {}, stale |-> FALSE]

(* A request is about a column: the one it renames or deletes or moves a   *)
(* task to; task is the one it moves.  order are the positions in the      *)
(* snapshot of its SELECT FOR UPDATE, locked the rows it holds, tasks the  *)
(* tasks it has moved out.  stale: another request wrote the positions     *)
(* after its snapshot.  overlap.names: two requests that name columns have *)
(* overlapped.  overlap.positions: a creation has overlapped another or a  *)
(* renumbering, and no undisturbed renumbering followed.                   *)
BoardTypeOK ==
    /\ column \in [Column -> [name: Options(Name), position: 0..MaxPosition]]
    /\ \A c \in Columns : column[c].name # Nobody
    /\ task \in [Task -> Options(Column)]
    /\ overlap \in [names: BOOLEAN, positions: BOOLEAN]
    /\ DOMAIN request = Request
    /\ \A q \in Request : LET r == request[q] IN
          /\ DOMAIN r = DOMAIN Idle
          /\ r.at \in {"idle", "read", "lock", "moved"} /\ r.kind \in Kinds \cup {"none"}
          /\ r.column \in Options(Column) /\ r.name \in Options(Name)
          /\ r.position \in 0..(MaxPosition + 1) /\ r.stale \in BOOLEAN
          /\ r.order \in [DOMAIN r.order -> 0..Cardinality(Column)]
          /\ r.locked \subseteq DOMAIN r.order /\ r.locked \subseteq Columns
          /\ DOMAIN r.order \subseteq Column
          /\ r.task \in Options(Task) /\ r.tasks \subseteq Task

\* A new project has its default columns, here one.
BoardInit ==
    /\ \E c \in Column, n \in Name :
          column = [d \in Column |-> IF d = c THEN [NoColumn EXCEPT !.name = n] ELSE NoColumn]
    /\ task = [t \in Task |-> Nobody]
    /\ request = [q \in Request |-> Idle]
    /\ overlap = [names |-> FALSE, positions |-> FALSE]

-----------------------------------------------------------------------------
(* Locks.                                                                  *)

Is(q, at, kind) == request[q].at = at /\ request[q].kind = kind

\* Fault: the columns are selected without FOR UPDATE.
LockedNever(q, c) == FALSE

\* Another request holds the row; foreign keys and updates wait for it.
Locked(q, c) == \E r \in Request \ {q} : c \in request[r].locked
TaskLocked(t) == \E r \in Request : \/ Is(r, "lock", "move") /\ request[r].task = t
                                    \/ t \in request[r].tasks

\* Rows of the snapshot that are still there and not locked yet.
Left(q) == {c \in DOMAIN request[q].order \ request[q].locked : Exists(c)}

First(q) == {c \in Left(q) : \A d \in Left(q) : request[q].order[c] <= request[q].order[d]}

\* The SELECT FOR UPDATE is done.
Holds(q, kind) == Is(q, "lock", kind) /\ Left(q) = {}

\* The columns the SELECT returns.
Survivors(q) == request[q].locked

WaitsFor(q, r) ==
    \/ request[q].kind \in {"reorder", "delete"} /\ First(q) \cap request[r].locked # {}
    \/ /\ Holds(q, "delete") /\ Is(r, "lock", "move")
       /\ request[r].task # Nobody /\ task[request[r].task] = request[q].column
    \/ request[q].kind \in {"rename", "move"} /\ request[q].column \in request[r].locked

\* Requests that wait for each other.
Deadlocked(q) == \E S \in SUBSET Request : /\ q \in S
                                           /\ \A p \in S : \E r \in S \ {p} : WaitsFor(p, r)

-----------------------------------------------------------------------------
(* A request begins: it reads.                                             *)

Names == {"create", "rename"}
Places == {"create", "reorder", "delete"}

\* A request of the kind meets one in progress, one of the two creating a
\* column if it is about positions.
Meets(kind, other) == [names     |-> {kind, other} \subseteq Names,
                       positions |-> {kind, other} \subseteq Places /\ "create" \in {kind, other}]

Begin(q, new) ==
    LET others == {request[r].kind : r \in Request \ {q}}
    IN  /\ request[q] = Idle
        /\ request' = [request EXCEPT ![q] = new]
        /\ overlap' = [f \in DOMAIN overlap |-> overlap[f] \/ \E k \in others : Meets(new.kind, k)[f]]
        /\ UNCHANGED <<column, task>>

\* The check for a column of the same name.
NameTaken(n, c) == \E d \in Columns \ {c} : column[d].name = n

\* One more than the largest position.
NextPosition == CHOOSE p \in 0..(MaxPosition + 1) :
                  /\ \A c \in Columns : column[c].position < p
                  /\ p = 0 \/ \E c \in Columns : column[c].position = p - 1

\* create_column has looked for the name and for the largest position.  The two
\* SELECTs are one step: what commits between them has overlapped the creation
\* anyway.
BeginCreate(q, n) ==
    /\ ~NameTaken(n, Nobody)
    /\ Begin(q, [Idle EXCEPT !.at = "read", !.kind = "create", !.name = n,
                             !.position = NextPosition])

BeginRename(q, c, n) ==
    /\ Exists(c) /\ ~NameTaken(n, c)
    /\ Begin(q, [Idle EXCEPT !.at = "read", !.kind = "rename", !.column = c, !.name = n])

\* The place of c among the columns ORDER BY position.
Place(c) == Cardinality({d \in Columns : column[d].position < column[c].position})

\* reorder_columns and delete_column take the snapshot of their SELECT.
BeginRenumber(q, kind, c) ==
    /\ kind \in {"reorder", "delete"} /\ (kind = "reorder" <=> c = Nobody)
    /\ Begin(q, [Idle EXCEPT !.at = "lock", !.kind = kind, !.column = c,
                             !.order = [d \in Columns |-> Place(d)]])

\* move_task has found the destination and its UPDATE holds the row of the
\* task; the check of the foreign key is next.
BeginMove(q, t, c) ==
    /\ Exists(c) /\ task[t] # Nobody /\ ~TaskLocked(t)
    /\ Begin(q, [Idle EXCEPT !.at = "lock", !.kind = "move", !.column = c, !.task = t])

-----------------------------------------------------------------------------
(* It goes on.                                                             *)

\* The next row of the SELECT FOR UPDATE.
Lock(q) == \E c \in First(q) :
    /\ request[q].at = "lock" /\ ~Locked(q, c)
    /\ request' = [request EXCEPT ![q].locked = @ \cup {c}]
    /\ UNCHANGED <<column, task, overlap>>

Deletable(q) == Cardinality(Survivors(q)) > 1 /\ request[q].column \in Survivors(q)

\* delete_column moves the tasks of the column to the destination.
Leaving(q) == {t \in Task : task[t] = request[q].column}

MoveTasks(q) ==
    /\ Holds(q, "delete") /\ Deletable(q)
    /\ \A t \in Leaving(q) : ~TaskLocked(t)
    /\ request' = [request EXCEPT ![q].at = "moved", ![q].tasks = Leaving(q)]
    /\ UNCHANGED <<column, task, overlap>>

Done(q) == request' = [request EXCEPT ![q] = Idle]

\* Requests that wait with a snapshot keep its order.
Renumbers(q) == request' = [r \in Request |->
    IF r = q THEN Idle
    ELSE IF request[r].order # NoOrder THEN [request[r] EXCEPT !.stale = TRUE]
    ELSE request[r]]

\* A renumbering of all columns that overlaps no other and no creation.
Settles(q) == overlap' = [overlap EXCEPT !.positions =
    @ /\ ~(/\ Survivors(q) = Columns
           /\ \A r \in Request \ {q} : request[r].kind \notin Places)]

\* Fault: only the first column gets its new position.
RenumberedFirst(kept, rank) == [c \in Column |->
    IF Exists(c) /\ (c \in kept => rank[c] > 0)
    THEN [column[c] EXCEPT !.position = @ + Shift]
    ELSE IF c \in kept THEN [column[c] EXCEPT !.position = rank[c]]
    ELSE NoColumn]

\* Every row is shifted, then the columns the SELECT returned are numbered;
\* a column that was created meanwhile stays shifted.
Renumbered(kept, rank) == [c \in Column |->
    IF c \in kept THEN [column[c] EXCEPT !.position = rank[c]]
    ELSE IF Exists(c) THEN [column[c] EXCEPT !.position = @ + Shift]
    ELSE NoColumn]

\* Bound: no position beyond MaxPosition.
Room(q) == \A c \in Columns \ Survivors(q) : column[c].position + Shift <= MaxPosition

\* Some order of exactly the columns the SELECT returned, at least one.
Orders(S) == {rank \in [S -> 0..(Cardinality(S) - 1)] :
                \A c, d \in S : c # d => rank[c] # rank[d]}

CommitReorder(q) ==
    /\ Holds(q, "reorder") /\ Survivors(q) # {} /\ Room(q)
    /\ \E rank \in Orders(Survivors(q)) : column' = Renumbered(Survivors(q), rank)
    /\ Renumbers(q) /\ Settles(q) /\ UNCHANGED task

\* Fault: the columns that stay are numbered from the last to the first.
RankBackwards(q, c) == Cardinality({d \in Survivors(q) \ {request[q].column} :
                                      request[q].order[d] > request[q].order[c]})

\* The place of c among the columns that stay, in the order of the SELECT.
Rank(q, c) == Cardinality({d \in Survivors(q) \ {request[q].column} :
                             request[q].order[d] < request[q].order[c]})

CommitDelete(q, to) ==
    LET gone == request[q].column
        kept == Survivors(q) \ {gone}
    IN  /\ Is(q, "moved", "delete") /\ Room(q)
        /\ IF request[q].tasks = {} THEN to = Nobody ELSE to \in kept
        /\ task' = [t \in Task |-> IF t \in request[q].tasks THEN to ELSE task[t]]
        /\ column' = [Renumbered(kept, [c \in kept |-> Rank(q, c)]) EXCEPT ![gone] = NoColumn]
        /\ Renumbers(q) /\ Settles(q)

\* uq_column_position refuses a position that was taken meanwhile.
CommitCreate(q, c) ==
    /\ Is(q, "read", "create") /\ ~Exists(c) /\ request[q].position <= MaxPosition
    /\ \A d \in Columns : column[d].position # request[q].position
    /\ column' = [column EXCEPT ![c] = [name |-> request[q].name,
                                        position |-> request[q].position]]
    /\ Done(q) /\ UNCHANGED <<task, overlap>>

CommitRename(q) ==
    LET c == request[q].column
    IN  /\ Is(q, "read", "rename") /\ Exists(c) /\ ~Locked(q, c)
        /\ column' = [column EXCEPT ![c].name = request[q].name]
        /\ Done(q) /\ UNCHANGED <<task, overlap>>

\* The foreign key shares the row of the destination.
CommitMove(q) ==
    LET c == request[q].column
    IN  /\ Is(q, "lock", "move") /\ Exists(c) /\ ~Locked(q, c)
        /\ task' = [task EXCEPT ![request[q].task] = c]
        /\ Done(q) /\ UNCHANGED <<column, overlap>>

\* create_task.
CreateTask(t, c) == /\ task[t] = Nobody /\ Exists(c) /\ ~Locked(Nobody, c)
                    /\ task' = [task EXCEPT ![t] = c]
                    /\ UNCHANGED <<column, request, overlap>>

\* A check after the first fails, or the write matches no row: 404, 409, 422.
Refused(q) ==
    \/ Is(q, "read", "create") /\ \E d \in Columns : column[d].position = request[q].position
    \/ request[q].kind \in {"rename", "move"} /\ ~Exists(request[q].column)
    \/ Holds(q, "delete") /\ ~Deletable(q)

Refuse(q) == Refused(q) /\ Done(q) /\ UNCHANGED <<column, task, overlap>>

\* PostgreSQL ends one of the requests of a deadlock.
Abort(q) == Deadlocked(q) /\ Done(q) /\ UNCHANGED <<column, task, overlap>>

\* Any other error, or a crash: the transaction is undone.
Fail(q) == request[q] # Idle /\ Done(q) /\ UNCHANGED <<column, task, overlap>>

\* The next step of a request in progress.
Proceed(q) == \/ Lock(q) \/ MoveTasks(q) \/ CommitReorder(q) \/ CommitRename(q) \/ CommitMove(q)
              \/ \E c \in Column : CommitCreate(q, c)
              \/ \E c \in Options(Column) : CommitDelete(q, c)

BoardNext ==
    \/ \E q \in Request :
          \/ \E n \in Name : BeginCreate(q, n) \/ \E c \in Column : BeginRename(q, c, n)
          \/ \E k \in Kinds, c \in Options(Column) : BeginRenumber(q, k, c)
          \/ \E t \in Task, c \in Column : BeginMove(q, t, c)
          \/ Proceed(q) \/ Refuse(q) \/ Abort(q) \/ Fail(q)
    \/ \E t \in Task, c \in Column : CreateTask(t, c)

BoardSpec == BoardInit /\ [][BoardNext]_boardVars

-----------------------------------------------------------------------------
(* What the code promises.                                                 *)

(* "A board must keep at least one column" (projects.py:453): two requests *)
(* that delete the last two columns wait for each other, and the second    *)
(* counts the rows that are left.                                          *)
LastColumnStays == Columns # {}

(* When delete_column deletes its row no task is in the column but those   *)
(* it has moved, so the foreign key never refuses it: the locked columns   *)
(* keep tasks from coming in.                                              *)
EmptyWhenDeleted ==
    \A q \in Request : Is(q, "moved", "delete") => Leaving(q) \subseteq request[q].tasks

(* Positions are 0, 1, 2, ... without a gap, unless a creation overlapped *)
(* another or a renumbering; the next undisturbed renumbering repairs that.*)
PositionsDense ==
    ~overlap.positions => {column[c].position : c \in Columns} = 0..(Cardinality(Columns) - 1)

(* Two columns have the same name only if requests that name columns have  *)
(* overlapped (projects.py:271, 332).                                      *)
NamesDistinct ==
    ~overlap.names => \A c, d \in Columns : c # d => column[c].name # column[d].name

(* Renumberings lock the columns in one order, so two of them never wait   *)
(* for each other, unless one of them waited for a third that changed it.  *)
LocksOrdered ==
    \A q, r \in Request :
        /\ request[q].kind \in {"reorder", "delete"} /\ request[r].kind \in {"reorder", "delete"}
        /\ WaitsFor(q, r) /\ WaitsFor(r, q)
        => request[q].stale \/ request[r].stale

(* A board is consistent: what the five above say of every state of it,    *)
(* and its type.                                                           *)
BoardConsistent ==
    /\ BoardTypeOK /\ LastColumnStays /\ EmptyWhenDeleted
    /\ PositionsDense /\ NamesDistinct /\ LocksOrdered

(* Deleting a column leaves the others in their order, unless the deletion *)
(* waited for a renumbering: it then numbers them as they stood before.    *)
KeepsOrder(q) ==
    \A c, d \in request[q].locked \ {request[q].column} :
        column[c].position < column[d].position <=> column'[c].position < column'[d].position
DeleteKeepsOrder ==
    [][\A q \in Request : Is(q, "moved", "delete") /\ ~request[q].stale
                          /\ request'[q] = Idle /\ column' # column => KeepsOrder(q)]_boardVars
=============================================================================
