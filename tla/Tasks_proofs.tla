---------------------------- MODULE Tasks_proofs ----------------------------
(***************************************************************************)
(* Proofs about Tasks for any number of tasks, clients, columns and titles *)
(* and any MaxVersion, and about the board of one client of it.  Type      *)
(* correctness needs no assumption; the rest about Tasks is proved for     *)
(* clients whose requests are patches and moves, the two that write by     *)
(* compare-and-set; the board is proved for requests of any kind.          *)
(***************************************************************************)
EXTENDS BoardClients, TLAPS

\* A copy is never ahead of the row.
CopiesNotAhead ==
    \A c \in Client, t \in Task : copies[c][t] # NoTask =>
        /\ tasks[t] # NoTask
        /\ copies[c][t].version <= tasks[t].version

\* A request carries the version of its client's copy, which is not ahead of
\* the row it loaded; that row is the current one or an older version.
RequestsNotAhead ==
    \A c \in Client : request[c] # Idle => LET r == request[c] IN
        /\ r.kind \in {"patch", "move"}
        /\ r.loaded.version <= tasks[r.task].version
        /\ r.loaded.version = tasks[r.task].version => r.loaded = tasks[r.task]
        /\ r.phase = "loaded" =>
              /\ copies[c][r.task] # NoTask
              /\ r.base = copies[c][r.task].version
              /\ r.base <= r.loaded.version

IInv == /\ TypeOK
        /\ VersionNamesState
        /\ CopiesNotAhead
        /\ RequestsNotAhead
        /\ CompletedIffDone
        /\ ColumnExists

-----------------------------------------------------------------------------
(* Types.                                                                  *)

\* TaskOut of a row is a Copy, NewRow is a Row, and the two compare-and-set
\* writes produce a Row.
LEMMA TaskOutType == ASSUME NEW row \in Row PROVE TaskOut(row) \in Copy
BY DEF TaskOut, Row, Copy

LEMMA NewRowType ==
    ASSUME NEW title \in Title, NEW k \in Column PROVE NewRow(title, k) \in Row
BY DEF NewRow, Row, Statuses

LEMMA PatchedType ==
    ASSUME NEW row \in Row, NEW loaded \in Row, NEW body \in PatchBody, NEW v \in Nat
    PROVE  Patched(row, loaded, body, v) \in Row
BY UnsetAssumption DEF Patched, Row, PatchBody, Given, Statuses

LEMMA MovedType ==
    ASSUME NEW row \in Row, NEW body \in MoveBody, NEW v \in Nat
    PROVE  Moved(row, body, v) \in Row
BY DEF Moved, Row, MoveBody, Statuses

LEMMA MovedOutType ==
    ASSUME NEW row \in Row, NEW k \in Column, NEW dest \in Column
    PROVE  MovedOut(row, k, dest) \in Row
<1>1. row.version + 1 \in Nat
  BY DEF Row
<1>2. ASSUME NEW v \in Nat
      PROVE  [row EXCEPT !.version = v, !.column = dest] \in Row
  BY DEF Row
<1>. QED BY <1>1, <1>2 DEF MovedOut

\* A request is not Idle: it has a kind.
LEMMA IdleIsNoRequest == Idle \notin Request
BY DEF Idle, Request

\* Marking a request as committed changes nothing else of it, and nothing of
\* the requests of other clients.
LEMMA AnsweringKeeps ==
    ASSUME request \in [Client -> Request \cup {Idle}],
           NEW c \in Client, request[c] \in Request, Answering(c)
    PROVE  /\ request' \in [Client -> Request \cup {Idle}]
           /\ \A d \in Client : request'[d] # Idle =>
                /\ request[d] # Idle /\ request[d] \in Request
                /\ request'[d].task = request[d].task
                /\ request'[d].kind = request[d].kind
                /\ request'[d].body = request[d].body
                /\ request'[d].base = request[d].base
                /\ request'[d].loaded = request[d].loaded
                /\ request'[d].phase = "loaded" => request[d].phase = "loaded"
<1>1. request' = [request EXCEPT ![c] = [request[c] EXCEPT !.phase = "committed"]]
  BY DEF Answering
<1>2. [request[c] EXCEPT !.phase = "committed"] \in Request
  BY DEF Request
<1>3. ASSUME NEW d \in Client, request'[d] # Idle
      PROVE  /\ request[d] # Idle /\ request[d] \in Request
             /\ request'[d].task = request[d].task
             /\ request'[d].kind = request[d].kind
             /\ request'[d].body = request[d].body
             /\ request'[d].base = request[d].base
             /\ request'[d].loaded = request[d].loaded
             /\ request'[d].phase = "loaded" => request[d].phase = "loaded"
  <2>1. CASE d = c
    <3>1. request'[c] = [request[c] EXCEPT !.phase = "committed"]
      BY <1>1
    <3>2. request[c] # Idle
      BY IdleIsNoRequest
    <3>. QED BY <2>1, <3>1, <3>2 DEF Request
  <2>2. CASE d # c
    BY <2>2, <1>1, <1>3
  <2>. QED BY <2>1, <2>2
<1>. QED BY <1>1, <1>2, <1>3

LEMMA CompareAndSetType ==
    ASSUME TypeOK, NEW c \in Client, request[c] \in Request,
           NEW row \in Row, CompareAndSet(c, row)
    PROVE  TypeOK'
<1>1. request[c].task \in Task
  BY DEF Request
<1>2. /\ tasks' \in [Task -> Row \cup {NoTask}]
      /\ \A t \in Task : tasks[t] # NoTask => tasks'[t] # NoTask
      /\ resolved' \in [Task -> Nat]
  BY <1>1, NoTaskAssumption DEF CompareAndSet, TypeOK
<1>3. /\ request' \in [Client -> Request \cup {Idle}]
      /\ \A d \in Client : request'[d] # Idle =>
           /\ request[d] # Idle
           /\ request'[d].task = request[d].task
           /\ request'[d].kind = request[d].kind
           /\ request'[d].body = request[d].body
           /\ request[d].task \in Task
  BY AnsweringKeeps DEF CompareAndSet, TypeOK, Request
<1>4. \A d \in Client : request'[d] # Idle =>
        /\ request'[d].body \in BodyOf(request'[d].kind)
        /\ tasks'[request'[d].task] # NoTask
  BY <1>2, <1>3 DEF TypeOK
<1>. QED BY <1>2, <1>3, <1>4 DEF CompareAndSet, TypeOK

\* A patch or a move that commits is a compare-and-set of a row at the version
\* after the one the client sent.
LEMMA PatchIsCompareAndSet ==
    ASSUME TypeOK, NEW c \in Client, CommitPatch(c)
    PROVE  LET r == request[c]
               row == Patched(tasks[r.task], r.loaded, r.body, r.base + 1)
           IN  /\ r \in Request /\ r # Idle /\ r.task \in Task /\ r.loaded \in Row
               /\ r.base \in Nat /\ r.body \in PatchBody /\ r.phase = "loaded"
               /\ tasks[r.task] \in Row /\ row \in Row /\ row.version = r.base + 1
               /\ CompareAndSet(c, row)
<1> DEFINE r == request[c]
           row == Patched(tasks[r.task], r.loaded, r.body, r.base + 1)
<1>1. /\ r \in Request /\ r # Idle /\ r.task \in Task /\ r.loaded \in Row
      /\ r.base \in Nat /\ r.body \in PatchBody /\ r.phase = "loaded"
      /\ tasks[r.task] \in Row /\ r.base + 1 \in Nat
  BY DEF CommitPatch, Idle, Request, BodyOf, TypeOK
<1>2. row \in Row
  BY <1>1, PatchedType
<1>3. row.version = r.base + 1
  BY <1>1 DEF Patched, Row
<1>4. CompareAndSet(c, row)
  BY DEF CommitPatch
<1>. QED BY <1>1, <1>2, <1>3, <1>4

LEMMA MoveIsCompareAndSet ==
    ASSUME TypeOK, NEW c \in Client, CommitMove(c)
    PROVE  LET r == request[c]
               row == Moved(tasks[r.task], r.body, r.base + 1)
           IN  /\ r \in Request /\ r # Idle /\ r.task \in Task /\ r.loaded \in Row
               /\ r.base \in Nat /\ r.body \in MoveBody /\ r.phase = "loaded"
               /\ tasks[r.task] \in Row /\ row \in Row /\ row.version = r.base + 1
               /\ CompareAndSet(c, row)
<1> DEFINE r == request[c]
           row == Moved(tasks[r.task], r.body, r.base + 1)
<1>1. /\ r \in Request /\ r # Idle /\ r.task \in Task /\ r.loaded \in Row
      /\ r.base \in Nat /\ r.body \in MoveBody /\ r.phase = "loaded"
      /\ tasks[r.task] \in Row /\ r.base + 1 \in Nat
  BY DEF CommitMove, Idle, Request, BodyOf, TypeOK
<1>2. row \in Row
  BY <1>1, MovedType
<1>3. row.version = r.base + 1
  BY <1>1 DEF Moved, Row
<1>4. CompareAndSet(c, row)
  BY DEF CommitMove
<1>. QED BY <1>1, <1>2, <1>3, <1>4

LEMMA TypeStep == TypeOK /\ [Next]_vars => TypeOK'
<1> SUFFICES ASSUME TypeOK, [Next]_vars PROVE TypeOK'
  OBVIOUS
<1> USE DEF TypeOK
<1>1. ASSUME NEW t \in Task, NEW title \in Title, NEW k \in Column,
             CreateTask(t, title, k)
      PROVE  TypeOK'
  <2>1. NewRow(title, k) \in Row /\ NewRow(title, k) # NoTask
    BY NewRowType, NoTaskAssumption
  <2>. QED BY <1>1, <2>1 DEF CreateTask
<1>2. ASSUME NEW k \in Column, NEW dest \in Column, DeleteColumn(k, dest)
      PROVE  TypeOK'
  <2>1. \A t \in Task : /\ tasks'[t] \in Row \cup {NoTask}
                        /\ tasks[t] # NoTask => tasks'[t] # NoTask
    BY <1>2, MovedOutType, NoTaskAssumption DEF DeleteColumn, MovedOut
  <2>2. /\ tasks' \in [Task -> Row \cup {NoTask}]
        /\ columns' \subseteq Column
        /\ UNCHANGED <<copies, resolved, request>>
    BY <1>2, <2>1 DEF DeleteColumn
  <2>3. \A c \in Client : request'[c] # Idle => tasks'[request'[c].task] # NoTask
    BY <2>1, <2>2 DEF Request
  <2>. QED BY <2>2, <2>3
<1>3. ASSUME NEW c \in Client, NEW t \in Task, Read(c, t)
      PROVE  TypeOK'
  <2>1. TaskOut(tasks[t]) \in Copy
    BY <1>3, TaskOutType DEF Read
  <2>. QED BY <1>3, <2>1 DEF Read
<1>4. ASSUME NEW c \in Client, NEW kind \in Kind, NEW t \in Task,
             NEW body \in BodyOf(kind), Begin(c, kind, t, body)
      PROVE  TypeOK'
  <2> DEFINE r == [phase |-> "loaded", kind |-> kind, task |-> t,
                   base |-> copies[c][t].version, body |-> body,
                   loaded |-> tasks[t]]
  <2>1. tasks[t] \in Row /\ copies[c][t].version \in Nat
    BY <1>4 DEF Begin, Copy
  <2>2. body \in PatchBody \cup MoveBody \cup NoBody
    BY KindAssumption DEF BodyOf, Kinds
  <2>3. r \in Request
    BY <2>1, <2>2, KindAssumption DEF Request
  <2>. QED BY <1>4, <2>1, <2>3, NoTaskAssumption DEF Begin
<1>5. ASSUME NEW c \in Client, CommitPatch(c)
      PROVE  TypeOK'
  BY <1>5, PatchIsCompareAndSet, CompareAndSetType
<1>6. ASSUME NEW c \in Client, CommitMove(c)
      PROVE  TypeOK'
  BY <1>6, MoveIsCompareAndSet, CompareAndSetType
<1>7. ASSUME NEW c \in Client, CommitLifecycle(c)
      PROVE  TypeOK'
  <2> DEFINE r == request[c]
             row == Relabelled(tasks[r.task], r.loaded, r.kind)
  <2>1. /\ r \in Request /\ r.task \in Task
        /\ tasks[r.task] \in Row /\ r.loaded.version + 1 \in Nat
    BY <1>7 DEF CommitLifecycle, Idle, Request, Row
  <2>2. row \in Row
    BY <2>1 DEF Relabelled, Row
  <2>3. tasks' = [tasks EXCEPT ![r.task] = row]
    BY <1>7, <2>1 DEF CommitLifecycle
  <2>4. /\ tasks' \in [Task -> Row \cup {NoTask}]
        /\ \A t \in Task : tasks[t] # NoTask => tasks'[t] # NoTask
    BY <2>1, <2>2, <2>3, NoTaskAssumption
  <2>5. Answering(c) /\ UNCHANGED <<copies, columns, resolved>>
    BY <1>7 DEF CommitLifecycle
  <2>6. \A d \in Client : request'[d] # Idle =>
          /\ request[d] # Idle /\ request[d].task \in Task
          /\ request'[d].task = request[d].task
          /\ request'[d].kind = request[d].kind
          /\ request'[d].body = request[d].body
    BY <2>1, <2>5, AnsweringKeeps DEF Request
  <2>7. request' \in [Client -> Request \cup {Idle}]
    BY <2>1, <2>5, AnsweringKeeps
  <2>8. \A d \in Client : request'[d] # Idle =>
          /\ request'[d].body \in BodyOf(request'[d].kind)
          /\ tasks'[request'[d].task] # NoTask
    BY <2>4, <2>6
  <2>. QED BY <2>4, <2>5, <2>7, <2>8
<1>8. ASSUME NEW c \in Client, Respond(c)
      PROVE  TypeOK'
  <2>1. request[c] \in Request /\ tasks[request[c].task] \in Row
    BY <1>8 DEF Respond, Idle, Request
  <2>2. TaskOut(tasks[request[c].task]) \in Copy
    BY <2>1, TaskOutType
  <2>. QED BY <1>8, <2>1, <2>2 DEF Respond, Request
<1>9. ASSUME NEW c \in Client, Conflict(c) \/ Fail(c)
      PROVE  TypeOK'
  BY <1>9 DEF Conflict, Fail
<1>10. CASE UNCHANGED vars
  BY <1>10 DEF vars
<1>. QED
  BY <1>1, <1>2, <1>3, <1>4, <1>5, <1>6, <1>7, <1>8, <1>9, <1>10 DEF Next

\* Every variable keeps its type, whatever kinds of request the clients make.
THEOREM TypeCorrect == Spec => []TypeOK
<1>1. Init => TypeOK
  BY DEF Init, TypeOK
<1>. QED BY <1>1, TypeStep, PTL DEF Spec

-----------------------------------------------------------------------------
(* The inductive invariant.                                                *)

\* With compare-and-set writers only, every write of a row makes its version
\* grow and no row disappears.
LEMMA RowsGrow ==
    ASSUME TypeOK, RequestsNotAhead, [Next]_vars
    PROVE  VersionGrows /\ \A t \in Task : tasks[t] # NoTask => tasks'[t] # NoTask
<1>1. TypeOK'
  BY TypeStep
<1>2. ASSUME NEW t \in Task, tasks[t] # NoTask, tasks'[t] # tasks[t]
      PROVE  tasks'[t] # NoTask /\ tasks'[t].version > tasks[t].version
  <2> USE <1>2 DEF TypeOK
  <2>1. CASE \E u \in Task, title \in Title, k \in Column : CreateTask(u, title, k)
    BY <2>1 DEF CreateTask
  <2>2. CASE \E k, dest \in Column : DeleteColumn(k, dest)
    <3>1. PICK k \in Column, dest \in Column : DeleteColumn(k, dest)
      BY <2>2
    <3>2. tasks[t] \in Row /\ tasks'[t] = MovedOut(tasks[t], k, dest)
      BY <3>1 DEF DeleteColumn
    <3>3. tasks'[t].version = tasks[t].version + 1 /\ tasks[t].version \in Nat
      BY <3>2 DEF MovedOut, Row
    <3>. QED BY <3>2, <3>3, MovedOutType, NoTaskAssumption DEF DeleteColumn
  <2>3. ASSUME NEW c \in Client, CommitPatch(c) \/ CommitMove(c)
        PROVE  tasks'[t] # NoTask /\ tasks'[t].version > tasks[t].version
    <3> DEFINE r == request[c]
    <3>1. PICK row \in Row : /\ CompareAndSet(c, row) /\ row.version = r.base + 1
                             /\ r.task \in Task /\ r.base \in Nat
      BY <2>3, PatchIsCompareAndSet, MoveIsCompareAndSet
    <3>2. t = r.task /\ tasks[t].version = r.base /\ tasks'[t] = row
      BY <3>1 DEF CompareAndSet, Matches
    <3>. QED BY <3>1, <3>2, NoTaskAssumption
  <2>4. ASSUME NEW c \in Client, CommitLifecycle(c)
        PROVE  FALSE
    BY <2>4 DEF CommitLifecycle, Idle, RequestsNotAhead
  <2>5. CASE tasks' = tasks
    BY <2>5
  <2>. QED BY <2>1, <2>2, <2>3, <2>4, <2>5
       DEF Next, vars, Read, Begin, Respond, Conflict, Fail
<1>. QED BY <1>2 DEF VersionGrows

\* A step that leaves the copies alone and keeps what the pending requests say
\* keeps the relation between copies, requests and rows, whatever it writes.
LEMMA RelationsKept ==
    ASSUME TypeOK, TypeOK', VersionNamesState, CopiesNotAhead, RequestsNotAhead,
           VersionGrows, \A t \in Task : tasks[t] # NoTask => tasks'[t] # NoTask,
           UNCHANGED copies,
           \A d \in Client : request'[d] # Idle =>
                /\ request[d] # Idle
                /\ request'[d].task = request[d].task
                /\ request'[d].kind = request[d].kind
                /\ request'[d].base = request[d].base
                /\ request'[d].loaded = request[d].loaded
                /\ request'[d].phase = "loaded" => request[d].phase = "loaded"
    PROVE  VersionNamesState' /\ CopiesNotAhead' /\ RequestsNotAhead'
<1>1. \A t \in Task : tasks[t] # NoTask =>
        /\ tasks[t].version \in Nat /\ tasks'[t].version \in Nat
        /\ tasks'[t].version >= tasks[t].version
        /\ tasks'[t].version = tasks[t].version => tasks'[t] = tasks[t]
  BY DEF TypeOK, VersionGrows, Row
<1>2. \A c \in Client, t \in Task :
        copies[c][t] # NoTask => copies[c][t].version \in Nat
  BY DEF TypeOK, Copy
<1>3. VersionNamesState'
  BY <1>1, <1>2 DEF VersionNamesState, CopiesNotAhead
<1>4. CopiesNotAhead'
  BY <1>1, <1>2 DEF CopiesNotAhead
<1>5. \A c \in Client : request[c] # Idle =>
        /\ request[c].task \in Task /\ request[c].loaded.version \in Nat
        /\ request[c].base \in Nat /\ tasks[request[c].task] # NoTask
  BY DEF TypeOK, Request, Row
<1>6. RequestsNotAhead'
  BY <1>1, <1>5 DEF RequestsNotAhead
<1>. QED BY <1>3, <1>4, <1>6

\* The row loaded before a compare-and-set that matches is the row it writes:
\* base <= loaded.version <= version, and the two ends are equal.
LEMMA LoadedIsCurrent ==
    ASSUME TypeOK, RequestsNotAhead PROVE LoadedRowIsCurrent
<1> SUFFICES ASSUME NEW c \in Client, request[c] # Idle,
                    request[c].phase = "loaded",
                    Matches(tasks[request[c].task], request[c].base)
             PROVE  request[c].loaded = tasks[request[c].task]
  BY DEF LoadedRowIsCurrent
<1>1. /\ request[c].loaded.version \in Nat /\ request[c].base \in Nat
      /\ tasks[request[c].task].version \in Nat
  BY DEF TypeOK, Request, Row
<1>. QED BY <1>1 DEF RequestsNotAhead, Matches

\* Relations between copies, requests and rows over one step.
LEMMA RelationsStep ==
    ASSUME Kind \subseteq {"patch", "move"},
           TypeOK, VersionNamesState, CopiesNotAhead, RequestsNotAhead, [Next]_vars
    PROVE  VersionNamesState' /\ CopiesNotAhead' /\ RequestsNotAhead'
<1> USE RowsGrow, TypeStep
<1> DEFINE Goal == VersionNamesState' /\ CopiesNotAhead' /\ RequestsNotAhead'
<1>1. ASSUME UNCHANGED <<copies, request>>
      PROVE  Goal
  BY <1>1, RelationsKept
<1>2. ASSUME NEW c \in Client, NEW t \in Task, Read(c, t)
      PROVE  Goal
  <2>1. /\ tasks[t] \in Row /\ copies'[c][t] = TaskOut(tasks[t])
        /\ request[c] = Idle /\ UNCHANGED <<tasks, request>>
        /\ \A d \in Client, u \in Task :
              d # c \/ u # t => copies'[d][u] = copies[d][u]
    BY <1>2 DEF Read, TypeOK
  <2>2. TaskOut(tasks[t]).version = tasks[t].version /\ tasks[t].version \in Nat
    BY <2>1 DEF TaskOut, Row
  <2>3. VersionNamesState' /\ CopiesNotAhead'
    BY <2>1, <2>2, NoTaskAssumption, TaskOutType DEF VersionNamesState, CopiesNotAhead
  <2>4. RequestsNotAhead'
    <3>1. \A d \in Client : request[d] # Idle => request[d].task \in Task
      BY DEF TypeOK, Request
    <3>2. \A d \in Client : request'[d] # Idle =>
            /\ request'[d] = request[d]
            /\ \A u \in Task : copies'[d][u] = copies[d][u]
      BY <2>1
    <3>. QED BY <2>1, <3>1, <3>2 DEF RequestsNotAhead
  <2>. QED BY <2>3, <2>4
<1>3. ASSUME NEW c \in Client, NEW kind \in Kind, NEW t \in Task,
             NEW body \in BodyOf(kind), Begin(c, kind, t, body)
      PROVE  Goal
  <2> DEFINE r == [phase |-> "loaded", kind |-> kind, task |-> t,
                   base |-> copies[c][t].version, body |-> body,
                   loaded |-> tasks[t]]
  <2>1. /\ copies[c][t] # NoTask /\ tasks[t] \in Row
        /\ UNCHANGED <<tasks, copies>>
        /\ request'[c] = r
        /\ \A d \in Client : d # c => request'[d] = request[d]
    BY <1>3 DEF Begin, TypeOK
  <2>2. /\ r.kind \in {"patch", "move"} /\ r.task = t /\ r.loaded = tasks[t]
        /\ r.base = copies[c][t].version
        /\ r.base <= tasks[t].version /\ tasks[t].version \in Nat
    BY <2>1 DEF CopiesNotAhead, Row
  <2>3. VersionNamesState' /\ CopiesNotAhead'
    BY <2>1 DEF VersionNamesState, CopiesNotAhead
  <2>4. RequestsNotAhead'
    BY <2>1, <2>2 DEF RequestsNotAhead
  <2>. QED BY <2>3, <2>4
<1>4. ASSUME NEW c \in Client, CommitPatch(c) \/ CommitMove(c)
      PROVE  Goal
  <2>1. request[c] \in Request /\ Answering(c) /\ UNCHANGED copies
    BY <1>4, PatchIsCompareAndSet, MoveIsCompareAndSet DEF CompareAndSet
  <2>2. request \in [Client -> Request \cup {Idle}]
    BY DEF TypeOK
  <2>. QED BY <2>1, <2>2, RelationsKept, AnsweringKeeps
<1>5. ASSUME NEW c \in Client, CommitLifecycle(c)
      PROVE  Goal
  BY <1>5 DEF CommitLifecycle, Idle, RequestsNotAhead
<1>6. ASSUME NEW c \in Client, Respond(c)
      PROVE  Goal
  <2> DEFINE t == request[c].task
  <2>1. /\ t \in Task /\ tasks[t] \in Row /\ copies'[c][t] = TaskOut(tasks[t])
        /\ UNCHANGED tasks /\ request'[c] = Idle
        /\ \A d \in Client : d # c => request'[d] = request[d]
        /\ \A d \in Client, u \in Task :
              d # c \/ u # t => copies'[d][u] = copies[d][u]
    BY <1>6 DEF Respond, TypeOK, Request, Idle
  <2>2. TaskOut(tasks[t]).version = tasks[t].version /\ tasks[t].version \in Nat
    BY <2>1 DEF TaskOut, Row
  <2>3. VersionNamesState' /\ CopiesNotAhead'
    BY <2>1, <2>2, NoTaskAssumption, TaskOutType DEF VersionNamesState, CopiesNotAhead
  <2>4. RequestsNotAhead'
    <3>1. \A d \in Client : request[d] # Idle => request[d].task \in Task
      BY DEF TypeOK, Request
    <3>2. \A d \in Client : request'[d] # Idle =>
            /\ request'[d] = request[d]
            /\ \A u \in Task : copies'[d][u] = copies[d][u]
      BY <2>1
    <3>. QED BY <2>1, <3>1, <3>2 DEF RequestsNotAhead
  <2>. QED BY <2>3, <2>4
<1>7. ASSUME NEW c \in Client, Conflict(c) \/ Fail(c)
      PROVE  Goal
  BY <1>7, RelationsKept DEF Conflict, Fail, TypeOK
<1>. QED BY <1>1, <1>2, <1>3, <1>4, <1>5, <1>6, <1>7
     DEF Next, vars, CreateTask, DeleteColumn

\* completed_at follows the status over one step.
LEMMA CompletedStep ==
    ASSUME TypeOK, RequestsNotAhead, CompletedIffDone, [Next]_vars
    PROVE  CompletedIffDone'
<1>1. ASSUME NEW t \in Task, NEW title \in Title, NEW k \in Column,
             CreateTask(t, title, k)
      PROVE  CompletedIffDone'
  BY <1>1 DEF CreateTask, NewRow, CompletedIffDone, TypeOK
<1>2. ASSUME NEW k \in Column, NEW dest \in Column, DeleteColumn(k, dest)
      PROVE  CompletedIffDone'
  <2>1. ASSUME NEW t \in Task, tasks[t] \in Row
        PROVE  /\ MovedOut(tasks[t], k, dest).status = tasks[t].status
               /\ MovedOut(tasks[t], k, dest).completed = tasks[t].completed
    BY <2>1 DEF MovedOut, Row
  <2>2. \A t \in Task : tasks[t] = NoTask => MovedOut(tasks[t], k, dest) = NoTask
    BY DEF MovedOut
  <2>. QED BY <1>2, <2>1, <2>2 DEF DeleteColumn, CompletedIffDone, TypeOK
<1>3. ASSUME NEW c \in Client, NEW row \in Row, CompareAndSet(c, row),
             request[c].task \in Task, row.completed = (row.status = "done")
      PROVE  CompletedIffDone'
  BY <1>3 DEF CompareAndSet, CompletedIffDone, TypeOK
<1>4. ASSUME NEW c \in Client, CommitPatch(c)
      PROVE  CompletedIffDone'
  <2> DEFINE r == request[c]
             row == Patched(tasks[r.task], r.loaded, r.body, r.base + 1)
  <2>1. /\ r # Idle /\ r.phase = "loaded" /\ tasks[r.task] \in Row /\ r.task \in Task
        /\ r.body \in PatchBody /\ row \in Row /\ CompareAndSet(c, row)
    BY <1>4, PatchIsCompareAndSet
  <2>2. r.loaded = tasks[r.task]
    BY <2>1, LoadedIsCurrent DEF LoadedRowIsCurrent, CompareAndSet
  <2>3. tasks[r.task].completed = (tasks[r.task].status = "done")
    BY <2>1, NoTaskAssumption DEF CompletedIffDone
  <2>4. row.completed = (row.status = "done")
    <3>1. row.status = Given(r.body.status, tasks[r.task].status)
      BY <2>1 DEF Patched, Row
    <3>2. row.completed =
            IF r.body.status = "done" /\ r.loaded.status # "done" THEN TRUE
            ELSE IF r.body.status \notin {"done", Unset} /\ r.loaded.status = "done"
                 THEN FALSE ELSE tasks[r.task].completed
      BY <2>1 DEF Patched, Row
    <3>3. Unset # "done"
      BY UnsetAssumption DEF Statuses
    <3>4. CASE r.body.status = Unset
      BY <2>2, <2>3, <3>1, <3>2, <3>3, <3>4 DEF Given
    <3>5. CASE r.body.status = "done"
      BY <2>2, <2>3, <3>1, <3>2, <3>3, <3>5 DEF Given
    <3>6. CASE r.body.status \notin {"done", Unset}
      BY <2>2, <2>3, <3>1, <3>2, <3>3, <3>6 DEF Given
    <3>. QED BY <3>4, <3>5, <3>6
  <2>. QED BY <2>1, <2>4, <1>3
<1>5. ASSUME NEW c \in Client, CommitMove(c)
      PROVE  CompletedIffDone'
  <2> DEFINE r == request[c]
             row == Moved(tasks[r.task], r.body, r.base + 1)
  <2>1. /\ tasks[r.task] \in Row /\ r.task \in Task /\ row \in Row
        /\ CompareAndSet(c, row)
    BY <1>5, MoveIsCompareAndSet
  <2>2. tasks[r.task].completed = (tasks[r.task].status = "done")
    BY <2>1, NoTaskAssumption DEF CompletedIffDone
  <2>3. row.completed = (row.status = "done")
    BY <2>1, <2>2 DEF Moved, Row
  <2>. QED BY <2>1, <2>3, <1>3
<1>6. ASSUME NEW c \in Client, CommitLifecycle(c)
      PROVE  FALSE
  BY <1>6 DEF CommitLifecycle, Idle, RequestsNotAhead
<1>7. CASE tasks' = tasks
  BY <1>7 DEF CompletedIffDone
<1>. QED BY <1>1, <1>2, <1>4, <1>5, <1>6, <1>7
     DEF Next, vars, Read, Begin, Respond, Conflict, Fail

\* No task is left in a deleted column over one step.
LEMMA ColumnStep ==
    ASSUME TypeOK, ColumnExists, [Next]_vars PROVE ColumnExists'
<1>1. ASSUME NEW t \in Task, NEW title \in Title, NEW k \in Column,
             CreateTask(t, title, k)
      PROVE  ColumnExists'
  BY <1>1 DEF CreateTask, NewRow, ColumnExists, TypeOK
<1>2. ASSUME NEW k \in Column, NEW dest \in Column, DeleteColumn(k, dest)
      PROVE  ColumnExists'
  <2>1. ASSUME NEW t \in Task, tasks[t] \in Row
        PROVE  MovedOut(tasks[t], k, dest).column
                  = IF tasks[t].column = k THEN dest ELSE tasks[t].column
    BY <2>1, NoTaskAssumption DEF MovedOut, Row
  <2>2. \A t \in Task : tasks[t] = NoTask => MovedOut(tasks[t], k, dest) = NoTask
    BY DEF MovedOut
  <2>. QED BY <1>2, <2>1, <2>2 DEF DeleteColumn, ColumnExists, TypeOK
<1>3. ASSUME NEW c \in Client, CommitPatch(c)
      PROVE  ColumnExists'
  <2> DEFINE r == request[c]
             row == Patched(tasks[r.task], r.loaded, r.body, r.base + 1)
  <2>1. /\ tasks[r.task] \in Row /\ r.task \in Task /\ CompareAndSet(c, row)
    BY <1>3, PatchIsCompareAndSet
  <2>2. row.column = tasks[r.task].column
    BY <2>1 DEF Patched, Row
  <2>. QED BY <2>1, <2>2, NoTaskAssumption DEF CompareAndSet, ColumnExists, TypeOK
<1>4. ASSUME NEW c \in Client, CommitMove(c)
      PROVE  ColumnExists'
  <2> DEFINE r == request[c]
             row == Moved(tasks[r.task], r.body, r.base + 1)
  <2>1. /\ tasks[r.task] \in Row /\ r.task \in Task /\ CompareAndSet(c, row)
        /\ r.body.column \in columns
    BY <1>4, MoveIsCompareAndSet DEF CommitMove
  <2>2. row.column \in columns
    BY <2>1 DEF Moved, Row
  <2>. QED BY <2>1, <2>2 DEF CompareAndSet, ColumnExists, TypeOK
<1>5. ASSUME NEW c \in Client, CommitLifecycle(c)
      PROVE  ColumnExists'
  <2>1. /\ request[c].task \in Task /\ tasks[request[c].task] \in Row
    BY <1>5 DEF CommitLifecycle, Idle, Request, TypeOK
  <2>2. tasks'[request[c].task].column = tasks[request[c].task].column
    BY <1>5, <2>1 DEF CommitLifecycle, Relabelled, Row, TypeOK
  <2>. QED BY <1>5, <2>1, <2>2, NoTaskAssumption
       DEF CommitLifecycle, ColumnExists, TypeOK
<1>6. CASE UNCHANGED <<tasks, columns>>
  BY <1>6 DEF ColumnExists
<1>. QED BY <1>1, <1>2, <1>3, <1>4, <1>5, <1>6
     DEF Next, vars, Read, Begin, Respond, Conflict, Fail

\* No task is ever in a deleted column, whatever kinds of requests there are:
\* archived tasks are moved out as well, and a move that finds its destination
\* gone is refused by the foreign key.
THEOREM ColumnsExist == Spec => []ColumnExists
<1>1. Init => TypeOK /\ ColumnExists
  BY DEF Init, TypeOK, ColumnExists
<1>2. TypeOK /\ ColumnExists /\ [Next]_vars => (TypeOK /\ ColumnExists)'
  BY TypeStep, ColumnStep
<1>. QED BY <1>1, <1>2, PTL DEF Spec

LEMMA InvStep ==
    ASSUME Kind \subseteq {"patch", "move"} PROVE IInv /\ [Next]_vars => IInv'
BY TypeStep, RelationsStep, CompletedStep, ColumnStep DEF IInv

LEMMA Invariant ==
    ASSUME Kind \subseteq {"patch", "move"} PROVE Spec => []IInv
<1>1. Init => IInv
  BY DEF Init, IInv, TypeOK, VersionNamesState, CopiesNotAhead, RequestsNotAhead,
     CompletedIffDone, ColumnExists
<1>. QED BY <1>1, InvStep, PTL DEF Spec

-----------------------------------------------------------------------------
(* What follows for the clients.                                           *)

\* A version names one state of a task, and the row a handler loaded is the
\* row its compare-and-set replaces.
THEOREM VersionsNameStates ==
    ASSUME Kind \subseteq {"patch", "move"}
    PROVE  Spec => [](VersionNamesState /\ LoadedRowIsCurrent)
<1>1. IInv => VersionNamesState /\ LoadedRowIsCurrent
  BY LoadedIsCurrent DEF IInv
<1>. QED BY <1>1, Invariant, PTL

\* completed_at is set exactly on the done tasks, and no task is in a deleted
\* column.
THEOREM RowsConsistent ==
    ASSUME Kind \subseteq {"patch", "move"}
    PROVE  Spec => [](CompletedIffDone /\ ColumnExists)
<1>1. IInv => CompletedIffDone /\ ColumnExists
  BY DEF IInv
<1>. QED BY <1>1, Invariant, PTL

\* Every write of a row makes its version grow.
THEOREM WritesAreVersioned ==
    ASSUME Kind \subseteq {"patch", "move"} PROVE Spec => EveryWriteIsVersioned
<1>1. IInv /\ [Next]_vars => [VersionGrows]_tasks
  BY RowsGrow DEF IInv
<1>. QED BY <1>1, Invariant, PTL DEF Spec, EveryWriteIsVersioned

\* The request of c that commits in this step is the one that writes.
LEMMA CommitterWrites ==
    ASSUME TypeOK, [Next]_vars, NEW c \in Client, Commits(c)
    PROVE  CommitPatch(c) \/ CommitMove(c)
<1>1. ASSUME NEW d \in Client, d # c, Answering(d)
      PROVE  FALSE
  BY <1>1 DEF Commits, Answering, TypeOK
<1>2. ASSUME NEW d \in Client,
             CommitPatch(d) \/ CommitMove(d) \/ CommitLifecycle(d)
      PROVE  d = c /\ (CommitPatch(c) \/ CommitMove(c))
  BY <1>1, <1>2 DEF CommitPatch, CommitMove, CommitLifecycle, CompareAndSet, Commits
<1>3. ASSUME UNCHANGED request
      PROVE  FALSE
  BY <1>3 DEF Commits
<1>4. ASSUME NEW d \in Client, Respond(d) \/ Conflict(d) \/ Fail(d)
      PROVE  FALSE
  BY <1>4 DEF Respond, Conflict, Fail, Commits, TypeOK
<1>5. ASSUME NEW d \in Client, NEW kind \in Kind, NEW t \in Task,
             NEW body \in BodyOf(kind), Begin(d, kind, t, body)
      PROVE  FALSE
  BY <1>5 DEF Begin, Commits, TypeOK
<1>. QED BY <1>2, <1>3, <1>4, <1>5 DEF Next, vars, CreateTask, DeleteColumn, Read

LEMMA CommitterHasSeen ==
    ASSUME IInv, NEW c \in Client, CommitPatch(c) \/ CommitMove(c)
    PROVE  copies[c][request[c].task] = TaskOut(tasks[request[c].task])
<1> USE DEF IInv
<1>1. /\ request[c] # Idle /\ request[c].phase = "loaded"
      /\ request[c].task \in Task
      /\ tasks[request[c].task].version = request[c].base
  BY PatchIsCompareAndSet, MoveIsCompareAndSet DEF CompareAndSet, Matches
<1>. QED BY <1>1 DEF RequestsNotAhead, VersionNamesState

\* No committed patch or move overwrites a write its client had not seen: the
\* client's copy equals the row being replaced.
THEOREM NoOverwrite ==
    ASSUME Kind \subseteq {"patch", "move"} PROVE Spec => NoSilentOverwrite
<1>1. IInv /\ [Next]_vars => [OverwritesOnlySeen]_vars
  BY CommitterWrites, CommitterHasSeen DEF IInv, OverwritesOnlySeen
<1>. QED BY <1>1, Invariant, PTL DEF Spec, NoSilentOverwrite

\* A notification round is sent by exactly the commits that make a task done.
LEMMA NotifyStep ==
    ASSUME IInv, [Next]_vars PROVE NotifiesCompletion
<1> USE DEF IInv
<1>1. ASSUME NEW c \in Client, CommitPatch(c) \/ CommitMove(c)
      PROVE  NotifiesCompletion
  <2> DEFINE r == request[c]
  <2>1. PICK row \in Row : /\ CompareAndSet(c, row) /\ r.task \in Task
                           /\ tasks[r.task] \in Row /\ r # Idle /\ r.phase = "loaded"
    BY <1>1, PatchIsCompareAndSet, MoveIsCompareAndSet
  <2>2. r.loaded = tasks[r.task]
    BY <2>1, LoadedIsCurrent DEF LoadedRowIsCurrent, CompareAndSet
  <2>3. tasks' = [tasks EXCEPT ![r.task] = row]
    BY <2>1 DEF CompareAndSet
  <2>4. resolved' = [resolved EXCEPT ![r.task] =
                       IF tasks[r.task].status # "done" /\ row.status = "done"
                       THEN @ + 1 ELSE @]
    BY <2>1, <2>2 DEF CompareAndSet, Resolves
  <2>. QED BY <2>1, <2>3, <2>4, NoTaskAssumption DEF NotifiesCompletion, TypeOK
<1>2. ASSUME NEW k \in Column, NEW dest \in Column, DeleteColumn(k, dest)
      PROVE  NotifiesCompletion
  <2>1. ASSUME NEW t \in Task, tasks[t] \in Row
        PROVE  MovedOut(tasks[t], k, dest).status = tasks[t].status
    BY <2>1 DEF MovedOut, Row
  <2>. QED BY <1>2, <2>1 DEF DeleteColumn, NotifiesCompletion, TypeOK
<1>3. ASSUME NEW t \in Task, NEW title \in Title, NEW k \in Column,
             CreateTask(t, title, k)
      PROVE  NotifiesCompletion
  BY <1>3 DEF CreateTask, NotifiesCompletion, TypeOK
<1>4. ASSUME NEW c \in Client, CommitLifecycle(c)
      PROVE  FALSE
  BY <1>4 DEF CommitLifecycle, Idle, RequestsNotAhead
<1>5. CASE UNCHANGED <<tasks, resolved>>
  BY <1>5 DEF NotifiesCompletion
<1>. QED BY <1>1, <1>2, <1>3, <1>4, <1>5
     DEF Next, vars, Read, Begin, Respond, Conflict, Fail

THEOREM NotifiedOnce ==
    ASSUME Kind \subseteq {"patch", "move"} PROVE Spec => NotifiedOncePerCompletion
<1>1. IInv /\ [Next]_vars => [NotifiesCompletion]_vars
  BY NotifyStep
<1>. QED BY <1>1, Invariant, PTL DEF Spec, NotifiedOncePerCompletion

\* Tasks implements the contract in which every write is one atomic step of a
\* client that has seen the task.
LEMMA ContractStep ==
    ASSUME IInv, [Next]_vars PROVE [Contract!Next]_(Contract!vars)
<1> USE DEF IInv
<1>1. ASSUME NEW c \in Client, CommitPatch(c) \/ CommitMove(c)
      PROVE  Contract!Write(c, request[c].task)
  <2> DEFINE r == request[c]
             t == request[c].task
  <2>1. PICK row \in Row : /\ CompareAndSet(c, row) /\ t \in Task
                           /\ row.version = r.base + 1
                           /\ tasks[t] \in Row /\ r # Idle /\ r.phase = "loaded"
    BY <1>1, PatchIsCompareAndSet, MoveIsCompareAndSet
  <2>2. /\ tasks[t].version = r.base
        /\ tasks' = [tasks EXCEPT ![t] = row] /\ tasks'[t] = row
        /\ UNCHANGED <<copies, columns>>
    BY <2>1 DEF CompareAndSet, Matches, TypeOK
  <2>3. copies[c][t] = Contract!TaskOut(tasks[t])
    BY <1>1, CommitterHasSeen DEF TaskOut, Contract!TaskOut
  <2>4. /\ tasks'[t].completed = (tasks'[t].status = "done")
        /\ tasks'[t].column \in columns
    BY <1>1, <2>1, <2>2, CompletedStep, ColumnStep, NoTaskAssumption
       DEF CompletedIffDone, ColumnExists
  <2>5. resolved' = [resolved EXCEPT ![t] =
                       IF tasks[t].status # "done" /\ row.status = "done"
                       THEN @ + 1 ELSE @]
    BY <2>1, LoadedIsCurrent DEF CompareAndSet, Resolves, LoadedRowIsCurrent
  <2>. QED BY <2>1, <2>2, <2>3, <2>4, <2>5, NoTaskAssumption DEF Contract!Write
<1>2. ASSUME NEW k \in Column, NEW dest \in Column, DeleteColumn(k, dest)
      PROVE  k \in columns /\ Contract!DropColumn(k)
  <2>1. ASSUME NEW t \in Task
        PROVE  MovedOut(tasks[t], k, dest) =
                 IF tasks[t] # NoTask /\ tasks[t].column = k
                 THEN [tasks[t] EXCEPT !.version = @ + 1, !.column = dest]
                 ELSE tasks[t]
    BY DEF MovedOut
  <2>2. columns' = columns \ {k} /\ dest \in columns' /\ k \in columns
    BY <1>2 DEF DeleteColumn
  <2>. QED BY <1>2, <2>1, <2>2 DEF DeleteColumn, Contract!DropColumn
<1>3. ASSUME NEW t \in Task, NEW title \in Title, NEW k \in Column,
             CreateTask(t, title, k)
      PROVE  Contract!Create(t)
  BY <1>3 DEF CreateTask, Contract!Create, NewRow, Contract!NewRow
<1>4. ASSUME NEW c \in Client, NEW t \in Task, Read(c, t)
      PROVE  Contract!See(c, t)
  BY <1>4 DEF Read, Contract!See, TaskOut, Contract!TaskOut
<1>5. ASSUME NEW c \in Client, Respond(c)
      PROVE  request[c].task \in Task /\ Contract!See(c, request[c].task)
  <2>1. request[c].task \in Task /\ tasks[request[c].task] # NoTask
    BY <1>5 DEF Respond, Idle, TypeOK, Request
  <2>. QED BY <1>5, <2>1 DEF Respond, Contract!See, TaskOut, Contract!TaskOut
<1>6. ASSUME NEW c \in Client, CommitLifecycle(c)
      PROVE  FALSE
  BY <1>6 DEF CommitLifecycle, Idle, RequestsNotAhead
<1>7. CASE UNCHANGED <<tasks, copies, columns, resolved>>
  BY <1>7 DEF Contract!vars
<1>8. \A c \in Client : CommitPatch(c) \/ CommitMove(c) => request[c].task \in Task
  BY PatchIsCompareAndSet, MoveIsCompareAndSet
<1>. QED BY <1>1, <1>2, <1>3, <1>4, <1>5, <1>6, <1>7, <1>8
     DEF Next, vars, Begin, Conflict, Fail, Contract!Next

THEOREM Implements ==
    ASSUME Kind \subseteq {"patch", "move"} PROVE Spec => ImplementsContract
<1>1. Init => Contract!Init
  BY DEF Init, Contract!Init
<1>2. IInv /\ [Next]_vars => [Contract!Next]_(Contract!vars)
  BY ContractStep
<1>. QED BY <1>1, <1>2, Invariant, PTL
     DEF Spec, ImplementsContract, Contract!Spec

-----------------------------------------------------------------------------
(* The board of a client.                                                  *)

LoadRow == [at: {"none", "asked", "answered", "saved"}, asked: BOOLEAN, board: Boards]
MoveRow == [at: {"none", "caching", "sent", "served", "answered", "reloading", "recaching", "gone"},
            task: Task \cup {NoTask}, column: Column \cup {NoTask}, before: Boards,
            reply: Replies \cup {"none"}, entry: Entry \cup {NoTask}]

\* The server has answered every task of the board.
Clean(board) == \A t \in Task : board[t] # NoTask => ~board[t].guessed

\* What is known of a move by itself: the task it was answered with comes from
\* the server, and it has a task while it goes on.
Sound(m) ==
    /\ m.entry # NoTask => ~m.entry.guessed
    /\ m.at \in {"caching", "sent", "served", "answered"} =>
          m.task \in Task /\ m.column \in Column /\ m.before[m.task] # NoTask
    /\ m.task # NoTask => m.before[m.task] # NoTask
    /\ m.at = "answered" => m.reply \in Replies

\* No request and no reload outlives the step of the move that waits for it.
MoveSound(c) ==
    /\ Sound(move[c])
    /\ request[c] # Idle => move[c].at \in {"served", "gone"}
    /\ load[c].at # "none" => move[c].at = "reloading"

BoardTyped ==
    /\ app \in {"mobile", "web"} /\ shown \in Boards /\ saved \in Boards /\ offline \in BOOLEAN
    /\ load \in [Loader -> LoadRow] /\ move \in [Mover -> MoveRow]
    /\ edit \in [Editor -> [at: {"none", "asked", "answered"}, board: Boards]]
    /\ tangled \in BOOLEAN

\* What moves and edits that began on a settled board go back to, and what is
\* shown when no move is under way.
Settled ==
    /\ \A c \in Mover : Clean(move[c].before)
    /\ \A e \in Editor : Clean(edit[e].board)
    /\ (\A c \in Mover : ~Underway(c)) => offline \/ load[Event].asked \/ Clean(shown)

\* The phone has no such edits.
EditsOnPage == \A e \in Editor : edit[e].at # "none" => app = "web"

BoardInv ==
    /\ TypeOK /\ BoardTyped
    /\ \A l \in Loader : Clean(load[l].board)
    /\ \A c \in Mover : MoveSound(c)
    /\ app = "web" => ~offline /\ ~load[Event].asked
    /\ EditsOnPage
    /\ ~tangled => Settled

LEMMA MoversAreClients == Mover \subseteq Client /\ Mover \subseteq Loader /\ Event \in Loader /\ Event \notin Mover
BY MoverAssumption DEF Loader

LEMMA Answereds ==
    ASSUME NEW row \in Row
    PROVE  Answered(row) \in Entry /\ ~Answered(row).guessed
BY TaskOutType DEF Answered, Entry

LEMMA Guesses ==
    ASSUME NEW board \in Boards, NEW t \in Task, board[t] # NoTask, NEW k \in Column
    PROVE  [board EXCEPT ![t] = Guess(@, k)] \in Boards
<1>1. board[t] \in Entry
  BY DEF Boards
<1>2. board[t].copy \in Copy /\ board[t].copy.version + 1 \in Nat
  BY <1>1 DEF Entry, Copy
<1>3. [board[t].copy EXCEPT !.column = k, !.version = @ + 1] \in Copy
  BY <1>2 DEF Copy
<1>4. Guess(board[t], k) \in Entry
  BY <1>3 DEF Guess, Entry
<1> QED BY <1>4 DEF Boards

LEMMA Beginnings ==
    /\ Blank \in Boards /\ Clean(Blank)
    /\ NoLoad \in LoadRow /\ NoLoad.at = "none" /\ ~NoLoad.asked /\ NoLoad.board = Blank
    /\ NoMove \in MoveRow /\ NoMove.at = "none" /\ NoMove.before = Blank
    /\ Sound(NoMove) /\ NoEdit.board = Blank /\ NoEdit.at = "none"
    /\ NoEdit \in [at: {"none", "asked", "answered"}, board: Boards]
<1>1. Blank \in Boards /\ Clean(Blank)
  BY DEF Blank, Boards, Clean
<1> QED BY <1>1 DEF NoLoad, NoMove, NoEdit, LoadRow, MoveRow, Sound

LEMMA BoardHolds == BoardInv => BoardHonest
<1> SUFFICES ASSUME BoardInv
             PROVE  BoardHonest
  OBVIOUS
<1>1. BoardTypeOK
  BY DEF BoardInv, BoardTyped, BoardTypeOK, LoadRow, MoveRow
<1>2. ~tangled => SendsAnswered
  <2> SUFFICES ASSUME ~tangled, NEW c \in Mover, move[c].task # NoTask
               PROVE  ~move[c].before[move[c].task].guessed
    BY DEF SendsAnswered
  <2>1. move[c].task \in Task
    BY DEF BoardInv, BoardTyped, MoveRow
  <2>2. Clean(move[c].before) /\ move[c].before[move[c].task] # NoTask
    BY DEF BoardInv, MoveSound, Sound, Settled
  <2> QED BY <2>1, <2>2 DEF Clean
<1>3. ~tangled => GuessesMarked
  BY DEF BoardInv, GuessesMarked, Settled, Clean
<1> QED BY <1>1, <1>2, <1>3 DEF BoardHonest

LEMMA BoardStarts == BoardInit => BoardInv
<1> SUFFICES ASSUME BoardInit
             PROVE  BoardInv
  OBVIOUS
<1>1. TypeOK
  BY DEF BoardInit, Init, TypeOK
<1>2. BoardTyped
  BY Beginnings, AppAssumption DEF BoardInit, BoardTyped
<1>3. \A l \in Loader : load[l] = NoLoad
  BY DEF BoardInit
<1>4. \A c \in Mover : move[c] = NoMove /\ request[c] = Idle /\ load[c] = NoLoad
  BY MoversAreClients DEF BoardInit, Init
<1>5. \A c \in Mover : MoveSound(c)
  BY <1>4, Beginnings DEF MoveSound
<1>6. Clean(shown) /\ ~offline /\ ~load[Event].asked
  BY <1>3, Beginnings, MoversAreClients DEF BoardInit
<1>7. \A e \in Editor : edit[e] = NoEdit
  BY DEF BoardInit
<1>8. Settled
  BY <1>4, <1>6, <1>7, Beginnings DEF Settled
<1> QED BY <1>1, <1>2, <1>3, <1>5, <1>6, <1>7, <1>8, Beginnings DEF BoardInv, EditsOnPage

\* The requests of Tasks while the board waits: those of movers go on or are
\* left alone.
LEMMA RequestsStep ==
    ASSUME BoardInv, TypeOK', UNCHANGED boardVars,
           \A c \in Mover : request'[c] # Idle => request[c] # Idle
    PROVE  BoardInv'
<1>1. BoardTyped'
  BY DEF BoardInv, BoardTyped, boardVars, editVars, Boards, Entry, LoadRow, MoveRow
<1>2. \A c \in Mover : MoveSound(c)'
  BY DEF BoardInv, MoveSound, Sound, boardVars, Idle
<1>3. (~tangled => Settled)'
  BY DEF BoardInv, Settled, Underway, Clean, boardVars, editVars
<1> QED BY <1>1, <1>2, <1>3 DEF BoardInv, EditsOnPage, Clean, boardVars, editVars

LEMMA CollaborateStep == ASSUME BoardInv, Collaborate PROVE BoardInv'
<1>1. TypeOK'
  BY TypeStep DEF BoardInv, Collaborate
<1> QED BY <1>1, RequestsStep DEF Collaborate

LEMMA CommitMoveStep ==
    ASSUME BoardInv, NEW c \in Mover, CommitMove(c), UNCHANGED boardVars
    PROVE  BoardInv'
<1>1. TypeOK'
  BY TypeStep, MoversAreClients DEF BoardInv, Next
<1>2. request[c] # Idle /\ Answering(c)
  BY DEF CommitMove, CompareAndSet, Idle
<1>3. \A d \in Mover \ {c} : request'[d] = request[d]
  BY <1>2, MoversAreClients DEF Answering, BoardInv, TypeOK
<1> QED BY <1>1, <1>2, <1>3, RequestsStep

-----------------------------------------------------------------------------
(* Reloads.                                                                *)

\* A reload goes on to its next step.
LEMMA LoadStep ==
    ASSUME BoardInv, NEW l \in Loader, NEW new \in LoadRow, Clean(new.board),
           load' = [load EXCEPT ![l] = new],
           l \in Mover /\ new.at # "none" => move[l].at = "reloading",
           UNCHANGED <<vars, editVars, app, shown, move>>,
           saved' \in Boards, offline' \in BOOLEAN,
           app = "web" => ~offline' /\ (l = Event => ~new.asked),
           offline => offline' \/ (l = Event /\ new.asked),
           l = Event /\ load[Event].asked => new.asked
    PROVE  BoardInv'
<1>1. load' \in [Loader -> LoadRow] /\ load'[l] = new /\ \A k \in Loader \ {l} : load'[k] = load[k]
  BY DEF BoardInv, BoardTyped
<1>2. TypeOK' /\ BoardTyped'
  BY <1>1, TypeStep DEF BoardInv, BoardTyped, editVars, Boards, Entry
<1>3. \A k \in Loader : Clean(load'[k].board)
  BY <1>1 DEF BoardInv
<1>4. ASSUME NEW c \in Mover
      PROVE  MoveSound(c)'
  <2>1. MoveSound(c) /\ (load'[c].at # "none" => move[c].at = "reloading")
    BY <1>1, MoversAreClients DEF BoardInv, MoveSound
  <2> QED BY <2>1 DEF MoveSound, Sound, Clean, Idle, vars
<1>5. load[Event].asked => load'[Event].asked
  BY <1>1, MoversAreClients
<1>6. app' = "web" => ~offline' /\ ~load'[Event].asked
  BY <1>1, MoversAreClients DEF BoardInv
<1>7. (~tangled => Settled)'
  BY <1>1, <1>5 DEF BoardInv, Settled, Underway, Clean, editVars
<1>8. \A k \in Loader : Clean(load[k].board)'
  BY <1>3 DEF Clean
<1> QED BY <1>2, <1>4, <1>6, <1>7, <1>8 DEF BoardInv, EditsOnPage, editVars

LEMMA RefreshStep == ASSUME BoardInv, Refresh PROVE BoardInv'
<1> DEFINE new == [NoLoad EXCEPT !.at = "asked", !.asked = TRUE]
<1>1. new \in LoadRow /\ new.asked /\ new.board = Blank /\ Clean(new.board)
  BY Beginnings DEF LoadRow
<1>2. load' = [load EXCEPT ![Event] = new]
  BY MoversAreClients DEF Refresh, BoardInv, BoardTyped
<1> HIDE DEF new
<1>3. app # "web" /\ offline' = FALSE /\ saved' = saved /\ UNCHANGED <<vars, editVars, app, shown, move>>
  BY DEF Refresh
<1>4. saved' \in Boards /\ offline' \in BOOLEAN
  BY <1>3 DEF BoardInv, BoardTyped
<1> QED BY <1>1, <1>2, <1>3, <1>4, LoadStep, MoversAreClients

LEMMA FetchStep == ASSUME BoardInv, NEW l \in Loader, Fetch(l) PROVE BoardInv'
<1> DEFINE board == [t \in Task |-> IF tasks[t] # NoTask /\ ~tasks[t].archived
                                    THEN Answered(tasks[t]) ELSE NoTask]
           new == [load[l] EXCEPT !.at = "answered", !.board = board]
<1>1. board \in Boards /\ Clean(board)
  BY Answereds DEF BoardInv, TypeOK, Boards, Clean
<1>2. load[l] \in LoadRow
  BY DEF BoardInv, BoardTyped
<1>3. load' = [load EXCEPT ![l] = new]
  BY DEF Fetch
<1> HIDE DEF board
<1>4. new \in LoadRow /\ new.asked = load[l].asked /\ new.board = board
  BY <1>1, <1>2 DEF LoadRow
<1> HIDE DEF new
<1>5. /\ UNCHANGED <<vars, editVars, app, shown, saved, offline, move>>
      /\ l \in Mover => move[l].at = "reloading"
  BY DEF Fetch
<1>6. saved \in Boards /\ offline \in BOOLEAN /\ (app = "web" => ~offline /\ ~load[Event].asked)
  BY DEF BoardInv, BoardTyped
<1> QED BY <1>1, <1>3, <1>4, <1>5, <1>6, LoadStep, MoversAreClients

LEMMA SaveStep == ASSUME BoardInv, NEW l \in Loader, Save(l) PROVE BoardInv'
<1> DEFINE new == [load[l] EXCEPT !.at = "saved"]
<1>1. load[l] \in LoadRow /\ load[l].at = "answered"
  BY DEF BoardInv, BoardTyped, Save
<1>2. load' = [load EXCEPT ![l] = new]
  BY DEF Save
<1>3. new \in LoadRow /\ new.asked = load[l].asked /\ new.board = load[l].board
  BY <1>1 DEF LoadRow
<1>4. saved' \in Boards
  BY <1>1 DEF Save, LoadRow
<1>5. l \in Mover => move[l].at = "reloading"
  BY <1>1 DEF BoardInv, MoveSound
<1> HIDE DEF new
<1>6. app # "web" /\ offline' = offline /\ UNCHANGED <<vars, editVars, app, shown, move>>
  BY DEF Save
<1>7. Clean(new.board) /\ offline' \in BOOLEAN
  BY <1>3, <1>6 DEF BoardInv, BoardTyped
<1> QED BY <1>2, <1>3, <1>4, <1>5, <1>6, <1>7, LoadStep

\* A reload ends, and with it the move that waits for it: what is shown now is
\* answered, or the board is offline.
LEMMA EndStep ==
    ASSUME BoardInv, NEW l \in Loader, l \in Mover => move[l].at = "reloading",
           UNCHANGED <<vars, editVars, app, saved>>, app # "web",
           shown' \in Boards, offline' \in BOOLEAN, offline' \/ Clean(shown'),
           load' = [load EXCEPT ![l] = NoLoad], EndOfMove(l)
    PROVE  BoardInv'
<1>1. TypeOK'
  BY TypeStep DEF BoardInv
<1>2. BoardTyped'
  BY Beginnings DEF BoardInv, BoardTyped, EndOfMove, editVars, Boards, Entry, LoadRow, MoveRow
<1>3. \A k \in Loader : load'[k] = IF k = l THEN NoLoad ELSE load[k]
  BY DEF BoardInv, BoardTyped
<1>4. \A k \in Loader : Clean(load'[k].board)
  BY <1>3, Beginnings DEF BoardInv
<1>5. ASSUME NEW c \in Mover
      PROVE  MoveSound(c)'
  <2>1. request' = request /\ MoveSound(c) /\ c \in Loader
    BY MoversAreClients DEF vars, BoardInv
  <2>2. CASE c = l
    <3>1. move'[c] = NoMove /\ load'[c] = NoLoad /\ request'[c] = Idle
      BY <2>1, <2>2, <1>3 DEF EndOfMove, MoveSound
    <3> QED BY <3>1, Beginnings DEF MoveSound, Sound, Clean, Idle
  <2>3. CASE c # l
    <3>1. move'[c] = move[c] /\ load'[c] = load[c] /\ request'[c] = request[c]
      BY <2>1, <2>3, <1>3 DEF EndOfMove
    <3> QED BY <2>1, <3>1 DEF MoveSound, Sound, Clean, Idle
  <2> QED BY <2>2, <2>3
<1>6. \A k \in Loader : Clean(load[k].board)'
  BY <1>4 DEF Clean
<1>7. (~tangled => Settled)'
  <2>1. offline' \/ Clean(shown)'
    BY DEF Clean
  <2>2. \A c \in Mover : move'[c] = NoMove \/ move'[c] = move[c]
    BY DEF EndOfMove
  <2> QED BY <2>1, <2>2, Beginnings DEF BoardInv, Settled, Clean, editVars
<1> QED BY <1>1, <1>2, <1>5, <1>6, <1>7 DEF BoardInv, EditsOnPage, editVars

LEMMA ShowOnPhoneStep == ASSUME BoardInv, NEW l \in Loader, ShowOnPhone(l) PROVE BoardInv'
<1>1. load[l] \in LoadRow /\ load[l].at = "saved" /\ Clean(load[l].board)
  BY DEF BoardInv, BoardTyped, ShowOnPhone
<1>2. shown' \in Boards /\ Clean(shown')
  BY <1>1 DEF ShowOnPhone, LoadRow
<1>3. l \in Mover => move[l].at = "reloading"
  BY <1>1 DEF BoardInv, MoveSound
<1>4. app # "web" /\ offline' \in BOOLEAN
  BY DEF ShowOnPhone
<1> QED BY <1>2, <1>3, <1>4, EndStep DEF ShowOnPhone

LEMMA LoadFailsStep == ASSUME BoardInv, NEW l \in Loader, LoadFails(l) PROVE BoardInv'
<1>1. shown' \in Boards /\ offline' = TRUE /\ app # "web"
  BY DEF BoardInv, BoardTyped, LoadFails, OfflineNow
<1> QED BY <1>1, EndStep DEF LoadFails

LEMMA ShowOnPageStep == ASSUME BoardInv, NEW l \in Loader, ShowOnPage(l) PROVE BoardInv'
<1>1. load[l] \in LoadRow /\ load[l].at = "answered" /\ Clean(load[l].board)
  BY DEF BoardInv, BoardTyped, ShowOnPage
<1>2. /\ load' = [load EXCEPT ![l] = NoLoad] /\ saved' = load[l].board
      /\ shown' = shown \/ shown' = load[l].board
      /\ UNCHANGED <<vars, editVars, app, offline, move>> /\ app = "web"
  BY DEF ShowOnPage
<1>3. shown' \in Boards /\ saved' \in Boards
  BY <1>1, <1>2 DEF BoardInv, BoardTyped, LoadRow
<1>4. \A k \in Loader : load'[k] = IF k = l THEN NoLoad ELSE load[k]
  BY <1>2 DEF BoardInv, BoardTyped
<1>5. TypeOK' /\ BoardTyped'
  BY <1>2, <1>3, Beginnings, TypeStep DEF BoardInv, BoardTyped, editVars, Boards, Entry
<1>6. \A k \in Loader : Clean(load'[k].board)
  BY <1>4, Beginnings DEF BoardInv
<1>7. \A k \in Loader : Clean(load[k].board)'
  BY <1>6 DEF Clean
<1>8. ASSUME NEW c \in Mover
      PROVE  MoveSound(c)'
  <2>1. request' = request /\ move' = move /\ MoveSound(c)
    BY <1>2 DEF vars, BoardInv
  <2>2. load'[c].at # "none" => load[c].at # "none"
    BY <1>4, Beginnings, MoversAreClients
  <2> QED BY <2>1, <2>2 DEF MoveSound, Sound, Clean, Idle
<1>9. ~offline /\ ~load[Event].asked /\ ~load'[Event].asked /\ offline' = offline
  BY <1>2, <1>4, Beginnings, MoversAreClients DEF BoardInv
<1>10. (~tangled => Settled)'
  BY <1>1, <1>2, <1>9 DEF BoardInv, Settled, Underway, Clean, editVars
<1> QED BY <1>2, <1>5, <1>7, <1>8, <1>9, <1>10 DEF BoardInv, EditsOnPage, editVars

-----------------------------------------------------------------------------
(* Moves.                                                                  *)

\* A move goes on to its next step.
LEMMA MoveStep ==
    ASSUME BoardInv, NEW c \in Mover, NEW new \in MoveRow, Sound(new), TypeOK',
           move' = [move EXCEPT ![c] = new], UNCHANGED <<app, load, edit>>,
           tangled' \in BOOLEAN, tangled => tangled', ~tangled' => Clean(new.before),
           \A d \in Mover \ {c} : request'[d] = request[d],
           shown' \in Boards, saved' \in Boards, offline' \in BOOLEAN,
           app = "web" => ~offline',
           request'[c] # Idle => new.at \in {"served", "gone"},
           load[c].at # "none" => new.at = "reloading",
           /\ ~tangled' /\ new.at \in {"none", "gone", "recaching"}
           /\ \A d \in Mover \ {c} : ~Underway(d)
           => offline' \/ load[Event].asked \/ Clean(shown')
    PROVE  BoardInv'
<1>1. move' \in [Mover -> MoveRow] /\ move'[c] = new /\ \A d \in Mover \ {c} : move'[d] = move[d]
  BY DEF BoardInv, BoardTyped
<1>2. BoardTyped'
  BY <1>1 DEF BoardInv, BoardTyped, Boards, Entry, LoadRow, MoveRow
<1>3. ASSUME NEW d \in Mover
      PROVE  MoveSound(d)'
  <2>1. CASE d = c
    <3>1. move'[d] = new /\ load'[d] = load[c]
      BY <1>1, <2>1
    <3> QED BY <2>1, <3>1 DEF MoveSound, Sound, Clean, Idle
  <2>2. CASE d # c
    <3>1. move'[d] = move[d] /\ load'[d] = load[d] /\ request'[d] = request[d] /\ MoveSound(d)
      BY <1>1, <2>2 DEF BoardInv
    <3> QED BY <3>1 DEF MoveSound, Sound, Clean, Idle
  <2> QED BY <2>1, <2>2
<1>4. \A k \in Loader : Clean(load[k].board)'
  BY DEF BoardInv, Clean
<1>5. app' = "web" => ~offline' /\ ~load'[Event].asked
  BY DEF BoardInv
<1>6. (~tangled => Settled)'
  <2> SUFFICES ASSUME ~tangled'
               PROVE  Settled'
    OBVIOUS
  <2>1. \A d \in Mover : Clean(move[d].before)'
    BY <1>1 DEF BoardInv, Settled, Clean
  <2>2. \A e \in Editor : Clean(edit[e].board)'
    BY DEF BoardInv, Settled, Clean
  <2>3. (\A d \in Mover : ~Underway(d))' => offline' \/ load'[Event].asked \/ Clean(shown)'
    BY <1>1 DEF Underway, Clean
  <2> QED BY <2>1, <2>2, <2>3 DEF Settled
<1> QED BY <1>2, <1>3, <1>4, <1>5, <1>6 DEF BoardInv, EditsOnPage

\* A board that is settled and offers moves was answered by the server.
LEMMA SettledBoard ==
    ASSUME BoardInv, ~tangled, ~Unsettled, ~offline
    PROVE  Clean(shown)
BY DEF BoardInv, Settled, Unsettled, Clean

\* So a guess is made on such a board, or the history tells.
LEMMA BeginMoveStep ==
    ASSUME BoardInv, NEW c \in Mover, NEW t \in Task, NEW k \in Column, BeginMove(c, t, k)
    PROVE  BoardInv'
<1> DEFINE new == [NoMove EXCEPT !.at = IF app = "mobile" THEN "caching" ELSE "sent",
                                 !.task = t, !.column = k, !.before = shown]
<1>1. c \in Client /\ c \in Loader /\ MoveSound(c) /\ move[c] = NoMove /\ request[c] = Idle
      /\ shown \in Boards /\ shown[t] # NoTask
  BY MoversAreClients DEF BoardInv, BoardTyped, BeginMove
<1>2. ~offline /\ tangled' = (tangled \/ Unsettled)
  BY DEF BeginMove, BoardInv, BoardTyped
<1>3. tangled' \in BOOLEAN /\ (tangled => tangled') /\ (~tangled' => Clean(shown))
  BY <1>2, SettledBoard
<1>4. new \in MoveRow /\ Sound(new) /\ new.at \in {"caching", "sent"} /\ new.before = shown
  BY <1>1 DEF NoMove, MoveRow, Sound
<1>5. shown[t].copy \in Copy
  BY <1>1 DEF Boards, Entry
<1>6. TypeOK'
  BY <1>1, <1>5 DEF BoardInv, TypeOK, BeginMove
<1>7. shown' \in Boards
  BY <1>1, Guesses DEF BeginMove
<1>8. load[c].at = "none"
  BY <1>1, Beginnings DEF MoveSound, BoardInv, BoardTyped, LoadRow
<1>9. move' = [move EXCEPT ![c] = new] /\ UNCHANGED <<app, load, request, saved, offline, edit>>
  BY DEF BeginMove
<1> HIDE DEF new
<1>10. saved' \in Boards /\ offline' \in BOOLEAN /\ ~offline'
  BY <1>2, <1>9 DEF BoardInv, BoardTyped
<1> QED BY <1>1, <1>3, <1>4, <1>6, <1>7, <1>8, <1>9, <1>10, MoveStep

\* What a step of a move knows of it.
LEMMA MoveKnown ==
    ASSUME BoardInv, NEW c \in Mover
    PROVE  /\ move[c] \in MoveRow /\ Sound(move[c]) /\ c \in Client
           /\ move[c].at # "reloading" => load[c].at = "none"
           /\ move[c].at \notin {"served", "gone"} => request[c] = Idle
           /\ shown \in Boards /\ saved \in Boards /\ offline \in BOOLEAN
           /\ app = "web" => ~offline
           /\ tangled \in BOOLEAN /\ (~tangled => Clean(move[c].before))
BY MoversAreClients DEF BoardInv, BoardTyped, MoveSound, Settled

\* A step of a move that has begun keeps the board it goes back to.
LEMMA MoveGoesOn ==
    ASSUME BoardInv, NEW c \in Mover, NEW new \in MoveRow, Sound(new), TypeOK',
           move' = [move EXCEPT ![c] = new], UNCHANGED <<app, load, editVars>>,
           new.before \in {move[c].before, Blank},
           \A d \in Mover \ {c} : request'[d] = request[d],
           shown' \in Boards, saved' \in Boards, offline' \in BOOLEAN,
           app = "web" => ~offline',
           request'[c] # Idle => new.at \in {"served", "gone"},
           load[c].at # "none" => new.at = "reloading",
           /\ ~tangled /\ new.at \in {"none", "gone", "recaching"}
           /\ \A d \in Mover \ {c} : ~Underway(d)
           => offline' \/ load[Event].asked \/ Clean(shown')
    PROVE  BoardInv'
<1>1. edit' = edit /\ tangled' = tangled /\ tangled \in BOOLEAN
  BY MoveKnown DEF editVars
<1>2. ~tangled => Clean(new.before)
  BY MoveKnown, Beginnings
<1> QED BY <1>1, <1>2, MoveStep

\* The board with the guess of a move.
LEMMA GuessedBoards ==
    ASSUME BoardInv, NEW c \in Mover, move[c].at \in {"caching", "sent", "served", "answered"}
    PROVE  GuessedBoard(move[c]) \in Boards
<1>1. /\ move[c].before \in Boards /\ move[c].task \in Task /\ move[c].column \in Column
      /\ move[c].before[move[c].task] # NoTask
  BY MoveKnown DEF Sound, MoveRow
<1> QED BY <1>1, Guesses DEF GuessedBoard

LEMMA CacheStep == ASSUME BoardInv, NEW c \in Mover, Cache(c) PROVE BoardInv'
<1> DEFINE new == [move[c] EXCEPT !.at = "sent"]
<1>1. move[c].at = "caching" /\ move[c] \in MoveRow /\ Sound(move[c])
  BY MoveKnown DEF Cache
<1>2. new \in MoveRow /\ Sound(new) /\ new.at = "sent" /\ new.before = move[c].before
  BY <1>1 DEF MoveRow, Sound
<1>3. /\ move' = [move EXCEPT ![c] = new] /\ saved' = GuessedBoard(move[c])
      /\ UNCHANGED <<vars, editVars, app, shown, offline, load>>
  BY DEF Cache
<1> HIDE DEF new
<1>4. saved' \in Boards
  BY <1>1, <1>3, GuessedBoards
<1>5. TypeOK' /\ request' = request
  BY <1>3, TypeStep DEF BoardInv, vars
<1>6. request[c] = Idle /\ load[c].at = "none"
  BY <1>1, MoveKnown
<1>7. shown' \in Boards /\ offline' \in BOOLEAN /\ (app = "web" => ~offline')
  BY <1>3, MoveKnown
<1> QED BY <1>2, <1>3, <1>4, <1>5, <1>6, <1>7, MoveGoesOn

\* The server takes the move: its body is that of a move.
LEMMA ServeStep == ASSUME BoardInv, NEW c \in Mover, Serve(c) PROVE BoardInv'
<1> DEFINE new == [move[c] EXCEPT !.at = "served"]
           t == move[c].task
           body == [column |-> move[c].column]
           r == [phase |-> "loaded", kind |-> "move", task |-> t,
                 base |-> copies[c][t].version, body |-> body, loaded |-> tasks[t]]
<1>1. /\ move[c].at = "sent" /\ move[c] \in MoveRow /\ Sound(move[c]) /\ c \in Client
      /\ t \in Task /\ move[c].column \in Column
  BY MoveKnown DEF Serve, Sound
<1>2. new \in MoveRow /\ Sound(new) /\ new.at = "served" /\ new.before = move[c].before
  BY <1>1 DEF MoveRow, Sound
<1>3. /\ move' = [move EXCEPT ![c] = new] /\ UNCHANGED <<editVars, app, shown, saved, offline, load>>
      /\ request' = [request EXCEPT ![c] = r] /\ UNCHANGED <<tasks, copies, columns, resolved>>
      /\ copies[c][t] # NoTask /\ tasks[t] # NoTask
  BY DEF Serve, Begin
<1>4. tasks[t] \in Row /\ copies[c][t].version \in Nat /\ body \in MoveBody
  BY <1>1, <1>3 DEF BoardInv, TypeOK, Copy, MoveBody
<1>5. r \in Request /\ r.body \in BodyOf(r.kind) /\ r.task = t
  BY <1>1, <1>4 DEF Request, Kinds, BodyOf
<1> HIDE DEF new, r, body
<1>6. TypeOK'
  BY <1>1, <1>3, <1>5 DEF BoardInv, TypeOK
<1>7. \A d \in Mover \ {c} : request'[d] = request[d]
  BY <1>1, <1>3, MoversAreClients DEF BoardInv, TypeOK
<1>8. load[c].at = "none"
  BY <1>1, MoveKnown
<1>9. shown' \in Boards /\ saved' \in Boards /\ offline' \in BOOLEAN /\ (app = "web" => ~offline')
  BY <1>3, MoveKnown
<1> QED BY <1>2, <1>3, <1>6, <1>7, <1>8, <1>9, MoveGoesOn

\* A move is answered, or nobody waits for the answer any more.
LEMMA AnswerStep ==
    ASSUME BoardInv, NEW c \in Mover, NEW reply \in Replies, NEW entry \in Entry \cup {NoTask},
           entry # NoTask => ~entry.guessed, move[c].at \in {"sent", "served", "gone"},
           Answer(c, reply, entry), TypeOK', request'[c] = Idle,
           \A d \in Mover \ {c} : request'[d] = request[d]
    PROVE  BoardInv'
<1> DEFINE new == IF move[c].at = "gone" THEN NoMove
                  ELSE [move[c] EXCEPT !.at = "answered", !.reply = reply, !.entry = entry]
<1>1. move[c] \in MoveRow /\ Sound(move[c]) /\ load[c].at = "none"
  BY MoveKnown
<1>2. CASE move[c].at = "gone"
  <2>1. new = NoMove
    BY <1>2
  <2>2. new \in MoveRow /\ Sound(new) /\ new.at = "none" /\ new.before = Blank
    BY <2>1, Beginnings
  <2>3. move' = [move EXCEPT ![c] = new] /\ UNCHANGED <<editVars, app, shown, saved, offline, load>>
    BY DEF Answer
  <2> HIDE DEF new
  <2>4. shown' \in Boards /\ saved' \in Boards /\ offline' \in BOOLEAN /\ (app = "web" => ~offline')
    BY <2>3, MoveKnown
  <2>5. ~tangled /\ (\A d \in Mover \ {c} : ~Underway(d))
           => offline' \/ load[Event].asked \/ Clean(shown')
    BY <1>2, <2>3 DEF BoardInv, Settled, Underway
  <2> QED BY <1>1, <2>2, <2>3, <2>4, <2>5, MoveGoesOn
<1>3. CASE move[c].at # "gone"
  <2>1. new \in MoveRow /\ Sound(new) /\ new.at = "answered" /\ new.before = move[c].before
    BY <1>1, <1>3 DEF MoveRow, Sound
  <2>2. move' = [move EXCEPT ![c] = new] /\ UNCHANGED <<editVars, app, shown, saved, offline, load>>
    BY DEF Answer
  <2> HIDE DEF new
  <2>3. shown' \in Boards /\ saved' \in Boards /\ offline' \in BOOLEAN /\ (app = "web" => ~offline')
    BY <2>2, MoveKnown
  <2> QED BY <1>1, <2>1, <2>2, <2>3, MoveGoesOn
<1> QED BY <1>2, <1>3

LEMMA AnswersStep == ASSUME BoardInv, NEW c \in Mover, Answers(c) PROVE BoardInv'
<1>1. request[c] # Idle /\ request' = [request EXCEPT ![c] = Idle] /\ c \in Client
  BY MoversAreClients DEF Answers, Respond, Conflict, Fail, Idle
<1>2. request'[c] = Idle /\ \A d \in Mover \ {c} : request'[d] = request[d]
  BY <1>1, MoversAreClients DEF BoardInv, TypeOK
<1>3. move[c].at \in {"served", "gone"}
  BY <1>1 DEF BoardInv, MoveSound
<1>4. TypeOK'
  BY <1>1, TypeStep DEF BoardInv, Answers, Next
<1>5. tasks[request[c].task] \in Row
  BY <1>1 DEF BoardInv, TypeOK, Request
<1>6. CASE /\ Respond(c)
           /\ Answer(c, "updated", IF app = "web" THEN Answered(tasks[request[c].task]) ELSE NoTask)
  <2> DEFINE entry == IF app = "web" THEN Answered(tasks[request[c].task]) ELSE NoTask
  <2>1. entry \in Entry \cup {NoTask} /\ (entry # NoTask => ~entry.guessed)
    BY <1>5, Answereds
  <2>2. Answer(c, "updated", entry)
    BY <1>6
  <2> HIDE DEF entry
  <2> QED BY <1>2, <1>3, <1>4, <2>1, <2>2, AnswerStep DEF Replies
<1>7. CASE \E reply \in Replies : Answer(c, reply, NoTask)
  BY <1>2, <1>3, <1>4, <1>7, AnswerStep
<1> QED BY <1>6, <1>7 DEF Answers, Replies

LEMMA UnservedStep == ASSUME BoardInv, NEW c \in Mover, Unserved(c) PROVE BoardInv'
<1>1. PICK reply \in Replies : Answer(c, reply, NoTask)
  BY DEF Unserved, Replies
<1>2. move[c].at = "sent" /\ request' = request /\ request[c] = Idle
  BY MoveKnown DEF Unserved, vars
<1>3. TypeOK'
  BY TypeStep DEF BoardInv, Unserved
<1> QED BY <1>1, <1>2, <1>3, AnswerStep

LEMMA SettleOnPageStep == ASSUME BoardInv, NEW c \in Mover, SettleOnPage(c) PROVE BoardInv'
<1> DEFINE m == move[c]
<1>1. /\ m.at = "answered" /\ m \in MoveRow /\ Sound(m) /\ request[c] = Idle
      /\ load[c].at = "none" /\ app = "web"
  BY MoveKnown DEF SettleOnPage
<1>2. m.before \in Boards /\ m.task \in Task /\ m.entry \in Entry \cup {NoTask}
      /\ (m.entry # NoTask => ~m.entry.guessed) /\ (~tangled => Clean(m.before))
  BY <1>1, MoveKnown DEF MoveRow, Sound
<1>3. /\ move' = [move EXCEPT ![c] = NoMove] /\ UNCHANGED <<vars, editVars, app, saved, offline, load>>
      /\ shown' = m.before \/ shown' = [m.before EXCEPT ![m.task] = m.entry]
  BY DEF SettleOnPage, BoardBefore
<1>4. shown' \in Boards /\ (~tangled => Clean(shown'))
  BY <1>2, <1>3 DEF Boards, Clean
<1>5. TypeOK' /\ request' = request
  BY <1>3, TypeStep DEF BoardInv, vars
<1>6. saved' \in Boards /\ offline' \in BOOLEAN /\ (app = "web" => ~offline')
  BY <1>3, MoveKnown
<1> QED BY <1>1, <1>3, <1>4, <1>5, <1>6, Beginnings, MoveGoesOn

LEMMA SettleOnPhoneStep == ASSUME BoardInv, NEW c \in Mover, SettleOnPhone(c) PROVE BoardInv'
<1> DEFINE m == move[c]
<1>1. /\ m.at = "answered" /\ m \in MoveRow /\ Sound(m) /\ request[c] = Idle
      /\ load[c].at = "none" /\ app # "web"
  BY MoveKnown DEF SettleOnPhone
<1>2. m.before \in Boards /\ (~tangled => Clean(m.before))
  BY <1>1, MoveKnown DEF MoveRow, Sound
<1>3. UNCHANGED <<vars, editVars, app, saved, load>>
  BY DEF SettleOnPhone
<1>4. TypeOK' /\ request' = request /\ saved' \in Boards
  BY <1>3, TypeStep, MoveKnown DEF BoardInv, vars
<1>5. \/ /\ shown' = GuessedBoard(m) /\ offline' = TRUE
         /\ move' = [move EXCEPT ![c] = NoMove]
      \/ /\ shown' = m.before /\ offline' = FALSE
         /\ move' = [move EXCEPT ![c] = [NoMove EXCEPT !.at = "recaching", !.before = m.before]]
      \/ /\ move' = [move EXCEPT ![c] = [NoMove EXCEPT !.at = "reloading"]]
         /\ UNCHANGED <<shown, offline>>
  <2>1. m.reply \in {"conflict", "lost"} \/ m.reply = "refused" \/ m.reply = "updated"
    BY <1>1 DEF Sound, Replies
  <2> QED BY <2>1 DEF SettleOnPhone, BoardBefore
<1>6. CASE /\ shown' = GuessedBoard(m) /\ offline' = TRUE
           /\ move' = [move EXCEPT ![c] = NoMove]
  <2>1. shown' \in Boards
    BY <1>1, <1>6, GuessedBoards
  <2> QED BY <1>1, <1>3, <1>4, <1>6, <2>1, Beginnings, MoveGoesOn
<1>7. CASE /\ shown' = m.before /\ offline' = FALSE
           /\ move' = [move EXCEPT ![c] = [NoMove EXCEPT !.at = "recaching", !.before = m.before]]
  <2> DEFINE new == [NoMove EXCEPT !.at = "recaching", !.before = m.before]
  <2>1. new \in MoveRow /\ Sound(new) /\ new.at = "recaching" /\ new.before = m.before
    BY <1>2 DEF NoMove, MoveRow, Sound
  <2>2. move' = [move EXCEPT ![c] = new]
    BY <1>7
  <2>3. shown' \in Boards /\ (~tangled => Clean(shown'))
    BY <1>2, <1>7
  <2> HIDE DEF new
  <2> QED BY <1>1, <1>3, <1>4, <1>7, <2>1, <2>2, <2>3, MoveGoesOn
<1>8. CASE /\ move' = [move EXCEPT ![c] = [NoMove EXCEPT !.at = "reloading"]]
           /\ UNCHANGED <<shown, offline>>
  <2> DEFINE new == [NoMove EXCEPT !.at = "reloading"]
  <2>1. new \in MoveRow /\ Sound(new) /\ new.at = "reloading" /\ new.before = Blank
    BY Beginnings DEF NoMove, MoveRow, Sound
  <2>2. move' = [move EXCEPT ![c] = new]
    BY <1>8
  <2>3. shown' \in Boards /\ offline' \in BOOLEAN
    BY <1>8, MoveKnown
  <2> HIDE DEF new
  <2> QED BY <1>1, <1>3, <1>4, <2>1, <2>2, <2>3, MoveGoesOn
<1> QED BY <1>5, <1>6, <1>7, <1>8

LEMMA RecacheStep == ASSUME BoardInv, NEW c \in Mover, Recache(c) PROVE BoardInv'
<1>1. move[c].at = "recaching" /\ move[c] \in MoveRow /\ request[c] = Idle /\ load[c].at = "none"
  BY MoveKnown DEF Recache
<1>2. /\ move' = [move EXCEPT ![c] = NoMove] /\ saved' = move[c].before
      /\ UNCHANGED <<vars, editVars, app, shown, offline, load>>
  BY DEF Recache
<1>3. saved' \in Boards
  BY <1>1, <1>2 DEF MoveRow
<1>4. TypeOK' /\ request' = request
  BY <1>2, TypeStep DEF BoardInv, vars
<1>5. shown' \in Boards /\ offline' \in BOOLEAN /\ (app = "web" => ~offline')
  BY <1>2, MoveKnown
<1>6. ~tangled /\ (\A d \in Mover \ {c} : ~Underway(d))
         => offline' \/ load[Event].asked \/ Clean(shown')
  BY <1>1, <1>2 DEF BoardInv, Settled, Underway
<1> QED BY <1>1, <1>2, <1>3, <1>4, <1>5, <1>6, Beginnings, MoveGoesOn

LEMMA RestartStep == ASSUME BoardInv, Restart PROVE BoardInv'
<1>1. /\ shown' = Blank /\ offline' = FALSE /\ saved' \in {Blank, saved}
      /\ load' = [l \in Loader |-> NoLoad] /\ UNCHANGED <<vars, app>>
      /\ move' = [c \in Mover |-> IF request[c] = Idle THEN NoMove
                                  ELSE [NoMove EXCEPT !.at = "gone"]]
      /\ edit' = [e \in Editor |-> NoEdit] /\ tangled' = FALSE
  BY DEF Restart
<1>2. TypeOK' /\ request' = request
  BY <1>1, TypeStep DEF BoardInv, vars
<1>3. [NoMove EXCEPT !.at = "gone"] \in MoveRow /\ Sound([NoMove EXCEPT !.at = "gone"])
      /\ [NoMove EXCEPT !.at = "gone"].before = Blank
  BY Beginnings DEF NoMove, MoveRow, Sound
<1>4. \A c \in Mover : /\ move'[c] \in MoveRow /\ Sound(move'[c]) /\ move'[c].before = Blank
                       /\ request[c] # Idle => move'[c].at = "gone"
  BY <1>1, <1>3, Beginnings DEF MoveRow
<1>5. \A l \in Loader : load'[l] = NoLoad
  BY <1>1
<1>6. /\ app' \in {"mobile", "web"} /\ shown' \in Boards /\ saved' \in Boards
      /\ offline' \in BOOLEAN /\ load' \in [Loader -> LoadRow]
  BY <1>1, Beginnings DEF BoardInv, BoardTyped
<1>7. move' \in [Mover -> MoveRow]
  BY <1>1, <1>4
<1>8. BoardTyped'
  BY <1>1, <1>6, <1>7, Beginnings DEF BoardTyped, Boards, Entry, LoadRow, MoveRow
<1>9. \A c \in Mover : MoveSound(c)'
  BY <1>2, <1>4, <1>5, MoversAreClients, Beginnings DEF MoveSound, Sound, Clean, Idle
<1>10. (\A l \in Loader : Clean(load[l].board))' /\ Clean(shown)'
  BY <1>1, <1>5, Beginnings DEF Clean
<1>11. ~offline' /\ ~load'[Event].asked
  BY <1>1, <1>5, MoversAreClients, Beginnings
<1>12. EditsOnPage'
  BY <1>1, Beginnings DEF EditsOnPage
<1>13. Settled'
  BY <1>1, <1>4, <1>10, Beginnings DEF Settled, Clean
<1> QED BY <1>2, <1>8, <1>9, <1>10, <1>11, <1>12, <1>13 DEF BoardInv

-----------------------------------------------------------------------------
(* Edits.                                                                  *)

\* An edit goes on to its next step: it is going to show new.board.
LEMMA EditStep ==
    ASSUME BoardInv, app = "web", NEW e \in Editor,
           NEW new \in [at: {"none", "asked", "answered"}, board: Boards],
           edit' = [edit EXCEPT ![e] = new], UNCHANGED <<vars, app, saved, offline, load, move>>,
           shown' \in Boards, tangled' \in BOOLEAN, tangled => tangled',
           ~tangled' => /\ Clean(new.board)
                        /\ shown' = shown \/ Clean(shown')
    PROVE  BoardInv'
<1>1. TypeOK'
  BY TypeStep DEF BoardInv
<1>2. BoardTyped'
  BY DEF BoardInv, BoardTyped, Boards, Entry, LoadRow, MoveRow
<1>3. \A c \in Mover : MoveSound(c)'
  BY DEF BoardInv, MoveSound, Sound, Idle, vars
<1>4. (~tangled => Settled)'
  <2> SUFFICES ASSUME ~tangled'
               PROVE  Settled'
    OBVIOUS
  <2>1. \A d \in Editor : Clean(edit'[d].board)
    BY DEF BoardInv, BoardTyped, Settled
  <2>2. (\A c \in Mover : ~Underway(c))' => offline' \/ load'[Event].asked \/ Clean(shown')
    BY DEF BoardInv, Settled, Underway
  <2> QED BY <2>1, <2>2 DEF BoardInv, Settled, Clean
<1> QED BY <1>1, <1>2, <1>3, <1>4 DEF BoardInv, EditsOnPage, Clean

LEMMA BeginEditStep == ASSUME BoardInv, NEW e \in Editor, BeginEdit(e) PROVE BoardInv'
<1>1. app = "web" /\ ~offline /\ shown \in Boards /\ tangled' = (tangled \/ Unsettled)
  BY DEF BoardInv, BoardTyped, BeginEdit
<1>2. tangled' \in BOOLEAN /\ (tangled => tangled') /\ (~tangled' => Clean(shown))
  BY <1>1, SettledBoard
<1> QED BY <1>1, <1>2, EditStep DEF BeginEdit

LEMMA AnswerEditStep == ASSUME BoardInv, NEW e \in Editor, AnswerEdit(e) PROVE BoardInv'
<1>1. PICK board \in Edited(edit[e].board) :
        edit' = [edit EXCEPT ![e] = [at |-> "answered", board |-> board]]
  BY DEF AnswerEdit
<1>2. app = "web" /\ edit[e].board \in Boards /\ (~tangled => Clean(edit[e].board))
  BY DEF BoardInv, BoardTyped, EditsOnPage, Settled, AnswerEdit
<1>3. \A t \in Task : tasks[t] # NoTask => /\ Answered(tasks[t]) \in Entry
                                           /\ ~Answered(tasks[t]).guessed
  BY Answereds DEF BoardInv, TypeOK
<1>4. board \in Boards /\ (~tangled => Clean(board))
  BY <1>2, <1>3 DEF Edited, Boards, Clean
<1>5. shown' \in Boards /\ tangled' \in BOOLEAN
  BY DEF AnswerEdit, BoardInv, BoardTyped
<1> QED BY <1>1, <1>2, <1>4, <1>5, EditStep DEF AnswerEdit

LEMMA ShowEditStep == ASSUME BoardInv, NEW e \in Editor, ShowEdit(e) PROVE BoardInv'
<1>1. app = "web" /\ edit[e].board \in Boards /\ (~tangled => Clean(edit[e].board))
  BY DEF BoardInv, BoardTyped, EditsOnPage, Settled, ShowEdit
<1>2. tangled' = tangled /\ tangled \in BOOLEAN
  BY DEF ShowEdit, BoardInv, BoardTyped
<1>3. /\ edit' = [edit EXCEPT ![e] = NoEdit] /\ shown' = edit[e].board
      /\ UNCHANGED <<vars, app, saved, offline, load, move>>
  BY DEF ShowEdit
<1>4. Clean(NoEdit.board)
  BY Beginnings
<1> QED BY <1>1, <1>2, <1>3, <1>4, Beginnings, EditStep

LEMMA FailEditStep == ASSUME BoardInv, NEW e \in Editor, FailEdit(e) PROVE BoardInv'
<1>1. app = "web" /\ shown \in Boards /\ tangled' = tangled /\ tangled \in BOOLEAN
  BY DEF BoardInv, BoardTyped, EditsOnPage, FailEdit
<1>2. /\ edit' = [edit EXCEPT ![e] = NoEdit]
      /\ UNCHANGED <<vars, app, shown, saved, offline, load, move>>
  BY DEF FailEdit
<1>3. Clean(NoEdit.board)
  BY Beginnings
<1> QED BY <1>1, <1>2, <1>3, Beginnings, EditStep

-----------------------------------------------------------------------------
\* Every step of the board keeps it honest.
LEMMA BoardStep == ASSUME BoardInv, [BoardNext]_allVars PROVE BoardInv'
<1>1. CASE UNCHANGED allVars
  <2>1. TypeOK'
    BY <1>1, TypeStep DEF BoardInv, allVars
  <2> QED BY <1>1, <2>1, RequestsStep DEF allVars, vars
<1>2. CASE BoardNext
  <2>1. CASE Collaborate
    BY <2>1, CollaborateStep
  <2>2. CASE \E l \in Loader : Fetch(l) \/ Save(l) \/ ShowOnPhone(l) \/ ShowOnPage(l) \/ LoadFails(l)
    BY <2>2, FetchStep, SaveStep, ShowOnPhoneStep, ShowOnPageStep, LoadFailsStep
  <2>3. ASSUME NEW c \in Mover,
               \/ \E t \in Task, k \in Column : BeginMove(c, t, k)
               \/ Cache(c) \/ Serve(c) \/ Answers(c) \/ Unserved(c)
               \/ CommitMove(c) /\ UNCHANGED boardVars
               \/ SettleOnPage(c) \/ SettleOnPhone(c) \/ Recache(c)
        PROVE  BoardInv'
    <3>1. CASE \E t \in Task, k \in Column : BeginMove(c, t, k)
      BY <3>1, BeginMoveStep
    <3>2. CASE CommitMove(c) /\ UNCHANGED boardVars
      BY <3>2, CommitMoveStep
    <3>3. CASE Cache(c) \/ Serve(c) \/ Answers(c) \/ Unserved(c)
      BY <3>3, CacheStep, ServeStep, AnswersStep, UnservedStep
    <3>4. CASE SettleOnPage(c) \/ SettleOnPhone(c) \/ Recache(c)
      BY <3>4, SettleOnPageStep, SettleOnPhoneStep, RecacheStep
    <3> QED BY <2>3, <3>1, <3>2, <3>3, <3>4
  <2>4. CASE Refresh \/ Restart
    BY <2>4, RefreshStep, RestartStep
  <2>5. ASSUME NEW e \in Editor, BeginEdit(e) \/ AnswerEdit(e) \/ ShowEdit(e) \/ FailEdit(e)
        PROVE  BoardInv'
    BY <2>5, BeginEditStep, AnswerEditStep, ShowEditStep, FailEditStep
  <2> QED BY <1>2, <2>1, <2>2, <2>3, <2>4, <2>5 DEF BoardNext
<1> QED BY <1>1, <1>2

\* Whatever moves, edits, reloads, failures and restarts overlap: a board sends
\* only versions the server has answered with, and shows no guess as an answer
\* once no move is under way, unless a move or an edit was begun while the
\* guess of another move, or a reload the user asked for, was on its way, and
\* the app or page was not opened anew since (moveTask of
\* board_controller.dart, moved and the other writers of kanban-board.tsx).
THEOREM BoardStaysHonest == BoardSpec => []BoardHonest
<1>1. BoardInit => BoardInv
  BY BoardStarts
<1>2. BoardInv /\ [BoardNext]_allVars => BoardInv'
  BY BoardStep
<1>3. BoardInv => BoardHonest
  BY BoardHolds
<1> QED BY <1>1, <1>2, <1>3, PTL DEF BoardSpec
=============================================================================
