----------------------------- MODULE TaskItems ------------------------------
(***************************************************************************)
(* The subtasks and the checklist of one task, the conversion of a subtask *)
(* into a task, and the numbers of the tasks of its project                *)
(* (backend/app/api/routes/tasks.py, task_collaboration.py).               *)
(*                                                                         *)
(* A request loads its rows (Begin), may lock the project (Lock), writes   *)
(* by id or by id and version (the commits), and reads the row again for   *)
(* its answer (Respond).  A DELETE of a row that is gone changes nothing.  *)
(***************************************************************************)
EXTENDS Naturals, FiniteSets

CONSTANTS
    Item,           \* the rows there may be
    Client,         \* clients; each waits for the answer to its one request
    Title,          \* values of the plain fields of an item
    NoItem,         \* no row, no copy of one
    MaxVersion,     \* bound: versions of an item
    MaxNumber       \* bound: tasks of the project

ASSUME BoundAssumption == MaxVersion \in Nat \ {0} /\ MaxNumber \in Nat

VARIABLES
    entries,    \* the items that are of the checklist; the others are subtasks
    items,      \* items[i]: the row of i, or NoItem
    removed,    \* the items that were deleted or converted
    checklist,  \* "here" or "gone"
    counter,    \* task_counter of the project
    made,       \* made[n]: the task of number n: the subtask it was, "new", or NoItem
    copies,     \* copies[c][i]: what client c last saw of i
    request,    \* request[c]: the request of c, between two of its steps
    raced       \* history: subtasks whose conversion overlapped another write

vars == <<entries, items, removed, checklist, counter, made, copies, request, raced>>

Contract == INSTANCE ItemContract
Row == Contract!Row

ASSUME NoItemAssumption == NoItem \notin Row \cup Item \cup {"new"} /\ "new" \notin Item

Subtask == Item \ entries
Numbers == 1..MaxNumber
Kinds == {"create", "patch", "delete", "delete_list", "convert", "add_task"}
Idle == [at |-> "idle", kind |-> "none", item |-> NoItem, title |-> NoItem,
         seen |-> NoItem, counter |-> 0]
Options(S) == S \cup {NoItem}

(* The type of the state; what was removed is not there. *)
TypeOK ==
    /\ entries \in SUBSET Item
    /\ items \in [Item -> Options(Row)]
    /\ \A i \in Item : items[i] # NoItem => items[i].version <= MaxVersion
    /\ removed \in SUBSET {i \in Item : items[i] = NoItem}
    /\ checklist \in {"here", "gone"}
    /\ counter \in 0..MaxNumber
    /\ made \in [Numbers -> Options(Subtask \cup {"new"})]
    /\ copies \in [Client -> [Item -> Options(Row)]]
    /\ request \in [Client -> [at: {"idle", "loaded", "locked", "answer"},
                               kind: Kinds \cup {"none"}, item: Options(Item),
                               title: Options(Title), seen: Options(Row),
                               counter: 0..MaxNumber]]
    /\ raced \in SUBSET Subtask

Init == /\ entries \in SUBSET Item
        /\ items = [i \in Item |-> NoItem]
        /\ removed = {}
        /\ checklist = "here"
        /\ counter = 0
        /\ made = [n \in Numbers |-> NoItem]
        /\ copies = [c \in Client |-> [i \in Item |-> NoItem]]
        /\ request = [c \in Client |-> Idle]
        /\ raced = {}

-----------------------------------------------------------------------------
(* The first step: _task_access, the checklist, the row.                   *)

\* Requests that write the subtask i, one of them to convert it.
Races(kind, i) == {c \in Client : /\ request[c].item = i /\ request[c].at # "idle"
                                  /\ "convert" \in {kind, request[c].kind}}

Begin(c, kind, i, title, seen) ==
    /\ request[c] = Idle
    /\ request' = [request EXCEPT ![c] = [Idle EXCEPT
         !.at = "loaded", !.kind = kind, !.item = i, !.title = title, !.seen = seen]]
    /\ raced' = IF i # NoItem /\ Races(kind, i) # {} THEN raced \cup {i} ELSE raced
    /\ UNCHANGED <<entries, items, removed, checklist, counter, made, copies>>

\* _checklist_access.
Listed(i) == i \in Subtask \/ checklist = "here"

\* Bound: one item of an identity.
BeginCreate(c, i, title) ==
    /\ items[i] = NoItem /\ i \notin removed /\ Listed(i)
    /\ \A d \in Client : request[d].item # i
    /\ Begin(c, "create", i, title, NoItem)

\* A patch names the version the client last saw.
BeginPatch(c, i, title) ==
    /\ items[i] # NoItem /\ copies[c][i] # NoItem /\ Listed(i)
    /\ copies[c][i].version < MaxVersion
    /\ Begin(c, "patch", i, title, copies[c][i])

\* The row that the request loads.
Loaded(c, i) == items[i]

BeginDelete(c, i) == /\ items[i] # NoItem /\ Listed(i)
                     /\ Begin(c, "delete", i, NoItem, Loaded(c, i))

BeginDeleteList(c) == checklist = "here" /\ Begin(c, "delete_list", NoItem, NoItem, NoItem)

BeginConvert(c, i) == /\ items[i] # NoItem /\ i \in Subtask
                      /\ Begin(c, "convert", i, NoItem, Loaded(c, i))

\* create_task and duplicate_task, for their numbers.
BeginTask(c) == Begin(c, "add_task", NoItem, NoItem, NoItem)

-----------------------------------------------------------------------------
(* The lock of the project.                                                *)

Is(c, at, kinds) == request[c].at = at /\ request[c].kind \in kinds

\* Fault: the project is read without FOR UPDATE.
LockedNever == FALSE

\* A request in progress holds the project.
Locked == \E c \in Client : request[c].at = "locked"

\* SELECT ... FOR UPDATE; the project that require_project read was dropped, so
\* the counter is the one of the locked row.
Lock(c) == /\ Is(c, "loaded", {"convert", "add_task"}) /\ ~Locked
           /\ request' = [request EXCEPT ![c].at = "locked", ![c].counter = counter]
           /\ UNCHANGED <<entries, items, removed, checklist, counter, made, copies, raced>>

-----------------------------------------------------------------------------
(* Commits.                                                                *)

Done(c) == request' = [request EXCEPT ![c] = Idle]
Answer(c) == request' = [request EXCEPT ![c].at = "answer"]

\* The row that is inserted refers to its checklist.
CommitCreate(c) ==
    /\ Is(c, "loaded", {"create"}) /\ Listed(request[c].item)
    /\ items' = [items EXCEPT ![request[c].item] = Contract!NewItem(request[c].title)]
    /\ Answer(c) /\ UNCHANGED <<entries, removed, checklist, counter, made, copies, raced>>

\* Fault: the UPDATE does not look at the version.
CurrentId(i, version) == items[i] # NoItem

\* The WHERE of the UPDATE.
Current(i, version) == items[i] # NoItem /\ items[i].version = version

CommitPatch(c) ==
    LET i == request[c].item
        version == request[c].seen.version
    IN  /\ Is(c, "loaded", {"patch"}) /\ Current(i, version)
        /\ items' = [items EXCEPT ![i] = [version |-> version + 1, title |-> request[c].title]]
        /\ Answer(c) /\ UNCHANGED <<entries, removed, checklist, counter, made, copies, raced>>

\* 409: the row has another version, or is gone.
Conflict(c) == /\ Is(c, "loaded", {"patch"})
               /\ ~Current(request[c].item, request[c].seen.version)
               /\ Done(c)
               /\ UNCHANGED <<entries, items, removed, checklist, counter, made, copies, raced>>

\* DELETE by id.
Drop(I) == /\ items' = [i \in Item |-> IF i \in I THEN NoItem ELSE items[i]]
           /\ removed' = removed \cup I

CommitDelete(c) == /\ Is(c, "loaded", {"delete"})
                   /\ Drop({request[c].item})
                   /\ Done(c) /\ UNCHANGED <<entries, checklist, counter, made, copies, raced>>

\* The rows of the items go with the checklist.
CommitDeleteList(c) ==
    /\ Is(c, "loaded", {"delete_list"})
    /\ checklist' = "gone"
    /\ Drop({i \in Item \ Subtask : items[i] # NoItem})
    /\ Done(c) /\ UNCHANGED <<entries, counter, made, copies, raced>>

\* The unique index on numbers: a number that is taken ends in Fail.
Number(c, task) == LET n == request[c].counter + 1
                   IN  /\ n \in Numbers /\ made[n] = NoItem
                       /\ counter' = n
                       /\ made' = [made EXCEPT ![n] = task]

CommitTask(c) == /\ Is(c, "locked", {"add_task"})
                 /\ Number(c, "new")
                 /\ Done(c) /\ UNCHANGED <<entries, items, removed, checklist, copies, raced>>

\* Fault: the subtask stays.
ConvertedNone(c) == {}

\* What convert_subtask deletes.
Converted(c) == {request[c].item}

CommitConvert(c) == /\ Is(c, "locked", {"convert"})
                    /\ Number(c, request[c].item)
                    /\ Drop(Converted(c))
                    /\ Done(c) /\ UNCHANGED <<entries, checklist, copies, raced>>

\* db.refresh reads the row again, and the client gets it.
Respond(c) ==
    LET i == request[c].item
    IN  /\ request[c].at = "answer" /\ items[i] # NoItem
        /\ copies' = [copies EXCEPT ![c][i] = items[i]]
        /\ Done(c) /\ UNCHANGED <<entries, items, removed, checklist, counter, made, raced>>

\* An error return, a refused write, a crash or a lost answer.
Fail(c) == /\ request[c] # Idle /\ Done(c)
           /\ UNCHANGED <<entries, items, removed, checklist, counter, made, copies, raced>>

\* list_subtasks and list_checklist_items.
Read(c, i) == /\ items[i] # NoItem /\ copies[c][i] # items[i]
              /\ copies' = [copies EXCEPT ![c][i] = items[i]]
              /\ UNCHANGED <<entries, items, removed, checklist, counter, made, request, raced>>

Next == \E c \in Client :
          \/ \E i \in Item : Read(c, i) \/ BeginDelete(c, i) \/ BeginConvert(c, i)
          \/ \E i \in Item, title \in Title : BeginCreate(c, i, title) \/ BeginPatch(c, i, title)
          \/ BeginTask(c) \/ BeginDeleteList(c) \/ Lock(c)
          \/ CommitCreate(c) \/ CommitPatch(c) \/ Conflict(c) \/ CommitDelete(c)
          \/ CommitDeleteList(c) \/ CommitTask(c) \/ CommitConvert(c)
          \/ Respond(c) \/ Fail(c)

Spec == Init /\ [][Next]_vars

-----------------------------------------------------------------------------
(* What the code promises.                                                 *)

(* Subtasks and checklist items implement ItemContract: however requests   *)
(* overlap, a patch replaces a row only if its client saw that very row,   *)
(* and a row that was removed stays away (patch_subtask,                   *)
(* patch_checklist_item).                                                  *)
ImplementsContract == Contract!Spec

(* A subtask that was converted is gone; and unless its conversion         *)
(* overlapped another write of it, there is one task for it                *)
(* (convert_subtask deletes a row that it did not lock).                   *)
ConversionMoves ==
    \A n \in Numbers : made[n] \in Subtask =>
        /\ items[made[n]] = NoItem
        /\ made[n] \notin raced => \A m \in Numbers \ {n} : made[m] # made[n]

(* A request that converts has the subtask as it is, unless another        *)
(* request that writes it overlaps.                                        *)
ConvertsCurrent ==
    \A c \in Client : Is(c, "locked", {"convert"}) /\ request[c].item \notin raced =>
        request[c].seen = items[request[c].item]

(* Who holds the project gives the next number: the counter it read is the *)
(* counter, every number up to it is used and none above it, so that the   *)
(* unique index never refuses a task.                                      *)
NumbersFollow ==
    /\ \A n \in Numbers : made[n] # NoItem <=> n <= counter
    /\ \A c \in Client : request[c].at = "locked" => request[c].counter = counter

(* Subtasks, checklist and numbers are consistent: the three above, and    *)
(* the type.                                                               *)
ItemsConsistent == TypeOK /\ ConversionMoves /\ ConvertsCurrent /\ NumbersFollow
=============================================================================
