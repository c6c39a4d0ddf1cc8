---------------------------- MODULE BoardClients ----------------------------
(***************************************************************************)
(* The board of a client against the task requests of Tasks: the mobile    *)
(* one (board_controller.dart) and the one of the browser                  *)
(* (kanban-board.tsx, app/page.tsx).                                       *)
(*                                                                         *)
(* A move is shown before it is sent: the task is put in its new column    *)
(* under a version the client guesses, one above the one it sends.  An     *)
(* answer, a refusal or a reload then replaces what is shown, in any       *)
(* order; the phone also stores the board and shows it when it is offline. *)
(* On the page, edits of tasks and columns also put back the board they    *)
(* began with.  The other clients of Tasks are collaborators; they also    *)
(* stand for the requests of the edits.                                    *)
(***************************************************************************)
EXTENDS Tasks

CONSTANTS
    Mover,      \* clients of Tasks that stand for the moves of the one board
    Editor,     \* the other writers of the page's board at one time
    Event,      \* the reload that a realtime event or the user starts
    App         \* which boards are looked at

ASSUME MoverAssumption == Mover \subseteq Client /\ Event \notin Client
ASSUME AppAssumption == App \subseteq {"mobile", "web"}

VARIABLES
    app,        \* "mobile" or "web"
    shown,      \* shown[t]: the task on the board, or NoTask
    saved,      \* the board SharedPreferences (or the query cache) has
    offline,    \* BoardState.offline: the phone offers no moves
    load,       \* load[l]: a reload, between two of its steps
    move,       \* move[c]: a move, between two of its steps
    edit,       \* edit[e]: an edit, and the board it is going to show
    tangled     \* history: a move or an edit began on what was not settled

editVars == <<edit, tangled>>
boardVars == <<app, shown, saved, offline, load, move, editVars>>
allVars == <<vars, boardVars>>

\* guessed is history: the entry was made up and not answered by the server.
Entry == [copy: Copy, guessed: BOOLEAN]
Boards == [Task -> Entry \cup {NoTask}]
Blank == [t \in Task |-> NoTask]

Answered(row) == [copy |-> TaskOut(row), guessed |-> FALSE]

Guess(entry, k) ==
    [copy |-> [entry.copy EXCEPT !.column = k, !.version = @ + 1], guessed |-> TRUE]

Loader == Mover \cup {Event}
NoLoad == [at |-> "none", asked |-> FALSE, board |-> Blank]

\* before is the board a refused move goes back to; the version that is sent
\* is the one it has for the task.
NoMove == [at |-> "none", task |-> NoTask, column |-> NoTask, before |-> Blank,
           reply |-> "none", entry |-> NoTask]
Replies == {"updated", "conflict", "refused", "lost"}

NoEdit == [at |-> "none", board |-> Blank]

BoardTypeOK ==
    /\ app \in {"mobile", "web"} /\ {shown, saved} \subseteq Boards /\ offline \in BOOLEAN
    /\ load \in [Loader -> [at: {"none", "asked", "answered", "saved"}, asked: BOOLEAN, board: Boards]]
    /\ move \in [Mover -> [at: {"none", "caching", "sent", "served", "answered",
                                "reloading", "recaching", "gone"},
                           task: Task \cup {NoTask}, column: Column \cup {NoTask},
                           before: Boards, reply: Replies \cup {"none"}, entry: Entry \cup {NoTask}]]
    /\ edit \in [Editor -> [at: {"none", "asked", "answered"}, board: Boards]]
    /\ tangled \in BOOLEAN

BoardInit == /\ Init
             /\ app \in App
             /\ shown = Blank /\ saved = Blank /\ offline = FALSE
             /\ load = [l \in Loader |-> NoLoad]
             /\ move = [c \in Mover |-> NoMove]
             /\ edit = [e \in Editor |-> NoEdit]
             /\ tangled = FALSE

-----------------------------------------------------------------------------
(* Reloads.                                                                *)

\* The user asks for a reload: BoardState is built without the flag offline.
Refresh == /\ app = "mobile" /\ load[Event] = NoLoad
           /\ load' = [load EXCEPT ![Event].at = "asked", ![Event].asked = TRUE]
           /\ offline' = FALSE
           /\ UNCHANGED <<vars, editVars, app, shown, saved, move>>

\* GET of the board, which has no archived tasks.  A move on the phone ends
\* with a reload of its own.
Fetch(l) ==
    /\ load[l].at \in {"none", "asked"}
    /\ l \in Mover => move[l].at = "reloading"
    /\ load' = [load EXCEPT ![l].at = "answered", ![l].board =
         [t \in Task |-> IF tasks[t] # NoTask /\ ~tasks[t].archived
                         THEN Answered(tasks[t]) ELSE NoTask]]
    /\ UNCHANGED <<vars, editVars, app, shown, saved, offline, move>>

\* The phone stores the board first.
Save(l) ==
    /\ app = "mobile" /\ load[l].at = "answered"
    /\ saved' = load[l].board
    /\ load' = [load EXCEPT ![l].at = "saved"]
    /\ UNCHANGED <<vars, editVars, app, shown, offline, move>>

EndOfMove(l) == move' = [c \in Mover |-> IF c = l THEN NoMove ELSE move[c]]

ShowOnPhone(l) ==
    /\ app = "mobile" /\ load[l].at = "saved"
    /\ shown' = load[l].board /\ offline' = FALSE
    /\ load' = [load EXCEPT ![l] = NoLoad]
    /\ EndOfMove(l)
    /\ UNCHANGED <<vars, editVars, app, saved>>

\* The effect on board.data runs only when the query answers something new.
ShowOnPage(l) ==
    /\ app = "web" /\ load[l].at = "answered"
    /\ shown' = IF load[l].board = saved THEN shown ELSE load[l].board
    /\ saved' = load[l].board
    /\ load' = [load EXCEPT ![l] = NoLoad]
    /\ UNCHANGED <<vars, editVars, app, offline, move>>

OfflineAsBefore == offline      \* fault: the stored board is shown as current

OfflineNow == TRUE

\* A GET that fails at any point shows the stored board.
LoadFails(l) ==
    /\ app = "mobile"
    /\ l \in Mover => move[l].at = "reloading"
    /\ shown' = saved /\ offline' = OfflineNow
    /\ load' = [load EXCEPT ![l] = NoLoad]
    /\ EndOfMove(l)
    /\ UNCHANGED <<vars, editVars, app, saved>>

-----------------------------------------------------------------------------
(* A move.                                                                 *)

\* The move may still change what is shown.
Underway(c) == move[c].at \notin {"none", "gone", "recaching"}

\* What is shown is not settled: it holds the guess of a move that may yet be
\* refused, or the reload the user asked for is about to replace it.
Unsettled == \/ load[Event].asked
             \/ /\ \E c \in Mover : Underway(c)
                /\ \E t \in Task : shown[t] # NoTask /\ shown[t].guessed

\* moveTask and moved: what is shown from now on is a guess.
BeginMove(c, t, k) ==
    /\ move[c] = NoMove /\ request[c] = Idle
    /\ shown[t] # NoTask /\ shown[t].copy.version <= MaxVersion
    /\ app = "mobile" => ~offline /\ shown[t].copy.column # k
    /\ shown' = [shown EXCEPT ![t] = Guess(@, k)]
    /\ move' = [move EXCEPT ![c] =
         [NoMove EXCEPT !.at = IF app = "mobile" THEN "caching" ELSE "sent",
                        !.task = t, !.column = k, !.before = shown]]
    /\ copies' = [copies EXCEPT ![c][t] = shown[t].copy]
    /\ tangled' = (tangled \/ Unsettled)
    /\ UNCHANGED <<tasks, columns, resolved, request, app, saved, offline, load, edit>>

GuessedBoard(m) == [m.before EXCEPT ![m.task] = Guess(@, m.column)]

\* The phone stores the guess before it sends the move.
Cache(c) ==
    /\ move[c].at = "caching"
    /\ saved' = GuessedBoard(move[c])
    /\ move' = [move EXCEPT ![c].at = "sent"]
    /\ UNCHANGED <<vars, editVars, app, shown, offline, load>>

\* The server loads the row for the version that was sent.
Serve(c) == /\ move[c].at = "sent"
            /\ Begin(c, "move", move[c].task, [column |-> move[c].column])
            /\ move' = [move EXCEPT ![c].at = "served"]
            /\ UNCHANGED <<editVars, app, shown, saved, offline, load>>

\* Nobody waits for the answer to a move of an app that was restarted.
Answer(c, reply, entry) ==
    /\ move' = [move EXCEPT ![c] =
         IF move[c].at = "gone" THEN NoMove
         ELSE [@ EXCEPT !.at = "answered", !.reply = reply, !.entry = entry]]
    /\ UNCHANGED <<editVars, app, shown, saved, offline, load>>

\* CommitMove of Tasks is the step in between.  The phone does not look at
\* the task it is answered with.
Answers(c) == \/ /\ Respond(c)
                 /\ Answer(c, "updated", IF app = "web" THEN Answered(tasks[request[c].task])
                                         ELSE NoTask)
              \/ Conflict(c) /\ Answer(c, "conflict", NoTask)
              \/ Fail(c) /\ \E reply \in {"refused", "lost"} : Answer(c, reply, NoTask)

\* The request does not reach the server, or is refused before it has a row.
Unserved(c) == /\ move[c].at = "sent"
               /\ \E reply \in {"refused", "lost"} : Answer(c, reply, NoTask)
               /\ UNCHANGED vars

BoardBefore(c) == move[c].before

\* catch{onChanged(initial)}, or the task the server answered with put into
\* the board as it was before the move.
SettleOnPage(c) ==
    LET m == move[c] IN
    /\ app = "web" /\ m.at = "answered"
    /\ shown' = IF m.reply # "updated" THEN BoardBefore(c)
                ELSE [m.before EXCEPT ![m.task] = m.entry]
    /\ move' = [move EXCEPT ![c] = NoMove]
    /\ UNCHANGED <<vars, editVars, app, saved, offline, load>>

\* The queue keeps a move that met a conflict or no network: the guess stays,
\* marked offline.  Any other error takes it back.
SettleOnPhone(c) ==
    LET m == move[c] IN
    /\ app = "mobile" /\ m.at = "answered"
    /\ CASE m.reply \in {"conflict", "lost"} ->
              /\ shown' = GuessedBoard(m) /\ offline' = TRUE
              /\ move' = [move EXCEPT ![c] = NoMove]
         [] m.reply = "refused" ->
              /\ shown' = BoardBefore(c) /\ offline' = FALSE
              /\ move' = [move EXCEPT ![c] =
                   [NoMove EXCEPT !.at = "recaching", !.before = m.before]]
         [] m.reply = "updated" ->
              /\ move' = [move EXCEPT ![c] = [NoMove EXCEPT !.at = "reloading"]]
              /\ UNCHANGED <<shown, offline>>
    /\ UNCHANGED <<vars, editVars, app, saved, load>>

Recache(c) == /\ move[c].at = "recaching"
              /\ saved' = move[c].before
              /\ move' = [move EXCEPT ![c] = NoMove]
              /\ UNCHANGED <<vars, editVars, app, shown, offline, load>>

\* The app or the page is closed and opened again; a page stores nothing.
Restart ==
    /\ shown' = Blank /\ offline' = FALSE
    /\ saved' = IF app = "web" THEN Blank ELSE saved
    /\ load' = [l \in Loader |-> NoLoad]
    /\ move' = [c \in Mover |-> IF request[c] = Idle THEN NoMove
                                ELSE [NoMove EXCEPT !.at = "gone"]]
    /\ edit' = [e \in Editor |-> NoEdit] /\ tangled' = FALSE
    /\ UNCHANGED <<vars, app>>

-----------------------------------------------------------------------------
(* The other writers of the page's board: add, saveColumn, reorderColumn,  *)
(* deleteColumn and the callbacks of the task drawer.  Each puts what it   *)
(* was answered with into the board it was called with.                    *)

BeginEdit(e) ==
    /\ app = "web" /\ edit[e] = NoEdit
    /\ edit' = [edit EXCEPT ![e] = [at |-> "asked", board |-> shown]]
    /\ tangled' = (tangled \/ Unsettled)
    /\ UNCHANGED <<vars, app, shown, saved, offline, load, move>>

\* The board as it was, when only columns change or a reorder is taken back;
\* or with a task that was created, duplicated or updated; or without one that
\* was archived.
Edited(board) ==
    {board} \cup {[board EXCEPT ![t] = NoTask] : t \in Task}
            \cup {[board EXCEPT ![t] = Answered(tasks[t])] : t \in {u \in Task : tasks[u] # NoTask}}

AnswerEdit(e) ==
    /\ edit[e].at = "asked"
    /\ \E board \in Edited(edit[e].board) :
          edit' = [edit EXCEPT ![e] = [at |-> "answered", board |-> board]]
    /\ UNCHANGED <<vars, app, shown, saved, offline, load, move, tangled>>

ShowEdit(e) == /\ edit[e].at = "answered"
               /\ shown' = edit[e].board
               /\ edit' = [edit EXCEPT ![e] = NoEdit]
               /\ UNCHANGED <<vars, app, saved, offline, load, move, tangled>>

\* An error other than that of a reorder leaves what is shown.
FailEdit(e) == /\ edit[e].at = "asked"
               /\ edit' = [edit EXCEPT ![e] = NoEdit]
               /\ UNCHANGED <<vars, app, shown, saved, offline, load, move, tangled>>

-----------------------------------------------------------------------------
\* Other clients, and creations and deletions of columns.
Collaborate ==
    /\ Next /\ UNCHANGED boardVars
    /\ \A c \in Mover : request'[c] = request[c] /\ copies'[c] = copies[c]

BoardNext ==
    \/ Collaborate
    \/ \E l \in Loader : Fetch(l) \/ Save(l) \/ ShowOnPhone(l) \/ ShowOnPage(l) \/ LoadFails(l)
    \/ \E c \in Mover :
         \/ \E t \in Task, k \in Column : BeginMove(c, t, k)
         \/ Cache(c) \/ Serve(c) \/ Answers(c) \/ Unserved(c)
         \/ CommitMove(c) /\ UNCHANGED boardVars
         \/ SettleOnPage(c) \/ SettleOnPhone(c) \/ Recache(c)
    \/ \E e \in Editor : BeginEdit(e) \/ AnswerEdit(e) \/ ShowEdit(e) \/ FailEdit(e)
    \/ Refresh \/ Restart

BoardSpec == BoardInit /\ [][BoardNext]_allVars

-----------------------------------------------------------------------------
(* What the code promises.                                                 *)

(* The compare-and-set protects a collaborator only if the version a board *)
(* sends is one the server has answered with.  A guessed version is never  *)
(* sent (board_controller.dart:104, kanban-board.tsx:90), however answers, *)
(* refusals, overlapping moves, edits and reloads and restarts follow each *)
(* other, unless a move or an edit was begun on a board that was not       *)
(* settled and the app or page was not opened anew since.                  *)
SendsAnswered ==
    \A c \in Mover : move[c].task # NoTask => ~move[c].before[move[c].task].guessed

(* Once no move is under way, what is shown was answered by the server, or *)
(* the board is marked offline, or the user's reload is about to tell.     *)
GuessesMarked ==
    (\A c \in Mover : ~Underway(c)) =>
        \/ offline \/ load[Event].asked
        \/ \A t \in Task : shown[t] # NoTask => ~shown[t].guessed

(* The board is honest: the two above, and the type.                       *)
BoardHonest == BoardTypeOK /\ (~tangled => SendsAnswered /\ GuessesMarked)
=============================================================================
