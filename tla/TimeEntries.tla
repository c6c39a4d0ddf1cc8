----------------------------- MODULE TimeEntries -----------------------------
(***************************************************************************)
(* Timers and time entries (backend/app/api/routes/task_productivity.py).  *)
(*                                                                         *)
(* No route takes a lock: a request reads and checks (the Begins), then    *)
(* writes by id (the Commits).  What two requests do at once is left to    *)
(* the partial unique index on running entries, and an UPDATE of a row     *)
(* that is gone fails.                                                     *)
(***************************************************************************)
EXTENDS Naturals, FiniteSets

CONSTANTS
    Entry, Person, Work,    \* time entries, users and tasks there may be
    Call,                   \* requests that may be in progress together
    Nothing                 \* no entry, person or task

VARIABLES
    tracking,   \* time tracking is enabled for the project
    entry,      \* entry[e]: the row of time_entries
    call,       \* call[q]: the request q, between its two steps
    contested   \* history: entries two requests to stop have overlapped on

vars == <<tracking, entry, call, contested>>

Maybe(S) == S \cup {Nothing}

NoEntry == [state |-> "none", person |-> Nothing, work |-> Nothing, stops |-> 0]
Idle == [kind |-> "none", entry |-> Nothing, person |-> Nothing, work |-> Nothing]

Kinds == {"start", "manual", "stop", "drop"}

(* The type of the state; stops counts how often a timer was stopped.      *)
TypeOK ==
    /\ tracking \in BOOLEAN
    /\ entry \in [Entry -> [state: {"none", "running", "ended", "gone"}, person: Maybe(Person),
                            work: Maybe(Work), stops: 0..Cardinality(Call)]]
    /\ call \in [Call -> [kind: Kinds \cup {"none"}, entry: Maybe(Entry),
                          person: Maybe(Person), work: Maybe(Work)]]
    /\ contested \subseteq Entry

Init == /\ tracking \in BOOLEAN
        /\ entry = [e \in Entry |-> NoEntry]
        /\ call = [q \in Call |-> Idle]
        /\ contested = {}

Done(q) == call' = [call EXCEPT ![q] = Idle]

\* The running entries of a person.
Running(p) == {e \in Entry : entry[e].state = "running" /\ entry[e].person = p}

\* What stop_timer finds: the running entry of the person and the task.
Stoppable(p, w) == {e \in Running(p) : entry[e].work = w}

BeginEntry(q, kind, p, w) ==
    /\ call[q] = Idle /\ kind \in {"start", "manual"} /\ tracking
    /\ kind = "start" => Running(p) = {}
    /\ call' = [call EXCEPT ![q] = [Idle EXCEPT !.kind = kind, !.person = p, !.work = w]]
    /\ UNCHANGED <<tracking, entry, contested>>

BeginStop(q, p, w, e) ==
    /\ call[q] = Idle /\ e \in Stoppable(p, w)
    /\ call' = [call EXCEPT ![q] = [Idle EXCEPT !.kind = "stop", !.entry = e]]
    /\ contested' = IF \E r \in Call : call[r].kind = "stop" /\ call[r].entry = e
                    THEN contested \cup {e} ELSE contested
    /\ UNCHANGED <<tracking, entry>>

\* delete_time_entry takes running and ended entries alike.
BeginDrop(q, e) ==
    /\ call[q] = Idle /\ entry[e].state \in {"running", "ended"}
    /\ call' = [call EXCEPT ![q] = [Idle EXCEPT !.kind = "drop", !.entry = e]]
    /\ UNCHANGED <<tracking, entry, contested>>

\* Fault: there is no such index.
MayRunAlways(p) == TRUE

\* uq_time_entries_one_running_per_user; an index entry that another request
\* is about to commit makes this one wait.
MayRun(p) == Running(p) = {}

CommitEntry(q, e) ==
    /\ entry[e].state = "none"
    /\ \/ call[q].kind = "start" /\ MayRun(call[q].person)
       \/ call[q].kind = "manual"
    /\ entry' = [entry EXCEPT ![e] =
         [state |-> IF call[q].kind = "start" THEN "running" ELSE "ended",
          person |-> call[q].person, work |-> call[q].work, stops |-> 0]]
    /\ Done(q) /\ UNCHANGED <<tracking, contested>>

\* ended_at and duration_seconds, by id: a second stop writes them again.
CommitStop(q) ==
    LET e == call[q].entry
    IN  /\ call[q].kind = "stop" /\ entry[e].state \in {"running", "ended"}
        /\ entry' = [entry EXCEPT ![e] = [entry[e] EXCEPT !.state = "ended", !.stops = @ + 1]]
        /\ Done(q) /\ UNCHANGED <<tracking, contested>>

\* A DELETE of a row that is gone changes nothing.
CommitDrop(q) ==
    /\ call[q].kind = "drop"
    /\ entry' = [entry EXCEPT ![call[q].entry].state = "gone"]
    /\ Done(q) /\ UNCHANGED <<tracking, contested>>

\* The settings of the project or of the workspace.
Toggle == tracking' = ~tracking /\ UNCHANGED <<entry, call, contested>>

\* An error return, a refused write or a crash.
Fail(q) == call[q] # Idle /\ Done(q) /\ UNCHANGED <<tracking, entry, contested>>

Next == \/ \E q \in Call :
              \/ \E p \in Person, w \in Work :
                    (\E kind \in Kinds : BeginEntry(q, kind, p, w))
                    \/ \E e \in Entry : BeginStop(q, p, w, e)
              \/ \E e \in Entry : BeginDrop(q, e) \/ CommitEntry(q, e)
              \/ CommitStop(q) \/ CommitDrop(q) \/ Fail(q)
        \/ Toggle

Spec == Init /\ [][Next]_vars

-----------------------------------------------------------------------------
(* What the code promises.                                                 *)

(* A user has one running timer although two requests to start both find   *)
(* none: the partial unique index refuses the second (start_timer).        *)
OneRunning == \A p \in Person : Cardinality(Running(p)) <= 1

(* An entry that has ended keeps its end: a timer is stopped once, unless  *)
(* two requests to stop it overlapped (stop_timer finds running ones only).*)
StoppedOnce == \A e \in Entry : entry[e].stops > 1 => e \in contested

(* Timers are consistent: the two above, and the type.                     *)
TimersConsistent == TypeOK /\ OneRunning /\ StoppedOnce
=============================================================================
