------------------------------ MODULE Webhooks ------------------------------
(***************************************************************************)
(* How the activities of a workspace reach its webhooks: the two halves of *)
(* the job webhook_dispatch (backend/app/webhook_delivery.py, worker.py)   *)
(* and the routes that change a hook (api/routes/integrations.py).         *)
(*                                                                         *)
(* The first half inserts a delivery for every activity of an active hook  *)
(* that has none, in one transaction.  The second locks the deliveries     *)
(* that are due, skips those another job has locked, posts them one after  *)
(* the other and commits at the end; what was posted stays posted when it  *)
(* rolls back.  Batch limits (500, 100) are taken as not reached.          *)
(***************************************************************************)
EXTENDS Naturals, FiniteSets

CONSTANTS
    Hook, Activity,     \* the webhooks and activities there may be
    Worker,             \* processes of the Celery worker
    Events,             \* the events users choose, as the activities that match
    MaxAttempts         \* 5 in the code

ASSUME EventsAssumption == Events \subseteq SUBSET Activity
ASSUME MaxAttemptsAssumption == MaxAttempts \in Nat \ {0}

VARIABLES
    happened,   \* activities that are in activity_logs
    hook,       \* hook[h]: the row of workspace_webhooks
    delivery,   \* delivery[r]: the row of webhook_deliveries
    job,        \* job[w]: the job worker w runs, between two steps
    standing    \* history: standing[r]: attempts of r that were not rolled back

vars == <<happened, hook, delivery, job, standing>>

Row == Hook \X Activity

NoRow == [status |-> "none", attempts |-> 0, due |-> TRUE]

\* matches are the activities whose action is one of the hook's events, since
\* those that had happened before it was created, which get no delivery.  It
\* is raising if it is active and client.post raises on its URL an exception
\* that is no httpx.HTTPError, such as httpx.InvalidURL.
NoHook == [state |-> "none", matches |-> {}, since |-> {}]

\* What a job remembers: the rows it inserts or has locked, what became of
\* them, and the hooks as it has read them.
Idle == [at |-> "idle", rows |-> {}, results |-> [r \in Row |-> "none"],
         seen |-> [h \in Hook |-> "unread"]]

Results == {"delivered", "failed", "skipped"}

On == {"active", "raising"}
Kept == On \cup {"inactive"}

TypeOK ==
    /\ happened \subseteq Activity
    /\ hook \in [Hook -> [state: Kept \cup {"none", "deleted"},
                          matches: SUBSET Activity, since: SUBSET Activity]]
    /\ delivery \in [Row -> [status: Results \cup {"none", "pending", "exhausted"},
                             attempts: 0..MaxAttempts, due: BOOLEAN]]
    /\ job \in [Worker -> [at: {"idle", "queue", "due", "post", "down"}, rows: SUBSET Row,
                           results: [Row -> Results \cup {"none"}],
                           seen: [Hook -> Kept \cup {"unread"}]]]
    /\ standing \in [Row -> 0..MaxAttempts]

Init == /\ happened = {}
        /\ hook = [h \in Hook |-> NoHook]
        /\ delivery = [r \in Row |-> NoRow]
        /\ job = [w \in Worker |-> Idle]
        /\ standing = [r \in Row |-> 0]

-----------------------------------------------------------------------------
(* The end of a job that fails.                                            *)

Tried(w) == {r \in Row : job[w].results[r] \in {"delivered", "failed"}}

RollBack(w, at) ==
    /\ job' = [job EXCEPT ![w] = [Idle EXCEPT !.at = at]]
    /\ standing' = [r \in Row |-> IF r \in Tried(w) THEN standing[r] - 1 ELSE standing[r]]
    /\ UNCHANGED <<happened, hook, delivery>>

-----------------------------------------------------------------------------
(* queue_webhook_deliveries.                                               *)

\* Fault: only what happened after the last delivery of the hook is queued.
LackingAfterLast(h) ==
    {a \in happened \ hook[h].since : \A b \in Activity : delivery[<<h, b>>].status = "none"}

\* Activities since the hook was created that have no delivery for it.
Lacking(h) == {a \in happened \ hook[h].since : delivery[<<h, a>>].status = "none"}

Queue(w) ==
    /\ job[w] = Idle
    /\ job' = [job EXCEPT
         ![w].at = "queue",
         ![w].rows = {r \in Row : hook[r[1]].state \in On /\ r[2] \in Lacking(r[1])},
         ![w].results = [r \in Row |-> IF r[2] \in hook[r[1]].matches THEN "none" ELSE "skipped"]]
    /\ UNCHANGED <<happened, hook, delivery, standing>>

\* uq_webhook_delivery_activity refuses a row another job has inserted, the
\* foreign key one whose hook was deleted; then no row is inserted.
QueueFails(w) == \E r \in job[w].rows : \/ delivery[r].status # "none"
                                        \/ hook[r[1]].state = "deleted"

CommitQueue(w) ==
    /\ job[w].at = "queue" /\ ~QueueFails(w)
    /\ delivery' = [r \in Row |->
         IF r \notin job[w].rows THEN delivery[r]
         ELSE [NoRow EXCEPT !.status = IF job[w].results[r] = "none" THEN "pending" ELSE "skipped"]]
    /\ job' = [job EXCEPT ![w] = [Idle EXCEPT !.at = "due"]]
    /\ UNCHANGED <<happened, hook, standing>>

\* The error ends the task: nothing is posted either.
FailQueue(w) == job[w].at = "queue" /\ QueueFails(w) /\ RollBack(w, "idle")

-----------------------------------------------------------------------------
(* process_webhook_deliveries.                                             *)

\* Fault: exhausted deliveries are tried again.
DueForever == {r \in Row : /\ delivery[r].status \in {"pending", "failed", "exhausted"}
                           /\ delivery[r].due}

Due == {r \in Row : /\ delivery[r].status \in {"pending", "failed"}
                    /\ delivery[r].attempts < MaxAttempts
                    /\ delivery[r].due}

\* Fault: the select does not skip rows that are locked.
LockedRowsNone == {}

LockedRows == UNION {job[w].rows : w \in {v \in Worker : job[v].at = "post"}}

\* FOR UPDATE SKIP LOCKED.
SelectDue(w) ==
    /\ job[w].at = "due"
    /\ job' = [job EXCEPT ![w].at = "post", ![w].rows = Due \ LockedRows]
    /\ UNCHANGED <<happened, hook, delivery, standing>>

\* A hook that was read before may be taken from the session as it was.
States(w, h) == {hook[h].state} \cup ({job[w].seen[h]} \ {"unread"})

\* The delivery r is the next one of the job.
Posting(w, r) == job[w].at = "post" /\ r \in job[w].rows /\ job[w].results[r] = "none"

\* One delivery: skipped without an attempt if its hook is off, otherwise an
\* attempt.  A URL or a secret that cannot be used counts as a failed one; so
\* does a raising URL as long as its host is not found.
Post(w, r, result) ==
    /\ Posting(w, r)
    /\ \E state \in States(w, r[1]) :
         /\ (state \in On) <=> (result # "skipped")
         /\ result = "delivered" => state = "active"
         /\ job' = [job EXCEPT ![w].results[r] = result, ![w].seen[r[1]] = state]
    /\ standing' = [standing EXCEPT ![r] = IF result = "skipped" THEN @ ELSE @ + 1]
    /\ UNCHANGED <<happened, hook, delivery>>

\* The exception of client.post ends the task, and the batch is rolled back.
PostRaises(w, r) == Posting(w, r) /\ "raising" \in States(w, r[1]) /\ RollBack(w, "idle")

\* _mark_failed_delivery: a last attempt that fails exhausts the delivery.
Outcome(row, result) ==
    LET tried == row.attempts + 1 IN
    CASE result = "skipped" -> [row EXCEPT !.status = "skipped"]
      [] result = "delivered" -> [status |-> "delivered", attempts |-> tried, due |-> TRUE]
      [] result = "failed" ->
           [status |-> IF tried < MaxAttempts THEN "failed" ELSE "exhausted",
            attempts |-> tried, due |-> tried = MaxAttempts]

CommitPosts(w) ==
    /\ job[w].at = "post"
    /\ \A r \in job[w].rows : job[w].results[r] # "none"
    /\ delivery' = [r \in Row |-> IF r \in job[w].rows
                                  THEN Outcome(delivery[r], job[w].results[r])
                                  ELSE delivery[r]]
    /\ job' = [job EXCEPT ![w] = Idle]
    /\ UNCHANGED <<happened, hook, standing>>

\* next_attempt_at is reached.
FallDue(r) == /\ delivery[r].status = "failed" /\ ~delivery[r].due
              /\ delivery' = [delivery EXCEPT ![r].due = TRUE]
              /\ UNCHANGED <<happened, hook, job, standing>>

\* The worker dies in a job, or another statement of it fails.
Die(w) == job[w].at \notin {"idle", "down"} /\ RollBack(w, "down")

Restart(w) == /\ job[w].at = "down"
              /\ job' = [job EXCEPT ![w] = Idle]
              /\ UNCHANGED <<happened, hook, delivery, standing>>

-----------------------------------------------------------------------------
(* Handlers.                                                               *)

\* Any handler that logs an activity of the workspace.
Log(a) == /\ a \notin happened
          /\ happened' = happened \cup {a}
          /\ UNCHANGED <<hook, delivery, job, standing>>

CreateHook(h, state, matches) ==
    /\ hook[h].state = "none" /\ state \in On
    /\ hook' = [hook EXCEPT ![h] = [state |-> state, matches |-> matches, since |-> happened]]
    /\ UNCHANGED <<happened, delivery, job, standing>>

PatchHook(h, state, matches) ==
    /\ hook[h].state \in Kept
    /\ hook' = [hook EXCEPT ![h].state = state, ![h].matches = matches]
    /\ UNCHANGED <<happened, delivery, job, standing>>

\* The deliveries go with the hook; it waits for their locks.
DeleteHook(h) ==
    LET gone == {h} \X Activity IN
    /\ hook[h].state \in Kept
    /\ LockedRows \cap gone = {}
    /\ hook' = [hook EXCEPT ![h] = [NoHook EXCEPT !.state = "deleted"]]
    /\ delivery' = [r \in Row |-> IF r \in gone THEN NoRow ELSE delivery[r]]
    /\ standing' = [r \in Row |-> IF r \in gone THEN 0 ELSE standing[r]]
    /\ UNCHANGED <<happened, job>>

JobStep(w) == \/ CommitQueue(w) \/ FailQueue(w) \/ SelectDue(w) \/ CommitPosts(w) \/ Restart(w)
              \/ \E r \in Row : PostRaises(w, r) \/ \E result \in Results : Post(w, r, result)

Next == \/ \E w \in Worker : Queue(w) \/ JobStep(w) \/ Die(w)
        \/ \E r \in Row : FallDue(r)
        \/ \E a \in Activity : Log(a)
        \/ \E h \in Hook :
              \/ DeleteHook(h)
              \/ \E matches \in Events, state \in Kept :
                    CreateHook(h, state, matches) \/ PatchHook(h, state, matches)

Spec == Init /\ [][Next]_vars

\* Beat queues webhook_dispatch every minute and every worker gets its turn, a
\* job that started goes on (posts time out after 10 s), the back-off ends, and
\* in the end no worker dies before its job commits.  A URL that raises may go
\* on doing so.
FairSpec == /\ Spec
            /\ <>[][\A w \in Worker : ~Die(w)]_vars
            /\ \A w \in Worker : SF_vars(Queue(w)) /\ WF_vars(JobStep(w))
            /\ \A r \in Row : WF_vars(FallDue(r))

-----------------------------------------------------------------------------
(* What the code promises.                                                 *)

Holders(r) == {w \in Worker : job[w].at = "post" /\ r \in job[w].rows}
Attempting(r) == {w \in Worker : r \in Tried(w)}

(* Every attempt that was not rolled back is counted in its row or belongs *)
(* to the one open job that holds it; so nobody is posted to more often    *)
(* than MaxAttempts, rolled back jobs aside, and no job writes over what   *)
(* another one committed (FOR UPDATE SKIP LOCKED).                         *)
AttemptsCounted ==
    /\ TypeOK
    /\ \A r \in Row : /\ Cardinality(Holders(r)) <= 1
                      /\ standing[r] = delivery[r].attempts + Cardinality(Attempting(r))

(* A delivery that was delivered, skipped or exhausted stays so until its  *)
(* hook is deleted, and is not attempted again.                            *)
Final == {"delivered", "skipped", "exhausted"}
FinalIsFinal ==
    [][\A r \in Row : delivery[r].status \in Final /\ hook'[r[1]].state # "deleted" =>
          delivery'[r] = delivery[r] /\ standing'[r] <= standing[r]]_vars

(* Every activity since a hook was created gets its delivery, unless the   *)
(* hook is off or deleted before, however queueing jobs clash, and         *)
(* whatever the URLs of the hooks do to the second half of the job.        *)
ActivitiesQueued ==
    \A h \in Hook, a \in Activity :
        (hook[h].state \in On /\ a \in happened \ hook[h].since)
            ~> (hook[h].state \notin On \/ delivery[<<h, a>>].status # "none")

\* A delivery is open on whose hook client.post raises.
Wedged == \E r \in Row : /\ delivery[r].status \in {"pending", "failed"}
                         /\ hook[r[1]].state = "raising"

(* Every delivery ends: delivered, skipped, exhausted or deleted with its  *)
(* hook, although workers crash and whole batches roll back; unless again  *)
(* and again a delivery is open, of this hook or another one, on whose URL *)
(* client.post raises: it rolls back every batch that it is part of.       *)
DeliveriesEnd ==
    \A r \in Row : delivery[r].status \in {"pending", "failed"}
        ~> delivery[r].status \notin {"pending", "failed"} \/ Wedged

(* What an active hook asks for ends: both of the above.                   *)
ActivitiesEnd == ActivitiesQueued /\ DeliveriesEnd
=============================================================================
