------------------------ MODULE NotificationPipeline ------------------------
(***************************************************************************)
(* How a notification becomes emails and pushes: the jobs of the worker    *)
(* (backend/app/worker.py) and what users do meanwhile                     *)
(* (backend/app/api/routes/notifications.py).                              *)
(*                                                                         *)
(* A job is one transaction under READ COMMITTED: it reads, sends over the *)
(* network and commits at the end.  What it sent stays sent when it rolls  *)
(* back.  Workers run jobs concurrently; rows selected FOR UPDATE are      *)
(* locked until the end of the job, and SKIP LOCKED passes over the locked *)
(* ones.  Batch limits (100, 200) are taken as not reached.                *)
(***************************************************************************)
EXTENDS Naturals, FiniteSets

CONSTANTS
    User, Note,     \* users, and the notifications there may be
    Owner,          \* Owner[n]: whom n is for
    Worker,         \* processes of the Celery worker
    Preference      \* the preferences users choose from

AllPreferences == [email: BOOLEAN, frequency: {"instant", "hourly", "daily"},
                   push: BOOLEAN, kinds: BOOLEAN]

ASSUME OwnerAssumption == Owner \in [Note -> User]
ASSUME WorkerAssumption == IsFiniteSet(Worker)
ASSUME PreferenceAssumption == Preference \subseteq AllPreferences

VARIABLES
    note,           \* note[n]: "unborn", "recent", "old" for the digests, "deleted"
    dispatched,     \* notifications with a row in notification_dispatches
    delivery,       \* delivery[r]: the row of notification_deliveries
    pref,           \* pref[u]: the notification preferences
    subscription,   \* users whose device has a subscription that is not revoked
    job,            \* job[w]: the job worker w runs, between two steps
    \* History, for the properties:
    standing        \* standing[r]: sends of r that were not rolled back

vars == <<note, dispatched, delivery, pref, subscription, job, standing>>

Target == {"email", "push"}
Row == Note \X Target
MaxAttempts == 3

NoRow    == [status |-> "none", attempts |-> 0, due |-> TRUE]
Pending  == [status |-> "pending", attempts |-> 0, due |-> TRUE]
Digested == [status |-> "sent", attempts |-> 1, due |-> TRUE]

\* What a send may return; "gone" is a failure that revokes the subscription.
Results == {"sent", "failed", "skipped", "gone"}

NoResults == [r \in Row |-> "none"]

Idle == [at |-> "idle", users |-> {}, notes |-> {}, rows |-> {}, results |-> NoResults]

Steps == {"idle", "scan", "dispatch", "due", "deliver", "digest", "send", "down"}

(* The type of the state; no row is tried more than MaxAttempts times.     *)
TypeOK ==
    /\ note \in [Note -> {"unborn", "recent", "old", "deleted"}]
    /\ dispatched \in SUBSET Note
    /\ delivery \in [Row -> [status: {"none", "pending", "failed", "sent", "skipped"},
                             attempts: 0..MaxAttempts, due: BOOLEAN]]
    /\ pref \in [User -> Preference]
    /\ subscription \in SUBSET User
    /\ job \in [Worker -> [at: Steps, users: SUBSET User, notes: SUBSET Note,
                            rows: SUBSET Row, results: [Row -> Results \cup {"none"}]]]
    /\ standing \in [Row -> Nat]

Init == /\ note = [n \in Note |-> "unborn"]
        /\ dispatched = {}
        /\ delivery = [r \in Row |-> NoRow]
        /\ pref \in [User -> Preference]
        /\ subscription = {}
        /\ job = [w \in Worker |-> Idle]
        /\ standing = [r \in Row |-> 0]

Stored(n) == note[n] \in {"recent", "old"}

-----------------------------------------------------------------------------
(* Locks and the end of a job.                                             *)

LockedNotes(w) == IF job[w].at = "dispatch" THEN job[w].notes ELSE {}

LockedRows(w) == IF job[w].at = "deliver" THEN job[w].rows ELSE {}

Others(w) == Worker \ {w}

\* The rows worker w sent in its open transaction.
Sent(w) == {r \in Row : job[w].results[r] = "sent"}

\* The transaction is rolled back; what was sent is not on record.
RollBack(w, at) ==
    /\ job' = [job EXCEPT ![w] = [Idle EXCEPT !.at = at]]
    /\ standing' = [r \in Row |-> IF r \in Sent(w) THEN standing[r] - 1 ELSE standing[r]]
    /\ UNCHANGED <<note, dispatched, delivery, pref, subscription>>

\* A unique constraint or a foreign key refuses the rows the job inserts.
Refused(w) == \E r \in job[w].rows : delivery[r] # NoRow \/ ~Stored(r[1])

-----------------------------------------------------------------------------
(* notification_dispatch: _dispatch_notifications, then                    *)
(* _process_pending_deliveries in a transaction of its own.                *)

\* The snapshot of the SELECT ...
Scan(w) ==
    /\ job[w] = Idle
    /\ job' = [job EXCEPT ![w].at = "scan",
                          ![w].notes = {n \in Note : Stored(n) /\ n \notin dispatched}]
    /\ UNCHANGED <<note, dispatched, delivery, pref, subscription, standing>>

\* ... and its locks.  A dispatch row committed in between goes unseen, since
\* it does not change the locked row.
Lock(w) ==
    /\ job[w].at = "scan"
    /\ LET found == {n \in job[w].notes :
                       Stored(n) /\ \A v \in Others(w) : n \notin LockedNotes(v)} IN
       job' = [job EXCEPT ![w].at = "dispatch", ![w].notes = found,
                          ![w].users = {Owner[n] : n \in found}]
    /\ UNCHANGED <<note, dispatched, delivery, pref, subscription, standing>>

\* The rows for notes to u, by the preference and subscription read now.
RowsFor(u, notes) ==
    {r \in notes \X Target :
       /\ Owner[r[1]] = u /\ pref[u].kinds
       /\ r[2] = "email" => pref[u].email /\ pref[u].frequency = "instant"
       /\ r[2] = "push" => pref[u].push /\ u \in subscription}

\* The loop over notifications: the session reads a preference once per user.
DispatchFor(w, u) ==
    /\ job[w].at = "dispatch" /\ u \in job[w].users
    /\ job' = [job EXCEPT ![w].users = @ \ {u},
                          ![w].rows = @ \cup RowsFor(u, job[w].notes)]
    /\ UNCHANGED <<note, dispatched, delivery, pref, subscription, standing>>

\* Fault: only notifications with something to deliver are marked.
MarkedWithRows(w) == {r[1] : r \in job[w].rows}

Marked(w) == job[w].notes

\* Fault: no unique constraint on deliveries.
DispatchedTwice(w) == job[w].notes \cap dispatched # {}

DispatchClash(w) == Refused(w) \/ job[w].notes \cap dispatched # {}

CommitDispatch(w) ==
    /\ job[w].at = "dispatch" /\ job[w].users = {}
    /\ ~DispatchClash(w)
    /\ dispatched' = dispatched \cup Marked(w)
    /\ delivery' = [r \in Row |-> IF r \in job[w].rows THEN Pending ELSE delivery[r]]
    /\ job' = [job EXCEPT ![w] = [Idle EXCEPT !.at = "due"]]
    /\ UNCHANGED <<note, pref, subscription, standing>>

\* Fault: rows that failed before are not selected.
DueFresh(r) == delivery[r].status = "pending" /\ delivery[r].due

\* Fault: attempts are not limited.
DueForever(r) == delivery[r].status \in {"pending", "failed"} /\ delivery[r].due

Due(r) == /\ delivery[r].status \in {"pending", "failed"}
          /\ delivery[r].attempts < MaxAttempts
          /\ delivery[r].due

SelectDue(w) ==
    /\ job[w].at = "due"
    /\ job' = [job EXCEPT ![w].at = "deliver",
         ![w].rows = {r \in Row : Due(r) /\ \A v \in Others(w) : r \notin LockedRows(v)}]
    /\ UNCHANGED <<note, dispatched, delivery, pref, subscription, standing>>

\* What a send of row r may return.
Possible(r) ==
    IF r[2] = "email" THEN {"sent", "failed", "skipped"}
    ELSE IF Owner[r[1]] \notin subscription THEN {"skipped"}
    ELSE Results

Attempt(w, r, result) ==
    /\ job[w].at = "deliver" /\ r \in job[w].rows /\ job[w].results[r] = "none"
    /\ result \in Possible(r)
    /\ job' = [job EXCEPT ![w].results[r] = result]
    /\ standing' = IF result = "sent" THEN [standing EXCEPT ![r] = @ + 1] ELSE standing
    /\ UNCHANGED <<note, dispatched, delivery, pref, subscription>>

\* A row after an attempt: a failed one waits until next_attempt_at.
Tried(row, result) ==
    [status   |-> IF result = "gone" THEN "failed" ELSE result,
     attempts |-> row.attempts + 1,
     due      |-> result \in {"sent", "skipped"} \/ row.attempts + 1 >= MaxAttempts]

Gone(w) == {r \in job[w].rows : job[w].results[r] = "gone"}

CommitDeliveries(w) ==
    /\ job[w].at = "deliver" /\ \A r \in job[w].rows : job[w].results[r] # "none"
    /\ delivery' = [r \in Row |-> IF r \in job[w].rows
                                  THEN Tried(delivery[r], job[w].results[r])
                                  ELSE delivery[r]]
    /\ subscription' = subscription \ {Owner[r[1]] : r \in Gone(w)}
    /\ job' = [job EXCEPT ![w] = Idle]
    /\ UNCHANGED <<note, dispatched, pref, standing>>

\* The time next_attempt_at passes.
FallDue(r) ==
    /\ ~delivery[r].due
    /\ delivery' = [delivery EXCEPT ![r].due = TRUE]
    /\ UNCHANGED <<note, dispatched, pref, subscription, job, standing>>

-----------------------------------------------------------------------------
(* notification_hourly_digest and notification_daily_digest: _send_digest. *)

\* The users of the digest, with the preferences as they are now; muted kinds
\* leave nothing to tell.
StartDigest(w, frequency) ==
    /\ job[w] = Idle
    /\ job' = [job EXCEPT ![w].at = "digest",
         ![w].users = {u \in User : pref[u].email /\ pref[u].frequency = frequency
                                                  /\ pref[u].kinds}]
    /\ UNCHANGED <<note, dispatched, delivery, pref, subscription, standing>>

\* The notifications u has had no email about.
Candidates(u) ==
    {n \in Note : /\ note[n] = "recent" /\ Owner[n] = u
                  /\ delivery[<<n, "email">>].status \notin {"sent", "skipped"}}

ReadCandidates(w, u) ==
    /\ job[w].at = "digest" /\ u \in job[w].users
    /\ job' = [job EXCEPT ![w].users = @ \ {u},
                          ![w].notes = Candidates(u),
                          ![w].at = IF Candidates(u) = {} THEN "digest" ELSE "send"]
    /\ UNCHANGED <<note, dispatched, delivery, pref, subscription, standing>>

\* Fault: rows are added although the email was not sent.
RecordedAnyway(notes, delivered) == notes \X {"email"}

Recorded(notes, delivered) == IF delivered THEN notes \X {"email"} ELSE {}

\* One email for all candidates; on success, a row for each.
SendDigest(w, delivered) ==
    LET new == Recorded(job[w].notes, delivered)
        told == IF delivered THEN job[w].notes \X {"email"} ELSE {} IN
    /\ job[w].at = "send"
    /\ job' = [job EXCEPT ![w].at = "digest", ![w].notes = {},
                          ![w].rows = @ \cup new,
                          ![w].results = [r \in Row |-> IF r \in new THEN "sent" ELSE @[r]]]
    /\ standing' = [r \in Row |-> IF r \in told THEN standing[r] + 1 ELSE standing[r]]
    /\ UNCHANGED <<note, dispatched, delivery, pref, subscription>>

CommitDigest(w) ==
    /\ job[w].at = "digest" /\ job[w].users = {}
    /\ ~Refused(w)
    /\ delivery' = [r \in Row |-> IF r \in job[w].rows THEN Digested ELSE delivery[r]]
    /\ job' = [job EXCEPT ![w] = Idle]
    /\ UNCHANGED <<note, dispatched, pref, subscription, standing>>

-----------------------------------------------------------------------------
(* Jobs that fail.                                                         *)

CommitFails(w) ==
    /\ job[w].users = {}
    /\ \/ job[w].at = "dispatch" /\ DispatchClash(w)
       \/ job[w].at = "digest" /\ Refused(w)

\* The error ends the Celery task: no deliveries are processed after a failed
\* dispatch, and the digests of all users roll back together.
Fail(w) == CommitFails(w) /\ RollBack(w, "idle")

\* The worker dies in a job, or another statement of it fails.
Die(w) == job[w].at \notin {"idle", "down"} /\ RollBack(w, "down")

Restart(w) ==
    /\ job[w].at = "down"
    /\ job' = [job EXCEPT ![w] = Idle]
    /\ UNCHANGED <<note, dispatched, delivery, pref, subscription, standing>>

-----------------------------------------------------------------------------
(* Handlers and the passing of time.                                       *)

\* A handler or deadline_reminders commits a notification.
Create(n) ==
    /\ note[n] = "unborn"
    /\ note' = [note EXCEPT ![n] = "recent"]
    /\ UNCHANGED <<dispatched, delivery, pref, subscription, job, standing>>

\* The period of the digest passes.
Age(n) ==
    /\ note[n] = "recent"
    /\ note' = [note EXCEPT ![n] = "old"]
    /\ UNCHANGED <<dispatched, delivery, pref, subscription, job, standing>>

\* delete_notification: the deletion cascades, and waits for locks.
Delete(n) ==
    /\ Stored(n)
    /\ \A w \in Worker : /\ n \notin LockedNotes(w)
                         /\ \A t \in Target : <<n, t>> \notin LockedRows(w)
    /\ note' = [note EXCEPT ![n] = "deleted"]
    /\ dispatched' = dispatched \ {n}
    /\ delivery' = [r \in Row |-> IF r[1] = n THEN NoRow ELSE delivery[r]]
    /\ UNCHANGED <<pref, subscription, job, standing>>

PatchPreferences(u, p) ==
    /\ p # pref[u]
    /\ pref' = [pref EXCEPT ![u] = p]
    /\ UNCHANGED <<note, dispatched, delivery, subscription, job, standing>>

RegisterSubscription(u) ==
    /\ u \notin subscription
    /\ subscription' = subscription \cup {u}
    /\ UNCHANGED <<note, dispatched, delivery, pref, job, standing>>

RevokeSubscription(u) ==
    /\ u \in subscription
    /\ subscription' = subscription \ {u}
    /\ UNCHANGED <<note, dispatched, delivery, pref, job, standing>>

-----------------------------------------------------------------------------

JobStep(w) ==
    \/ Lock(w) \/ CommitDispatch(w)
    \/ SelectDue(w) \/ CommitDeliveries(w)
    \/ CommitDigest(w) \/ Fail(w) \/ Restart(w)
    \/ \E u \in User : DispatchFor(w, u) \/ ReadCandidates(w, u)
    \/ \E r \in Row, result \in Results : Attempt(w, r, result)
    \/ \E delivered \in BOOLEAN : SendDigest(w, delivered)

Next ==
    \/ \E w \in Worker :
         \/ Scan(w) \/ JobStep(w) \/ Die(w)
         \/ \E frequency \in {"hourly", "daily"} : StartDigest(w, frequency)
    \/ \E r \in Row : FallDue(r)
    \/ \E n \in Note : Create(n) \/ Age(n) \/ Delete(n)
    \/ \E u \in User : \/ \E p \in Preference : PatchPreferences(u, p)
                       \/ RegisterSubscription(u) \/ RevokeSubscription(u)

Spec == Init /\ [][Next]_vars

\* Beat queues notification_dispatch every minute, every worker gets its turn,
\* a job that started goes on, the backoff ends, and in the end no job dies
\* before it commits.
FairSpec == /\ Spec
            /\ <>[][\A w \in Worker : ~Die(w)]_vars
            /\ \A w \in Worker : SF_vars(Scan(w)) /\ WF_vars(JobStep(w))
            /\ \A r \in Row : WF_vars(FallDue(r))

-----------------------------------------------------------------------------
(* Properties.                                                             *)

\* The open transactions that sent row r.
Senders(r) == {w \in Worker : r \in Sent(w)}

(* The table records exactly the sends that were not rolled back: a row is *)
(* sent once if it says so and never twice, by whatever worker or digest,  *)
(* beyond the sends of open transactions (FOR UPDATE SKIP LOCKED, the      *)
(* unique constraint and the commit of _process_pending_deliveries and     *)
(* _send_digest).                                                          *)
Accounted ==
    \A r \in Row : note[r[1]] # "deleted" =>
        standing[r] = Cardinality(Senders(r))
                      + (IF delivery[r].status = "sent" THEN 1 ELSE 0)

(* The rows live as the contract says: opened once, every attempt counted, *)
(* three at most, final ones final (_process_pending_deliveries).          *)
Deliveries == INSTANCE DeliveryContract WITH
    Row <- Row, Limit <- MaxAttempts,
    table <- [r \in Row |-> [status   |-> delivery[r].status,
                             attempts |-> delivery[r].attempts]],
    removed <- {r \in Row : note[r[1]] = "deleted"}
ImplementsContract == Deliveries!Spec

\* A digest recorded a notification that is not dispatched yet.  If its user
\* then chooses instant emails, every dispatch job fails on the same row.
Wedged == \E n \in Note : /\ Stored(n) /\ n \notin dispatched
                          /\ delivery[<<n, "email">>] # NoRow

(* Every notification is dispatched, unless it is deleted or a digest      *)
(* recorded an undispatched one before (notification_dispatch under beat). *)
DispatchedUnlessWedged ==
    \A n \in Note : Stored(n) ~> (n \in dispatched \/ ~Stored(n) \/ Wedged)

(* Every delivery ends: sent, skipped or given up, unless dispatch is      *)
(* wedged (_process_pending_deliveries under beat).                        *)
DeliveriesEnd ==
    \A r \in Row : delivery[r].status \in {"pending", "failed"} ~>
        (\/ delivery[r].status \in {"none", "sent", "skipped"}
         \/ delivery[r].attempts = MaxAttempts \/ Wedged)
=============================================================================
