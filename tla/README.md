# Verification of TaskPilot

TLA+ models of TaskPilot, a task manager for teams: a FastAPI backend on
PostgreSQL (`backend/app`), a Celery worker, a Next.js web client (`web`) and a
Flutter mobile client (`mobile`). The modules are written from the source. TLC
checks them on small instances; TLAPS proves the results of section 5 for all
values of the constants. Paths below are relative to the repository.

## 1. Inventory

| Part | State it keeps | Operations | What makes it correct |
|---|---|---|---|
| Task requests, `api/routes/tasks.py`, `task_collaboration.py` | rows of `tasks`: `version`, `status`, `completed_at`, `deleted_at`, `column_id` | create, patch, move (compare-and-set on `version`), archive, restore (ORM write by id), duplicate, convert | a version names one state; a patch or move never overwrites an update its client has not seen; `completed_at` follows the status; dependents are told once |
| Task dependencies, `tasks.py`, `domain/collaboration.py` | rows of `task_dependencies` | create (with a cycle check), delete | tasks never wait for each other in a circle |
| Subtasks, checklists | rows with a version of their own | create, patch (compare-and-set), delete, convert to a task | converted once; no silent overwrite |
| Board columns, `projects.py` | rows with a unique position per project | create, rename, reorder, delete (moves tasks) | at least one column; no task in a deleted one; distinct names |
| Mobile offline queue, `mobile/lib/src/core/offline_queue.dart` | a list per user in SharedPreferences, its copy in memory, `syncing` | mutate, sync, discard, retry, applyLocalConflict; sign-in and sign-out | a queued change is kept until it is sent or discarded; conflicts wait for the user; lists of two users never mix |
| Board clients, `board_controller.dart`, `kanban-board.tsx` | a cached board with predicted versions | load, move | a predicted version never stands for a state the client has not seen |
| Notification pipeline, `worker.py`, `notification_delivery.py` | notifications, dispatch rows, delivery rows with status, attempts, next attempt | dispatch, deliver with retry, hourly and daily digest, preference change | each notification dispatched once; every delivery ends; no repeated email |
| Webhook delivery, `webhook_delivery.py`, `integrations.py` | hooks, activity rows, delivery rows | queue, deliver with retry, change or delete a hook | every matched activity ends delivered, skipped or exhausted; at most five attempts |
| Invitations, `workspaces.py`, `worker.py` | invitations with status, attempts, a ciphertext of the token | create, cancel, accept, reject, deliver | accepted at most once; the token copy goes with the successful email |
| Workspaces | owner, members and roles | create, role change, remove, leave, transfer, archive, delete | exactly one owner, who is a member |
| Sessions, account tokens, `auth.py`, `account.py` | sessions with a refresh-token hash, one-time tokens | login, refresh (rotation), logout, reset, revoke | a token is used once; a refresh leaves one live session |
| Attachments, `attachments.py`, `storage.py` | rows and objects in S3 | upload, delete, usage | rows and objects agree; the quota holds |
| Timers, custom fields, `task_productivity.py` | time entries, values | start, stop, add, delete | one running timer per user |
| Rate limiter, realtime events | a Redis counter, Redis pub/sub | count, publish, subscribe | a window ends; a client that missed events refetches |
| Search, activity, analytics, insights, planning | none | read-only queries | not modelled |
| Templates, personalization, settings, seed data, observability, deployment | preference rows, configuration | single-row writes | not modelled |

How the parts interact. The HTTP handlers share the database; every statement of
a handler runs under READ COMMITTED with a snapshot of its own (`db.py` sets no
isolation level), so whatever a handler read may be stale at its next statement.
After the commit it publishes an event on Redis; the clients that hold a
WebSocket refetch. Handlers add `notifications` and `activity_logs` rows in their
own transaction; Celery Beat starts worker jobs that turn them into delivery
rows, send, and record the outcome in one transaction per batch. The mobile client
keeps failed changes in its offline queue and replays them through the same
handlers.

The behaviours that are hard to test are listed as `hazards` in `PROJECT.json`,
each at its line with the properties that cover it.

## 2. Plan

The order is by how much of the system rests on the component.

1. **Tasks core** (done): `TaskRows`, `TaskContract`, `Tasks`, `Tasks_proofs`.
2. **Dependencies** (done): `ProjectRows`, `DependencyGraph`, `Dependencies`, `CycleSearch`, composed by
   `DependencyChecks`; their proofs are in `Projects_proofs`.
3. **Offline queue** (done): `Outbox`, `OfflineQueue` and its proofs.
4. **Notification pipeline** (done): `DeliveryContract`, `NotificationPipeline` and
   its proofs.
5. **Workspaces and webhooks** (done): `Workspaces`, `Webhooks` and their proofs.
6. **The board in the clients** (done): `BoardClients`, composed with `Tasks`; its proof
   is in `Tasks_proofs`.
7. **Rows under locks and without** (done): `BoardColumns`, proved in `Projects_proofs`
   beside the dependencies, `Accounts` and its proofs, and the parts of a task: `TaskItems` with `ItemContract`, `TimeEntries`, `CustomFields`,
   `Attachments`, put together by `TaskParts`, whose proofs cover all four.
8. **Left**: project members and the archive of projects; comments with their mentions;
   the rate limiter and realtime events, which keep hardly any state.

Every safety property a passing run checks is proved; what is worth proving next are the
invariants of the parts left, once they are modelled.

## 3. Modules

### Tasks core

* `TaskRows` has the data: a row of `tasks`, what the API returns of it (`TaskOut`),
  and the row a creation inserts. `completed_at` and `deleted_at` are reduced to
  whether they are set; `title` stands for all plain fields.
* `TaskContract` is the promise of optimistic concurrency: atomic writes, each by a
  client whose copy is the row itself.
* `Tasks` is the code. A request is a record `request[c]` that goes through
  `Begin` (`_task_access` loads the row), a commit (`CommitPatch`, `CommitMove`,
  `CommitLifecycle`) and `Respond` (`db.refresh` and the answer). The UPDATE takes
  the row lock and holds it until the commit, and the compare-and-set looks at the
  latest committed row, so the two are one step. `Conflict` is the 409, `Fail` every
  other end of a request, a lost answer included. `DeleteColumn` is the whole of
  `delete_column` for tasks: it locks every column of the project, so its count,
  its bulk move and its delete see no task come or go. `copies[c][t]` is what client
  `c` last saw; `resolved[t]` counts the rounds of `dependency.resolved`
  notifications.

### Dependencies

* `ProjectRows` declares what `Dependencies` and `BoardColumns` share, the tasks of the
  project.
* `DependencyGraph` defines reachability and acyclicity by closed sets, without
  recursion, for TLC and the provers alike.
* `Dependencies` has `create_dependency` as the four steps its statements make
  (`BeginAdding`, `Access`, `Check`, `Insert`), `delete_dependency`, and the archive and
  restore of tasks, which decide what the check looks at. Re-inserting an
  existing row changes nothing, as in the code. `saw` and `missed` are history: the rows
  a check has read, and the pairs of rows of which one was inserted after a check that
  had not read the other.
* `CycleSearch` is the loop of `would_create_dependency_cycle`, one action per
  branch; every graph, iteration order and argument is a behaviour.
* `DependencyChecks` has both. The search works in memory and has no `await`, so a
  behaviour is one of the requests or one search; what `Dependencies` takes as the answer
  of the check, `WouldCreateCycle`, is what the search is shown to answer.

### Offline queue

* `Outbox` is the promise: the changes a user could not send wait in order, each
  until the server confirmed it or the user discarded it.
* `OfflineQueue` is `offline_queue.dart`. Dart runs one call at a time between two
  awaits, so a step of the model is what a call does from one await to the next:
  `Ensure`, `EnsureOther`, `EnsureNobody` are `_ensureCurrentUser` after the read of
  secure storage, `Load` after the read of the list, `Write` the rest of `_persist`,
  `MutateAnswer`, `ApplyAnswer`, `ReplayAnswer` what follows an HTTP request, `Keep`,
  `Replay`, `Finish` the loop of `sync`. `Slot` is the set of calls that may be in
  progress together. `account` is the signed-in user of secure storage, `disk` the
  lists of SharedPreferences, `queue` the controller's state. The interceptor reads
  the token as part of the step that sends. `Crash` kills the app; `SwitchTo` is a
  sign-in or a sign-out with the `initialize` that `app.dart` answers it with, and
  `Refresh` the interceptor of `api.dart`: it saves the tokens of the user the request
  was sent for, which signs that user in, and sends the request again. The answer
  `hidden` is a retry that was applied and whose own answer was lost: the caller gets
  the first answer, a 401. The three keys `saveTokens` and `clearTokens` write are one
  step, since the queue reads only the user and the token, and only the latter to send.
  `author`, `accepted`, `settled`, `discarded` and `applied` are history, and so are
  `stale`, the calls whose list or change another call or a change of account has
  overtaken, and `torn`: such a call has put its list in memory or in storage. Nothing in
  the app prevents this; the properties say that nothing else does harm.

### Notification pipeline

* `DeliveryContract` is the promise of a table of deliveries: a row is opened once,
  every attempt is counted, there are at most `Limit`, and final statuses are final.
* `NotificationPipeline` is the worker and the handlers of
  `notifications.py` that meet it. A job is one transaction with the steps its
  statements make. `Scan` and `Lock` are two steps because `FOR UPDATE SKIP LOCKED`
  locks the notification and not the missing dispatch row: a dispatch committed
  between the two goes unseen, and the unique constraint stops the second job
  (`DispatchClash`, `Fail`). `DispatchFor` reads a user's preference and subscription
  once per job. `SelectDue`, `Attempt` and `CommitDeliveries` are
  `_process_pending_deliveries`, a transaction of its own; `StartDigest`,
  `ReadCandidates`, `SendDigest`, `CommitDigest` are `_send_digest`. `Die` rolls a job
  back at any point; what it sent stays sent. `standing[r]` counts the sends of a row
  that were not rolled back. A user has one device, and a revoked subscription is the
  same as none; the limits of 100 and 200 rows per job are not reached.

### Workspaces

* `Workspaces` is one workspace with its members, its owner and its invitations
  (`workspaces.py`, `domain/collaboration.py`, `require_workspace` of `deps.py`) and
  the job of `worker.py` that emails invitations. A request has three steps:
  `Begin` is `require_workspace` (`BeginToken` the lookup of a token), `Load...` reads
  the rows and checks them, `Commit...` writes them by id. `request[q].held` are the
  members whose loaded row is still there: an UPDATE of a row that is gone fails the
  request, a DELETE changes nothing, and who was removed and joined again has another
  row. A column is written only if it differs from what was loaded, so
  `CommitTransfer` compares with `as`, `found` and `was`. `Take`, `CommitDelivery` and
  `Die` are the job, which holds row locks for one transaction; who writes such a row
  waits. An invitation is `open`, `expired`, `accepted` or `gone`; `delivery` is its
  status and attempts, and `DeliveryContract` is implemented for these too.
  Any requests overlap. `crossed` and `split` are history: the requests that have looked
  at a member whom a transfer of the ownership has changed since, and that one of them
  has then written members or the owner.

### Accounts

* `Accounts` is one table each of users, sessions and one-time tokens (`auth.py`,
  `account.py`, `current_session_user` of `deps.py`). A request reads without locks
  (`Begin...`), takes the row locks of its UPDATEs (`Revoke`, `Supersede`, the token of
  `_consume_token`) and commits; `Issue` inserts a session in a transaction of its own,
  as `login` and `refresh` do, so a session may be issued after a revocation that it
  overlapped. `proven[u]` is history: the addresses whose link was followed; `late` and
  `from` of a session: that the request that issued it overlapped a revocation or another
  refresh, and the session it replaced.

### Board columns

* `BoardColumns` is the four routes of columns with their locks. `SELECT ... ORDER BY
  position FOR UPDATE` takes the order of its snapshot and then the locks one by one
  (`Lock`), dropping rows deleted meanwhile. `WaitsFor` and `Deadlocked` are
  PostgreSQL. The commits write what the two UPDATEs of the code leave (`Renumbered`);
  a unique constraint that is violated between them ends the request (`Fail`). `overlap`
  is history: which promises an overlapping unlocked check may have spoiled, until an
  undisturbed renumbering repairs the positions (`Settles`); the properties except those
  and no others. `create_column` looks for the name and for the largest position in two
  statements that are one step here (`BeginCreate`): what commits between them has
  overlapped the creation anyway.

### Webhooks

* `Webhooks` is both halves of `webhook_dispatch` and the routes of hooks. `Queue`
  inserts what is missing, `CommitQueue` and `FailQueue` are the commit and the clash
  with another job's insert; `SelectDue` locks what is due and not locked, `Post`
  attempts one row, `CommitPosts` commits; `Die` rolls back. `PostRaises` is an exception
  of `client.post` that is no `httpx.HTTPError`: nothing catches it, and it rolls the
  whole batch back. It comes from the URL, so it comes back at every run: a hook has it
  (`raising`) until its URL is changed. Deleting a hook waits for the locks on its
  deliveries. `standing[r]` counts the attempts that were not rolled back.

### The parts of a task

* `ItemContract` is the promise of versioned rows; `TaskItems` is the code: subtasks
  and checklist items (compare-and-set patches, blind deletes), the deletion of a
  checklist, `convert_subtask`, and the counter of task numbers under the lock of the
  project row. `raced` is history: conversions that overlapped another write.
* `TimeEntries` is the timers: no route locks, the partial unique index on running
  entries is what stops a second timer. `contested` marks entries two requests to stop
  overlapped on.
* `CustomFields` is fields, their options and the values on tasks, again without locks;
  `late` marks values whose field changed after they were validated.
* `Attachments` is rows and objects. An upload locks the workspace row until its
  commit; the store may fail, do part of what it was asked, or lose the answer; the
  commit may raise although it was done (`unheard`), and the clean-up then erases the
  objects of a row that is there; a request may die at any step (`stray`, `erased` are
  history).
* `TaskParts` puts the four together. Their routes share no row, lock or object, so one
  part moves in each behaviour, and one run explores all four.

### Board clients

* `BoardClients` extends `Tasks` with one client's board: the phone's
  (`board_controller.dart`, `board_screen.dart`) or the browser's (`kanban-board.tsx`,
  `app/page.tsx`), by `app`. A move is shown as a guess (`BeginMove`), stored (`Cache`,
  phone), sent and served as a request of `Tasks` (`Serve`, `CommitMove`, `Answers`) and
  settled (`SettleOnPage`, `SettleOnPhone`). A reload is `Fetch`, `Save`, `ShowOnPhone` or
  `ShowOnPage`, or `LoadFails`, which shows the stored board; reloads overlap each other
  and moves. The other writers of the page's board (`add`, `saveColumn`,
  `reorderColumn`, `deleteColumn` and the callbacks of the task drawer) put what they
  were answered with into the board they were called with: `BeginEdit`, `AnswerEdit`,
  `ShowEdit`, `FailEdit`. Their own requests are those of the collaborators. `Restart`
  closes and opens the app or the page while a request may still be served. A
  `Mover` is a client of `Tasks` that stands for one move in progress, an `Editor` one
  edit; the other clients are collaborators. History is `guessed`, a version the server
  did not answer with, and `tangled`: a move or an edit was begun while what was shown
  was not settled, that is while it held the guess of a move that may yet be refused, or
  while a reload the user had asked for was under way. The copy of the task that the open
  drawer keeps for itself (`selected`) is not modelled.

Operators marked `fault` are changed versions of the definition below them, the
way a plausible mistake in the code would change it. No specification uses them:
`PROJECT.json` lists, for each property of a passing run, one that breaks it.

## 4. Runs

| Run | Instance | Shows |
|---|---|---|
| `tasks_cas` | 1 task, 2 clients, 2 columns (one completes tasks), 2 titles, patch and move, versions to 3 | versions name states; `completed_at` follows the status; no silent overwrite; dependents told once; `TaskContract` is implemented |
| `tasks_lifecycle` | 1 task, 2 clients, all requests | types; no task in a deleted column |
| `tasks_overwrite` | 3 clients, all requests | **violated**: an unseen update is overwritten |
| `dependencies` | 3 tasks, 2 overlapping requests, up to 3 rows, tasks archived and restored; or a search of every graph on 3 tasks, in every order of its sets | types; a circle needs a row whose check had not read another row of it; the search answers reachability and ends |
| `queue` | 2 users, 2 changes, 2 overlapping calls, sign-outs, sign-ins and token refreshes at any time, kills; requests that are applied, in conflict, applied with a late or a hidden answer, or, after a sign-out, unauthorized or lost | a queued change stays until confirmed or discarded, a discarded one is gone; lists hold their owner's changes and are sent as their owner; conflicts wait; what left the list is final; `Outbox` is implemented; each until an overtaken call writes its list |
| `pipeline` | 1 user, 1 notification, 2 workers, instant email and push or hourly email | the table records exactly the sends that stand; `DeliveryContract` is implemented; everything is dispatched and every delivery ends unless dispatch is wedged |
| `workspaces` | 3 users (any may be a member at the start; who transferred the workspace is an admin), 1 invitation, 2 overlapping requests of all kinds, 1 worker | one owner, the member `owner_id` names, until a request writes members a transfer has changed after it had checked them; nobody joins an archived workspace by an invitation not accepted before; revoked invitations stay out; `DeliveryContract` is implemented |
| `accounts` | 1 user, 2 addresses, 3 sessions, 2 tokens, 2 overlapping requests | a revocation ends every session that was not being issued; a session that was refreshed stays revoked and has one successor unless refreshes overlapped; a token ends once and by its own purpose; an address becomes the account's only through its link; a deleted account stays anonymous unless a profile update or a change of email overlapped it |
| `board` | 3 columns, 3 names, 1 task, 2 overlapping requests | a column stays; no task in a deleted one; positions and names are right unless an unlocked check overlapped; two renumberings lock in one order; a deletion keeps the order of the rest |
| `webhooks` | 1 hook, changed or deleted at any time, its URL one that raises or not, 2 activities, 2 workers, 2 attempts | attempts are counted once; what ended stays; every activity a hook matched is queued, and ends unless a raising URL has an open delivery again and again |
| `task_parts` | 1 item, 2 clients, 2 titles, versions to 3; 2 entries, 1 person, 2 tasks; 1 field, 2 values; 2 files of size 1 or 2, quota 3, 2 uploads | conversion moves the current subtask once; task numbers have no gap or repetition; one running timer; values belong to a field and fit its options unless validated before a change; the quota; rows have their objects and objects their rows unless a fault or an erasure left them; `ItemContract` is implemented |
| `boards` | 1 task, 1 collaborator that moves, archives and restores, columns deleted, 1 move and 1 edit of the board at a time, versions to 2, phone and browser | the version a board sends is one the server answered with, and a guess is marked offline once no move is under way, unless a move or an edit was begun on a board that was not settled |

`QueueConsistent`, `SessionsConsistent`, `TokensConsistent`, `AccountsConsistent`,
`BoardConsistent`, `ItemsConsistent`, `ProductivityConsistent`, `AttachmentsConsistent` and
`BoardHonest` are conjunctions of the named invariants defined above them, the type
included; each conjunct has a comment of its own.

Bounds. Two requests suffice for every interleaving of one stale read with one
write; the overwrite after a reused version needs a third client that holds the
old copy. `MaxVersion` stops requests from starting on a row that is already
there; three writes of a row are enough to reuse a version and to be deceived by
it. Clients of one kind are symmetric. A circle of two needs two tasks, a path that
the search must follow needs three. Requests for a dependency begin while there are
fewer than `MaxEdges` rows.

In the queue two changes show every order of one list, two users every mixture of
two, and two calls every overlap of a list taken from memory with another one's write;
`applied` stops counting at 2, since no property tells three applications from
two. Nothing in the app depends on `applied`, so the run goes no further once a change was
applied twice (`AppliedOnce`); that second application is checked. Nor does it explore what
follows a torn list (`NotTorn`): the properties claim nothing from there on. The answer
`refused` is left to the theorems, which have them all: a `mutate` that gets it stores
nothing, and a replay keeps the change, as after `hidden`. `workspaces` likewise stops at the first split of the
ownership (`BeforeSplit`): a workspace that joins, invites and archives after it does so by
the roles it has, and the theorems about invitations cover those states too. Requests overlap
there until an invitation is emailed a second time (`FirstEmails`), since only the job looks
at the number of emails.

In the pipeline two workers
and one notification meet in every pair of jobs (two dispatches, a dispatch and a
digest, a delivery and a digest); more of them only add pairs, and the theorems of
section 5 cover any number. In a workspace three users are an owner, one who becomes
owner and one who acts on them, and two requests are every overlap of a stale read
with a write.

With two addresses and two tokens, a replaced row and its replacement exist together;
three sessions are one and two that both replace it; `MaxRows` bounds how many rows there
are. Three columns are the
fewest in which a deletion renumbers two; `Shift` (10000 in the code) exceeds every
position that renumbering gives, `MaxPosition` leaves room for a column at a shifted
one. Two attempts are a retry and the last one; two activities are a clash and what it
takes with it, and enough for a batch that is rolled back after a post. Quota 3 fits a
file of size 1 and one of size 2 and not two of size 2. On
the board `MaxVersion` 2 gives the collaborator a write beside a move, and a guess
may be one above it. To the board a patch is one more way
to make a new version, so the collaborator does not patch. One `Mover` and one `Editor`
are enough for a move and an edit that overlap; that moves overlap each other is in the
theorem.

Fairness. A Python loop runs to its end, so the next step of the search in
`DependencyChecks` is weakly fair. In the pipeline Celery Beat queues `notification_dispatch` every minute, so
every worker gets to scan again and again although digests compete (`SF` on `Scan`);
a job that started goes on (`WF` on `JobStep`); `next_attempt_at` passes (`WF` on
`FallDue`); and from some time on no worker dies in a job, since a worker that dies
each time before its commit delivers nothing. `Fail`, a job the database refuses, is
no such death and may go on forever. `FairSpec` of `Webhooks` assumes the same of
`webhook_dispatch`: `SF` on `Queue`, `WF` on `JobStep` and `FallDue`, and from some time on
no `Die`; clashing inserts may fail as often as they like. An exception that a URL
raises is no such death either: `PostRaises` is a step of the job and may recur for ever,
and `DeliveriesEnd` has an exception for it (`Wedged`). HTTP requests and the calls
of the queue and of a board may be abandoned at any step, so nothing is assumed of
them.

### Divergences

Where the code does less than it, its documents or a careful reader expect. In brackets
is the violated run that shows it, or the definition with the exception that the
properties make for it.

* `archive_task` and `restore_task` do `version += 1` on the object they loaded and
  flush it by id. A patch that commits in between is followed by the same or a
  smaller version, although `docs/ARCHITECTURE.md:77` says "Tasks carry a monotonic
  integer `version`."; and once a version is reused, a stale patch passes the
  compare-and-set, against line 79 of the same page. [run `tasks_overwrite`]
* `create_dependency` holds no lock between its check and its insert; and the check
  ignores edges of archived tasks, which `restore_task` brings back. Both ways lead
  to tasks that block each other, although the client says "Circular relationships are
  rejected by the server." (`web/components/task-collaboration-panel.tsx:125`).
  [`missed` in `Dependencies`]
* Every method of the offline queue computes the list it stores before the awaits of
  `_persist`. Two calls that overlap write two lists, and the later write drops what
  the earlier one added (or brings back what it discarded), after the user was told
  "Saved locally." (`task_detail_screen.dart:32`). [`torn` in `OfflineQueue`]
* `_persist` stores its list under the account that is signed in when it runs. After
  a sign-out and a sign-in during a request this is another account than the one the
  list was made for, although "Queued changes are persisted per authenticated user"
  (`README.md:176`); after a sign-out alone the change is dropped while `mutate`
  reports it as queued. The interceptor of `api.dart` can change the account too: a
  refresh under way at a sign-out signs its user in again. [`torn`, as well]
* `_send_digest` records an email row also for a notification with no dispatch row.
  If its user then chooses instant emails, dispatch inserts the same row and violates
  the unique constraint; since one transaction dispatches for everybody, every
  dispatch job fails from then on, until the notification is deleted. In the same
  way a digest that covers an instant email still pending or failed rolls the whole
  digest back, after its emails went out. [`Wedged` in `NotificationPipeline`]
* `process_webhook_deliveries` catches `httpx.HTTPError` only. `client.post` raises
  others, such as `httpx.InvalidURL`, on a URL that passed the check of the route. The
  exception ends the job and rolls back the batch, with the attempts of all other hooks
  that were posted by then; it does so at every run, as long as that hook has an open
  delivery and is active. [`Wedged` in `Webhooks`]
* `transfer_ownership` and the routes that change, remove or end a membership read
  without a lock and write by id. A transfer that commits between the read and the
  write of one of them can leave an owner who is not a member, or was demoted, and two
  transfers can leave two members with the role of owner. `docs/WORKSPACE_MANAGEMENT.md:24`
  says "Ownership must be transferred before an owner can leave a workspace."
  [`split` in `Workspaces`]
* `accept_invitation` checks `accepted_at` when it looks the token up and not when it
  writes, and archiving keeps the rows of accepted invitations. Of two overlapping
  acceptances of one token the second may therefore bring back a member who was
  removed in between, in a workspace that was archived in between. `JoinsActive`
  excepts this case.
* Two overlapping refreshes of one refresh token both find the session live and both
  get a new one. An update of the profile that overlaps the deletion of the account
  writes the name back, and a token that `change_email` mails meanwhile can bring back an
  address. [the exceptions in `RefreshReplaces` and `DeletedIsAnonymous`]
* A `delete_column` that waited for a reorder numbers the columns in the order from
  before it; a column created between the SELECT and the UPDATE of a renumbering stays
  at a shifted position; two columns at `p` and `p + 10000` make a renumbering fail; and
  overlapping creations or renames give two columns one name. [`overlap` in
  `BoardColumns`]
* Two overlapping stops of one timer both succeed and the later one rewrites
  `ended_at` (`contested`). `patch_custom_field` leaves values outside the new options
  (`late`). The objects of the attachments of a deleted comment are never erased
  (`stray`), and a commit that raises although it was done leaves a row without objects
  (`erased`). Two overlapping conversions of one subtask make two tasks (`raced`).
* A board may send a version it guessed when it is used before it is settled, and once a
  collaborator's update has taken that version the compare-and-set passes and replaces an
  update the user has not seen, against `docs/ARCHITECTURE.md:79`. In the browser a column
  reorder, an edit in the drawer or any other writer of the board that was begun while a
  move was in flight puts the guess back after the move was refused, and
  `app/page.tsx:30` does not refetch on column events (`kanban-board.tsx:63-162`). On the
  phone the guess stays after a conflict and moves are disabled by `offline`, but the
  button for a refresh rebuilds `BoardState` without `offline`
  (`board_controller.dart:41`) while the guess is still shown, so a move may begin before
  the answer. Two moves that overlap do the same on both. [`tangled` in `BoardClients`]
* In the browser the answer to a move is put into the board as it was when the move
  began. If a reload came in between, the other tasks go back to what they were, and a
  later reload that answers the same data does not repair it, since the effect runs
  only when the data changes. [`SettleOnPage`, `ShowOnPage`]

## 5. Proofs

`Tasks_proofs` proves `Spec => []TypeOK` and `ColumnExists` without assumptions and, when clients only
patch and move (`Kind \subseteq {"patch", "move"}`: with archive and restore the
claims are false, see the violated run), that a version names one state, that the
row loaded is the row written, that every write is versioned, that nothing unseen
is overwritten, that dependents are told once, and that `Tasks` implements
`TaskContract`. The inductive invariant adds to the properties that no copy and no
request is ahead of its row (`CopiesNotAhead`, `RequestsNotAhead`): a copy whose
version equals the current one then cannot have been taken from a later, undone
row, which is what archive and restore break.

`Tasks_proofs` also proves `BoardHonest` of `BoardClients` (`BoardStaysHonest`), for any
number of tasks, columns, collaborators, moves, edits and reloads in progress and requests
of every kind, without a hypothesis about which of them overlap: the property itself says
what an operation begun on an unsettled board may do. The invariant (`BoardInv`) says that
a request or a reload of a move does not outlive the step that waits for it (`MoveSound`),
that edits are the page's (`EditsOnPage`), that every board that was fetched is answered
(`Clean`), and, as long as nothing was begun on an unsettled board, that so are the boards
moves and edits began with and, once the moves are over, the board that is shown, unless it
is marked (`Settled`). `saved`, the stored board, may hold guesses: it is only ever shown
with the flag offline.

`Projects_proofs` proves, for any number of columns, names, tasks and requests in progress
and any bound on positions, that a board stays consistent (`BoardStaysConsistent`) and that
a deletion keeps the order of the columns (`DeletionsKeepOrder`). The assumptions are those
of `BoardColumns`: a board has finitely many columns, not more than the 10000 by which the
code shifts positions, so that a shifted position never meets a new one. `BoardConsistent`
is not inductive; the invariant (`IInv`) adds

* of every request by itself (`Sound`): a snapshot nobody renumbered after it is still the
  order of the columns, and the rows it holds come first in it (`Ordered`); it has every
  column unless a creation overlapped (`Complete`); a deletion that has moved the tasks holds
  its own column and another one, so one is left, and no task has come back (`Emptied`); the
  checks of a creation or a rename still hold unless they overlapped others (`Placed`,
  `Named`);
* of every two (`Apart`): they hold different rows, and overlaps were noted;
* of the columns: no two have one position (`PositionsApart`), the unique constraint.

`Ordered` gives `LocksOrdered`: each of two undisturbed requests would wait for a row behind
those it holds. Dense positions after a renumbering come from counting (`AllNumbers`, `Ranks`):
different numbers below n for n columns are all the numbers below n.

Of the dependencies `Projects_proofs` proves the types and, for any number of overlapping
requests, archives and restores, `CirclesWereMissed` (`CirclesAreMissed`): of the rows of a
circle one was inserted after a check that had not read another one of them, which was
being inserted meanwhile or belonged to an archived task. It rests on one lemma about
graphs, `AddEdge`: an edge a -> b keeps a graph free of circles when b does not reach a. The
invariant adds that a check that passed found no way from the blocked task to the blocker in
the rows it has read (`ChecksPassed`); what the insert then adds to a circle without a missed
pair are rows the check has read.

It also proves that the search of `DependencyChecks` answers right on every finite graph
(`NodeAssumption`: a project has finitely many tasks),
from the loop invariant: all that is seen or on the stack is reached; the successors
of what was seen are seen or on the stack; `blocked` is among them and `blocker` was
not seen.

`NotificationPipeline_proofs` proves, for any number of users, notifications,
preferences and workers (a finite set of them, `WorkerAssumption`), the types with the
bound of three attempts, `Accounted`, and that the pipeline implements `DeliveryContract`. The argument counts workers: `standing[r]` is the
number of open transactions that sent row `r`, plus one if the row is recorded as
sent. The invariant adds what each kind of job guarantees (`JobsSound`): a job that
has not begun to send has no results; the rows a delivery job holds stay open until
it commits, because nobody else locks, inserts or deletes them; a digest has a row
for exactly what it told, of users it is done with, so the next user's rows are new.
For deleted notifications only "at least" is kept, which is what a rollback needs.

`Workspaces_proofs` proves, for any number of users, invitations, overlapping requests
and workers, the types with the bound of three emails, `JoinsActive`,
`RevokedStaysOut` and that invitation emails implement `DeliveryContract`, all without
restricting which requests overlap. The invariant says that rows of invitations
that are gone stay gone and took their emails with them (`InvitesSound`), that a job
holds rows nobody else deletes or accepts (`JobsSound`), that what a request holds is
there (`Sound`), and that as long as the invitation it loaded waits for an answer the
workspace is active (`Accepting`): archiving deletes it in the same commit. `OneOwner`
(`OwnerUnique`) needs no restriction either, since it speaks of the time until a crossed
request writes: of every other request the invariant (`OwnerInv`) says that it has not
loaded the owner's row to write or delete it (`LeavesOwner`), unless it is the transfer the
owner asked for.

`TaskParts_proofs` proves the invariants of all four parts and that subtasks and
checklists implement `ItemContract`, for any number of rows and requests and any bounds
(`CallAssumption`: finitely many requests stop timers at a time, which bounds a counter of
the model). Each part has an inductive invariant of its own, and since no part writes what
another reads they hold together (`PartStep`).

* Items (`IInv`): no copy and no loaded row is ahead of the row, so equal versions are equal
  rows; what is removed stays removed; a request that holds the lock of the project has
  read the current counter.
* Timers (`TimersInv`): a running timer was stopped by nobody (`StopsNoted`), two requests
  to stop one entry are marked as overlapping, and the stops done plus those to come are
  at most the requests (`StopsBounded`).
* Custom fields (`FieldsInv`): a value that a request has validated is still allowed unless
  the request was told that the options changed, and a row it has found is there unless it
  was told that the row was lost (`SettersSound`).
* Attachments (`FilesInv`): file by file (`FileSound`) an upload has its file to itself and
  the store holds nothing of it but what the upload put there; a deletion knows the row,
  unless another one was faster, and at its commit the store is bare or the file is marked;
  rows that are gone left no objects unless marked. For the quota (`QuotaKept`) one upload
  at most holds the lock, and the sum it has read plus its size is within the quota until
  its commit: others only take rows away. The sum is the number of the bytes of all rows,
  a set, so that the prover can count it.

`OfflineQueue_proofs` proves, for any number of users, changes and calls in progress and
all answers, sign-outs, sign-ins, refreshes of tokens and kills of the app at any time, that
the lists lose, repeat and mix up nothing (`QueueConsistent`), that a conflict waits for the
user, that what left its list is not applied again, and that the stored lists implement
`Outbox`. There is no hypothesis about which calls overlap: `stale` and `torn` in the
properties say from where on they claim nothing. The invariant (`IInv`) is the form of each
call and, until a list is torn, `Sound`: the list in memory is the stored one of the user
whose queue is loaded, or is about to be replaced by it (`QueueLoaded`); a call that nothing
has overtaken acts for the account that is signed in (`CallOwned`), and what a sync has left
and built and what a call is about to write are made from the list that is stored now
(`CallPlaced`); two such calls are about different changes (`Apart`).

`Accounts_proofs` proves the four invariants of `Accounts` for any number of users, sessions,
tokens and overlapping requests. Its inductive invariant adds to them: what each kind of
request is about exists, and nobody else works on a user that is registering (`Requests`,
`Owned`); two requests hold different tokens, which have not ended (`Locks`); a revocation
at its commit has seen every live session of its user but those marked late
(`SeenSessions`), and a mailer or the deletion of an account every token it is to end, unless
it is late itself (`SeenTokens`); a request that another one spoils has noticed (`Noticed`); a session that was replaced is
revoked, and two that replace the same one are marked late (`Replaced`);
the address of a user with a verification mail is the one it was sent to or a proven one
(`Addresses`); and a deleted account that a request is still to write to is marked
(`Deleted`).

`Webhooks_proofs` proves, for any number of hooks, activities and workers, that every
attempt is counted once (`EveryAttemptCounted`) and that final deliveries are final
(`FinalStays`). The invariant has four parts beside the types. What each kind of job
guarantees (`JobsSound`): rows to insert are new, rows to post stay open until the commit,
because nobody else selects, inserts or deletes them. Open jobs lock different rows
(`LocksDisjoint`). The attempts that stand are those of the row plus the one of the job
that holds it (`Books`). Rows belong to hooks that are there (`Hooked`), since the deletion
of a hook waits for the locks.

Only model-checked. Liveness is beyond the prover: that the search ends, that
notifications are dispatched, that deliveries and activities end. The violated run needs
no proof: its counterexample is a trace.

## 6. Not modelled

* Comments, mentions, labels, reactions, watchers and assignees: single inserts and
  deletes whose races end in a unique constraint or a no-op.
* Personal API tokens, project fields, the archive of projects and project members:
  single-row writes by an administrator. A request begins while its project is active.
* Within `Tasks`, positions, due dates, priorities and activity rows, since no property
  depends on them; access rights are one of the reasons for `Fail`.
* In the pipeline the contents of messages, read marks, the batch limits and a push
  target shared by two users; in a workspace its name, the switch for guests and the
  audit log; in `Accounts` passwords, lockouts and the delay of mails; in `Webhooks` batch
  limits, URL checks and signatures; in the offline queue the contents of changes and
  the screens that show them; on the board the copy of the task that the open drawer keeps,
  what the phone does when it creates a task (it reloads), and the replay of queued moves,
  which is `OfflineQueue`.
* The rate limiter is an INCR and an EXPIRE in Redis. A crash between them leaves a
  counter without an end, which the next request of the same key repairs. Realtime
  events are published and forgotten: the models let every client go on with any copy
  it ever saw, which is what a lost event leaves it with.
* Templates, personalization, settings: rows written by one request from its body.
* Search, activity, analytics, insights and planning only read. Pages and screens,
  migrations, seed data, observability and deployment have no state of their own to
  model.
