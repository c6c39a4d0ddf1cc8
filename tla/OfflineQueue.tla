---------------------------- MODULE OfflineQueue ----------------------------
(***************************************************************************)
(* The queue of changes that the mobile app could not send                 *)
(* (mobile/lib/src/core/offline_queue.dart), between the account in secure *)
(* storage, the lists in SharedPreferences and the server.                 *)
(*                                                                         *)
(* Dart runs one call at a time between two awaits, so a step is what a    *)
(* call does from one await to the next.  Awaits are the read of secure    *)
(* storage in _ensureCurrentUser, the read of the list, the write of the   *)
(* list and the HTTP request.  Slot bounds the calls in progress.          *)
(***************************************************************************)
EXTENDS Naturals, SequencesExt

CONSTANTS
    User, NoUser,  \* accounts, and nobody signed in
    Mutation,      \* the changes users make, each at most once
    Slot,          \* calls of the controller that may be in progress together
    Answer         \* what the network may answer

\* "lost" never reached the server; "late" was applied, its answer timed out;
\* "hidden" was applied by the retry after a token refresh (api.dart), whose
\* answer was lost, so that the first answer, a 401, is what the call gets.
Answers == {"ok", "conflict", "unauthorized", "refused", "lost", "late", "hidden"}

ASSUME AnswerAssumption == Answer \subseteq Answers
ASSUME NoUserAssumption == NoUser \notin User \cup Mutation

VARIABLES
    account,    \* current_user_id of secure storage
    disk,       \* disk[u]: the list of SharedPreferences under the key of u
    queue,      \* _loadedUserId and the OfflineQueueState in memory
    call,       \* call[s]: the call in slot s, between two awaits
    \* History, for the properties:
    author,     \* author[m]: who made m, or NoUser before it is made
    accepted,   \* changes that mutate reported as queued or in conflict
    settled,    \* changes the server confirmed to the app or the user discards
    discarded,  \* changes whose discard has returned
    applied,    \* applied[m]: times the server applied m, 2 standing for more
    stale,      \* calls whose list or change another call or account overtook
    torn        \* a stale call has put its list in memory or in storage

deeds == <<author, accepted, settled, discarded, applied>>
history == <<deeds, stale, torn>>
vars == <<account, disk, queue, call, history>>

Statuses == {"pending", "conflict", "authRequired", "failed"}
Item == [id: Mutation, status: Statuses]

-----------------------------------------------------------------------------
(* Lists of items.                                                         *)

Members(list) == {list[i] : i \in DOMAIN list}
Ids(list) == [i \in DOMAIN list |-> list[i].id]
Has(list, m) == m \in Members(Ids(list))
Entry(m, status) == [id |-> m, status |-> status]

\* The ids in a list are distinct: one item leaves, or none.
Without(list, m) ==
    IF Has(list, m) THEN RemoveAt(list, CHOOSE i \in DOMAIN list : list[i].id = m) ELSE list

WithStatus(list, m, status) ==
    [i \in DOMAIN list |-> IF list[i].id = m THEN Entry(m, status) ELSE list[i]]

-----------------------------------------------------------------------------

NoQueue == [user |-> NoUser, loading |-> TRUE, syncing |-> FALSE, items |-> <<>>]

Idle == [at |-> "idle", kind |-> "none", id |-> NoUser, uid |-> NoUser, as |-> NoUser,
         list |-> <<>>, rest |-> <<>>, offline |-> FALSE]

\* "start" is the initialize, then sync, of a sign-in (app.dart).
Kinds == {"initialize", "start", "mutate", "sync", "discard", "retry", "apply"}

TypeOK ==
    /\ account \in User \cup {NoUser}
    /\ disk \in [User -> Seq(Item)]
    /\ queue \in [user: User \cup {NoUser}, loading: BOOLEAN, syncing: BOOLEAN,
                  items: Seq(Item)]
    /\ call \in [Slot ->
         [at: {"idle", "enter", "load", "request", "persist", "reload", "write",
               "replay", "replaying"},
          kind: Kinds \cup {"none"}, id: Mutation \cup {NoUser},
          uid: User \cup {NoUser}, as: User \cup {NoUser},
          list: Seq(Item), rest: Seq(Item), offline: BOOLEAN]]
    /\ author \in [Mutation -> User \cup {NoUser}]
    /\ accepted \in SUBSET Mutation
    /\ settled \in SUBSET Mutation
    /\ discarded \in SUBSET Mutation
    /\ applied \in [Mutation -> 0..2]
    /\ stale \in SUBSET Slot
    /\ torn \in BOOLEAN

Init == /\ account \in User
        /\ disk = [u \in User |-> <<>>]
        /\ queue = NoQueue
        /\ call = [s \in Slot |-> Idle]
        /\ author = [m \in Mutation |-> NoUser]
        /\ accepted = {} /\ settled = {} /\ discarded = {}
        /\ applied = [m \in Mutation |-> 0]
        /\ stale = {} /\ torn = FALSE

-----------------------------------------------------------------------------
\* The status an unanswered or refused change gets.
StatusOf(answer) == CASE answer = "conflict"        -> "conflict"
                      [] answer \in {"unauthorized", "hidden"} -> "authRequired"
                      [] answer \in {"lost", "late"} -> "pending"
                      [] answer = "refused"         -> "failed"

-----------------------------------------------------------------------------
(* History of overlapping calls.                                           *)

\* Fault: whose list is loaded is not compared.
AnyLoaded == account # NoUser /\ queue.user # NoUser /\ ~queue.loading

SameUserLoaded == account # NoUser /\ queue.user = account /\ ~queue.loading

\* The call has looked at the account, or it is about a change.
Bound(k) == k.at \notin {"idle", "enter"} \/ k.id # NoUser

\* The call works on a list that it took from memory, or on a change it saw there.
Holds(k) == \/ k.at \in {"replay", "replaying", "persist", "reload", "write"}
            \/ k.at = "request" /\ k.kind = "apply"

\* The list in memory is about to be replaced by the stored one, or the stored
\* one by it.
Pending(k) == \/ k.at \in {"load", "reload"}
              \/ k.kind = "sync" /\ k.at \in {"persist", "write"}

Unsteady(s) == \E r \in Slot \ {s} : Pending(call[r])

\* Calls are stale until they are over.
Marks(missed) == stale' = {r \in stale \cup missed : Bound(call'[r])}

Takes(s) == call[s].at \in {"enter", "load", "request"} /\ Holds(call'[s])

\* s goes on; it is stale if it takes a list that is about to be replaced.
Moves(s) == Marks(IF Takes(s) /\ Unsteady(s) THEN {s} ELSE {})

\* s puts a list where others will find it.
Tears(s) == torn' = (torn \/ s \in stale)

-----------------------------------------------------------------------------
(* Steps of a call.                                                        *)

StorageKey(u) == u

Return(s) == call' = [call EXCEPT ![s] = Idle]

\* The call goes on with a call of sync.
Syncs(s) == call' = [call EXCEPT ![s] = [Idle EXCEPT !.at = "enter", !.kind = "sync"]]

\* The HTTP request leaves with the token of whoever is signed in.
Sends(s) == call' = [call EXCEPT ![s] = [@ EXCEPT !.at = "request", !.as = account]]

\* _persist(list) begins with _ensureCurrentUser.
Persists(s, list) == call' = [call EXCEPT ![s] = [@ EXCEPT !.at = "persist", !.list = list]]

\* What the user interface can ask for: Sync Center offers apply for conflicts
\* and retry for the other items; sync also runs on screens and after a sign-in.
Offered(kind, m) ==
    \/ kind \in {"initialize", "start"} /\ queue.loading /\ m = NoUser
    \/ kind = "sync" /\ m = NoUser
    \/ kind = "mutate" /\ account # NoUser /\ m \in Mutation /\ author[m] = NoUser
    \/ kind = "discard" /\ Has(queue.items, m)
    \/ kind = "retry" /\ \E st \in Statuses \ {"conflict"} : Entry(m, st) \in Members(queue.items)
    \/ kind = "apply" /\ Entry(m, "conflict") \in Members(queue.items)

Call(s, kind, m) ==
    /\ call[s] = Idle
    /\ Offered(kind, m)
    /\ call' = [call EXCEPT ![s] = [Idle EXCEPT !.at = "enter", !.kind = kind, !.id = m]]
    /\ author' = IF kind = "mutate" THEN [author EXCEPT ![m] = account] ELSE author
    /\ settled' = IF kind = "discard" THEN settled \cup {m} ELSE settled
    /\ Marks(IF kind \in {"discard", "retry", "apply"} /\ (~SameUserLoaded \/ Unsteady(s))
             THEN {s} ELSE {})
    /\ UNCHANGED <<account, disk, queue, accepted, discarded, applied, torn>>

\* What the method does after _ensureCurrentUser, q being the state it finds.
Proceed(s, q) ==
    LET k == call[s] IN
    \/ /\ k.kind = "initialize"
       /\ queue' = q /\ Return(s)
    \/ /\ k.kind = "start"
       /\ queue' = q /\ Syncs(s)
    \/ /\ k.kind = "mutate"
       /\ queue' = q /\ Sends(s)
    \/ /\ k.kind = "sync" /\ (q.syncing \/ q.items = <<>>)
       /\ queue' = q /\ Return(s)
    \/ /\ k.kind = "sync" /\ ~q.syncing /\ q.items # <<>>
       /\ queue' = [q EXCEPT !.syncing = TRUE]
       /\ call' = [call EXCEPT ![s] = [@ EXCEPT !.at = "replay", !.rest = q.items,
                                                 !.list = <<>>, !.offline = FALSE]]
    \/ /\ k.kind = "discard"
       /\ queue' = q /\ Persists(s, Without(q.items, k.id))
    \/ /\ k.kind = "retry"
       /\ queue' = q /\ Persists(s, WithStatus(q.items, k.id, "pending"))
    \/ /\ k.kind = "apply"
       /\ queue' = q
       /\ IF Has(q.items, k.id) THEN Sends(s) ELSE Return(s)

\* _ensureCurrentUser has returned true: to the method, or to _persist.
Resume(s, q) ==
    \/ /\ call[s].at \in {"enter", "load"}
       /\ Proceed(s, q)
    \/ /\ call[s].at \in {"persist", "reload"}
       /\ queue' = q
       /\ IF q.user = NoUser THEN Return(s)
          ELSE call' = [call EXCEPT ![s] = [@ EXCEPT !.at = "write", !.uid = q.user]]

Ensure(s) ==
    /\ call[s].at \in {"enter", "persist"}
    /\ SameUserLoaded
    /\ Resume(s, queue)
    /\ Moves(s)
    /\ UNCHANGED <<account, disk, deeds, torn>>

\* Another account: its list has to be read.
EnsureOther(s) ==
    /\ call[s].at \in {"enter", "persist"}
    /\ account # NoUser /\ ~SameUserLoaded
    /\ queue' = [queue EXCEPT !.user = account]
    /\ call' = [call EXCEPT ![s] = [@ EXCEPT !.uid = account,
                                              !.at = IF call[s].at = "enter" THEN "load" ELSE "reload"]]
    /\ Moves(s)
    /\ UNCHANGED <<account, disk, deeds, torn>>

Load(s) ==
    /\ call[s].at \in {"load", "reload"}
    /\ Resume(s, [NoQueue EXCEPT !.user = queue.user, !.loading = FALSE,
                                 !.items = disk[StorageKey(call[s].uid)]])
    /\ Moves(s)
    /\ torn' = (torn \/ call[s].uid # queue.user)
    /\ UNCHANGED <<account, disk, deeds>>

\* Nobody is signed in: the state is emptied and the call gives up.  A mutate
\* that was about to persist still returns that the change is queued.
EnsureNobody(s) ==
    /\ call[s].at \in {"enter", "persist"}
    /\ account = NoUser
    /\ queue' = IF queue.user # NoUser \/ queue.loading
                THEN [NoQueue EXCEPT !.loading = FALSE] ELSE queue
    /\ Return(s)
    /\ accepted' = IF call[s].at = "persist" /\ call[s].kind = "mutate"
                   THEN accepted \cup {call[s].id} ELSE accepted
    /\ Moves(s)
    /\ IF call[s].at = "persist" THEN Tears(s) ELSE UNCHANGED torn
    /\ UNCHANGED <<account, disk, author, settled, discarded, applied>>

\* The rest of _persist: setString, then the state of the controller.
WriteDiskOnly(s) ==   \* Fault: the list in memory stays as it was.
    LET k == call[s] IN
    /\ k.at = "write"
    /\ disk' = [disk EXCEPT ![StorageKey(k.uid)] = k.list]
    /\ IF k.kind = "retry" THEN Syncs(s) ELSE Return(s)
    /\ accepted' = IF k.kind = "mutate" THEN accepted \cup {k.id} ELSE accepted
    /\ discarded' = IF k.kind = "discard" THEN discarded \cup {k.id} ELSE discarded
    /\ Marks({r \in Slot : Holds(call[r])}) /\ Tears(s)
    /\ UNCHANGED <<account, queue, author, settled, applied>>

Write(s) ==
    LET k == call[s] IN
    /\ k.at = "write"
    /\ disk' = [disk EXCEPT ![StorageKey(k.uid)] = k.list]
    /\ queue' = [queue EXCEPT !.loading = FALSE, !.items = k.list]
    /\ IF k.kind = "retry" THEN Syncs(s) ELSE Return(s)
    /\ accepted' = IF k.kind = "mutate" THEN accepted \cup {k.id} ELSE accepted
    /\ discarded' = IF k.kind = "discard" THEN discarded \cup {k.id} ELSE discarded
    /\ Marks({r \in Slot : Holds(call[r])}) /\ Tears(s)
    /\ UNCHANGED <<account, author, settled, applied>>

-----------------------------------------------------------------------------
(* Answers of the server.  as is whose token the request carried: without  *)
(* one the server answers 401.                                             *)

Answered(as) == IF as = NoUser THEN {"unauthorized", "lost"} ELSE Answer

\* The server applies the change, even if the answer comes too late.
Applies(m, answer) ==
    applied' = IF answer \in {"ok", "late", "hidden"} /\ applied[m] < 2
               THEN [applied EXCEPT ![m] = @ + 1] ELSE applied

Settles(m, answer) ==
    settled' = IF answer = "ok" THEN settled \cup {m} ELSE settled

\* mutate: what could not be sent is appended to the list in memory.
MutateAnswer(s, answer) ==
    LET m == call[s].id IN
    /\ call[s].at = "request" /\ call[s].kind = "mutate"
    /\ answer \in Answered(call[s].as)
    /\ IF answer \in {"ok", "refused"} THEN Return(s)
       ELSE Persists(s, Append(queue.items, Entry(m, StatusOf(answer))))
    /\ Applies(m, answer) /\ Settles(m, answer) /\ Moves(s)
    /\ UNCHANGED <<account, disk, queue, author, accepted, discarded, torn>>

\* applyLocalConflict: applied, the change is discarded; else it stays.
ApplyAnswer(s, answer) ==
    LET m == call[s].id IN
    /\ call[s].at = "request" /\ call[s].kind = "apply"
    /\ answer \in Answered(call[s].as)
    /\ IF answer = "ok"
       THEN call' = [call EXCEPT ![s] = [Idle EXCEPT !.at = "enter", !.kind = "discard",
                                                     !.id = m]]
       ELSE Persists(s, WithStatus(queue.items, m,
                          IF answer = "conflict" THEN "conflict" ELSE "failed"))
    /\ Applies(m, answer) /\ Settles(m, answer) /\ Moves(s)
    /\ UNCHANGED <<account, disk, queue, author, accepted, discarded, torn>>

\* The GET that applyLocalConflict sends first has failed.
GiveUp(s) ==
    /\ call[s].at = "request" /\ call[s].kind = "apply"
    /\ Answer # {"ok"}
    /\ Return(s) /\ Moves(s)
    /\ UNCHANGED <<account, disk, queue, deeds, torn>>

-----------------------------------------------------------------------------
(* The loop of sync: rest is what is left of sourceItems, list is next.    *)

\* Fault: conflicts are sent again like the others.
KeepsOffline(k) == k.offline

Keeps(k) == k.offline \/ Head(k.rest).status = "conflict"

Keep(s) ==
    LET k == call[s] IN
    /\ k.at = "replay" /\ k.rest # <<>>
    /\ Keeps(k)
    /\ call' = [call EXCEPT ![s] = [k EXCEPT !.list = Append(k.list, Head(k.rest)),
                                              !.rest = Tail(k.rest)]]
    /\ UNCHANGED <<account, disk, queue, history>>

Replay(s) ==
    LET k == call[s] IN
    /\ k.at = "replay" /\ k.rest # <<>>
    /\ ~Keeps(k)
    /\ call' = [call EXCEPT ![s] = [@ EXCEPT !.at = "replaying", !.as = account]]
    /\ UNCHANGED <<account, disk, queue, history>>

\* Fault: what is left is put in front.
Reversed(list, m, answer) ==
    IF answer = "ok" THEN list ELSE <<Entry(m, StatusOf(answer))>> \o list

Remaining(list, m, answer) ==
    IF answer = "ok" THEN list ELSE Append(list, Entry(m, StatusOf(answer)))

ReplayAnswer(s, answer) ==
    LET k == call[s]
        m == Head(k.rest).id IN
    /\ k.at = "replaying"
    /\ answer \in Answered(k.as)
    /\ call' = [call EXCEPT ![s] = [k EXCEPT !.at = "replay", !.rest = Tail(k.rest),
                                              !.list = Remaining(k.list, m, answer),
                                              !.offline = answer \in {"lost", "late"}]]
    /\ Applies(m, answer) /\ Settles(m, answer) /\ Moves(s)
    /\ UNCHANGED <<account, disk, queue, author, accepted, discarded, torn>>

Finish(s) ==
    LET k == call[s] IN
    /\ k.at = "replay" /\ k.rest = <<>>
    /\ queue' = [queue EXCEPT !.loading = FALSE, !.syncing = FALSE, !.items = k.list]
    /\ Persists(s, k.list) /\ Moves(s) /\ Tears(s)
    /\ UNCHANGED <<account, disk, deeds>>

-----------------------------------------------------------------------------
(* Accounts and restarts.                                                  *)

\* saveTokens of a sign-in or clearTokens of a sign-out, and the initialize
\* with which app.dart answers either.
SwitchTo(s, u) ==
    /\ account # u /\ (account = NoUser \/ u = NoUser)
    /\ call[s] = Idle
    /\ account' = u
    /\ call' = [call EXCEPT ![s] = [Idle EXCEPT !.at = "enter",
                    !.kind = IF u = NoUser THEN "initialize" ELSE "start"]]
    /\ Marks({r \in Slot : Bound(call[r])})
    /\ UNCHANGED <<disk, queue, deeds, torn>>

\* A request was answered 401: the interceptor refreshes the tokens of the user
\* who sent it, or of whoever is signed in by then, saves them, which signs
\* that user in, and sends the request again.
Refresh(s, u) ==
    /\ call[s].at \in {"request", "replaying"}
    /\ u \in {call[s].as, account} \ {NoUser}
    /\ {call[s].as, account} # {u}
    /\ account' = u
    /\ call' = [call EXCEPT ![s].as = u]
    /\ Marks({r \in Slot : Bound(call[r])})
    /\ UNCHANGED <<disk, queue, deeds, torn>>

\* The app is killed; secure storage and SharedPreferences stay.
Crash ==
    /\ queue' = NoQueue
    /\ call' = [s \in Slot |-> Idle]
    /\ Marks({})
    /\ UNCHANGED <<account, disk, deeds, torn>>

-----------------------------------------------------------------------------

Step(s) ==
    \/ Ensure(s) \/ EnsureOther(s) \/ Load(s) \/ EnsureNobody(s) \/ Write(s)
    \/ \E answer \in Answers :
         MutateAnswer(s, answer) \/ ApplyAnswer(s, answer) \/ ReplayAnswer(s, answer)
    \/ GiveUp(s) \/ Keep(s) \/ Replay(s) \/ Finish(s)

Next ==
    \/ \E s \in Slot : Step(s)
    \/ \E s \in Slot, kind \in Kinds, m \in Mutation \cup {NoUser} : Call(s, kind, m)
    \/ \E s \in Slot, u \in User \cup {NoUser} : SwitchTo(s, u)
    \/ \E s \in Slot, u \in User : Refresh(s, u)
    \/ Crash

Spec == Init /\ [][Next]_vars

-----------------------------------------------------------------------------
(* Properties.                                                             *)

(* A change the app has reported as queued or in conflict stays in the     *)
(* stored list of its author until the server confirmed it or the user     *)
(* discarded it, also across a crash (mutate, _persist, sync).             *)
NothingLost ==
    \A m \in accepted \ settled : Has(disk[author[m]], m)

(* The list stored for an account holds only changes this account made     *)
(* (_ensureCurrentUser against _persist).                                  *)
OwnItemsOnly ==
    \A u \in User : \A m \in Members(Ids(disk[u])) : author[m] = u

(* A change is replayed with nobody's token but its author's, unless the   *)
(* account changed under the sync (_ensureCurrentUser, sync).              *)
SentAsAuthor ==
    \A s \in Slot \ stale : call[s].at = "replaying" =>
        call[s].as \in {author[Head(call[s].rest).id], NoUser}

(* Once discard has returned, the change is gone from storage for good: no *)
(* list built earlier brings it back (discard against sync and retry).     *)
DiscardedIsGone ==
    \A u \in User : Members(Ids(disk[u])) \cap discarded = {}

(* However calls, sign-ins and kills interleave, the stored lists lose,    *)
(* repeat and mix up nothing until a call that another one has overtaken   *)
(* writes the list it took before: nothing else does harm (_persist).      *)
QueueConsistent ==
    /\ TypeOK
    /\ ~torn => /\ NothingLost /\ OwnItemsOnly /\ SentAsAuthor /\ DiscardedIsGone
                /\ \A u \in User : IsInjective(Ids(disk[u]))

(* A change stored as a conflict reaches the server only when the user     *)
(* applies it: replays leave it alone, but for a sync whose items another  *)
(* call has overtaken (sync, applyLocalConflict).                          *)
ConflictsWait ==
    [][\A m \in Mutation, u \in User :
         applied'[m] > applied[m] /\ Entry(m, "conflict") \in Members(disk[u]) =>
             \/ torn
             \/ \E s \in Slot : /\ call'[s] # call[s]
                               /\ (s \in stale \/ (call[s].kind = "apply" /\ call[s].id = m))]_vars

(* A change that left the stored list is final: no list in memory makes    *)
(* the server apply it again, whatever is synced, retried or applied, but  *)
(* for a call that another one has overtaken.  As long as it is stored it  *)
(* may be applied again, after a late answer or a kill before the write    *)
(* (_persist, sync).                                                       *)
LeftIsFinal ==
    [][\A m \in accepted :
         applied'[m] # applied[m] /\ ~Has(disk[author[m]], m) =>
             torn \/ \E s \in stale : call'[s] # call[s]]_vars

(* The stored lists are an outbox until a call that another one has        *)
(* overtaken writes its list (mutate, sync, discard, applyLocalConflict).  *)
Stored == INSTANCE Outbox WITH outbox <- [u \in User |-> Ids(disk[u])]
ImplementsOutbox ==
    Stored!Init /\ [][torn' \/ Stored!Next \/ UNCHANGED Stored!vars]_vars
=============================================================================
