----------------------------- MODULE Workspaces -----------------------------
(***************************************************************************)
(* One workspace: its members and owner, its invitations and the job that  *)
(* emails them (backend/app/api/routes/workspaces.py, worker.py).          *)
(*                                                                         *)
(* A request has three steps: Begin (require_workspace, or the invitation  *)
(* of a token), Load (the rows it is about, and the checks on them) and    *)
(* the commit.  The ORM writes rows by id at the commit: an UPDATE of a    *)
(* row that is gone fails the request, a DELETE of one changes nothing,    *)
(* and a column is written only if it differs from what was loaded.        *)
(***************************************************************************)
EXTENDS Naturals

CONSTANTS
    User, NoUser,
    Invitation,     \* the invitations there may be
    Request,        \* requests that may be in progress together
    Role,           \* the roles requests ask for
    Worker          \* processes of the Celery worker

ASSUME NoUserAssumption == NoUser \notin User /\ NoUser \notin Invitation
ASSUME RoleAssumption == Role \subseteq {"admin", "member", "guest"}

VARIABLES
    status,     \* "active", "archived" (a row of workspace_archives), "deleted"
    owner,      \* owner_id of the workspace
    role,       \* role[u] in workspace_members, or "none"
    invite,     \* invite[i]: the row of workspace_invitations
    delivery,   \* delivery[i]: its delivery_status and delivery_attempts
    request,    \* request[q]: the request q, between two of its steps; its held
                \* are the users whose loaded rows of members are still there
    job,        \* job[w]: invitations that the job of worker w has locked
    \* History, for the properties:
    revoked,    \* invitations cancelled, rejected or dropped by archiving
    crossed,    \* requests that checked a member whom a transfer of the
                \* ownership has changed since
    split       \* one of those has written members or the owner

marks == <<crossed, split>>
vars == <<status, owner, role, invite, delivery, request, job, revoked, marks>>
rows == <<status, owner, role, invite, delivery, revoked>>

Roles == {"owner", "admin", "member", "guest"}
MaxAttempts == 3

NoInvite == [state |-> "none", for |-> NoUser, role |-> "none"]
NoDelivery == [status |-> "none", attempts |-> 0]

Kinds == {"role", "remove", "leave", "transfer", "invite", "cancel", "accept",
          "reject", "archive", "restore", "delete"}

Idle == [at |-> "idle", kind |-> "none", actor |-> NoUser, as |-> "none",
         target |-> NoUser, to |-> "none", found |-> "none", was |-> NoUser,
         held |-> {}]

RowsOK ==
    /\ status \in {"active", "archived", "deleted"}
    /\ owner \in User
    /\ role \in [User -> Roles \cup {"none"}]
    /\ invite \in [Invitation -> [state: {"none", "open", "expired", "accepted", "gone"},
                                  for: User \cup {NoUser}, role: Role \cup {"none"}]]
    /\ delivery \in [Invitation -> [status: {"none", "pending", "failed", "sent"},
                                    attempts: 0..MaxAttempts]]
    /\ request \in [Request -> [at: {"idle", "load", "write"}, kind: Kinds \cup {"none"},
                                actor: User \cup {NoUser}, as: Roles \cup {"none"},
                                target: User \cup Invitation \cup {NoUser},
                                to: Role \cup {"none"}, found: Roles \cup {"none"},
                                was: User \cup {NoUser}, held: SUBSET User]]
    /\ job \in [Worker -> SUBSET Invitation]
    /\ revoked \in SUBSET Invitation

(* The type of the state; an invitation is emailed at most three times.    *)
TypeOK == RowsOK /\ crossed \in SUBSET Request /\ split \in BOOLEAN

\* create_workspace, and whoever joined since.
Init == /\ status = "active"
        /\ owner \in User
        /\ role \in {r \in [User -> Role \cup {"owner", "none"}] :
                       \A u \in User : r[u] = "owner" <=> u = owner}
        /\ invite = [i \in Invitation |-> NoInvite]
        /\ delivery = [i \in Invitation |-> NoDelivery]
        /\ request = [q \in Request |-> Idle]
        /\ job = [w \in Worker |-> {}]
        /\ revoked = {} /\ crossed = {} /\ split = FALSE

-----------------------------------------------------------------------------
(* Who may do what (backend/app/domain/collaboration.py).                  *)

CanInvite(as, to) == \/ as = "owner" /\ to \in {"admin", "member", "guest"}
                     \/ as = "admin" /\ to \in {"member", "guest"}

\* Fault: the role of the member is not looked at.
CanManageAnyone(as, found) == as \in {"owner", "admin"}

CanManage(as, found) == \/ as = "owner" /\ found # "owner"
                        \/ as = "admin" /\ found \notin {"owner", "admin"}

Exists(i) == invite[i].state \in {"open", "expired", "accepted"}

\* The job holds the lock of the row; who writes the row waits.
Locked(i) == \E w \in Worker : i \in job[w]

-----------------------------------------------------------------------------
(* The first step of a request.                                            *)

\* What require_workspace asks of each kind of request.
Allowed(kind, as) ==
    \/ kind \in {"role", "remove", "invite", "cancel"}
         /\ as \in {"owner", "admin"} /\ status = "active"
    \/ kind \in {"transfer", "archive"} /\ as = "owner" /\ status = "active"
    \/ kind \in {"restore", "delete"} /\ as = "owner"
    \/ kind = "leave" /\ as \in Roles \ {"owner"}

\* What a request is about: a member, an invitation, or the workspace.
Targets(kind) == CASE kind \in {"role", "remove", "transfer", "invite"} -> User
                   [] kind \in {"cancel", "accept", "reject"} -> Invitation
                   [] OTHER -> {NoUser}

Begins(q, kind, actor, target, to) ==
    /\ request[q] = Idle
    /\ request' = [request EXCEPT ![q] =
         [Idle EXCEPT !.at = "load", !.kind = kind, !.actor = actor, !.as = role[actor],
                      !.target = target, !.to = to]]
    /\ UNCHANGED <<rows, job>>

Begin(q, kind, actor, target, to) ==
    /\ Allowed(kind, role[actor])
    /\ kind = "transfer" => target # actor
    /\ Begins(q, kind, actor, target, to)

\* _invitation_from_token: accept and reject ask for no membership.
BeginToken(q, kind, i) ==
    /\ invite[i].state = "open" /\ status # "archived"
    /\ Begins(q, kind, invite[i].for, i, "none")

-----------------------------------------------------------------------------
(* The second step: the rows the request is about.                         *)

Is(q, at, kind) == request[q].at = at /\ request[q].kind = kind

\* The request has read the rows of the members us, and the role found.
Loads(q, us, found) ==
    /\ request' = [request EXCEPT ![q].at = "write", ![q].found = found, ![q].held = us]
    /\ UNCHANGED <<rows, job>>

LoadMember(q) ==
    LET k == request[q] IN
    /\ Is(q, "load", "role") \/ Is(q, "load", "remove")
    /\ role[k.target] # "none"
    /\ CanManage(k.as, role[k.target])
    /\ k.kind = "role" => CanInvite(k.as, k.to)
    /\ Loads(q, {k.target}, role[k.target])

LoadOwn(q) ==
    LET k == request[q] IN
    /\ Is(q, "load", "leave") \/ Is(q, "load", "accept")
    /\ Loads(q, {u \in {k.actor} : role[u] # "none"}, role[k.actor])

LoadTransfer(q) ==
    LET k == request[q] IN
    /\ Is(q, "load", "transfer")
    /\ role[k.actor] # "none" /\ role[k.target] # "none"
    /\ request' = [request EXCEPT ![q].at = "write", ![q].as = role[k.actor],
                                  ![q].found = role[k.target], ![q].was = owner,
                                  ![q].held = {k.actor, k.target}]
    /\ UNCHANGED <<rows, job>>

LoadInvite(q) ==
    LET k == request[q] IN
    /\ Is(q, "load", "invite")
    /\ CanInvite(k.as, k.to)
    /\ role[k.target] = "none"
    /\ \A i \in Invitation : ~(invite[i].for = k.target /\ invite[i].state = "open")
    /\ Loads(q, {}, "none")

LoadCancel(q) ==
    LET k == request[q] IN
    /\ Is(q, "load", "cancel")
    /\ invite[k.target].state \in {"open", "expired"}
    /\ CanInvite(k.as, invite[k.target].role)
    /\ Loads(q, {}, "none")

LoadWorkspace(q) ==
    /\ \/ Is(q, "load", "restore") /\ status = "archived"
       \/ (Is(q, "load", "archive") \/ Is(q, "load", "delete")) /\ status # "deleted"
       \/ Is(q, "load", "reject")
    /\ Loads(q, {}, "none")

-----------------------------------------------------------------------------
(* The commit.                                                             *)

\* The request ends, and the rows of the members gone are deleted.
Done(q, gone) ==
    /\ request' = [p \in Request |-> IF p = q THEN Idle
                                     ELSE [request[p] EXCEPT !.held = @ \ gone]]
    /\ UNCHANGED job

\* The rows of some invitations are deleted.
Drop(I) ==
    /\ \A i \in I : ~Locked(i)
    /\ invite' = [i \in Invitation |-> IF i \in I /\ Exists(i)
                                       THEN [NoInvite EXCEPT !.state = "gone"] ELSE invite[i]]
    /\ delivery' = [i \in Invitation |-> IF i \in I THEN NoDelivery ELSE delivery[i]]

CommitRole(q) ==
    LET k == request[q] IN
    /\ Is(q, "write", "role")
    /\ k.to # k.found => k.target \in k.held
    /\ role' = IF k.to # k.found THEN [role EXCEPT ![k.target] = k.to] ELSE role
    /\ Done(q, {})
    /\ UNCHANGED <<status, owner, invite, delivery, revoked>>

\* remove_member and leave_workspace.
CommitRemove(q) ==
    LET k == request[q] IN
    /\ Is(q, "write", "remove") \/ Is(q, "write", "leave")
    /\ role' = [u \in User |-> IF u \in k.held THEN "none" ELSE role[u]]
    /\ Done(q, k.held)
    /\ UNCHANGED <<status, owner, invite, delivery, revoked>>

\* Three rows, each written if it is to differ from what was loaded.
CommitTransfer(q) ==
    LET k == request[q]
        changed == {u \in {k.actor} : k.as # "admin"} \cup {u \in {k.target} : k.found # "owner"}
    IN
    /\ Is(q, "write", "transfer")
    /\ k.was # k.target => status # "deleted"
    /\ changed \subseteq k.held
    /\ owner' = IF k.was # k.target THEN k.target ELSE owner
    /\ role' = [u \in User |-> IF u \notin changed THEN role[u]
                               ELSE IF u = k.target THEN "owner" ELSE "admin"]
    /\ Done(q, {})
    /\ UNCHANGED <<status, invite, delivery, revoked>>

CommitInvite(q, i) ==
    LET k == request[q] IN
    /\ Is(q, "write", "invite")
    /\ invite[i] = NoInvite /\ status # "deleted"
    /\ invite' = [invite EXCEPT ![i] = [state |-> "open", for |-> k.target, role |-> k.to]]
    /\ delivery' = [delivery EXCEPT ![i] = [status |-> "pending", attempts |-> 0]]
    /\ Done(q, {})
    /\ UNCHANGED <<status, owner, role, revoked>>

\* cancel_invitation and reject_invitation.
CommitDrop(q) ==
    LET i == request[q].target IN
    /\ Is(q, "write", "cancel") \/ Is(q, "write", "reject")
    /\ Drop({i})
    /\ revoked' = IF invite[i].state = "accepted" THEN revoked ELSE revoked \cup {i}
    /\ Done(q, {})
    /\ UNCHANGED <<status, owner, role>>

\* Fault: the request does not notice that the invitation is gone.
AcceptsBlindly(i) == ~Locked(i)

\* The UPDATE of accepted_at finds the row, and waits for its lock.
Accepts(i) == Exists(i) /\ ~Locked(i)

\* A unique constraint refuses a second membership.
CommitAccept(q) ==
    LET k == request[q]
        i == k.target IN
    /\ Is(q, "write", "accept")
    /\ Accepts(i)
    /\ k.found = "none" => role[k.actor] = "none" /\ status # "deleted"
    /\ role' = IF k.found = "none" THEN [role EXCEPT ![k.actor] = invite[i].role] ELSE role
    /\ invite' = [invite EXCEPT ![i].state = "accepted"]
    /\ Done(q, {})
    /\ UNCHANGED <<status, owner, delivery, revoked>>

\* Fault: archiving leaves the invitations alone.
OutstandingNone == {}

Outstanding == {i \in Invitation : invite[i].state \in {"open", "expired"}}

CommitArchive(q) ==
    /\ Is(q, "write", "archive")
    /\ status = "active"
    /\ status' = "archived"
    /\ Drop(Outstanding)
    /\ revoked' = revoked \cup Outstanding
    /\ Done(q, {})
    /\ UNCHANGED <<owner, role>>

CommitRestore(q) ==
    /\ Is(q, "write", "restore")
    /\ status' = IF status = "archived" THEN "active" ELSE status
    /\ Done(q, {})
    /\ UNCHANGED <<owner, role, invite, delivery, revoked>>

\* Everything goes with the workspace.
CommitDelete(q) ==
    /\ Is(q, "write", "delete")
    /\ status' = "deleted"
    /\ role' = [u \in User |-> "none"]
    /\ Drop({i \in Invitation : Exists(i)})
    /\ Done(q, User)
    /\ UNCHANGED <<owner, revoked>>

\* A check fails, a write finds no row, or the request is abandoned.
Fail(q) ==
    /\ request[q] # Idle
    /\ Done(q, {})
    /\ UNCHANGED rows

-----------------------------------------------------------------------------
(* invitation_delivery: one transaction that locks what it sends.          *)

\* Fault: attempts are not limited.
UndeliveredForever(i) ==
    invite[i].state = "open" /\ delivery[i].status \in {"pending", "failed"}

Undelivered(i) == /\ invite[i].state = "open"
                  /\ delivery[i].status \in {"pending", "failed"}
                  /\ delivery[i].attempts < MaxAttempts

Take(w) ==
    /\ job[w] = {}
    /\ job' = [job EXCEPT ![w] = {i \in Invitation : Undelivered(i) /\ ~Locked(i)}]
    /\ UNCHANGED <<rows, request>>

CommitDelivery(w, sent) ==
    /\ job[w] # {} /\ sent \subseteq job[w]
    /\ delivery' = [i \in Invitation |->
         IF i \notin job[w] THEN delivery[i]
         ELSE [status   |-> IF i \in sent THEN "sent" ELSE "failed",
               attempts |-> delivery[i].attempts + 1]]
    /\ job' = [job EXCEPT ![w] = {}]
    /\ UNCHANGED <<status, owner, role, invite, request, revoked>>

Die(w) ==
    /\ job[w] # {}
    /\ job' = [job EXCEPT ![w] = {}]
    /\ UNCHANGED <<rows, request>>

\* expires_at passes.
Expire(i) ==
    /\ invite[i].state = "open"
    /\ invite' = [invite EXCEPT ![i].state = "expired"]
    /\ UNCHANGED <<status, owner, role, delivery, request, job, revoked>>

-----------------------------------------------------------------------------

Asks(kind) == IF kind \in {"role", "invite"} THEN Role ELSE {"none"}

\* The members whose rows a request has looked at to decide what to write.
Checked(q) ==
    LET k == request[q] IN
    CASE k.kind \in {"role", "remove"} /\ k.at = "write" -> {k.target}
      [] k.kind = "leave"    -> {k.actor}
      [] k.kind = "transfer" -> {k.actor, k.target}
      [] OTHER               -> {}

\* History of a request that ends, for OneOwner.
Marks(q) ==
    LET k == request[q]
        writes == <<owner, role>>' # <<owner, role>> IN
    /\ split' = (split \/ (writes /\ q \in crossed))
    /\ crossed' = {p \in Request \ {q} :
         \/ p \in crossed
         \/ /\ writes /\ k.kind = "transfer"
            /\ Checked(p) \cap {k.actor, k.target} # {}}

Load(q) == \/ LoadMember(q) \/ LoadOwn(q) \/ LoadTransfer(q) \/ LoadInvite(q)
           \/ LoadCancel(q) \/ LoadWorkspace(q)

Commit(q) == \/ CommitRole(q) \/ CommitRemove(q) \/ CommitTransfer(q)
             \/ CommitDrop(q) \/ CommitAccept(q)
             \/ CommitArchive(q) \/ CommitRestore(q) \/ CommitDelete(q)
             \/ \E i \in Invitation : CommitInvite(q, i)

Goes(q) ==
    \/ \E kind \in Kinds \ {"accept", "reject"}, actor \in User :
         \E target \in Targets(kind), to \in Asks(kind) :
           Begin(q, kind, actor, target, to)
    \/ \E kind \in {"accept", "reject"}, i \in Invitation : BeginToken(q, kind, i)
    \/ Load(q)

Delivers(w) == \/ Take(w) \/ Die(w)
               \/ \E sent \in SUBSET Invitation : CommitDelivery(w, sent)

Next ==
    \/ \E q \in Request : (Commit(q) \/ Fail(q)) /\ Marks(q)
    \/ /\ \/ \E q \in Request : Goes(q)
          \/ \E w \in Worker : Delivers(w)
          \/ \E i \in Invitation : Expire(i)
       /\ UNCHANGED marks

Spec == Init /\ [][Next]_vars

-----------------------------------------------------------------------------
(* Properties.                                                             *)

(* The workspace has exactly one owner, who is the member owner_id names   *)
(* and cannot be removed, demoted or leave, until a request writes members *)
(* it had checked before a transfer of the ownership changed them (see     *)
(* transfer_ownership, update_member_role, remove_member, leave_workspace).*)
OneOwner ==
    status # "deleted" /\ ~split => \A u \in User : role[u] = "owner" <=> u = owner

(* Nobody joins an archived or deleted workspace: archiving drops the open *)
(* invitation under an acceptance that has passed its checks.  (A second   *)
(* acceptance of one that was accepted still finds its row.)               *)
JoinsActive ==
    [][\A u \in User : role[u] = "none" /\ role'[u] # "none"
         => \/ status = "active"
            \/ \E i \in Invitation : invite[i].for = u /\ invite[i].state = "accepted"]_vars

(* An invitation that was cancelled, rejected or dropped before it was     *)
(* accepted is accepted by no request, however early that one looked.      *)
RevokedStaysOut ==
    [][\A i \in revoked : invite'[i].state # "accepted"]_vars

(* Invitation emails live as the contract of deliveries says: three        *)
(* attempts, each counted, and none after the one that was sent.           *)
Emails == INSTANCE DeliveryContract WITH
    Row <- Invitation, Limit <- MaxAttempts, table <- delivery,
    removed <- {i \in Invitation : invite[i].state = "gone"}
ImplementsContract == Emails!Spec
=============================================================================
