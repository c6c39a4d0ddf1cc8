------------------------- MODULE Workspaces_proofs -------------------------
(***************************************************************************)
(* Proofs about the requests on a workspace, for every number of users,    *)
(* invitations, overlapping requests and workers.  An invariant holds for  *)
(* all overlaps; that there is one owner is proved on top of it, until a   *)
(* request writes members whom a transfer changed after it checked them.   *)
(***************************************************************************)
EXTENDS Workspaces, TLAPS

-----------------------------------------------------------------------------
(* The inductive invariant.                                                *)

\* Rows there are name an account and a role that can be granted; rows that
\* are gone took their emails with them.
InvitesSound == \A i \in Invitation :
    /\ Exists(i) => invite[i].for \in User /\ invite[i].role \in Role /\ status # "deleted"
    /\ ~Exists(i) => delivery[i] = NoDelivery
    /\ i \in revoked => invite[i].state = "gone"

\* What a job holds can be sent, and by that job only.
JobsSound == \A w \in Worker :
    /\ \A i \in job[w] : /\ Exists(i)
                         /\ delivery[i].status \in {"pending", "failed"}
                         /\ delivery[i].attempts < MaxAttempts
    /\ \A v \in Worker \ {w} : job[v] \cap job[w] = {}

\* A request is about what its kind says, and holds rows that are there.
Sound(q) ==
    LET k == request[q] IN
    /\ k.kind # "none" => k.actor \in User /\ k.target \in Targets(k.kind)
    /\ k.kind \in {"role", "invite"} => k.to \in Role
    /\ \A u \in k.held : role[u] # "none"

\* An acceptance has seen an invitation of its user, and as long as that
\* waits for an answer the workspace is active.
Accepting(q) ==
    LET k == request[q] IN
    k.kind = "accept" =>
        /\ Exists(k.target) => invite[k.target].for = k.actor
        /\ invite[k.target].state \in {"open", "expired"} => status = "active"

\* Who answers or cancels an invitation has seen one.
Seen(q) ==
    LET k == request[q] IN
    k.kind \in {"accept", "reject"} \/ (k.kind = "cancel" /\ k.at = "write") =>
        invite[k.target].state # "none"

RequestsSound == \A q \in Request : Sound(q) /\ Accepting(q) /\ Seen(q)

IInv == RowsOK /\ InvitesSound /\ JobsSound /\ RequestsSound

-----------------------------------------------------------------------------
(* What a step makes of the requests.                                      *)

RequestType == [at: {"idle", "load", "write"}, kind: Kinds \cup {"none"},
                actor: User \cup {NoUser}, as: Roles \cup {"none"},
                target: User \cup Invitation \cup {NoUser},
                to: Role \cup {"none"}, found: Roles \cup {"none"},
                was: User \cup {NoUser}, held: SUBSET User]

\* Request q moves on to j, and no other changes.
Becomes(q, j) == /\ request' \in [Request -> RequestType]
                 /\ request'[q] = j
                 /\ \A p \in Request \ {q} : request'[p] = request[p]

\* Request q ends, and others lose the rows that are gone.
Ends(q, gone) ==
    /\ request' \in [Request -> RequestType]
    /\ request'[q] = Idle
    /\ \A p \in Request \ {q} :
         /\ request'[p].at = request[p].at
         /\ request'[p].kind = request[p].kind
         /\ request'[p].actor = request[p].actor
         /\ request'[p].as = request[p].as
         /\ request'[p].target = request[p].target
         /\ request'[p].to = request[p].to
         /\ request'[p].found = request[p].found
         /\ request'[p].was = request[p].was
         /\ request'[p].held = request[p].held \ gone

LEMMA Fields ==
    ASSUME RowsOK, NEW q \in Request
    PROVE  request[q] \in RequestType
BY DEF RowsOK, RequestType

LEMMA IdleTyped == Idle \in RequestType
BY DEF Idle, RequestType

LEMMA Replaced ==
    ASSUME RowsOK, NEW q \in Request, NEW j \in RequestType,
           request' = [request EXCEPT ![q] = j]
    PROVE  Becomes(q, j)
BY DEF RowsOK, RequestType, Becomes

LEMMA Ended ==
    ASSUME RowsOK, NEW q \in Request, NEW gone, Done(q, gone)
    PROVE  Ends(q, gone) /\ job' = job
<1>1. \A p \in Request : request[p] \in RequestType
  BY Fields
<1>2. \A p \in Request : request'[p] = IF p = q THEN Idle
                                  ELSE [request[p] EXCEPT !.held = @ \ gone]
  BY DEF Done
<1>3. \A p \in Request : [request[p] EXCEPT !.held = @ \ gone] \in RequestType
  BY <1>1 DEF RequestType
<1>4. request' \in [Request -> RequestType]
  BY <1>2, <1>3, IdleTyped DEF Done
<1>5. ASSUME NEW p \in Request \ {q}
      PROVE
         /\ request'[p].at = request[p].at
         /\ request'[p].kind = request[p].kind
         /\ request'[p].actor = request[p].actor
         /\ request'[p].as = request[p].as
         /\ request'[p].target = request[p].target
         /\ request'[p].to = request[p].to
         /\ request'[p].found = request[p].found
         /\ request'[p].was = request[p].was
         /\ request'[p].held = request[p].held \ gone
  <2>1. request'[p] = [request[p] EXCEPT !.held = @ \ gone]
    BY <1>2
  <2>2. request[p] \in RequestType
    BY <1>1
  <2> QED BY <2>1, <2>2 DEF RequestType
<1> QED BY <1>2, <1>4, <1>5 DEF Ends, Done

\* The rows that a request which moves on leaves as they are keep all sound.
LEMMA Moved ==
    ASSUME IInv, NEW q \in Request, NEW j, Becomes(q, j),
           UNCHANGED <<rows, job>>,
           Sound(q)', Accepting(q)', Seen(q)'
    PROVE  IInv'
<1>1. RowsOK'
  BY DEF IInv, RowsOK, Becomes, RequestType, rows
<1>2. InvitesSound'
  BY DEF IInv, InvitesSound, Exists, rows
<1>3. JobsSound'
  BY DEF IInv, JobsSound, Exists, rows
<1>4. RequestsSound'
  <2> SUFFICES ASSUME NEW p \in Request \ {q}
               PROVE  Sound(p)' /\ Accepting(p)' /\ Seen(p)'
    BY DEF RequestsSound
  <2>1. request'[p] = request[p]
    BY DEF Becomes
  <2>2. Sound(p) /\ Accepting(p) /\ Seen(p)
    BY DEF IInv, RequestsSound
  <2>3. Sound(p)'
    BY <2>1, <2>2 DEF Sound, Targets, rows
  <2>4. Accepting(p)'
    BY <2>1, <2>2 DEF Accepting, Exists, rows
  <2>5. Seen(p)'
    BY <2>1, <2>2 DEF Seen, rows
  <2> QED BY <2>3, <2>4, <2>5
<1> QED BY <1>1, <1>2, <1>3, <1>4 DEF IInv

-----------------------------------------------------------------------------
(* The invariant holds at the start.                                       *)

LEMMA InitInv == Init => IInv
<1> SUFFICES ASSUME Init PROVE IInv
  OBVIOUS
<1>1. RowsOK
  <2>1. request \in [Request -> RequestType]
    BY IdleTyped DEF Init
  <2>2. role \in [User -> Roles \cup {"none"}]
    BY RoleAssumption DEF Init, Roles
  <2> QED BY <2>1, <2>2 DEF Init, RowsOK, RequestType, NoInvite, NoDelivery, MaxAttempts
<1>2. InvitesSound
  BY DEF Init, InvitesSound, Exists, NoInvite
<1>3. JobsSound
  BY DEF Init, JobsSound
<1>4. RequestsSound
  BY DEF Init, RequestsSound, Sound, Accepting, Seen, Idle
<1> QED BY <1>1, <1>2, <1>3, <1>4 DEF IInv

-----------------------------------------------------------------------------
(* The first step of a request.                                            *)

LEMMA TargetsTyped ==
    ASSUME NEW kind \in Kinds
    PROVE  /\ Targets(kind) \subseteq User \cup Invitation \cup {NoUser}
           /\ kind \in {"role", "remove", "transfer", "invite"} => Targets(kind) = User
           /\ kind \in {"cancel", "accept", "reject"} => Targets(kind) = Invitation
BY DEF Targets, Kinds

Started(kind, actor, as, target, to) ==
    [Idle EXCEPT !.at = "load", !.kind = kind, !.actor = actor, !.as = as,
                 !.target = target, !.to = to]

LEMMA StartedTyped ==
    ASSUME NEW kind \in Kinds, NEW actor \in User, NEW as \in Roles \cup {"none"},
           NEW target \in Targets(kind), NEW to \in Role \cup {"none"}
    PROVE  Started(kind, actor, as, target, to) \in RequestType
<1>1. target \in User \cup Invitation \cup {NoUser}
  BY TargetsTyped
<1> QED BY <1>1 DEF Started, RequestType, Idle

LEMMA BeginInv ==
    ASSUME IInv, NEW q \in Request, NEW kind \in Kinds \ {"accept", "reject"},
           NEW actor \in User, NEW target \in Targets(kind), NEW to \in Asks(kind),
           Begin(q, kind, actor, target, to)
    PROVE  IInv'
<1> DEFINE j == Started(kind, actor, role[actor], target, to)
<1>1. j \in RequestType
  <2>1. role[actor] \in Roles \cup {"none"} /\ to \in Role \cup {"none"}
    BY DEF IInv, RowsOK, Asks
  <2> QED BY <2>1, StartedTyped
<1>2. Becomes(q, j) /\ UNCHANGED <<rows, job>>
  <2>1. request' = [request EXCEPT ![q] = j] /\ UNCHANGED <<rows, job>>
    BY DEF Begin, Begins, Started
  <2> QED BY <2>1, <1>1, Replaced DEF IInv
<1>3. /\ request'[q].kind = kind /\ request'[q].at = "load" /\ request'[q].actor = actor
      /\ request'[q].target = target /\ request'[q].to = to /\ request'[q].held = {}
  BY <1>2 DEF Becomes, Started, Idle
<1>4. Sound(q)' /\ Accepting(q)' /\ Seen(q)'
  <2>1. kind \in {"role", "invite"} => to \in Role
    BY DEF Asks
  <2> QED BY <1>3, <2>1 DEF Sound, Accepting, Seen, Targets
<1> QED BY <1>2, <1>4, Moved DEF j

LEMMA BeginTokenInv ==
    ASSUME IInv, NEW q \in Request, NEW kind \in {"accept", "reject"},
           NEW i \in Invitation, BeginToken(q, kind, i)
    PROVE  IInv'
<1> DEFINE actor == invite[i].for
           j == Started(kind, actor, role[actor], i, "none")
<1>0. actor \in User /\ kind \in Kinds /\ status = "active" /\ Exists(i)
  BY DEF BeginToken, IInv, InvitesSound, Exists, Kinds, RowsOK
<1>1. j \in RequestType
  <2>1. role[actor] \in Roles \cup {"none"} /\ i \in Targets(kind)
    BY <1>0, TargetsTyped DEF IInv, RowsOK
  <2> QED BY <1>0, <2>1, StartedTyped
<1>2. Becomes(q, j) /\ UNCHANGED <<rows, job>>
  <2>1. request' = [request EXCEPT ![q] = j] /\ UNCHANGED <<rows, job>>
    BY DEF BeginToken, Begins, Started
  <2> QED BY <2>1, <1>1, Replaced DEF IInv
<1>3. /\ request'[q].kind = kind /\ request'[q].at = "load" /\ request'[q].actor = actor
      /\ request'[q].target = i /\ request'[q].to = "none" /\ request'[q].held = {}
  BY <1>2 DEF Becomes, Started, Idle
<1>4. Sound(q)' /\ Accepting(q)' /\ Seen(q)'
  <2>1. i \in Targets(kind)
    BY <1>0, TargetsTyped
  <2>2. invite' = invite /\ status' = status /\ invite[i].state = "open"
    BY <1>2 DEF rows, BeginToken
  <2>3. Sound(q)'
    BY <1>0, <1>3, <2>1 DEF Sound, Targets
  <2>4. Accepting(q)' /\ Seen(q)'
    BY <1>0, <1>3, <2>2 DEF Accepting, Seen
  <2> QED BY <2>3, <2>4
<1> QED BY <1>2, <1>4, Moved DEF j

-----------------------------------------------------------------------------
(* The second step.                                                        *)

Found(k, us, found) == [k EXCEPT !.at = "write", !.found = found, !.held = us]

\* A request that has found rows which are there is sound.
LEMMA LoadsInv ==
    ASSUME IInv, NEW q \in Request, NEW us \in SUBSET User,
           NEW found \in Roles \cup {"none"}, Loads(q, us, found),
           \A u \in us : role[u] # "none",
           request[q].kind = "cancel" => invite[request[q].target].state # "none"
    PROVE  IInv'
<1> DEFINE j == Found(request[q], us, found)
<1>0. request[q] \in RequestType
  BY Fields DEF IInv
<1>1. j \in RequestType
  BY <1>0 DEF RequestType, Found
<1>2. Becomes(q, j) /\ UNCHANGED <<rows, job>>
  <2>1. request' = [request EXCEPT ![q] = j] /\ UNCHANGED <<rows, job>>
    <3>1. request \in [Request -> RequestType]
      BY DEF IInv, RowsOK, RequestType
    <3> QED BY <3>1 DEF Loads, Found
  <2> QED BY <2>1, <1>1, Replaced DEF IInv
<1>3. /\ request'[q].kind = request[q].kind /\ request'[q].actor = request[q].actor
      /\ request'[q].target = request[q].target /\ request'[q].to = request[q].to
      /\ request'[q].held = us
  BY <1>0, <1>2 DEF Becomes, Found, RequestType
<1>4. Sound(q) /\ Accepting(q) /\ Seen(q)
  BY DEF IInv, RequestsSound
<1>5. Sound(q)'
  BY <1>2, <1>3, <1>4 DEF Sound, Targets, rows
<1>6. Accepting(q)'
  BY <1>2, <1>3, <1>4 DEF Accepting, Exists, rows
<1>7. Seen(q)'
  BY <1>2, <1>3, <1>4 DEF Seen, rows
<1> QED BY <1>2, <1>5, <1>6, <1>7, Moved DEF j

LEMMA LoadMemberInv ==
    ASSUME IInv, NEW q \in Request, LoadMember(q)
    PROVE  IInv'
<1> DEFINE u == request[q].target
<1>1. u \in User /\ role[u] # "none" /\ request[q].kind # "cancel"
  <2>1. request[q].kind \in {"role", "remove"} /\ role[u] # "none"
    BY DEF LoadMember, Is
  <2>2. u \in Targets(request[q].kind)
    BY <2>1 DEF IInv, RequestsSound, Sound
  <2> QED BY <2>1, <2>2 DEF Targets
<1>2. role[u] \in Roles \cup {"none"} /\ Loads(q, {u}, role[u])
  BY <1>1 DEF LoadMember, IInv, RowsOK
<1>3. {u} \in SUBSET User /\ \A v \in {u} : role[v] # "none"
  BY <1>1
<1> HIDE DEF u
<1> QED BY <1>1, <1>2, <1>3, LoadsInv DEF u

LEMMA LoadOwnInv ==
    ASSUME IInv, NEW q \in Request, LoadOwn(q)
    PROVE  IInv'
<1> DEFINE a == request[q].actor
           us == {u \in {a} : role[u] # "none"}
<1>1. a \in User /\ request[q].kind # "cancel" /\ Loads(q, us, role[a])
  BY DEF LoadOwn, Is, IInv, RequestsSound, Sound
<1>2. us \in SUBSET User /\ role[a] \in Roles \cup {"none"} /\ \A u \in us : role[u] # "none"
  BY <1>1 DEF IInv, RowsOK
<1> HIDE DEF us, a
<1> QED BY <1>1, <1>2, LoadsInv DEF a

LEMMA LoadInviteInv ==
    ASSUME IInv, NEW q \in Request, LoadInvite(q)
    PROVE  IInv'
<1>1. request[q].kind # "cancel" /\ Loads(q, {}, "none")
  BY DEF LoadInvite, Is
<1>2. {} \in SUBSET User /\ \A u \in {} : role[u] # "none"
  OBVIOUS
<1> QED BY <1>1, <1>2, LoadsInv

LEMMA LoadCancelInv ==
    ASSUME IInv, NEW q \in Request, LoadCancel(q)
    PROVE  IInv'
<1>1. invite[request[q].target].state # "none" /\ Loads(q, {}, "none")
  BY DEF LoadCancel
<1>2. {} \in SUBSET User /\ \A u \in {} : role[u] # "none"
  OBVIOUS
<1> QED BY <1>1, <1>2, LoadsInv

LEMMA LoadWorkspaceInv ==
    ASSUME IInv, NEW q \in Request, LoadWorkspace(q)
    PROVE  IInv'
<1>1. request[q].kind # "cancel" /\ Loads(q, {}, "none")
  BY DEF LoadWorkspace, Is
<1>2. {} \in SUBSET User /\ \A u \in {} : role[u] # "none"
  OBVIOUS
<1> QED BY <1>1, <1>2, LoadsInv

Transferring(k, as, found, was) ==
    [k EXCEPT !.at = "write", !.as = as, !.found = found, !.was = was,
              !.held = {k.actor, k.target}]

\* What transfer_ownership has read, before it writes.
LEMMA AfterLoadTransfer ==
    ASSUME IInv, NEW q \in Request, LoadTransfer(q)
    PROVE  /\ Becomes(q, Transferring(request[q], role[request[q].actor],
                                      role[request[q].target], owner))
           /\ UNCHANGED <<rows, job>>
           /\ request[q].actor \in User /\ request[q].target \in User
           /\ request[q].kind = "transfer"
<1> DEFINE k == request[q]
           j == Transferring(k, role[k.actor], role[k.target], owner)
<1>1. k.kind = "transfer" /\ k \in RequestType
  BY Fields DEF LoadTransfer, Is, IInv
<1>2. k.actor \in User /\ k.target \in User
  <2>1. k.actor \in User /\ k.target \in Targets(k.kind)
    BY <1>1 DEF IInv, RequestsSound, Sound
  <2> QED BY <1>1, <2>1 DEF Targets
<1>3. role[k.actor] \in Roles \cup {"none"} /\ role[k.target] \in Roles \cup {"none"}
      /\ owner \in User
  BY <1>2 DEF IInv, RowsOK
<1>4. j \in RequestType
  BY <1>1, <1>2, <1>3 DEF RequestType, Transferring
<1>5. request' = [request EXCEPT ![q] = j] /\ UNCHANGED <<rows, job>>
  <2>1. request \in [Request -> RequestType]
    BY DEF IInv, RowsOK, RequestType
  <2> QED BY <2>1 DEF LoadTransfer, Transferring
<1> QED BY <1>1, <1>2, <1>4, <1>5, Replaced DEF IInv

LEMMA LoadTransferInv ==
    ASSUME IInv, NEW q \in Request, LoadTransfer(q)
    PROVE  IInv'
<1> DEFINE k == request[q]
           j == Transferring(k, role[k.actor], role[k.target], owner)
<1>1. Becomes(q, j) /\ UNCHANGED <<rows, job>> /\ k.kind = "transfer"
  BY AfterLoadTransfer
<1>2. /\ request'[q].kind = "transfer" /\ request'[q].actor = k.actor
      /\ request'[q].target = k.target /\ request'[q].held = {k.actor, k.target}
  BY <1>1, Fields DEF IInv, Becomes, Transferring, RequestType
<1>3. role[k.actor] # "none" /\ role[k.target] # "none" /\ role' = role
  BY <1>1 DEF LoadTransfer, rows
<1>4. k.actor \in User /\ k.target \in Targets("transfer")
  BY <1>1 DEF IInv, RequestsSound, Sound
<1>5. Sound(q)' /\ Accepting(q)' /\ Seen(q)'
  BY <1>2, <1>3, <1>4 DEF Sound, Accepting, Seen, Targets
<1> QED BY <1>1, <1>5, Moved DEF j

LEMMA LoadInv ==
    ASSUME IInv, NEW q \in Request, Load(q)
    PROVE  IInv'
BY LoadMemberInv, LoadOwnInv, LoadInviteInv, LoadCancelInv, LoadWorkspaceInv,
   LoadTransferInv DEF Load

-----------------------------------------------------------------------------
(* The commit: what the requests that go on may rely on.                   *)

\* Invitations do not come back, and archiving leaves none waiting.
InvitesKeep == \A i \in Invitation :
    invite[i].state # "none" =>
        /\ invite'[i].state # "none"
        /\ invite'[i].state \in {"open", "expired", "accepted"} =>
             /\ invite[i].state \in {"open", "expired", "accepted"}
             /\ invite'[i].for = invite[i].for
        /\ invite'[i].state \in {"open", "expired"} =>
             /\ invite[i].state \in {"open", "expired"}
             /\ status = "active" => status' = "active"

MembersKeep(gone) ==
    \A u \in User \ gone : role[u] # "none" => role'[u] # "none"

LEMMA SameSound ==
    ASSUME IInv, NEW p \in Request, NEW gone, InvitesKeep, MembersKeep(gone),
           request'[p].at = request[p].at, request'[p].kind = request[p].kind,
           request'[p].actor = request[p].actor,
           request'[p].target = request[p].target, request'[p].to = request[p].to,
           request'[p].held = request[p].held \ gone
    PROVE  Sound(p)' /\ Accepting(p)' /\ Seen(p)'
<1>1. Sound(p) /\ Accepting(p) /\ Seen(p) /\ request[p] \in RequestType
  BY Fields DEF IInv, RequestsSound
<1>2. Sound(p)'
  BY <1>1 DEF Sound, Targets, MembersKeep, RequestType
<1>3. request[p].kind \in {"accept", "reject", "cancel"} => request[p].target \in Invitation
  BY <1>1 DEF Sound, Targets
<1>4. Seen(p)'
  BY <1>1, <1>3 DEF Seen, InvitesKeep
<1>5. Accepting(p)'
  <2> SUFFICES ASSUME request[p].kind = "accept" PROVE Accepting(p)'
    BY DEF Accepting
  <2>1. request[p].target \in Invitation /\ invite[request[p].target].state # "none"
    BY <1>1, <1>3 DEF Seen
  <2> QED BY <1>1, <2>1 DEF Accepting, Exists, InvitesKeep
<1> QED BY <1>2, <1>4, <1>5

LEMMA IdleSound ==
    ASSUME NEW q \in Request, request'[q] = Idle
    PROVE  Sound(q)' /\ Accepting(q)' /\ Seen(q)'
BY DEF Idle, Sound, Accepting, Seen

LEMMA EndedSound ==
    ASSUME IInv, NEW q \in Request, NEW gone, Ends(q, gone), InvitesKeep, MembersKeep(gone)
    PROVE  RequestsSound'
<1> SUFFICES ASSUME NEW p \in Request PROVE Sound(p)' /\ Accepting(p)' /\ Seen(p)'
  BY DEF RequestsSound
<1>1. CASE p = q
  BY <1>1, IdleSound DEF Ends
<1>2. CASE p # q
  BY <1>2, SameSound DEF Ends
<1> QED BY <1>1, <1>2

LEMMA UnmovedSound ==
    ASSUME IInv, request' = request, InvitesKeep, role' = role
    PROVE  RequestsSound'
<1> SUFFICES ASSUME NEW p \in Request PROVE Sound(p)' /\ Accepting(p)' /\ Seen(p)'
  BY DEF RequestsSound
<1>1. MembersKeep({}) /\ request[p].held \ {} = request[p].held
  BY DEF MembersKeep
<1> QED BY <1>1, SameSound

\* Requests that write members, and the owner, only.
LEMMA MembersWritten ==
    ASSUME IInv, NEW q \in Request, NEW gone, Done(q, gone), MembersKeep(gone),
           UNCHANGED <<status, invite, delivery, revoked>>,
           owner' \in User, role' \in [User -> Roles \cup {"none"}]
    PROVE  IInv'
<1>1. Ends(q, gone) /\ job' = job
  BY Ended DEF IInv
<1>2. RowsOK'
  BY <1>1 DEF IInv, RowsOK, Ends, RequestType
<1>3. InvitesSound'
  BY DEF IInv, InvitesSound, Exists
<1>4. JobsSound'
  BY <1>1 DEF IInv, JobsSound, Exists
<1>5. RequestsSound'
  <2>1. InvitesKeep
    BY DEF InvitesKeep
  <2> QED BY <1>1, <2>1, EndedSound
<1> QED BY <1>2, <1>3, <1>4, <1>5 DEF IInv

LEMMA CommitRoleInv ==
    ASSUME IInv, NEW q \in Request, CommitRole(q)
    PROVE  IInv'
<1> DEFINE k == request[q]
<1>1. k.to \in Role /\ k.target \in User
  <2>1. k.kind = "role" /\ Sound(q)
    BY DEF CommitRole, Is, IInv, RequestsSound
  <2> QED BY <2>1 DEF Sound, Targets
<1>2. k.to \in Roles /\ k.to # "none"
  BY <1>1, RoleAssumption DEF Roles
<1>3. /\ role' = IF k.to # k.found THEN [role EXCEPT ![k.target] = k.to] ELSE role
      /\ Done(q, {}) /\ UNCHANGED <<status, owner, invite, delivery, revoked>>
  BY DEF CommitRole
<1> HIDE DEF k
<1>4. role' \in [User -> Roles \cup {"none"}] /\ owner' \in User
  BY <1>2, <1>3 DEF IInv, RowsOK
<1>5. MembersKeep({})
  BY <1>1, <1>2, <1>3 DEF MembersKeep, IInv, RowsOK
<1> QED BY <1>3, <1>4, <1>5, MembersWritten

LEMMA CommitRemoveInv ==
    ASSUME IInv, NEW q \in Request, CommitRemove(q)
    PROVE  IInv'
<1> DEFINE gone == request[q].held
<1>1. /\ role' = [u \in User |-> IF u \in gone THEN "none" ELSE role[u]]
      /\ Done(q, gone) /\ UNCHANGED <<status, owner, invite, delivery, revoked>>
  BY DEF CommitRemove
<1> HIDE DEF gone
<1>2. role' \in [User -> Roles \cup {"none"}] /\ owner' \in User
  BY <1>1 DEF IInv, RowsOK
<1>3. MembersKeep(gone)
  BY <1>1 DEF MembersKeep
<1> QED BY <1>1, <1>2, <1>3, MembersWritten

LEMMA CommitTransferInv ==
    ASSUME IInv, NEW q \in Request, CommitTransfer(q)
    PROVE  IInv'
<1> DEFINE k == request[q]
           changed == {u \in {k.actor} : k.as # "admin"}
                        \cup {u \in {k.target} : k.found # "owner"}
<1>1. k.target \in User
  <2>1. k.kind = "transfer" /\ Sound(q)
    BY DEF CommitTransfer, Is, IInv, RequestsSound
  <2> QED BY <2>1 DEF Sound, Targets
<1>2. /\ owner' = IF k.was # k.target THEN k.target ELSE owner
      /\ role' = [u \in User |-> IF u \notin changed THEN role[u]
                                 ELSE IF u = k.target THEN "owner" ELSE "admin"]
      /\ Done(q, {}) /\ UNCHANGED <<status, invite, delivery, revoked>>
  BY DEF CommitTransfer
<1> HIDE DEF k, changed
<1>3. role' \in [User -> Roles \cup {"none"}] /\ owner' \in User
  BY <1>1, <1>2 DEF IInv, RowsOK, Roles
<1>4. MembersKeep({})
  BY <1>2 DEF MembersKeep
<1> QED BY <1>2, <1>3, <1>4, MembersWritten

-----------------------------------------------------------------------------
(* The commit: requests that write or delete invitations.                  *)

InviteType == [state: {"none", "open", "expired", "accepted", "gone"},
               for: User \cup {NoUser}, role: Role \cup {"none"}]
DeliveryType == [status: {"none", "pending", "failed", "sent"}, attempts: 0..MaxAttempts]

LEMMA RowTypes ==
    ASSUME RowsOK
    PROVE  invite \in [Invitation -> InviteType] /\ delivery \in [Invitation -> DeliveryType]
BY DEF RowsOK, InviteType, DeliveryType

LEMMA DroppedRows ==
    ASSUME IInv, NEW I \in SUBSET Invitation, Drop(I)
    PROVE  /\ invite' \in [Invitation -> InviteType]
           /\ delivery' \in [Invitation -> DeliveryType]
           /\ \A i \in I : /\ ~Locked(i)
                           /\ delivery'[i] = NoDelivery
                           /\ Exists(i) => invite'[i].state = "gone"
                           /\ ~Exists(i) => invite'[i] = invite[i]
           /\ \A i \in Invitation \ I : invite'[i] = invite[i] /\ delivery'[i] = delivery[i]
<1>1. invite \in [Invitation -> InviteType] /\ delivery \in [Invitation -> DeliveryType]
  BY RowTypes DEF IInv
<1>2. [NoInvite EXCEPT !.state = "gone"] \in InviteType /\ NoDelivery \in DeliveryType
      /\ [NoInvite EXCEPT !.state = "gone"].state = "gone"
  BY DEF InviteType, DeliveryType, NoInvite, NoDelivery, MaxAttempts
<1> QED BY <1>1, <1>2 DEF Drop

\* Rows are deleted under the invitations of others, and whatever the
\* request writes of the workspace and its members agrees with that.
LEMMA RowsDropped ==
    ASSUME IInv, NEW q \in Request, NEW gone, NEW I \in SUBSET Invitation,
           Done(q, gone), Drop(I), MembersKeep(gone),
           role' \in [User -> Roles \cup {"none"}], owner' \in User,
           status' \in {"active", "archived", "deleted"},
           revoked' \in SUBSET Invitation,
           \A i \in revoked' : \/ i \in revoked
                               \/ i \in I /\ invite[i].state \notin {"none", "accepted"},
           status' = "deleted" => \A i \in Invitation : Exists(i) => i \in I,
           \A i \in Invitation \ I : invite[i].state \in {"open", "expired"} =>
                                         (status = "active" => status' = "active")
    PROVE  IInv'
<1>1. Ends(q, gone) /\ job' = job
  BY Ended DEF IInv
<1>2. /\ invite' \in [Invitation -> InviteType]
      /\ delivery' \in [Invitation -> DeliveryType]
      /\ \A i \in I : /\ ~Locked(i)
                      /\ delivery'[i] = NoDelivery
                      /\ Exists(i) => invite'[i].state = "gone"
                      /\ ~Exists(i) => invite'[i] = invite[i]
      /\ \A i \in Invitation \ I : invite'[i] = invite[i] /\ delivery'[i] = delivery[i]
  BY DroppedRows
<1>3. invite \in [Invitation -> InviteType]
  BY RowTypes DEF IInv
<1>4. RowsOK'
  BY <1>1, <1>2 DEF IInv, RowsOK, Ends, RequestType, InviteType, DeliveryType
<1>5. InvitesSound'
  <2> SUFFICES ASSUME NEW i \in Invitation
               PROVE  /\ Exists(i)' => /\ invite'[i].for \in User /\ invite'[i].role \in Role
                                       /\ status' # "deleted"
                      /\ ~Exists(i)' => delivery'[i] = NoDelivery
                      /\ i \in revoked' => invite'[i].state = "gone"
    BY DEF InvitesSound
  <2>1. /\ Exists(i) => invite[i].for \in User /\ invite[i].role \in Role /\ status # "deleted"
        /\ ~Exists(i) => delivery[i] = NoDelivery
        /\ i \in revoked => invite[i].state = "gone"
    BY DEF IInv, InvitesSound
  <2>2. CASE i \in I
    BY <1>2, <1>3, <2>1, <2>2 DEF Exists, InviteType
  <2>3. CASE i \notin I
    BY <1>2, <2>1, <2>3 DEF Exists
  <2> QED BY <2>2, <2>3
<1>6. JobsSound'
  <2>1. \A w \in Worker : \A i \in job[w] : i \in Invitation /\ i \notin I
    BY <1>2 DEF Locked, IInv, RowsOK
  <2> QED BY <1>1, <1>2, <2>1 DEF IInv, JobsSound, Exists
<1>7. InvitesKeep
  BY <1>2 DEF InvitesKeep, Exists
<1>8. RequestsSound'
  BY <1>1, <1>7, EndedSound
<1> QED BY <1>4, <1>5, <1>6, <1>8 DEF IInv

LEMMA CommitDropInv ==
    ASSUME IInv, NEW q \in Request, CommitDrop(q)
    PROVE  IInv'
<1> DEFINE i == request[q].target
<1>1. i \in Invitation /\ invite[i].state # "none"
  <2>1. /\ request[q].kind \in {"cancel", "reject"} /\ request[q].at = "write"
        /\ Sound(q) /\ Seen(q)
    BY DEF CommitDrop, Is, IInv, RequestsSound
  <2> QED BY <2>1 DEF Sound, Seen, Targets
<1>2. /\ Drop({i}) /\ Done(q, {}) /\ UNCHANGED <<status, owner, role>>
      /\ revoked' = IF invite[i].state = "accepted" THEN revoked ELSE revoked \cup {i}
  BY DEF CommitDrop
<1> HIDE DEF i
<1>3. status' = "deleted" => \A j \in Invitation : ~Exists(j)
  BY <1>2 DEF IInv, InvitesSound
<1>4. MembersKeep({})
  BY <1>2 DEF MembersKeep
<1>5. {i} \in SUBSET Invitation /\ revoked' \in SUBSET Invitation
      /\ role' \in [User -> Roles \cup {"none"}] /\ owner' \in User
      /\ status' \in {"active", "archived", "deleted"}
  BY <1>1, <1>2 DEF IInv, RowsOK
<1> QED BY <1>1, <1>2, <1>3, <1>4, <1>5, RowsDropped

LEMMA CommitArchiveInv ==
    ASSUME IInv, NEW q \in Request, CommitArchive(q)
    PROVE  IInv'
<1>1. /\ Drop(Outstanding) /\ Done(q, {}) /\ UNCHANGED <<owner, role>>
      /\ status' = "archived" /\ revoked' = revoked \cup Outstanding
  BY DEF CommitArchive
<1>2. Outstanding \in SUBSET Invitation
      /\ \A i \in Invitation : i \in Outstanding <=> invite[i].state \in {"open", "expired"}
  BY DEF Outstanding
<1>3. MembersKeep({})
  BY <1>1 DEF MembersKeep
<1>4. revoked' \in SUBSET Invitation
      /\ role' \in [User -> Roles \cup {"none"}] /\ owner' \in User
      /\ status' \in {"active", "archived", "deleted"}
  BY <1>1, <1>2 DEF IInv, RowsOK
<1> QED BY <1>1, <1>2, <1>3, <1>4, RowsDropped

LEMMA CommitDeleteInv ==
    ASSUME IInv, NEW q \in Request, CommitDelete(q)
    PROVE  IInv'
<1> DEFINE I == {i \in Invitation : Exists(i)}
<1>1. /\ Drop(I) /\ Done(q, User) /\ UNCHANGED <<owner, revoked>>
      /\ status' = "deleted" /\ role' = [u \in User |-> "none"]
  BY DEF CommitDelete
<1>2. I \in SUBSET Invitation /\ \A i \in Invitation : i \in I <=> Exists(i)
  OBVIOUS
<1> HIDE DEF I
<1>3. MembersKeep(User)
  BY DEF MembersKeep
<1>4. revoked' \in SUBSET Invitation
      /\ role' \in [User -> Roles \cup {"none"}] /\ owner' \in User
      /\ status' \in {"active", "archived", "deleted"}
  BY <1>1 DEF IInv, RowsOK
<1>5. \A i \in Invitation \ I : invite[i].state \notin {"open", "expired"}
  BY <1>2 DEF Exists
<1> QED BY <1>1, <1>2, <1>3, <1>4, <1>5, RowsDropped

LEMMA CommitInviteInv ==
    ASSUME IInv, NEW q \in Request, NEW i \in Invitation, CommitInvite(q, i)
    PROVE  IInv'
<1> DEFINE k == request[q]
           new == [state |-> "open", for |-> k.target, role |-> k.to]
<1>1. k.target \in User /\ k.to \in Role
  <2>1. k.kind = "invite" /\ Sound(q)
    BY DEF CommitInvite, Is, IInv, RequestsSound
  <2> QED BY <2>1 DEF Sound, Targets
<1>2. /\ invite[i] = NoInvite /\ status # "deleted"
      /\ invite' = [invite EXCEPT ![i] = new]
      /\ delivery' = [delivery EXCEPT ![i] = [status |-> "pending", attempts |-> 0]]
      /\ Done(q, {}) /\ UNCHANGED <<status, owner, role, revoked>>
  BY DEF CommitInvite
<1>3. new \in InviteType /\ [status |-> "pending", attempts |-> 0] \in DeliveryType
  BY <1>1 DEF InviteType, DeliveryType, MaxAttempts
<1>4. new.state = "open" /\ new.for = k.target /\ new.role = k.to
  OBVIOUS
<1> HIDE DEF k, new
<1>5. Ends(q, {}) /\ job' = job
  BY <1>2, Ended DEF IInv
<1>6. /\ invite' \in [Invitation -> InviteType] /\ delivery' \in [Invitation -> DeliveryType]
      /\ invite'[i] = new
      /\ \A n \in Invitation \ {i} : invite'[n] = invite[n] /\ delivery'[n] = delivery[n]
  BY <1>2, <1>3, RowTypes DEF IInv
<1>7. invite[i].state = "none" /\ ~Exists(i)
  BY <1>2 DEF NoInvite, Exists
<1>8. RowsOK'
  BY <1>2, <1>5, <1>6 DEF IInv, RowsOK, Ends, RequestType, InviteType, DeliveryType
<1>9. InvitesSound'
  BY <1>1, <1>2, <1>4, <1>6, <1>7 DEF IInv, InvitesSound, Exists
<1>10. JobsSound'
  BY <1>5, <1>6, <1>7 DEF IInv, JobsSound, Exists, RowsOK
<1>11. RequestsSound'
  <2>1. InvitesKeep /\ MembersKeep({})
    BY <1>2, <1>6, <1>7 DEF InvitesKeep, MembersKeep
  <2> QED BY <1>5, <2>1, EndedSound
<1> QED BY <1>8, <1>9, <1>10, <1>11 DEF IInv

\* What accept_invitation does once its checks have passed.
LEMMA AfterAccept ==
    ASSUME IInv, NEW q \in Request, CommitAccept(q)
    PROVE  LET k == request[q]
               i == k.target IN
           /\ k.kind = "accept"
           /\ i \in Invitation /\ k.actor \in User
           /\ Exists(i) /\ ~Locked(i)
           /\ invite[i].role \in Role /\ invite[i].for = k.actor /\ status # "deleted"
           /\ invite[i].state \in {"open", "expired"} => status = "active"
           /\ invite' \in [Invitation -> InviteType]
           /\ invite'[i].state = "accepted"
           /\ invite'[i].for = invite[i].for /\ invite'[i].role = invite[i].role
           /\ \A n \in Invitation \ {i} : invite'[n] = invite[n]
<1> DEFINE k == request[q]
           i == k.target
<1>1. k.kind = "accept" /\ Exists(i) /\ ~Locked(i) /\ invite' = [invite EXCEPT ![i].state = "accepted"]
  BY DEF CommitAccept, Is, Accepts
<1>2. k.actor \in User /\ i \in Invitation /\ Accepting(q)
  BY <1>1 DEF IInv, RequestsSound, Sound, Targets
<1>3. invite[i].for = k.actor
      /\ (invite[i].state \in {"open", "expired"} => status = "active")
  BY <1>1, <1>2 DEF Accepting
<1>4. invite[i].role \in Role /\ status # "deleted"
  BY <1>1, <1>2 DEF IInv, InvitesSound
<1>5. /\ invite' \in [Invitation -> InviteType]
      /\ invite'[i].state = "accepted"
      /\ invite'[i].for = invite[i].for /\ invite'[i].role = invite[i].role
      /\ \A n \in Invitation \ {i} : invite'[n] = invite[n]
  <2>1. invite \in [Invitation -> InviteType]
    BY RowTypes DEF IInv
  <2> HIDE DEF i
  <2> QED BY <1>1, <1>2, <2>1 DEF InviteType
<1> QED BY <1>1, <1>2, <1>3, <1>4, <1>5

LEMMA CommitAcceptInv ==
    ASSUME IInv, NEW q \in Request, CommitAccept(q)
    PROVE  IInv'
<1> DEFINE k == request[q]
           i == k.target
<1>1. /\ i \in Invitation /\ k.actor \in User
      /\ Exists(i) /\ ~Locked(i)
      /\ invite[i].role \in Role /\ invite[i].for = k.actor /\ status # "deleted"
      /\ invite[i].state \in {"open", "expired"} => status = "active"
      /\ invite' \in [Invitation -> InviteType]
      /\ invite'[i].state = "accepted"
      /\ invite'[i].for = invite[i].for /\ invite'[i].role = invite[i].role
      /\ \A n \in Invitation \ {i} : invite'[n] = invite[n]
  BY AfterAccept
<1>2. /\ role' = IF k.found = "none" THEN [role EXCEPT ![k.actor] = invite[i].role] ELSE role
      /\ Done(q, {}) /\ UNCHANGED <<status, owner, delivery, revoked>>
  BY DEF CommitAccept
<1> HIDE DEF i, k
<1>3. Ends(q, {}) /\ job' = job
  BY <1>2, Ended DEF IInv
<1>4. invite[i].role \in Roles /\ invite[i].role # "none"
  BY <1>1, RoleAssumption DEF Roles
<1>5. role' \in [User -> Roles \cup {"none"}] /\ MembersKeep({})
  BY <1>1, <1>2, <1>4 DEF IInv, RowsOK, MembersKeep
<1>6. RowsOK'
  BY <1>1, <1>2, <1>3, <1>5 DEF IInv, RowsOK, Ends, RequestType, InviteType
<1>7. InvitesSound'
  BY <1>1, <1>2 DEF IInv, InvitesSound, Exists
<1>8. JobsSound'
  BY <1>1, <1>2, <1>3 DEF IInv, JobsSound, Exists, RowsOK
<1>9. RequestsSound'
  <2>1. InvitesKeep
    BY <1>1, <1>2 DEF InvitesKeep, Exists
  <2> QED BY <1>3, <1>5, <2>1, EndedSound
<1> QED BY <1>6, <1>7, <1>8, <1>9 DEF IInv

LEMMA CommitRestoreInv ==
    ASSUME IInv, NEW q \in Request, CommitRestore(q)
    PROVE  IInv'
<1>1. /\ status' = IF status = "archived" THEN "active" ELSE status
      /\ Done(q, {}) /\ UNCHANGED <<owner, role, invite, delivery, revoked>>
  BY DEF CommitRestore
<1>2. Ends(q, {}) /\ job' = job
  BY <1>1, Ended DEF IInv
<1>3. RowsOK'
  BY <1>1, <1>2 DEF IInv, RowsOK, Ends, RequestType
<1>4. InvitesSound'
  BY <1>1 DEF IInv, InvitesSound, Exists
<1>5. JobsSound'
  BY <1>1, <1>2 DEF IInv, JobsSound, Exists
<1>6. RequestsSound'
  <2>1. InvitesKeep /\ MembersKeep({})
    BY <1>1 DEF InvitesKeep, MembersKeep
  <2> QED BY <1>2, <2>1, EndedSound
<1> QED BY <1>3, <1>4, <1>5, <1>6 DEF IInv

LEMMA FailInv ==
    ASSUME IInv, NEW q \in Request, Fail(q)
    PROVE  IInv'
<1>1. Done(q, {}) /\ UNCHANGED rows
  BY DEF Fail
<1>2. MembersKeep({}) /\ UNCHANGED <<status, invite, delivery, revoked>>
      /\ owner' \in User /\ role' \in [User -> Roles \cup {"none"}]
  BY <1>1 DEF MembersKeep, IInv, RowsOK, rows
<1> QED BY <1>1, <1>2, MembersWritten

LEMMA CommitInv ==
    ASSUME IInv, NEW q \in Request, Commit(q)
    PROVE  IInv'
BY CommitRoleInv, CommitRemoveInv, CommitTransferInv, CommitDropInv, CommitAcceptInv,
   CommitArchiveInv, CommitRestoreInv, CommitDeleteInv, CommitInviteInv DEF Commit

-----------------------------------------------------------------------------
(* The job of invitation emails, and time.                                 *)

LEMMA JobOnly ==
    ASSUME IInv, UNCHANGED <<rows, request>>
    PROVE  InvitesSound' /\ RequestsSound'
<1>1. InvitesSound'
  BY DEF IInv, InvitesSound, Exists, rows
<1>2. RequestsSound'
  BY UnmovedSound DEF InvitesKeep, rows
<1> QED BY <1>1, <1>2

LEMMA TakeInv ==
    ASSUME IInv, NEW w \in Worker, Take(w)
    PROVE  IInv'
<1> DEFINE I == {i \in Invitation : Undelivered(i) /\ ~Locked(i)}
<1>1. /\ job' = [job EXCEPT ![w] = I] /\ UNCHANGED <<rows, request>>
      /\ I \in SUBSET Invitation
      /\ \A i \in I : Undelivered(i) /\ ~Locked(i)
  BY DEF Take
<1> HIDE DEF I
<1>2. /\ job' \in [Worker -> SUBSET Invitation] /\ job'[w] = I
      /\ \A v \in Worker \ {w} : job'[v] = job[v] /\ job[v] \cap I = {}
  BY <1>1 DEF IInv, RowsOK, Locked
<1>3. RowsOK'
  BY <1>1, <1>2 DEF IInv, RowsOK, rows
<1>4. \A i \in I : /\ Exists(i) /\ delivery[i].status \in {"pending", "failed"}
                   /\ delivery[i].attempts < MaxAttempts
  BY <1>1 DEF Undelivered, Exists
<1>5. JobsSound'
  BY <1>1, <1>2, <1>4 DEF IInv, JobsSound, Exists, rows
<1> QED BY <1>1, <1>3, <1>5, JobOnly DEF IInv

LEMMA DieInv ==
    ASSUME IInv, NEW w \in Worker, Die(w)
    PROVE  IInv'
<1>1. RowsOK'
  BY DEF Die, IInv, RowsOK, rows
<1>2. JobsSound'
  BY DEF Die, IInv, RowsOK, JobsSound, Exists, rows
<1> QED BY <1>1, <1>2, JobOnly DEF Die, IInv

\* Every row of the job is attempted once more, and no other row changes.
LEMMA AfterDelivery ==
    ASSUME IInv, NEW w \in Worker, NEW sent \in SUBSET Invitation, CommitDelivery(w, sent)
    PROVE  /\ delivery' \in [Invitation -> DeliveryType]
           /\ \A i \in job[w] : /\ delivery'[i].attempts = delivery[i].attempts + 1
                                /\ delivery'[i].status \in {"sent", "failed"}
           /\ \A i \in Invitation \ job[w] : delivery'[i] = delivery[i]
<1> DEFINE tried(i) == [status   |-> IF i \in sent THEN "sent" ELSE "failed",
                        attempts |-> delivery[i].attempts + 1]
<1>1. \A i \in job[w] : delivery[i].attempts \in 0..2
  BY DEF IInv, RowsOK, JobsSound, MaxAttempts
<1>2. \A i \in job[w] : /\ tried(i) \in DeliveryType
                        /\ tried(i).attempts = delivery[i].attempts + 1
                        /\ tried(i).status \in {"sent", "failed"}
  BY <1>1 DEF DeliveryType, MaxAttempts
<1>3. delivery' = [i \in Invitation |-> IF i \notin job[w] THEN delivery[i] ELSE tried(i)]
  BY DEF CommitDelivery
<1>4. job[w] \subseteq Invitation
  BY DEF IInv, RowsOK
<1> HIDE DEF tried
<1> QED BY <1>2, <1>3, <1>4, RowTypes DEF IInv

LEMMA CommitDeliveryInv ==
    ASSUME IInv, NEW w \in Worker, NEW sent \in SUBSET Invitation, CommitDelivery(w, sent)
    PROVE  IInv'
<1>1. /\ delivery' \in [Invitation -> DeliveryType]
      /\ \A i \in Invitation \ job[w] : delivery'[i] = delivery[i]
  BY AfterDelivery
<1>2. /\ job' \in [Worker -> SUBSET Invitation] /\ job'[w] = {}
      /\ \A v \in Worker \ {w} : job'[v] = job[v]
      /\ UNCHANGED <<status, owner, role, invite, request, revoked>>
  BY DEF CommitDelivery, IInv, RowsOK
<1>3. \A i \in job[w] : Exists(i)
  BY DEF IInv, JobsSound
<1>4. RowsOK'
  BY <1>1, <1>2 DEF IInv, RowsOK, DeliveryType
<1>5. InvitesSound'
  BY <1>1, <1>2, <1>3 DEF IInv, InvitesSound, Exists
<1>6. JobsSound'
  BY <1>1, <1>2 DEF IInv, RowsOK, JobsSound, Exists
<1>7. RequestsSound'
  BY <1>2, UnmovedSound DEF InvitesKeep
<1> QED BY <1>4, <1>5, <1>6, <1>7 DEF IInv

LEMMA ExpireInv ==
    ASSUME IInv, NEW i \in Invitation, Expire(i)
    PROVE  IInv'
<1>1. UNCHANGED <<status, owner, role, delivery, request, job, revoked>>
      /\ invite[i].state = "open"
  BY DEF Expire
<1>2. /\ invite' \in [Invitation -> InviteType]
      /\ invite'[i].state = "expired"
      /\ invite'[i].for = invite[i].for /\ invite'[i].role = invite[i].role
      /\ \A n \in Invitation \ {i} : invite'[n] = invite[n]
  BY RowTypes DEF IInv, Expire, InviteType
<1>3. RowsOK'
  BY <1>1, <1>2 DEF IInv, RowsOK, InviteType
<1>4. InvitesSound'
  BY <1>1, <1>2 DEF IInv, InvitesSound, Exists
<1>5. JobsSound'
  BY <1>1, <1>2 DEF IInv, RowsOK, JobsSound, Exists
<1>6. RequestsSound'
  BY <1>1, <1>2, UnmovedSound DEF InvitesKeep
<1> QED BY <1>3, <1>4, <1>5, <1>6 DEF IInv

LEMMA StutterInv == ASSUME IInv, UNCHANGED vars PROVE IInv'
<1>1. RowsOK'
  BY DEF vars, IInv, RowsOK
<1>2. JobsSound'
  BY DEF vars, IInv, JobsSound, Exists
<1> QED BY <1>1, <1>2, JobOnly DEF vars, rows, IInv

LEMMA NextInv == ASSUME IInv, [Next]_vars PROVE IInv'
<1>1. ASSUME NEW q \in Request, NEW kind \in Kinds \ {"accept", "reject"}, NEW actor \in User,
             NEW target \in Targets(kind), NEW to \in Asks(kind),
             Begin(q, kind, actor, target, to)
      PROVE  IInv'
  BY <1>1, BeginInv
<1>2. ASSUME NEW q \in Request, NEW kind \in {"accept", "reject"}, NEW i \in Invitation,
             BeginToken(q, kind, i)
      PROVE  IInv'
  BY <1>2, BeginTokenInv
<1>3. ASSUME NEW q \in Request, Load(q) \/ Commit(q) \/ Fail(q) PROVE IInv'
  BY <1>3, LoadInv, CommitInv, FailInv
<1>4. ASSUME NEW w \in Worker, Take(w) \/ Die(w) PROVE IInv'
  BY <1>4, TakeInv, DieInv
<1>5. ASSUME NEW w \in Worker, NEW sent \in SUBSET Invitation, CommitDelivery(w, sent)
      PROVE  IInv'
  BY <1>5, CommitDeliveryInv
<1>6. ASSUME NEW i \in Invitation, Expire(i) PROVE IInv'
  BY <1>6, ExpireInv
<1>7. CASE UNCHANGED vars
  BY <1>7, StutterInv
<1> QED BY <1>1, <1>2, <1>3, <1>4, <1>5, <1>6, <1>7 DEF Next, Goes, Delivers

LEMMA Inductive == Spec => []IInv
BY InitInv, NextInv, PTL DEF Spec

MarksOK == crossed \in SUBSET Request /\ split \in BOOLEAN

(* Types hold in every reachable state, and an invitation is emailed at    *)
(* most three times.                                                       *)
THEOREM TypeCorrect == Spec => []TypeOK
<1>1. Init => MarksOK
  BY DEF Init, MarksOK
<1>2. MarksOK /\ [Next]_vars => MarksOK'
  BY DEF MarksOK, Next, Marks, marks, vars
<1>3. IInv /\ MarksOK => TypeOK
  BY DEF IInv, MarksOK, TypeOK
<1> QED BY Inductive, <1>1, <1>2, <1>3, PTL DEF Spec

-----------------------------------------------------------------------------
(* What was revoked, and who joins.                                        *)

LEMMA RevokedGrows == ASSUME [Next]_vars PROVE revoked \subseteq revoked'
<1>1. ASSUME NEW q \in Request, Commit(q) PROVE revoked \subseteq revoked'
  BY <1>1 DEF Commit, CommitRole, CommitRemove, CommitTransfer, CommitDrop, CommitAccept,
              CommitArchive, CommitRestore, CommitDelete, CommitInvite
<1>2. ASSUME NEW q \in Request, Load(q) \/ Fail(q) PROVE revoked' = revoked
  BY <1>2 DEF Load, LoadMember, LoadOwn, LoadTransfer, LoadInvite, LoadCancel,
              LoadWorkspace, Loads, Fail, rows
<1>3. ASSUME NEW q, NEW kind, NEW actor, NEW target, NEW to,
             Begin(q, kind, actor, target, to) \/ BeginToken(q, kind, target)
      PROVE  revoked' = revoked
  BY <1>3 DEF Begin, BeginToken, Begins, rows
<1>4. ASSUME NEW w, NEW sent, Take(w) \/ Die(w) \/ CommitDelivery(w, sent)
      PROVE  revoked' = revoked
  BY <1>4 DEF Take, Die, CommitDelivery, rows
<1>5. ASSUME NEW i, Expire(i) PROVE revoked' = revoked
  BY <1>5 DEF Expire
<1>6. CASE UNCHANGED vars
  BY <1>6 DEF vars
<1> QED BY <1>1, <1>2, <1>3, <1>4, <1>5, <1>6 DEF Next, Goes, Delivers

(* An invitation that was cancelled, rejected or dropped by archiving is   *)
(* accepted by no request, whatever that one had read before.              *)
THEOREM RevokedStays == Spec => RevokedStaysOut
<1>1. ASSUME IInv, [Next]_vars, NEW i \in revoked PROVE invite'[i].state # "accepted"
  <2>1. i \in revoked' /\ i \in Invitation
    BY <1>1, RevokedGrows DEF IInv, RowsOK
  <2>2. InvitesSound'
    BY <1>1, NextInv DEF IInv
  <2> QED BY <2>1, <2>2 DEF InvitesSound
<1>2. IInv /\ [Next]_vars => [\A i \in revoked : invite'[i].state # "accepted"]_vars
  BY <1>1
<1> QED BY Inductive, <1>2, PTL DEF Spec, RevokedStaysOut

Joins(u) == role[u] = "none" /\ role'[u] # "none"

Admitted(u) == \/ status = "active"
               \/ \E i \in Invitation : invite[i].for = u /\ invite[i].state = "accepted"

LEMMA JoinsAdmitted ==
    ASSUME IInv, [Next]_vars, NEW u \in User, Joins(u)
    PROVE  Admitted(u)
<1>1. ASSUME NEW q \in Request, CommitRole(q) PROVE FALSE
  <2>1. request[q].to # request[q].found => role[request[q].target] # "none"
    BY <1>1 DEF CommitRole, IInv, RequestsSound, Sound
  <2>2. role' = IF request[q].to # request[q].found
                THEN [role EXCEPT ![request[q].target] = request[q].to] ELSE role
    BY <1>1 DEF CommitRole
  <2> QED BY <2>1, <2>2 DEF Joins, IInv, RowsOK
<1>2. ASSUME NEW q \in Request, CommitRemove(q) PROVE FALSE
  BY <1>2 DEF CommitRemove, Joins
<1>3. ASSUME NEW q \in Request, CommitTransfer(q) PROVE FALSE
  <2> DEFINE k == request[q]
             changed == {v \in {k.actor} : k.as # "admin"}
                          \cup {v \in {k.target} : k.found # "owner"}
  <2>1. /\ changed \subseteq k.held
        /\ role' = [v \in User |-> IF v \notin changed THEN role[v]
                                   ELSE IF v = k.target THEN "owner" ELSE "admin"]
    BY <1>3 DEF CommitTransfer
  <2>2. \A v \in k.held : role[v] # "none"
    BY DEF IInv, RequestsSound, Sound
  <2> HIDE DEF changed, k
  <2> QED BY <2>1, <2>2 DEF Joins
<1>4. ASSUME NEW q \in Request, CommitAccept(q) PROVE Admitted(u)
  <2> DEFINE k == request[q]
             i == k.target
  <2>1. /\ i \in Invitation /\ Exists(i) /\ invite[i].for = k.actor
        /\ invite[i].state \in {"open", "expired"} => status = "active"
    BY <1>4, AfterAccept
  <2>2. u = k.actor
    BY <1>4 DEF CommitAccept, Joins, IInv, RowsOK
  <2> HIDE DEF k, i
  <2> QED BY <2>1, <2>2 DEF Exists, Admitted
<1>5. ASSUME NEW q \in Request, CommitDelete(q) PROVE FALSE
  BY <1>5 DEF CommitDelete, Joins
<1>6. ASSUME role' = role PROVE FALSE
  BY <1>6 DEF Joins
<1>7. ASSUME NEW q \in Request,
             CommitDrop(q) \/ CommitArchive(q) \/ CommitRestore(q)
               \/ \E i \in Invitation : CommitInvite(q, i)
      PROVE  FALSE
  BY <1>6, <1>7 DEF CommitDrop, CommitArchive, CommitRestore, CommitInvite
<1>8. ASSUME NEW q \in Request, Load(q) \/ Fail(q) PROVE FALSE
  BY <1>6, <1>8 DEF Load, LoadMember, LoadOwn, LoadTransfer, LoadInvite, LoadCancel,
                    LoadWorkspace, Loads, Fail, rows
<1>9. ASSUME NEW q, NEW kind, NEW actor, NEW target, NEW to,
             Begin(q, kind, actor, target, to) \/ BeginToken(q, kind, target)
      PROVE  FALSE
  BY <1>6, <1>9 DEF Begin, BeginToken, Begins, rows
<1>10. ASSUME NEW w, NEW sent, Take(w) \/ Die(w) \/ CommitDelivery(w, sent) PROVE FALSE
  BY <1>6, <1>10 DEF Take, Die, CommitDelivery, rows
<1>11. ASSUME NEW i, Expire(i) PROVE FALSE
  BY <1>6, <1>11 DEF Expire
<1>12. ASSUME UNCHANGED vars PROVE FALSE
  BY <1>6, <1>12 DEF vars
<1> QED BY <1>1, <1>2, <1>3, <1>4, <1>5, <1>7, <1>8, <1>9, <1>10, <1>11, <1>12
        DEF Next, Goes, Delivers, Commit

(* However its requests overlap, nobody joins an archived or deleted       *)
(* workspace by an invitation that was not accepted before.                *)
THEOREM JoinsOnlyActive == Spec => JoinsActive
<1>1. IInv /\ [Next]_vars => [\A u \in User : Joins(u) => Admitted(u)]_vars
  BY JoinsAdmitted
<1>2. [\A u \in User : Joins(u) => Admitted(u)]_vars
        => [\A u \in User : role[u] = "none" /\ role'[u] # "none"
              => \/ status = "active"
                 \/ \E i \in Invitation :
                      invite[i].for = u /\ invite[i].state = "accepted"]_vars
  BY DEF Joins, Admitted
<1> QED BY Inductive, <1>1, <1>2, PTL DEF Spec, JoinsActive

-----------------------------------------------------------------------------
(* One owner, until a request that a transfer has crossed writes.          *)

Owned == /\ status # "deleted" => \A u \in User : role[u] = "owner" <=> u = owner
         /\ status = "deleted" => \A u \in User : role[u] = "none"

\* The request has not loaded the owner's row to write or delete it, unless it
\* is the transfer that the owner asked for.
LeavesOwner(q) ==
    LET k == request[q] IN
    /\ k.kind \in {"role", "remove", "leave"} =>
         owner \notin k.held /\ k.held \subseteq Checked(q)
    /\ k.kind = "leave" => k.actor # owner
    /\ k.kind = "transfer" =>
         /\ k.actor # k.target
         /\ status # "deleted" => k.actor = owner
         /\ k.at = "write" => k.was = k.actor /\ k.as = "owner" /\ k.found # "owner"

OwnerInv == ~split => Owned /\ \A q \in Request : q \notin crossed => LeavesOwner(q)

LEMMA InitOwner == Init => OwnerInv
BY DEF Init, OwnerInv, Owned, LeavesOwner, Idle

LEMMA LeavesKept ==
    ASSUME NEW p \in Request, LeavesOwner(p), owner' = owner,
           status' # "deleted" => status # "deleted",
           request'[p].at = request[p].at, request'[p].kind = request[p].kind,
           request'[p].actor = request[p].actor, request'[p].as = request[p].as,
           request'[p].target = request[p].target, request'[p].found = request[p].found,
           request'[p].was = request[p].was, request'[p].held \subseteq request[p].held
    PROVE  LeavesOwner(p)'
BY DEF LeavesOwner, Checked

LEMMA IdleLeaves ==
    ASSUME NEW q \in Request, request'[q] = Idle
    PROVE  LeavesOwner(q)'
BY DEF Idle, LeavesOwner

\* A request that moves on without writing leaves the owner in place.
LEMMA OwnerMoved ==
    ASSUME OwnerInv, NEW q \in Request, NEW j, Becomes(q, j), UNCHANGED <<rows, marks>>,
           ~split /\ q \notin crossed => LeavesOwner(q)'
    PROVE  OwnerInv'
<1> SUFFICES ASSUME ~split PROVE Owned' /\ \A p \in Request : p \notin crossed => LeavesOwner(p)'
  BY DEF OwnerInv, marks
<1>1. Owned'
  BY DEF OwnerInv, Owned, rows
<1>2. ASSUME NEW p \in Request, p \notin crossed PROVE LeavesOwner(p)'
  <2>1. CASE p = q
    BY <1>2, <2>1
  <2>2. CASE p # q
    BY <1>2, <2>2 DEF OwnerInv, Becomes, LeavesOwner, Checked, rows
  <2> QED BY <2>1, <2>2
<1> QED BY <1>1, <1>2

\* A request that ends, and leaves the owner's row and owner_id as they are.
LEMMA OwnerEnded ==
    ASSUME IInv, OwnerInv, NEW q \in Request, NEW gone, Done(q, gone), Marks(q),
           owner' = owner, status' # "deleted" => status # "deleted", ~split' => Owned'
    PROVE  OwnerInv'
<1> SUFFICES ASSUME ~split', NEW p \in Request, p \notin crossed'
             PROVE  LeavesOwner(p)'
  BY DEF OwnerInv
<1>1. Ends(q, gone)
  BY Ended DEF IInv
<1>2. CASE p = q
  BY <1>1, <1>2, IdleLeaves DEF Ends
<1>3. CASE p # q
  <2>1. LeavesOwner(p)
    BY <1>3 DEF OwnerInv, Marks
  <2> QED BY <1>1, <1>3, <2>1, LeavesKept DEF Ends
<1> QED BY <1>2, <1>3

LEMMA OwnerBegins ==
    ASSUME IInv, OwnerInv, NEW q \in Request, NEW kind \in Kinds, NEW actor \in User,
           NEW target \in Targets(kind), NEW to \in Role \cup {"none"},
           Begins(q, kind, actor, target, to), UNCHANGED marks,
           kind \in {"leave", "transfer"} => Allowed(kind, role[actor]),
           kind = "transfer" => target # actor
    PROVE  OwnerInv'
<1> DEFINE j == Started(kind, actor, role[actor], target, to)
<1>1. Becomes(q, j) /\ UNCHANGED rows
  <2>1. role[actor] \in Roles \cup {"none"}
    BY DEF IInv, RowsOK
  <2>2. j \in RequestType
    BY <2>1, StartedTyped
  <2>3. request' = [request EXCEPT ![q] = j] /\ UNCHANGED rows
    BY DEF Begins, Started
  <2> QED BY <2>2, <2>3, Replaced DEF IInv
<1>2. /\ request'[q].kind = kind /\ request'[q].at = "load" /\ request'[q].actor = actor
      /\ request'[q].target = target /\ request'[q].held = {}
  BY <1>1 DEF Becomes, Started, Idle
<1>3. ~split /\ kind = "leave" => actor # owner
  BY DEF Allowed, OwnerInv, Owned, Roles
<1>4. ~split /\ kind = "transfer" => actor = owner
  BY DEF Allowed, OwnerInv, Owned
<1>5. ~split => LeavesOwner(q)'
  BY <1>1, <1>2, <1>3, <1>4 DEF LeavesOwner, rows
<1> QED BY <1>1, <1>5, OwnerMoved DEF j

LEMMA OwnerLoads ==
    ASSUME IInv, OwnerInv, NEW q \in Request, Load(q), UNCHANGED marks
    PROVE  OwnerInv'
<1>1. ASSUME NEW us \in SUBSET User, NEW found \in Roles \cup {"none"}, Loads(q, us, found),
             request[q].kind # "none", request[q].kind # "transfer",
             request[q].kind \in {"role", "remove"} =>
                 us = {request[q].target} /\ (~split => owner \notin us),
             request[q].kind = "leave" => us \subseteq {request[q].actor}
      PROVE  OwnerInv'
  <2> DEFINE j == Found(request[q], us, found)
  <2>1. j \in RequestType
    BY Fields DEF IInv, RequestType, Found
  <2>2. Becomes(q, j) /\ UNCHANGED rows
    <3>1. request' = [request EXCEPT ![q] = j]
      <4>1. request \in [Request -> RequestType]
        BY DEF IInv, RowsOK, RequestType
      <4> QED BY <1>1, <4>1 DEF Loads, Found
    <3> QED BY <1>1, <2>1, <3>1, Replaced DEF IInv, Loads
  <2>3. /\ request'[q].kind = request[q].kind /\ request'[q].actor = request[q].actor
        /\ request'[q].target = request[q].target
        /\ request'[q].held = us /\ request'[q].at = "write"
    BY <2>2, Fields DEF IInv, Becomes, Found, RequestType
  <2>4. owner' = owner /\ (~split /\ q \notin crossed => LeavesOwner(q))
    BY <2>2 DEF OwnerInv, rows
  <2>5. ~split /\ q \notin crossed => LeavesOwner(q)'
    BY <1>1, <2>3, <2>4 DEF LeavesOwner, Checked
  <2> QED BY <2>2, <2>5, OwnerMoved DEF j
<1>2. CASE LoadMember(q)
  <2> DEFINE u == request[q].target
  <2>1. request[q].kind \in {"role", "remove"} /\ role[u] # "none" /\ role[u] # "owner"
    BY <1>2 DEF LoadMember, Is, CanManage
  <2>2. u \in User
    BY <2>1 DEF IInv, RequestsSound, Sound, Targets
  <2>3. ~split => u # owner
    BY <2>1, <2>2 DEF OwnerInv, Owned
  <2>4. role[u] \in Roles \cup {"none"} /\ {u} \in SUBSET User /\ Loads(q, {u}, role[u])
    BY <1>2, <2>2 DEF IInv, RowsOK, LoadMember
  <2> HIDE DEF u
  <2> QED BY <1>1, <2>1, <2>3, <2>4 DEF u
<1>3. CASE LoadOwn(q)
  <2> DEFINE a == request[q].actor
             us == {u \in {a} : role[u] # "none"}
  <2>1. request[q].kind \in {"leave", "accept"} /\ a \in User /\ Loads(q, us, role[a])
    BY <1>3 DEF LoadOwn, Is, IInv, RequestsSound, Sound
  <2>2. us \subseteq {a}
    OBVIOUS
  <2>3. us \in SUBSET User /\ role[a] \in Roles \cup {"none"}
    BY <2>1 DEF IInv, RowsOK
  <2> HIDE DEF us
  <2> QED BY <1>1, <2>1, <2>2, <2>3
<1>4. CASE LoadInvite(q) \/ LoadCancel(q) \/ LoadWorkspace(q)
  <2>1. /\ Loads(q, {}, "none") /\ {} \in SUBSET User
        /\ request[q].kind \notin {"none", "transfer", "role", "remove", "leave"}
    BY <1>4 DEF LoadInvite, LoadCancel, LoadWorkspace, Is
  <2> QED BY <1>1, <2>1
<1>5. CASE LoadTransfer(q)
  <2> DEFINE k == request[q]
             j == Transferring(k, role[k.actor], role[k.target], owner)
  <2>1. /\ Becomes(q, j) /\ UNCHANGED rows
        /\ k.actor \in User /\ k.target \in User /\ k.kind = "transfer"
    BY <1>5, AfterLoadTransfer
  <2>2. /\ request'[q].kind = "transfer" /\ request'[q].actor = k.actor
        /\ request'[q].target = k.target /\ request'[q].was = owner
        /\ request'[q].as = role[k.actor] /\ request'[q].found = role[k.target]
    BY <2>1, Fields DEF IInv, Becomes, Transferring, RequestType
  <2>3. ASSUME ~split, q \notin crossed PROVE LeavesOwner(q)'
    <3>1. status # "deleted"
      BY <1>5, <2>1, <2>3 DEF LoadTransfer, OwnerInv, Owned
    <3>2. k.actor = owner /\ k.actor # k.target
      BY <2>1, <2>3, <3>1 DEF OwnerInv, LeavesOwner
    <3>3. role[k.actor] = "owner" /\ role[k.target] # "owner"
      BY <2>1, <2>3, <3>1, <3>2 DEF OwnerInv, Owned
    <3> QED BY <2>1, <2>2, <3>2, <3>3 DEF LeavesOwner, rows
  <2> HIDE DEF j
  <2> QED BY <2>1, <2>3, OwnerMoved
<1> QED BY <1>2, <1>3, <1>4, <1>5 DEF Load

\* A transfer that no other has crossed makes its target the owner, and
\* crosses every request that had checked either of the two.
LEMMA OwnerTransfers ==
    ASSUME IInv, OwnerInv, ~split, NEW q \in Request, q \notin crossed,
           CommitTransfer(q), Marks(q)
    PROVE  OwnerInv'
<1> DEFINE k == request[q]
           changed == {u \in {k.actor} : k.as # "admin"}
                        \cup {u \in {k.target} : k.found # "owner"}
<1>1. k.kind = "transfer" /\ k.at = "write"
  BY DEF CommitTransfer, Is
<1>2. k.actor \in User /\ k.target \in User
  BY <1>1 DEF IInv, RequestsSound, Sound, Targets
<1>3. k.actor # k.target /\ k.was = k.actor /\ k.as = "owner" /\ k.found # "owner"
      /\ (status # "deleted" => k.actor = owner)
  BY <1>1 DEF OwnerInv, LeavesOwner
<1>4. changed = {k.actor, k.target}
  BY <1>3
<1>5. /\ Done(q, {}) /\ status' = status /\ status # "deleted"
      /\ owner' = k.target
      /\ role' = [u \in User |-> IF u \notin changed THEN role[u]
                                 ELSE IF u = k.target THEN "owner" ELSE "admin"]
  BY <1>3 DEF CommitTransfer
<1>6. Owned'
  <2> HIDE DEF k, changed
  <2>1. \A u \in User : role[u] = "owner" <=> u = k.actor
    BY <1>3, <1>5 DEF OwnerInv, Owned
  <2>2. \A u \in User : role'[u] = "owner" <=> u = k.target
    BY <1>3, <1>4, <1>5, <2>1
  <2> QED BY <1>5, <2>2 DEF Owned
<1>7. Ends(q, {})
  BY <1>5, Ended DEF IInv
<1>8. ASSUME NEW p \in Request, p \notin crossed' PROVE LeavesOwner(p)'
  <2>1. CASE p = q
    BY <1>7, <2>1, IdleLeaves DEF Ends
  <2>2. CASE p # q
    <3>1. owner' # owner
      BY <1>3, <1>5
    <3>2. p \notin crossed /\ Checked(p) \cap {k.actor, k.target} = {}
      BY <1>1, <1>8, <2>2, <3>1 DEF Marks
    <3>3. LeavesOwner(p)
      BY <3>2 DEF OwnerInv
    <3>4. request[p].kind # "transfer"
      BY <1>3, <1>5, <3>2, <3>3 DEF LeavesOwner, Checked
    <3>5. request[p].kind = "leave" => request[p].actor # k.target
      BY <3>2 DEF Checked
    <3>6. request[p].kind \in {"role", "remove", "leave"} =>
            k.target \notin request[p].held /\ request[p].held \subseteq Checked(p)
      BY <3>2, <3>3 DEF LeavesOwner
    <3>7. Checked(p)' = Checked(p)
      BY <1>7, <2>2 DEF Ends, Checked
    <3> HIDE DEF k
    <3> QED BY <1>5, <1>7, <2>2, <3>4, <3>5, <3>6, <3>7 DEF Ends, LeavesOwner
  <2> QED BY <2>1, <2>2
<1> QED BY <1>6, <1>8 DEF OwnerInv

\* A request that a transfer has crossed writes no member and no owner, as
\* long as the ownership is not split.
LEMMA CrossedCommits ==
    ASSUME IInv, OwnerInv, ~split', NEW q \in Request, q \in crossed,
           Commit(q) \/ Fail(q), Marks(q)
    PROVE  OwnerInv'
<1>1. ~split /\ owner' = owner /\ role' = role
  BY DEF Marks
<1>2. Owned
  BY <1>1 DEF OwnerInv
<1>3. CASE CommitDelete(q)
  <2>1. Done(q, User) /\ status' = "deleted" /\ \A u \in User : role'[u] = "none"
    BY <1>3 DEF CommitDelete
  <2>2. Owned'
    BY <2>1 DEF Owned
  <2> QED BY <1>1, <2>1, <2>2, OwnerEnded
<1>4. CASE ~CommitDelete(q)
  <2>1. /\ Done(q, {}) \/ Done(q, request[q].held)
        /\ status' = "deleted" <=> status = "deleted"
    BY <1>4 DEF Commit, CommitRole, CommitRemove, CommitTransfer, CommitDrop, CommitAccept,
                CommitArchive, CommitRestore, CommitInvite, Fail, rows
  <2>2. Owned'
    BY <1>1, <1>2, <2>1 DEF Owned
  <2> QED BY <1>1, <2>1, <2>2, OwnerEnded
<1> QED BY <1>3, <1>4

LEMMA OwnerCommits ==
    ASSUME IInv, OwnerInv, NEW q \in Request, Commit(q) \/ Fail(q), Marks(q)
    PROVE  OwnerInv'
<1> SUFFICES ASSUME ~split', q \notin crossed PROVE OwnerInv'
  BY CrossedCommits DEF OwnerInv
<1>s. ~split
  BY DEF Marks
<1> DEFINE k == request[q]
<1>0. Owned /\ LeavesOwner(q) /\ role \in [User -> Roles \cup {"none"}] /\ owner \in User
  BY <1>s DEF OwnerInv, IInv, RowsOK
<1>1. CASE CommitRole(q)
  <2>1. /\ k.kind = "role" /\ k.to \in Role /\ Done(q, {}) /\ UNCHANGED <<status, owner>>
        /\ k.to # k.found => k.target \in k.held
        /\ role' = IF k.to # k.found THEN [role EXCEPT ![k.target] = k.to] ELSE role
    BY <1>1 DEF CommitRole, Is, IInv, RequestsSound, Sound
  <2>2. k.to # "owner" /\ owner \notin k.held
    BY <1>0, <2>1, RoleAssumption DEF LeavesOwner
  <2>3. \A u \in k.held : role[u] # "none"
    BY DEF IInv, RequestsSound, Sound
  <2> HIDE DEF k
  <2>4. CASE k.to = k.found
    BY <1>0, <2>1, <2>4, OwnerEnded DEF Owned
  <2>5. CASE k.to # k.found
    <3>1. k.target # owner /\ role[k.target] # "none"
      BY <2>1, <2>2, <2>3, <2>5
    <3>2. \A u \in User : role'[u] = IF u = k.target THEN k.to ELSE role[u]
      BY <1>0, <2>1, <2>5
    <3>3. status = "deleted" => k.target \notin User
      BY <1>0, <3>1 DEF Owned
    <3>4. Owned'
      BY <1>0, <2>1, <2>2, <3>1, <3>2, <3>3 DEF Owned
    <3> QED BY <2>1, <3>4, OwnerEnded
  <2> QED BY <2>4, <2>5
<1>2. CASE CommitRemove(q)
  <2>1. /\ k.kind \in {"remove", "leave"} /\ Done(q, k.held) /\ UNCHANGED <<status, owner>>
        /\ role' = [u \in User |-> IF u \in k.held THEN "none" ELSE role[u]]
    BY <1>2 DEF CommitRemove, Is
  <2>2. owner \notin k.held
    BY <1>0, <2>1 DEF LeavesOwner
  <2> HIDE DEF k
  <2>3. Owned'
    BY <1>0, <2>1, <2>2 DEF Owned
  <2> QED BY <2>1, <2>3, OwnerEnded
<1>3. CASE CommitTransfer(q)
  BY <1>s, <1>3, OwnerTransfers
<1>4. CASE CommitAccept(q)
  <2>1. /\ invite[k.target].role \in Role /\ k.actor \in User
        /\ status # "deleted"
    BY <1>4, AfterAccept
  <2>2. /\ Done(q, {}) /\ UNCHANGED <<status, owner>>
        /\ k.found = "none" => role[k.actor] = "none"
        /\ role' = IF k.found = "none"
                   THEN [role EXCEPT ![k.actor] = invite[k.target].role] ELSE role
    BY <1>4 DEF CommitAccept
  <2>3. invite[k.target].role # "owner"
    BY <2>1, RoleAssumption
  <2> HIDE DEF k
  <2>4. CASE k.found # "none"
    BY <1>0, <2>2, <2>4, OwnerEnded DEF Owned
  <2>5. CASE k.found = "none"
    <3>1. k.actor # owner
      BY <1>0, <2>1, <2>2, <2>5 DEF Owned
    <3>2. \A u \in User : role'[u] = IF u = k.actor THEN invite[k.target].role ELSE role[u]
      BY <1>0, <2>2, <2>5
    <3>3. Owned'
      BY <1>0, <2>1, <2>2, <2>3, <3>1, <3>2 DEF Owned
    <3> QED BY <2>2, <3>3, OwnerEnded
  <2> QED BY <2>4, <2>5
<1>5. CASE CommitDrop(q) \/ (\E i \in Invitation : CommitInvite(q, i)) \/ Fail(q)
  <2>1. Done(q, {}) /\ UNCHANGED <<status, owner, role>>
    BY <1>5 DEF CommitDrop, CommitInvite, Fail, rows
  <2>2. Owned'
    BY <1>0, <2>1 DEF Owned
  <2> QED BY <2>1, <2>2, OwnerEnded
<1>6. CASE CommitArchive(q) \/ CommitRestore(q)
  <2>1. /\ Done(q, {}) /\ UNCHANGED <<owner, role>>
        /\ status' = "deleted" <=> status = "deleted"
    BY <1>6 DEF CommitArchive, CommitRestore
  <2>2. Owned'
    BY <1>0, <2>1 DEF Owned
  <2> QED BY <2>1, <2>2, OwnerEnded
<1>7. CASE CommitDelete(q)
  <2>1. /\ Done(q, User) /\ owner' = owner /\ status' = "deleted"
        /\ \A u \in User : role'[u] = "none"
    BY <1>7 DEF CommitDelete
  <2>2. Owned'
    BY <2>1 DEF Owned
  <2> QED BY <2>1, <2>2, OwnerEnded
<1> QED BY <1>1, <1>2, <1>3, <1>4, <1>5, <1>6, <1>7 DEF Commit

LEMMA NextOwner ==
    ASSUME IInv, OwnerInv, [Next]_vars
    PROVE  OwnerInv'
<1>1. ASSUME NEW q \in Request, NEW kind \in Kinds \ {"accept", "reject"}, NEW actor \in User,
             NEW target \in Targets(kind), NEW to \in Asks(kind),
             Begin(q, kind, actor, target, to), UNCHANGED marks
      PROVE  OwnerInv'
  <2>1. to \in Role \cup {"none"}
    BY DEF Asks
  <2> QED BY <1>1, <2>1, OwnerBegins DEF Begin
<1>2. ASSUME NEW q \in Request, NEW kind \in {"accept", "reject"}, NEW i \in Invitation,
             BeginToken(q, kind, i), UNCHANGED marks
      PROVE  OwnerInv'
  <2>1. kind \in Kinds /\ invite[i].for \in User /\ i \in Targets(kind)
    BY <1>2 DEF BeginToken, IInv, InvitesSound, Exists, Kinds, Targets
  <2> QED BY <1>2, <2>1, OwnerBegins DEF BeginToken
<1>3. ASSUME NEW q \in Request, Load(q), UNCHANGED marks PROVE OwnerInv'
  BY <1>3, OwnerLoads
<1>4. ASSUME NEW q \in Request, Commit(q) \/ Fail(q), Marks(q) PROVE OwnerInv'
  BY <1>4, OwnerCommits
<1>5. ASSUME UNCHANGED <<status, owner, role, request, marks>> PROVE OwnerInv'
  BY <1>5 DEF OwnerInv, Owned, LeavesOwner, Checked, marks
<1>6. ASSUME NEW w, NEW sent, Take(w) \/ Die(w) \/ CommitDelivery(w, sent),
             UNCHANGED marks
      PROVE  OwnerInv'
  BY <1>5, <1>6 DEF Take, Die, CommitDelivery, rows
<1>7. ASSUME NEW i, Expire(i), UNCHANGED marks PROVE OwnerInv'
  BY <1>5, <1>7 DEF Expire
<1>8. CASE UNCHANGED vars
  BY <1>5, <1>8 DEF vars
<1> QED BY <1>1, <1>2, <1>3, <1>4, <1>6, <1>7, <1>8 DEF Next, Goes, Delivers

(* However its requests overlap, the workspace has exactly one owner, the  *)
(* member that owner_id names, until a request writes members or the owner *)
(* that it had checked before a transfer changed them.                     *)
THEOREM OwnerUnique == Spec => []OneOwner
<1>1. IInv /\ OwnerInv /\ [Next]_vars => OwnerInv'
  BY NextOwner
<1>2. OwnerInv => OneOwner
  BY DEF OwnerInv, Owned, OneOwner
<1> QED BY Inductive, InitOwner, <1>1, <1>2, PTL DEF Spec

-----------------------------------------------------------------------------
(* The emails of invitations implement the contract of deliveries.         *)

\* Steps that leave the deliveries, and delete no invitation, stutter.
LEMMA NoEmail ==
    ASSUME delivery' = delivery,
           \A i \in Invitation : invite'[i].state = "gone" <=> invite[i].state = "gone"
    PROVE  UNCHANGED Emails!vars
BY DEF Emails!vars

LEMMA DropsEmails ==
    ASSUME IInv, NEW I \in SUBSET Invitation, Drop(I)
    PROVE  [Emails!Next]_Emails!vars
<1> DEFINE gone == {i \in I : Exists(i)}
<1>1. delivery' = [i \in Invitation |-> IF i \in gone THEN NoDelivery ELSE delivery[i]]
  BY DEF Drop, IInv, InvitesSound, RowsOK
<1>2. \A i \in Invitation :
        invite'[i].state = "gone" <=> (invite[i].state = "gone" \/ i \in gone)
  BY DroppedRows DEF Exists
<1>3. {i \in Invitation : invite'[i].state = "gone"}
        = {i \in Invitation : invite[i].state = "gone"} \cup gone
  BY <1>2
<1>4. gone \in SUBSET Invitation
  OBVIOUS
<1> HIDE DEF gone
<1> QED BY <1>1, <1>3, <1>4 DEF Emails!Next, Emails!Absent, NoDelivery

LEMMA EmailStep ==
    ASSUME IInv, [Next]_vars
    PROVE  [Emails!Next]_Emails!vars
<1>1. ASSUME NEW q \in Request, CommitDrop(q) \/ CommitArchive(q) \/ CommitDelete(q)
      PROVE  [Emails!Next]_Emails!vars
  <2>1. CASE CommitDrop(q)
    <3>1. request[q].target \in Invitation
      BY <2>1 DEF CommitDrop, Is, IInv, RequestsSound, Sound, Targets
    <3> QED BY <2>1, <3>1, DropsEmails DEF CommitDrop
  <2>2. CASE CommitArchive(q)
    BY <2>2, DropsEmails DEF CommitArchive, Outstanding
  <2>3. CASE CommitDelete(q)
    BY <2>3, DropsEmails DEF CommitDelete
  <2> QED BY <1>1, <2>1, <2>2, <2>3
<1>2. ASSUME NEW q \in Request, CommitAccept(q) PROVE UNCHANGED Emails!vars
  <2> DEFINE i == request[q].target
  <2>1. /\ i \in Invitation /\ Exists(i) /\ invite'[i].state = "accepted"
        /\ \A n \in Invitation \ {i} : invite'[n] = invite[n]
    BY <1>2, AfterAccept
  <2>2. delivery' = delivery
    BY <1>2 DEF CommitAccept
  <2> HIDE DEF i
  <2> QED BY <2>1, <2>2, NoEmail DEF Exists
<1>3. ASSUME NEW q \in Request, NEW i \in Invitation, CommitInvite(q, i)
      PROVE  [Emails!Next]_Emails!vars
  <2> DEFINE new == [status |-> "pending", attempts |-> 0]
  <2>1. /\ invite[i].state = "none" /\ delivery' = [delivery EXCEPT ![i] = new]
        /\ \A n \in Invitation : invite'[n].state = "gone" <=> invite[n].state = "gone"
    BY <1>3 DEF CommitInvite, NoInvite, IInv, RowsOK
  <2>2. delivery[i] = NoDelivery /\ delivery \in [Invitation -> DeliveryType]
    BY <2>1, RowTypes DEF IInv, InvitesSound, Exists
  <2>3. /\ \A n \in Invitation \ {i} : delivery'[n] = delivery[n]
        /\ delivery'[i] = new
        /\ delivery' \in [Invitation -> {delivery'[n] : n \in Invitation}]
    BY <2>1, <2>2
  <2>4. Emails!Created(delivery[i], delivery'[i])
    BY <2>2, <2>3 DEF Emails!Created, Emails!Absent, NoDelivery
  <2>5. {n \in Invitation : invite'[n].state = "gone"}
          = {n \in Invitation : invite[n].state = "gone"}
    BY <2>1
  <2> HIDE DEF new
  <2> QED BY <2>1, <2>3, <2>4, <2>5 DEF Emails!Next
<1>4. ASSUME NEW w \in Worker, NEW sent \in SUBSET Invitation, CommitDelivery(w, sent)
      PROVE  [Emails!Next]_Emails!vars
  <2>1. /\ delivery' \in [Invitation -> DeliveryType]
        /\ \A i \in job[w] : /\ delivery'[i].attempts = delivery[i].attempts + 1
                             /\ delivery'[i].status \in {"sent", "failed"}
        /\ \A i \in Invitation \ job[w] : delivery'[i] = delivery[i]
    BY <1>4, AfterDelivery
  <2>2. \A i \in job[w] : Emails!Open(delivery[i])
    BY DEF IInv, JobsSound, Emails!Open
  <2>3. \A i \in Invitation : \/ delivery'[i] = delivery[i]
                              \/ Emails!Attempted(delivery[i], delivery'[i])
    BY <2>1, <2>2 DEF Emails!Attempted
  <2>4. invite' = invite
    BY <1>4 DEF CommitDelivery
  <2>5. delivery' \in [Invitation -> {delivery'[n] : n \in Invitation}]
    BY <2>1
  <2> QED BY <2>3, <2>4, <2>5 DEF Emails!Next
<1>5. ASSUME delivery' = delivery, invite' = invite PROVE UNCHANGED Emails!vars
  BY <1>5, NoEmail
<1>6. ASSUME NEW q \in Request,
             \/ CommitRole(q) \/ CommitRemove(q) \/ CommitTransfer(q) \/ CommitRestore(q)
             \/ Load(q) \/ Fail(q)
      PROVE  UNCHANGED Emails!vars
  BY <1>5, <1>6 DEF CommitRole, CommitRemove, CommitTransfer, CommitRestore, Load,
       LoadMember, LoadOwn, LoadTransfer, LoadInvite, LoadCancel, LoadWorkspace, Loads,
       Fail, rows
<1>7. ASSUME NEW q, NEW kind, NEW actor, NEW target, NEW to,
             Begin(q, kind, actor, target, to) \/ BeginToken(q, kind, target)
      PROVE  UNCHANGED Emails!vars
  BY <1>5, <1>7 DEF Begin, BeginToken, Begins, rows
<1>8. ASSUME NEW w, Take(w) \/ Die(w) PROVE UNCHANGED Emails!vars
  BY <1>5, <1>8 DEF Take, Die, rows
<1>9. ASSUME NEW i \in Invitation, Expire(i) PROVE UNCHANGED Emails!vars
  <2>1. delivery' = delivery /\ invite' = [invite EXCEPT ![i].state = "expired"]
        /\ invite[i].state = "open" /\ invite \in [Invitation -> InviteType]
    BY <1>9, RowTypes DEF Expire, IInv
  <2>2. \A n \in Invitation : invite'[n].state = "gone" <=> invite[n].state = "gone"
    BY <2>1 DEF InviteType
  <2> QED BY <2>1, <2>2, NoEmail
<1>10. CASE UNCHANGED vars
  BY <1>5, <1>10 DEF vars
<1> QED BY <1>1, <1>2, <1>3, <1>4, <1>6, <1>7, <1>8, <1>9, <1>10
        DEF Next, Goes, Delivers, Commit

(* Creating, emailing, accepting, cancelling and dropping invitations      *)
(* implement a table of deliveries with at most three attempts.            *)
THEOREM Implements == Spec => ImplementsContract
<1>1. Init => Emails!Init
  BY DEF Init, Emails!Init, Emails!Absent, NoDelivery, NoInvite
<1>2. IInv /\ [Next]_vars => [Emails!Next]_Emails!vars
  BY EmailStep
<1> QED BY Inductive, <1>1, <1>2, PTL DEF Spec, ImplementsContract, Emails!Spec
=============================================================================
