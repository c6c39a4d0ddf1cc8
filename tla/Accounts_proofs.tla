-------------------------- MODULE Accounts_proofs ---------------------------
(***************************************************************************)
(* Proofs about Accounts: for any number of users, sessions, tokens and    *)
(* requests, however their transactions interleave.                        *)
(***************************************************************************)
EXTENDS Accounts, TLAPS

-----------------------------------------------------------------------------
(* The inductive invariant.                                                *)

Busy(q) == request[q].at # "idle"

\* Two requests of a user are in progress together.
Together(p, q) == p # q /\ Busy(p) /\ Busy(q) /\ request[p].user = request[q].user

\* What a request is about exists, by its kind.
Requests ==
    \A q \in Request :
        LET k == request[q] IN
        /\ k.at = "idle" => k = Idle
        /\ k.at # "idle" =>
             /\ k.kind \in Kinds /\ k.user \in User
             /\ user[k.user].state = "none" <=> (k.kind = "register" /\ k.at = "read")
             /\ k.token # Nobody <=> k.kind \in Consumers
             /\ k.session # Nobody <=> k.kind \in {"refresh", "logout"}
             /\ k.kind \in Mailers \cup Consumers \cup {"register"} => k.email # Nobody
        /\ k.session # Nobody =>
             session[k.session].user = k.user /\ session[k.session].state # "none"
        /\ \A t \in k.tokens : token[t].state # "none"
        /\ k.at = "commit" => k.kind \in Revokers \cup Mailers
        /\ k.at = "issue" => k.kind \in Issuers
        /\ k.at = "issue" /\ k.kind = "refresh" => session[k.session].state = "revoked"

\* Rows belong to users that have registered; nobody else works on a user
\* that is about to.
Owned ==
    /\ \A s \in Session : /\ session[s].state = "none" <=> session[s].user = Nobody
                          /\ session[s].user # Nobody => user[session[s].user].state # "none"
    /\ \A t \in Token : /\ token[t].state = "none" <=> token[t].user = Nobody
                        /\ token[t].user # Nobody => user[token[t].user].state # "none"
                        /\ token[t].user # Nobody => token[t].email # Nobody
                        /\ token[t].user = Nobody => token[t].purpose = "none"
    /\ \A u \in User : user[u].state = "active" => user[u].email # Nobody
    /\ \A p, q \in Request : request[p].kind = "register" /\ request[p].at = "read" => ~Together(p, q)

\* A request whose result would be wrong has noticed.
Noticed ==
    \A p, q \in Request :
        Together(p, q) /\ Spoils(request[p].kind, request[p].session,
                                 request[q].kind, request[q].session) => request[p].late

\* The tokens a request has locked.
Held(q) == {request[q].token} \cup (IF request[q].kind \in Mailers THEN request[q].tokens ELSE {})

Locks ==
    /\ \A q \in Request : \A t \in Held(q) \ {Nobody} : token[t].state \in {"open", "expired"}
    /\ \A p, q \in Request : p # q => Held(p) \cap Held(q) \subseteq {Nobody}
    /\ \A t \in Token : /\ token[t].ends <= 1
                        /\ token[t].state \in {"none", "open", "expired"} => token[t].ends = 0

\* A consumer is about the token it has locked.
Consuming ==
    \A q \in Request : request[q].token # Nobody =>
        LET t == token[request[q].token] IN
        /\ t.user = request[q].user /\ t.purpose = Purpose(request[q].kind)
        /\ t.email = request[q].email

\* Nothing that a request has not seen is left when it commits.
SeenSessions ==
    \A q \in Request, s \in Session :
        /\ request[q].at = "commit" /\ request[q].kind \in Revokers
        /\ s \in Live(request[q].user)
        => s \in request[q].sessions \/ session[s].late

SeenTokens ==
    \A q \in Request, t \in Token :
        /\ request[q].at = "commit" /\ token[t].user = request[q].user
        => /\ /\ request[q].kind \in Mailers
              /\ token[t].state = "open" /\ token[t].purpose = Purpose(request[q].kind)
              => t \in request[q].tokens \/ request[q].late
           /\ /\ request[q].kind = "delete_account"
              /\ token[t].state # "gone" /\ token[t].purpose = "change_email"
              => t \in request[q].tokens \/ request[q].late

\* old sessions, and replaced ones.
Revoked == \A s \in Session : session[s].old /\ ~session[s].late => s \notin Live(session[s].user)

Replaced ==
    /\ \A s \in Session : session[s].from # Nobody =>
         session[session[s].from].state = "revoked"
    /\ \A s, r \in Session :
         s # r /\ session[s].from # Nobody /\ session[s].from = session[r].from => session[s].late
    /\ \A q \in Request, s \in Session :
         request[q].kind = "refresh" /\ session[s].from = request[q].session
         => request[q].late /\ session[s].late

\* Who has a verification mail has the address it was sent to, or a newer one.
Current(u, e) == user[u].state = "active" => user[u].email \in {e} \cup proven[u]

Addresses ==
    /\ VerifiedAddress
    /\ \A t \in Token : token[t].purpose = "verify_email" => Current(token[t].user, token[t].email)
    /\ \A q \in Request : request[q].kind \in {"verify_request", "verify_confirm"} =>
         Current(request[q].user, request[q].email)

Deleted ==
    /\ DeletedIsAnonymous
    /\ \A q \in Request :
         /\ request[q].kind \in {"profile", "confirm_email"}
         /\ user[request[q].user].state = "deleted"
         => user[request[q].user].late

IInv == /\ TypeOK /\ Requests /\ Owned /\ Noticed
        /\ Locks /\ Consuming /\ SeenSessions /\ SeenTokens
        /\ Revoked /\ Replaced /\ OneOpenToken /\ Addresses /\ Deleted

-----------------------------------------------------------------------------
(* The types of the rows.                                                  *)

UserRow == [state: {"none", "active", "deleted"}, email: Options(Email),
            verified: BOOLEAN, name: {"own", "deleted"}, late: BOOLEAN]
SessionRow == [state: {"none", "live", "revoked", "expired"},
               user: Options(User), from: Options(Session), old: BOOLEAN, late: BOOLEAN]
TokenRow == [state: {"none", "open", "used", "expired", "gone"},
             user: Options(User), purpose: Purposes \cup {"none"},
             email: Options(Email), ends: 0..2, late: BOOLEAN]
RequestRow == [at: {"idle", "read", "commit", "issue"}, kind: Kinds \cup {"none"},
               user: Options(User), session: Options(Session), token: Options(Token),
               email: Options(Email), sessions: SUBSET Session, tokens: SUBSET Token,
               late: BOOLEAN]

LEMMA Types == TypeOK <=> /\ user \in [User -> UserRow]
                          /\ session \in [Session -> SessionRow]
                          /\ token \in [Token -> TokenRow]
                          /\ request \in [Request -> RequestRow]
                          /\ proven \in [User -> SUBSET Email]
BY DEF TypeOK, UserRow, SessionRow, TokenRow, RequestRow

LEMMA TypesAfter ==
    ASSUME user' \in [User -> UserRow], session' \in [Session -> SessionRow],
           token' \in [Token -> TokenRow], request' \in [Request -> RequestRow],
           proven' \in [User -> SUBSET Email]
    PROVE  TypeOK'
BY DEF TypeOK, UserRow, SessionRow, TokenRow, RequestRow

\* A request that is not in progress.
LEMMA IdleRow == /\ Idle \in RequestRow /\ Idle.at = "idle" /\ Idle.kind = "none"
                 /\ Idle.session = Nobody /\ Idle.token = Nobody
                 /\ Idle.sessions = {} /\ Idle.tokens = {} /\ Idle.user = Nobody
BY DEF Idle, RequestRow, Options

LEMMA KindsApart ==
    /\ "none" \notin Kinds \cup Issuers \cup Revokers \cup Mailers \cup Consumers
    /\ Issuers \cup Revokers \cup Mailers \cup Consumers \subseteq Kinds
    /\ "logout" \in Kinds /\ "profile" \in Kinds
BY DEF Kinds, Issuers, Revokers, Mailers, Consumers

\* The request q ends.
LEMMA Ended ==
    ASSUME TypeOK, NEW q \in Request, Done(q)
    PROVE  /\ request' \in [Request -> RequestRow]
           /\ request'[q] = Idle /\ \A p \in Request \ {q} : request'[p] = request[p]
BY Types, IdleRow DEF Done

-----------------------------------------------------------------------------
(* The end of a request that writes nothing.                               *)

\* What the end of a request cannot disturb in the requests that go on.
LEMMA EndKeeps ==
    ASSUME IInv, NEW q \in Request, Done(q)
    PROVE  /\ Noticed'
           /\ \A p, r \in Request : p # r => Held(p)' \cap Held(r)' \subseteq {Nobody}
           /\ \A p \in Request \ {q} : Held(p)' = Held(p)
           /\ Held(q)' = {Nobody}
<1>1. /\ request'[q] = Idle /\ \A p \in Request \ {q} : request'[p] = request[p]
  BY Ended DEF IInv
<1>2. Noticed'
  BY <1>1, IdleRow DEF IInv, Noticed, Together, Busy
<1>3. \A p \in Request \ {q} : Held(p)' = Held(p)
  BY <1>1 DEF Held
<1>4. Held(q)' = {Nobody}
  BY <1>1, IdleRow, KindsApart DEF Held
<1>5. \A p, r \in Request : p # r => Held(p)' \cap Held(r)' \subseteq {Nobody}
  BY <1>3, <1>4 DEF IInv, Locks
<1> QED BY <1>2, <1>3, <1>4, <1>5

\* An error return, a refused write or a crash.
LEMMA FailStep ==
    ASSUME IInv, NEW q \in Request, Fail(q)
    PROVE  IInv'
<1>1. Done(q) /\ UNCHANGED <<user, session, token, proven>>
  BY DEF Fail, rows
<1>2. /\ request' \in [Request -> RequestRow]
      /\ request'[q] = Idle /\ \A p \in Request \ {q} : request'[p] = request[p]
  BY <1>1, Ended DEF IInv
<1>3. TypeOK'
  BY <1>1, <1>2, Types, TypesAfter DEF IInv
<1>4. Requests'
  BY <1>1, <1>2, IdleRow DEF IInv, Requests
<1>5. Owned'
  BY <1>1, <1>2, IdleRow DEF IInv, Owned, Together, Busy
<1>6. Locks'
  BY <1>1, <1>2, EndKeeps DEF IInv, Locks
<1>7. Consuming'
  BY <1>1, <1>2, IdleRow DEF IInv, Consuming
<1>8. SeenSessions'
  BY <1>1, <1>2, IdleRow DEF IInv, SeenSessions, Live
<1>9. SeenTokens'
  BY <1>1, <1>2, IdleRow DEF IInv, SeenTokens
<1>10. Revoked' /\ OneOpenToken'
  BY <1>1 DEF IInv, Revoked, OneOpenToken, Live
<1>11. Replaced'
  BY <1>1, <1>2, IdleRow DEF IInv, Replaced
<1>12. Addresses'
  BY <1>1, <1>2, IdleRow DEF IInv, Addresses, VerifiedAddress, Current
<1>13. Deleted'
  BY <1>1, <1>2, IdleRow DEF IInv, Deleted, DeletedIsAnonymous
<1> QED BY <1>1, <1>3, <1>4, <1>5, <1>6, <1>7, <1>8, <1>9, <1>10, <1>11, <1>12, <1>13,
           EndKeeps DEF IInv

\* The request goes on to insert a session.
LEMMA IssueRow ==
    ASSUME TypeOK, NEW q \in Request, request' = [request EXCEPT ![q].at = "issue"]
    PROVE  /\ request' \in [Request -> RequestRow] /\ request'[q].at = "issue"
           /\ \A p \in Request :
                /\ p # q => request'[p] = request[p]
                /\ request'[p].kind = request[p].kind /\ request'[p].user = request[p].user
                /\ request'[p].session = request[p].session
                /\ request'[p].token = request[p].token
                /\ request'[p].email = request[p].email /\ request'[p].late = request[p].late
                /\ request'[p].sessions = request[p].sessions
                /\ request'[p].tokens = request[p].tokens
<1>1. request \in [Request -> RequestRow]
  BY Types
<1>2. [request[q] EXCEPT !.at = "issue"] \in RequestRow
  BY <1>1 DEF RequestRow
<1>3. \A p \in Request : request'[p] = IF p = q THEN [request[q] EXCEPT !.at = "issue"]
                                               ELSE request[p]
  BY <1>1
<1>4. request' \in [Request -> RequestRow]
  BY <1>1, <1>2
<1> QED BY <1>1, <1>3, <1>4 DEF RequestRow

\* Who works on something is a user, and so is who a token was mailed to.
LEMMA RequestOfUser ==
    ASSUME IInv, NEW q \in Request, request[q].kind \in Kinds
    PROVE  request[q].user \in User /\ request[q].at # "idle"
BY IdleRow, KindsApart DEF IInv, Requests

LEMMA TokenOfUser ==
    ASSUME IInv, NEW t \in Token, token[t].purpose # "none"
    PROVE  token[t].user \in User
BY Types DEF IInv, Owned, TokenRow, Options, Purposes

LEMMA ConsumedEmail ==
    ASSUME IInv, NEW q \in Request, request[q].kind \in Mailers \cup Consumers \cup {"register"}
    PROVE  request[q].email \in Email
BY RequestOfUser, KindsApart, Types DEF IInv, Requests, RequestRow, Options, Issuers

\* What a request holds is a token.
LEMMA HeldTokens ==
    ASSUME IInv, NEW q \in Request
    PROVE  Held(q) \ {Nobody} \subseteq Token
BY Types DEF IInv, Held, RequestRow, Options

-----------------------------------------------------------------------------
(* Steps of one session, one token or one name.                            *)

\* A session ends, by its owner or in time: what it was is still known.
LEMMA SessionRowStep ==
    ASSUME IInv, NEW s \in Session, NEW st \in {"revoked", "expired"},
           session' = [session EXCEPT ![s].state = st]
    PROVE  /\ session' \in [Session -> SessionRow]
           /\ session'[s].state = st
           /\ \A r \in Session :
                /\ r # s => session'[r].state = session[r].state
                /\ session'[r].user = session[r].user /\ session'[r].from = session[r].from
                /\ session'[r].old = session[r].old /\ session'[r].late = session[r].late
<1>1. session \in [Session -> SessionRow]
  BY Types DEF IInv
<1>2. [session[s] EXCEPT !.state = st] \in SessionRow
  BY <1>1 DEF SessionRow
<1>3. session' = [session EXCEPT ![s] = [session[s] EXCEPT !.state = st]]
  OBVIOUS
<1>4. /\ session' \in [Session -> SessionRow]
      /\ \A r \in Session : session'[r] = IF r = s THEN [session[s] EXCEPT !.state = st]
                                                   ELSE session[r]
  BY <1>1, <1>2, <1>3
<1> QED BY <1>1, <1>2, <1>4 DEF SessionRow

LEMMA ExpireSessionStep ==
    ASSUME IInv, NEW s \in Session, ExpireSession(s)
    PROVE  IInv'
<1>1. /\ session[s].state = "live" /\ session' = [session EXCEPT ![s].state = "expired"]
      /\ UNCHANGED <<user, token, request, proven>>
  BY DEF ExpireSession
<1>2. /\ session' \in [Session -> SessionRow]
      /\ session'[s].state = "expired"
      /\ \A r \in Session :
           /\ r # s => session'[r].state = session[r].state
           /\ session'[r].user = session[r].user /\ session'[r].from = session[r].from
           /\ session'[r].old = session[r].old /\ session'[r].late = session[r].late
  BY <1>1, SessionRowStep
<1>3. \A u : Live(u)' = Live(u)
  BY <1>1, <1>2 DEF Live
<1>4. TypeOK'
  BY <1>1, <1>2, Types, TypesAfter DEF IInv
<1>5. Requests'
  BY <1>1, <1>2, Types DEF IInv, Requests, RequestRow, Options
<1>6. Owned'
  BY <1>1, <1>2 DEF IInv, Owned, Together, Busy
<1>7. Noticed' /\ Locks' /\ Consuming'
  BY <1>1 DEF IInv, Noticed, Together, Busy, Locks, Held, Consuming
<1>8. SeenSessions' /\ Revoked'
  BY <1>1, <1>2, <1>3 DEF IInv, SeenSessions, Revoked
<1>9. SeenTokens' /\ OneOpenToken'
  BY <1>1 DEF IInv, SeenTokens, OneOpenToken
<1>10. Replaced'
  BY <1>1, <1>2, Types DEF IInv, Replaced, SessionRow, Options
<1>11. Addresses' /\ Deleted'
  BY <1>1 DEF IInv, Addresses, VerifiedAddress, Current, Deleted, DeletedIsAnonymous
<1> QED BY <1>4, <1>5, <1>6, <1>7, <1>8, <1>9, <1>10, <1>11 DEF IInv

\* A session is revoked by the request it is about.
LEMMA EndStep ==
    ASSUME IInv, NEW q \in Request, Is(q, "read", {"logout", "refresh"}),
           ~SessionLocked(request[q].session), session' = End(request[q].session)
    PROVE  /\ request[q].session \in Session
           /\ session' \in [Session -> SessionRow]
           /\ session'[request[q].session].state = "revoked"
           /\ \A r \in Session :
                /\ r # request[q].session => session'[r].state = session[r].state
                /\ session'[r].user = session[r].user /\ session'[r].from = session[r].from
                /\ session'[r].old = session[r].old /\ session'[r].late = session[r].late
           /\ \A u : Live(u)' = Live(u) \ {request[q].session}
           /\ Revoked'
<1>1. request[q].session \in Session
  BY Types DEF IInv, Requests, RequestRow, Options, Is
<1>2. /\ session' \in [Session -> SessionRow]
      /\ session'[request[q].session].state = "revoked"
      /\ \A r \in Session :
           /\ r # request[q].session => session'[r].state = session[r].state
           /\ session'[r].user = session[r].user /\ session'[r].from = session[r].from
           /\ session'[r].old = session[r].old /\ session'[r].late = session[r].late
  BY <1>1, SessionRowStep DEF End
<1>3. \A u : Live(u)' = Live(u) \ {request[q].session}
  BY <1>1, <1>2 DEF Live
<1>4. Revoked'
  BY <1>2, <1>3 DEF IInv, Revoked
<1> QED BY <1>1, <1>2, <1>3, <1>4

\* The successors of a session stay what they are.
LEMMA ReplacedAfterEnd ==
    ASSUME IInv, NEW q \in Request, NEW x \in Session,
           session'[x].state = "revoked",
           \A r \in Session :
              /\ r # x => session'[r].state = session[r].state
              /\ session'[r].from = session[r].from /\ session'[r].late = session[r].late,
           \A p \in Request : \/ request'[p].kind = "none"
                              \/ request'[p].kind = request[p].kind
                                 /\ request'[p].session = request[p].session
                                 /\ request'[p].late = request[p].late
    PROVE  Replaced'
<1>1. Replaced
  BY DEF IInv
<1>2. \A s \in Session : session[s].from # Nobody => session[s].from \in Session
  BY Types DEF IInv, SessionRow, Options
<1>3. \A s \in Session : session'[s].from # Nobody =>
        session'[session'[s].from].state = "revoked"
  BY <1>1, <1>2 DEF Replaced
<1>4. \A s, r \in Session :
        s # r /\ session'[s].from # Nobody /\ session'[s].from = session'[r].from
        => session'[s].late
  BY <1>1 DEF Replaced
<1>5. ASSUME NEW p \in Request, NEW s \in Session,
             request'[p].kind = "refresh", session'[s].from = request'[p].session
      PROVE  request'[p].late /\ session'[s].late
  <2>1. /\ request'[p].kind = request[p].kind /\ request'[p].session = request[p].session
        /\ request'[p].late = request[p].late
    BY <1>5
  <2> QED BY <1>1, <1>5, <2>1 DEF Replaced
<1> QED BY <1>3, <1>4, <1>5 DEF Replaced

LEMMA CommitLogoutStep ==
    ASSUME IInv, NEW q \in Request, CommitLogout(q)
    PROVE  IInv'
<1> DEFINE x == request[q].session
<1>1. /\ Is(q, "read", {"logout"}) /\ ~SessionLocked(x) /\ session' = End(x)
      /\ Done(q) /\ UNCHANGED <<user, token, proven>>
  BY DEF CommitLogout
<1>2. /\ x \in Session /\ session' \in [Session -> SessionRow]
      /\ session'[x].state = "revoked"
      /\ \A r \in Session :
           /\ r # x => session'[r].state = session[r].state
           /\ session'[r].user = session[r].user /\ session'[r].from = session[r].from
           /\ session'[r].old = session[r].old /\ session'[r].late = session[r].late
      /\ \A u : Live(u)' = Live(u) \ {x}
      /\ Revoked'
  BY <1>1, EndStep DEF Is
<1>3. /\ request' \in [Request -> RequestRow]
      /\ request'[q] = Idle /\ \A p \in Request \ {q} : request'[p] = request[p]
  BY <1>1, Ended DEF IInv
<1>4. session[x].state # "none" /\ session[x].user # Nobody
  BY <1>1, <1>2, NobodyAssumption DEF Is, IInv, Requests, Owned
<1>5. TypeOK'
  BY <1>1, <1>2, <1>3, Types, TypesAfter DEF IInv
<1>6. Requests'
  BY <1>1, <1>2, <1>3, IdleRow, Types DEF IInv, Requests, RequestRow, Options
<1>7. Owned'
  BY <1>1, <1>2, <1>3, <1>4, IdleRow DEF IInv, Owned, Together, Busy
<1>8. Locks'
  BY <1>1, <1>3, EndKeeps DEF IInv, Locks
<1>9. Consuming'
  BY <1>1, <1>3, IdleRow DEF IInv, Consuming
<1>10. SeenSessions'
  BY <1>1, <1>2, <1>3, IdleRow DEF IInv, SeenSessions
<1>11. SeenTokens' /\ OneOpenToken'
  BY <1>1, <1>3, IdleRow DEF IInv, SeenTokens, OneOpenToken
<1>12. Replaced'
  BY <1>2, <1>3, IdleRow, ReplacedAfterEnd
<1>13. Addresses' /\ Deleted'
  BY <1>1, <1>3, IdleRow DEF IInv, Addresses, VerifiedAddress, Current, Deleted,
     DeletedIsAnonymous
<1> QED BY <1>1, <1>2, <1>5, <1>6, <1>7, <1>8, <1>9, <1>10, <1>11, <1>12, <1>13,
           EndKeeps DEF IInv

\* The first transaction of a refresh: the request goes on.
LEMMA CommitRefreshStep ==
    ASSUME IInv, NEW q \in Request, CommitRefresh(q)
    PROVE  IInv'
<1> DEFINE x == request[q].session
<1>1. /\ Is(q, "read", {"refresh"}) /\ ~SessionLocked(x) /\ session' = End(x)
      /\ request' = [request EXCEPT ![q].at = "issue"]
      /\ UNCHANGED <<user, token, proven>>
  BY DEF CommitRefresh
<1>2. /\ x \in Session /\ session' \in [Session -> SessionRow]
      /\ session'[x].state = "revoked"
      /\ \A r \in Session :
           /\ r # x => session'[r].state = session[r].state
           /\ session'[r].user = session[r].user /\ session'[r].from = session[r].from
           /\ session'[r].old = session[r].old /\ session'[r].late = session[r].late
      /\ \A u : Live(u)' = Live(u) \ {x}
      /\ Revoked'
  BY <1>1, EndStep DEF Is
<1>3. /\ request' \in [Request -> RequestRow] /\ request'[q].at = "issue"
      /\ \A p \in Request :
           /\ p # q => request'[p] = request[p]
           /\ request'[p].kind = request[p].kind /\ request'[p].user = request[p].user
           /\ request'[p].session = request[p].session /\ request'[p].token = request[p].token
           /\ request'[p].email = request[p].email /\ request'[p].late = request[p].late
           /\ request'[p].sessions = request[p].sessions
           /\ request'[p].tokens = request[p].tokens
  BY <1>1, IssueRow DEF IInv
<1>4. session[x].state # "none" /\ session[x].user # Nobody
  BY <1>1, <1>2, NobodyAssumption DEF Is, IInv, Requests, Owned
<1>5. /\ request[q].at = "read" /\ request[q].kind = "refresh"
      /\ "refresh" \in Issuers /\ "refresh" \notin Consumers
  BY <1>1 DEF Is, Issuers, Consumers
<1>6. TypeOK'
  BY <1>1, <1>2, <1>3, Types, TypesAfter DEF IInv
<1>7. Requests'
  BY <1>1, <1>2, <1>3, <1>5, Types DEF IInv, Requests, RequestRow, Options
<1>8. Owned'
  BY <1>1, <1>2, <1>3, <1>4, <1>5 DEF IInv, Owned, Together, Busy
<1>9. Noticed'
  BY <1>3, <1>5 DEF IInv, Noticed, Together, Busy
<1>10. Locks' /\ Consuming'
  BY <1>1, <1>3 DEF IInv, Locks, Held, Consuming
<1>11. SeenSessions'
  BY <1>1, <1>2, <1>3, <1>5 DEF IInv, SeenSessions
<1>12. SeenTokens' /\ OneOpenToken'
  BY <1>1, <1>3, <1>5 DEF IInv, SeenTokens, OneOpenToken
<1>13. Replaced'
  BY <1>2, <1>3, ReplacedAfterEnd
<1>14. Addresses' /\ Deleted'
  BY <1>1, <1>3 DEF IInv, Addresses, VerifiedAddress, Current, Deleted, DeletedIsAnonymous
<1> QED BY <1>2, <1>6, <1>7, <1>8, <1>9, <1>10, <1>11, <1>12, <1>13, <1>14 DEF IInv

LEMMA ExpireTokenStep ==
    ASSUME IInv, NEW t \in Token, ExpireToken(t)
    PROVE  IInv'
<1>1. /\ token[t].state = "open" /\ token' = [token EXCEPT ![t].state = "expired"]
      /\ UNCHANGED <<user, session, request, proven>>
  BY DEF ExpireToken
<1>2. /\ token' \in [Token -> TokenRow] /\ token'[t].state = "expired"
      /\ \A r \in Token :
           /\ r # t => token'[r].state = token[r].state
           /\ token'[r].user = token[r].user /\ token'[r].purpose = token[r].purpose
           /\ token'[r].email = token[r].email /\ token'[r].ends = token[r].ends
           /\ token'[r].late = token[r].late
  <2>1. token \in [Token -> TokenRow]
    BY Types DEF IInv
  <2>2. [token[t] EXCEPT !.state = "expired"] \in TokenRow
    BY <2>1 DEF TokenRow
  <2>3. \A r \in Token : token'[r] = IF r = t THEN [token[t] EXCEPT !.state = "expired"]
                                              ELSE token[r]
    BY <1>1, <2>1
  <2>4. token' \in [Token -> TokenRow]
    BY <1>1, <2>1, <2>2
  <2> QED BY <2>1, <2>3, <2>4 DEF TokenRow
<1>3. TypeOK'
  BY <1>1, <1>2, Types, TypesAfter DEF IInv
<1>4. Requests'
  BY <1>1 DEF IInv, Requests
<1>5. Owned'
  BY <1>1, <1>2 DEF IInv, Owned, Together, Busy
<1>6. Noticed'
  BY <1>1 DEF IInv, Noticed, Together, Busy
<1>7. Locks'
  <2>1. \A p \in Request : Held(p)' = Held(p)
    BY <1>1 DEF Held
  <2>2. \A p \in Request : Held(p) \ {Nobody} \subseteq Token
    BY Types DEF IInv, Held, RequestRow, Options
  <2> QED BY <1>1, <1>2, <2>1, <2>2 DEF IInv, Locks
<1>8. Consuming'
  BY <1>1, <1>2, Types DEF IInv, Consuming, RequestRow, Options
<1>9. SeenSessions' /\ Revoked' /\ Replaced'
  BY <1>1 DEF IInv, SeenSessions, Revoked, Replaced, Live
<1>10. SeenTokens' /\ OneOpenToken'
  BY <1>1, <1>2 DEF IInv, SeenTokens, OneOpenToken
<1>11. Addresses'
  BY <1>1, <1>2 DEF IInv, Addresses, VerifiedAddress, Current
<1>12. Deleted'
  BY <1>1 DEF IInv, Deleted, DeletedIsAnonymous
<1> QED BY <1>3, <1>4, <1>5, <1>6, <1>7, <1>8, <1>9, <1>10, <1>11, <1>12 DEF IInv

LEMMA CommitProfileStep ==
    ASSUME IInv, NEW q \in Request, CommitProfile(q)
    PROVE  IInv'
<1> DEFINE u == request[q].user
<1>1. /\ Is(q, "read", {"profile"}) /\ user' = [user EXCEPT ![u].name = "own"]
      /\ Done(q) /\ UNCHANGED <<session, token, proven>>
  BY DEF CommitProfile
<1>2. /\ request' \in [Request -> RequestRow]
      /\ request'[q] = Idle /\ \A p \in Request \ {q} : request'[p] = request[p]
  BY <1>1, Ended DEF IInv
<1>3. u \in User /\ (user[u].state = "deleted" => user[u].late)
  BY <1>1 DEF Is, IInv, Requests, Deleted
<1>4. /\ user' \in [User -> UserRow] /\ user'[u].name = "own"
      /\ \A v \in User :
           /\ v # u => user'[v].name = user[v].name
           /\ user'[v].state = user[v].state /\ user'[v].email = user[v].email
           /\ user'[v].verified = user[v].verified /\ user'[v].late = user[v].late
  <2>1. user \in [User -> UserRow]
    BY Types DEF IInv
  <2>2. [user[u] EXCEPT !.name = "own"] \in UserRow
    BY <1>3, <2>1 DEF UserRow
  <2>3. \A v \in User : user'[v] = IF v = u THEN [user[u] EXCEPT !.name = "own"] ELSE user[v]
    BY <1>1, <1>3, <2>1
  <2>4. user' \in [User -> UserRow]
    BY <1>1, <2>1, <2>2
  <2> QED BY <1>3, <2>1, <2>3, <2>4 DEF UserRow
<1>5. TypeOK'
  BY <1>1, <1>2, <1>4, Types, TypesAfter DEF IInv
<1>6. Requests'
  BY <1>1, <1>2, <1>4, IdleRow DEF IInv, Requests
<1>7. Owned'
  BY <1>1, <1>2, <1>4, IdleRow, Types DEF IInv, Owned, Together, Busy, SessionRow, TokenRow,
     Options
<1>8. Locks'
  BY <1>1, <1>2, EndKeeps DEF IInv, Locks
<1>9. Consuming'
  BY <1>1, <1>2, IdleRow DEF IInv, Consuming
<1>10. SeenSessions' /\ Revoked' /\ OneOpenToken'
  BY <1>1, <1>2, IdleRow DEF IInv, SeenSessions, Revoked, Live, OneOpenToken
<1>11. SeenTokens'
  BY <1>1, <1>2, IdleRow DEF IInv, SeenTokens
<1>12. Replaced'
  BY <1>1, <1>2, IdleRow DEF IInv, Replaced
<1>13. Addresses'
  <2>1. VerifiedAddress'
    BY <1>1, <1>4 DEF IInv, Addresses, VerifiedAddress
  <2>2. \A v \in User : \A e : Current(v, e) => Current(v, e)'
    BY <1>1, <1>4 DEF Current
  <2>3. \A t \in Token : token[t].purpose = "verify_email" => token[t].user \in User
    BY TokenOfUser
  <2>4. \A p \in Request : request[p].kind \in {"verify_request", "verify_confirm"}
                           => request[p].user \in User
    BY RequestOfUser DEF Kinds, Mailers, Consumers
  <2> QED BY <1>1, <1>2, <2>1, <2>2, <2>3, <2>4, IdleRow DEF IInv, Addresses
<1>14. Deleted'
  <2>1. DeletedIsAnonymous'
    BY <1>3, <1>4 DEF IInv, Deleted, DeletedIsAnonymous
  <2> QED BY <1>2, <1>4, <2>1, IdleRow, RequestOfUser DEF IInv, Deleted, Kinds, Consumers
<1> QED BY <1>1, <1>5, <1>6, <1>7, <1>8, <1>9, <1>10, <1>11, <1>12, <1>13, <1>14,
           EndKeeps DEF IInv

-----------------------------------------------------------------------------
(* Tokens that are used, and users that register.                          *)

\* used_at is set for tokens that some request has locked.
LEMMA UsedTokens ==
    ASSUME IInv, NEW T, \A t \in T : t \in Token /\ token[t].state \in {"open", "expired"}
    PROVE  /\ Use(T) \in [Token -> TokenRow]
           /\ \A r \in Token :
                /\ r \notin T => Use(T)[r] = token[r]
                /\ r \in T => Use(T)[r].state = "used" /\ Use(T)[r].ends = 1
                /\ Use(T)[r].user = token[r].user /\ Use(T)[r].purpose = token[r].purpose
                /\ Use(T)[r].email = token[r].email /\ Use(T)[r].late = token[r].late
<1>1. token \in [Token -> TokenRow]
  BY Types DEF IInv
<1>2. ASSUME NEW r \in T
      PROVE  LET new == [token[r] EXCEPT !.state = "used", !.ends = @ + 1] IN
             /\ new \in TokenRow /\ new.state = "used" /\ new.ends = 1
             /\ new.user = token[r].user /\ new.purpose = token[r].purpose
             /\ new.email = token[r].email /\ new.late = token[r].late
  <2>1. token[r] \in TokenRow /\ token[r].ends = 0
    BY <1>1 DEF IInv, Locks
  <2>2. token[r].ends + 1 = 1 /\ 1 \in 0..2
    BY <2>1
  <2> QED BY <2>1, <2>2 DEF TokenRow
<1>3. \A r \in Token : Use(T)[r] = IF r \in T
                                   THEN [token[r] EXCEPT !.state = "used", !.ends = @ + 1]
                                   ELSE token[r]
  BY DEF Use
<1>4. Use(T) = [r \in Token |-> Use(T)[r]]
  BY DEF Use
<1>5. ASSUME NEW r \in Token
      PROVE  Use(T)[r] \in TokenRow
  <2>1. CASE r \in T
    BY <2>1, <1>2, <1>3, Zenon
  <2>2. CASE r \notin T
    BY <2>2, <1>1, <1>3, Zenon
  <2> QED BY <2>1, <2>2
<1>6. Use(T) \in [Token -> TokenRow]
  BY <1>4, <1>5
<1> QED BY <1>2, <1>3, <1>6

\* The token a consumer has locked.
LEMMA ConsumedToken ==
    ASSUME IInv, NEW q \in Request, request[q].kind \in Consumers
    PROVE  /\ request[q].token \in Token
           /\ token[request[q].token].state \in {"open", "expired"}
           /\ \A p \in Request \ {q} : request[q].token \notin Held(p)
<1>1. request[q].token \in Held(q)
  BY DEF Held
<1>2. request[q].token # Nobody /\ request[q].token \in Token
  BY Types, KindsApart, IdleRow DEF IInv, Requests, RequestRow, Options
<1> QED BY <1>1, <1>2 DEF IInv, Locks

LEMMA CommitVerifyStep ==
    ASSUME IInv, NEW q \in Request, CommitVerify(q)
    PROVE  IInv'
<1> DEFINE u == request[q].user
           e == request[q].email
           x == request[q].token
<1>1. /\ Is(q, "read", {"verify_confirm"}) /\ user' = [user EXCEPT ![u].verified = TRUE]
      /\ proven' = [proven EXCEPT ![u] = @ \cup {e}]
      /\ token' = Use({x}) /\ Done(q) /\ UNCHANGED session
  BY DEF CommitVerify
<1>2. /\ request' \in [Request -> RequestRow]
      /\ request'[q] = Idle /\ \A p \in Request \ {q} : request'[p] = request[p]
  BY <1>1, Ended DEF IInv
<1>3. request[q].kind = "verify_confirm" /\ request[q].kind \in Consumers
  BY <1>1 DEF Is, Consumers
<1>4. u \in User
  BY <1>3, RequestOfUser, KindsApart
<1>5. e \in Email
  BY <1>3, ConsumedEmail
<1>6. /\ x \in Token /\ token[x].state \in {"open", "expired"}
      /\ \A p \in Request \ {q} : x \notin Held(p)
  BY <1>3, ConsumedToken
<1>7. /\ token' \in [Token -> TokenRow]
      /\ \A r \in Token :
           /\ r # x => token'[r] = token[r]
           /\ r = x => token'[r].state = "used" /\ token'[r].ends = 1
           /\ token'[r].user = token[r].user /\ token'[r].purpose = token[r].purpose
           /\ token'[r].email = token[r].email /\ token'[r].late = token[r].late
  BY <1>1, <1>6, UsedTokens
<1>8. /\ user' \in [User -> UserRow] /\ proven' \in [User -> SUBSET Email]
      /\ proven'[u] = proven[u] \cup {e}
      /\ \A v \in User :
           /\ v # u => user'[v].verified = user[v].verified /\ proven'[v] = proven[v]
           /\ user'[v].state = user[v].state /\ user'[v].email = user[v].email
           /\ user'[v].name = user[v].name /\ user'[v].late = user[v].late
  <2>1. user \in [User -> UserRow] /\ proven \in [User -> SUBSET Email]
    BY Types DEF IInv
  <2>2. [user[u] EXCEPT !.verified = TRUE] \in UserRow
    BY <1>4, <2>1 DEF UserRow
  <2>3. \A v \in User : user'[v] = IF v = u THEN [user[u] EXCEPT !.verified = TRUE] ELSE user[v]
    BY <1>1, <1>4, <2>1
  <2>4. user' \in [User -> UserRow]
    BY <1>1, <2>1, <2>2
  <2>5. /\ proven' \in [User -> SUBSET Email] /\ proven'[u] = proven[u] \cup {e}
        /\ \A v \in User \ {u} : proven'[v] = proven[v]
    BY <1>1, <1>4, <1>5, <2>1
  <2> QED BY <2>1, <2>3, <2>4, <2>5 DEF UserRow
<1>9. TypeOK'
  BY <1>1, <1>2, <1>7, <1>8, Types, TypesAfter DEF IInv
<1>10. Requests'
  <2>1. \A p \in Request : \A t \in request[p].tokens : token'[t].state # "none"
    BY <1>7, Types DEF IInv, Requests, RequestRow
  <2>2. \A p \in Request : request[p].at # "idle" =>
           user'[request[p].user].state = user[request[p].user].state
    BY <1>8 DEF IInv, Requests
  <2>3. Requests /\ session' = session
    BY <1>1 DEF IInv
  <2> QED BY <1>2, <2>1, <2>2, <2>3, IdleRow DEF Requests
<1>11. Owned'
  <2>1. \A v \in Options(User) : v # Nobody /\ user[v].state # "none" => user'[v].state # "none"
    BY <1>8 DEF Options
  <2>2. \A r \in Session : session[r].user \in Options(User)
    BY Types DEF IInv, SessionRow
  <2>3. \A r \in Token : token[r].user \in Options(User)
    BY Types DEF IInv, TokenRow
  <2>4. \A r \in Session : /\ session[r].state = "none" <=> session[r].user = Nobody
                           /\ session[r].user # Nobody => user'[session[r].user].state # "none"
    BY <2>1, <2>2 DEF IInv, Owned
  <2>5. \A r \in Token :
          /\ token'[r].state = "none" <=> token'[r].user = Nobody
          /\ token'[r].user # Nobody => user'[token'[r].user].state # "none"
          /\ token'[r].user # Nobody => token'[r].email # Nobody
          /\ token'[r].user = Nobody => token'[r].purpose = "none"
    BY <1>6, <1>7, <2>1, <2>3 DEF IInv, Owned
  <2>6. \A v \in User : user'[v].state = "active" => user'[v].email # Nobody
    BY <1>8 DEF IInv, Owned
  <2>7. \A p, r \in Request : request[p].kind = "register" /\ request[p].at = "read"
                              => ~Together(p, r)
    BY DEF IInv, Owned
  <2>8. \A p, r \in Request : request'[p].kind = "register" /\ request'[p].at = "read"
                              => ~Together(p, r)'
    BY <1>2, <2>7, IdleRow DEF Together, Busy
  <2> QED BY <1>1, <2>4, <2>5, <2>6, <2>8 DEF Owned
<1>12. Locks'
  <2>1. \A p \in Request : \A t \in Held(p)' \ {Nobody} :
           p # q /\ t \in Held(p) /\ t # x /\ t \in Token
    BY <1>1, <1>6, EndKeeps, HeldTokens
  <2>2. \A p \in Request : \A t \in Held(p)' \ {Nobody} : token'[t].state \in {"open", "expired"}
    BY <1>7, <2>1 DEF IInv, Locks
  <2>3. \A t \in Token : /\ token'[t].ends <= 1
                         /\ token'[t].state \in {"none", "open", "expired"} => token'[t].ends = 0
    BY <1>7 DEF IInv, Locks
  <2> QED BY <1>1, <2>2, <2>3, EndKeeps DEF Locks
<1>13. Consuming'
  BY <1>2, <1>7, IdleRow, Types DEF IInv, Consuming, RequestRow, Options
<1>14. SeenSessions' /\ Revoked'
  BY <1>1, <1>2, IdleRow DEF IInv, SeenSessions, Revoked, Live
<1>15. SeenTokens' /\ OneOpenToken'
  BY <1>2, <1>6, <1>7, IdleRow DEF IInv, SeenTokens, OneOpenToken
<1>16. Replaced'
  BY <1>1, <1>2, IdleRow DEF IInv, Replaced
<1>17. Addresses'
  <2>1. Current(u, e)
    BY <1>3 DEF IInv, Addresses
  <2>2. VerifiedAddress'
    BY <1>4, <1>8, <2>1 DEF IInv, Addresses, VerifiedAddress, Current
  <2>3. \A v \in User : \A f : Current(v, f) => Current(v, f)'
    BY <1>8 DEF Current
  <2>4. \A p \in Request : request[p].kind \in {"verify_request", "verify_confirm"}
                           => request[p].user \in User
    BY RequestOfUser DEF Kinds, Mailers, Consumers
  <2> QED BY <1>2, <1>7, <2>2, <2>3, <2>4, IdleRow, TokenOfUser DEF IInv, Addresses
<1>18. Deleted'
  <2>1. DeletedIsAnonymous'
    BY <1>8 DEF IInv, Deleted, DeletedIsAnonymous
  <2> QED BY <1>2, <1>8, <2>1, IdleRow, RequestOfUser DEF IInv, Deleted, Kinds, Consumers
<1> QED BY <1>1, <1>9, <1>10, <1>11, <1>12, <1>13, <1>14, <1>15, <1>16, <1>17, <1>18,
           EndKeeps DEF IInv

LEMMA CommitRegisterStep ==
    ASSUME IInv, NEW q \in Request, CommitRegister(q)
    PROVE  IInv'
<1> DEFINE u == request[q].user
           new == [NoUser EXCEPT !.state = "active", !.email = request[q].email]
<1>1. /\ Is(q, "read", {"register"})
      /\ user' = [user EXCEPT ![u] = new]
      /\ request' = [request EXCEPT ![q].at = "issue"]
      /\ UNCHANGED <<session, token, proven>>
  BY DEF CommitRegister
<1>2. /\ request' \in [Request -> RequestRow] /\ request'[q].at = "issue"
      /\ \A p \in Request :
           /\ p # q => request'[p] = request[p]
           /\ request'[p].kind = request[p].kind /\ request'[p].user = request[p].user
           /\ request'[p].session = request[p].session /\ request'[p].token = request[p].token
           /\ request'[p].email = request[p].email /\ request'[p].late = request[p].late
           /\ request'[p].sessions = request[p].sessions
           /\ request'[p].tokens = request[p].tokens
  BY <1>1, IssueRow DEF IInv
<1>3. /\ request[q].at = "read" /\ request[q].kind = "register"
      /\ "register" \in Issuers /\ "register" \in Kinds
  BY <1>1 DEF Is, Issuers, Kinds
<1>4. u \in User /\ user[u].state = "none"
  BY <1>3 DEF IInv, Requests
<1>5. /\ user' \in [User -> UserRow] /\ user'[u].state = "active" /\ ~user'[u].verified
      /\ user'[u].email # Nobody
      /\ \A v \in User \ {u} : user'[v] = user[v]
  <2>1. user \in [User -> UserRow] /\ request[q].email \in Email
    BY <1>3, Types, ConsumedEmail DEF IInv
  <2>2. new \in UserRow /\ new.state = "active" /\ ~new.verified /\ new.email # Nobody
    BY <2>1, NobodyAssumption DEF UserRow, NoUser, Options
  <2> HIDE DEF new
  <2> QED BY <1>1, <1>4, <2>1, <2>2
<1>6. /\ \A s \in Session : session[s].user # u
      /\ \A t \in Token : token[t].user # u
  BY <1>4, NobodyAssumption DEF IInv, Owned
<1>7. \A p \in Request \ {q} : request[p].user # u
  <2>1. \A p \in Request \ {q} : request[p].at # "idle" => request[p].user # u
    BY <1>3 DEF IInv, Owned, Together, Busy
  <2>2. \A p \in Request : request[p].at = "idle" => request[p].user = Nobody
    BY IdleRow DEF IInv, Requests
  <2> QED BY <1>4, <2>1, <2>2, NobodyAssumption
<1>8. TypeOK'
  BY <1>1, <1>2, <1>5, Types, TypesAfter DEF IInv
<1>9. Requests'
  BY <1>1, <1>2, <1>3, <1>4, <1>5, <1>7 DEF IInv, Requests
<1>10. Owned'
  <2>1. \A v \in Options(User) : v # Nobody /\ user[v].state # "none" => user'[v].state # "none"
    BY <1>5 DEF Options
  <2>2. \A r \in Session : session[r].user \in Options(User)
    BY Types DEF IInv, SessionRow
  <2>3. \A r \in Token : token[r].user \in Options(User)
    BY Types DEF IInv, TokenRow
  <2>4. \A r \in Session : /\ session[r].state = "none" <=> session[r].user = Nobody
                           /\ session[r].user # Nobody => user'[session[r].user].state # "none"
    BY <2>1, <2>2 DEF IInv, Owned
  <2>5. \A r \in Token :
          /\ token[r].state = "none" <=> token[r].user = Nobody
          /\ token[r].user # Nobody => user'[token[r].user].state # "none"
          /\ token[r].user # Nobody => token[r].email # Nobody
          /\ token[r].user = Nobody => token[r].purpose = "none"
    BY <2>1, <2>3 DEF IInv, Owned
  <2>6. \A v \in User : user'[v].state = "active" => user'[v].email # Nobody
    BY <1>5 DEF IInv, Owned
  <2>8. \A p, r \in Request : request'[p].kind = "register" /\ request'[p].at = "read"
                              => ~Together(p, r)'
    BY <1>2, <1>3, <1>7 DEF IInv, Owned, Together, Busy
  <2> QED BY <1>1, <2>4, <2>5, <2>6, <2>8 DEF Owned
<1>11. Noticed'
  BY <1>2, <1>3 DEF IInv, Noticed, Together, Busy
<1>12. Locks' /\ Consuming'
  BY <1>1, <1>2 DEF IInv, Locks, Held, Consuming
<1>13. SeenSessions' /\ Revoked' /\ Replaced'
  BY <1>1, <1>2 DEF IInv, SeenSessions, Revoked, Replaced, Live
<1>14. SeenTokens' /\ OneOpenToken'
  BY <1>1, <1>2 DEF IInv, SeenTokens, OneOpenToken
<1>15. Addresses'
  <2>1. VerifiedAddress'
    BY <1>1, <1>5 DEF IInv, Addresses, VerifiedAddress
  <2>2. \A v \in User \ {u} : \A e : Current(v, e) => Current(v, e)'
    BY <1>1, <1>5 DEF Current
  <2>3. \A p \in Request : request[p].kind \in {"verify_request", "verify_confirm"}
                           => request[p].user \in User \ {u} /\ p # q
    BY <1>3, <1>7, RequestOfUser DEF Kinds, Mailers, Consumers
  <2> QED BY <1>1, <1>2, <1>6, <2>1, <2>2, <2>3, TokenOfUser DEF IInv, Addresses
<1>16. Deleted'
  <2>1. DeletedIsAnonymous'
    BY <1>5 DEF IInv, Deleted, DeletedIsAnonymous
  <2> QED BY <1>2, <1>3, <1>5, <1>7, <2>1, RequestOfUser DEF IInv, Deleted, Kinds, Consumers
<1> QED BY <1>8, <1>9, <1>10, <1>11, <1>12, <1>13, <1>14, <1>15, <1>16 DEF IInv


-----------------------------------------------------------------------------
(* A new session.                                                          *)

LEMMA IssueStep ==
    ASSUME IInv, NEW q \in Request, NEW s \in Session, Issue(q, s)
    PROVE  IInv'
<1> DEFINE k == request[q]
           u == request[q].user
           new == [NoSession EXCEPT !.state = "live", !.user = u,
                                    !.from = k.session, !.late = k.late]
<1>1. /\ Is(q, "issue", Issuers) /\ session[s].state = "none"
      /\ session' = [session EXCEPT ![s] = new]
      /\ Done(q) /\ UNCHANGED <<user, token, proven>>
  BY DEF Issue
<1>2. /\ request' \in [Request -> RequestRow]
      /\ request'[q] = Idle /\ \A p \in Request \ {q} : request'[p] = request[p]
  BY <1>1, Ended DEF IInv
<1>3. /\ k.at = "issue" /\ k.kind \in Issuers /\ u \in User /\ user[u].state # "none"
      /\ k.session \in Options(Session)
      /\ k.session # Nobody => k.kind = "refresh" /\ session[k.session].state = "revoked"
      /\ \A r \in Session : k.session # Nobody /\ session[r].from = k.session => k.late /\ session[r].late
  <2>1. k.at = "issue" /\ k.kind \in Issuers
    BY <1>1 DEF Is
  <2>2. k.kind \in Kinds /\ k.kind # "logout"
    BY <2>1 DEF Issuers, Kinds
  <2>3. u \in User /\ k.session \in Options(Session)
    BY <2>2, RequestOfUser, Types DEF IInv, RequestRow
  <2>4. /\ user[u].state # "none"
        /\ k.session # Nobody => k.kind = "refresh" /\ session[k.session].state = "revoked"
    BY <2>1, <2>2 DEF IInv, Requests
  <2> QED BY <2>1, <2>3, <2>4 DEF IInv, Replaced
<1>4. /\ session' \in [Session -> SessionRow]
      /\ session'[s].state = "live" /\ session'[s].user = u /\ session'[s].from = k.session
      /\ session'[s].old = FALSE /\ session'[s].late = k.late
      /\ \A r \in Session \ {s} : session'[r] = session[r]
  <2>1. session \in [Session -> SessionRow] /\ request \in [Request -> RequestRow]
    BY Types DEF IInv
  <2>2. /\ new \in SessionRow /\ new.state = "live" /\ new.user = u /\ new.from = k.session
        /\ new.old = FALSE /\ new.late = k.late
    BY <1>3, <2>1 DEF SessionRow, NoSession, RequestRow, Options
  <2> HIDE DEF new
  <2> QED BY <1>1, <2>1, <2>2
<1>5. /\ \A p \in Request : request[p].session # s
      /\ \A r \in Session : session[r].from # s
  <2>1. s # Nobody
    BY NobodyAssumption
  <2> QED BY <1>1, <2>1 DEF IInv, Requests, Replaced
<1>6. \A v : /\ v # u => Live(v)' = Live(v)
             /\ v = u => Live(v)' = Live(v) \cup {s}
  BY <1>1, <1>4 DEF Live
<1>7. TypeOK'
  BY <1>1, <1>2, <1>4, Types, TypesAfter DEF IInv
<1>8. Requests'
  <2>1. \A p \in Request \ {q} : request[p].session # Nobody =>
          session'[request[p].session] = session[request[p].session]
    BY <1>4, <1>5, Types DEF IInv, RequestRow, Options
  <2> QED BY <1>1, <1>2, <2>1, IdleRow DEF IInv, Requests
<1>9. Owned'
  <2>1. \A r \in Session : /\ session'[r].state = "none" <=> session'[r].user = Nobody
                           /\ session'[r].user # Nobody => user[session'[r].user].state # "none"
    BY <1>3, <1>4, NobodyAssumption DEF IInv, Owned
  <2>2. \A p, r \in Request : request'[p].kind = "register" /\ request'[p].at = "read"
                              => ~Together(p, r)'
    BY <1>2, IdleRow DEF IInv, Owned, Together, Busy
  <2> QED BY <1>1, <2>1, <2>2 DEF IInv, Owned
<1>10. Locks'
  BY <1>1, <1>2, EndKeeps DEF IInv, Locks
<1>11. Consuming'
  BY <1>1, <1>2, IdleRow DEF IInv, Consuming
<1>12. SeenSessions'
  <2> SUFFICES ASSUME NEW p \in Request, NEW r \in Session, request'[p].at = "commit",
                      request'[p].kind \in Revokers, r \in Live(request[p].user)'
               PROVE  r \in request'[p].sessions \/ session'[r].late
    BY DEF SeenSessions
  <2>1. p # q /\ request'[p] = request[p]
    BY <1>2, IdleRow
  <2>2. CASE r # s
    BY <1>4, <2>1, <2>2 DEF IInv, SeenSessions, Live
  <2>3. CASE r = s
    <3>1. request[p].user = u
      BY <1>4, <2>1, <2>3 DEF Live
    <3>2. Together(q, p)
      BY <1>3, <2>1, <3>1 DEF Together, Busy
    <3>3. k.late
      BY <1>3, <2>1, <3>2 DEF IInv, Noticed, Spoils
    <3> QED BY <1>4, <2>3, <3>3
  <2> QED BY <2>2, <2>3
<1>13. SeenTokens' /\ OneOpenToken'
  BY <1>1, <1>2, IdleRow DEF IInv, SeenTokens, OneOpenToken
<1>14. Revoked'
  BY <1>4 DEF IInv, Revoked, Live
<1>15. Replaced'
  <2>1. \A r \in Session : session[r].from \in Options(Session)
    BY Types DEF IInv, SessionRow
  <2>2. \A r \in Session : session'[r].from # Nobody =>
          session'[session'[r].from].state = "revoked"
    BY <1>1, <1>3, <1>4, <1>5, <2>1 DEF IInv, Replaced, Options
  <2>3. \A r, x \in Session :
          r # x /\ session'[r].from # Nobody /\ session'[r].from = session'[x].from
          => session'[r].late
    BY <1>3, <1>4 DEF IInv, Replaced
  <2>4. ASSUME NEW p \in Request, NEW x \in Session,
               request'[p].kind = "refresh", session'[x].from = request'[p].session
        PROVE  request'[p].late /\ session'[x].late
    <3>1. p # q /\ request'[p] = request[p] /\ request[p].kind = "refresh"
      BY <1>2, <2>4, IdleRow
    <3>2. CASE x # s
      BY <1>4, <2>4, <3>1, <3>2 DEF IInv, Replaced
    <3>3. CASE x = s
      <4>1. request[p].session = k.session /\ request[p].session # Nobody
        BY <1>4, <2>4, <3>1, <3>3, RequestOfUser DEF IInv, Requests, Kinds, Issuers
      <4>2. k.kind = "refresh" /\ request[p].user = u
        BY <1>3, <4>1 DEF IInv, Requests
      <4>3. Busy(p) /\ Busy(q)
        BY <1>3, <3>1, RequestOfUser DEF Busy, Kinds, Issuers
      <4>4. Together(p, q) /\ Together(q, p)
        BY <3>1, <4>2, <4>3 DEF Together
      <4>5. request[p].late /\ k.late
        BY <3>1, <4>1, <4>2, <4>4 DEF IInv, Noticed, Spoils
      <4> QED BY <1>4, <3>1, <3>3, <4>5
    <3> QED BY <3>2, <3>3
  <2> QED BY <2>2, <2>3, <2>4 DEF Replaced
<1>16. Addresses' /\ Deleted'
  BY <1>1, <1>2, IdleRow DEF IInv, Addresses, VerifiedAddress, Current, Deleted,
     DeletedIsAnonymous
<1> QED BY <1>1, <1>7, <1>8, <1>9, <1>10, <1>11, <1>12, <1>13, <1>14, <1>15, <1>16,
           EndKeeps DEF IInv

-----------------------------------------------------------------------------
(* A new token.                                                            *)

\* A purpose tells who mails a token.
LEMMA PurposeTells ==
    /\ \A k \in Mailers \cup Consumers : Purpose(k) \in Purposes
    /\ \A k, j \in Mailers : Purpose(k) = Purpose(j) => k = j
    /\ \A k \in Mailers : /\ Purpose(k) = "verify_email" => k = "verify_request"
                          /\ Purpose(k) = "change_email" => k = "change_email"
    /\ "none" \notin Purposes
BY DEF Mailers, Consumers, Purpose, Purposes

\* What a request that mails a token has locked, and the row it inserts.
LEMMA MailedTokens ==
    ASSUME IInv, NEW q \in Request, NEW t \in Token, CommitToken(q, t)
    PROVE  /\ token' \in [Token -> TokenRow]
           /\ token[t].state = "none" /\ t \notin request[q].tokens
           /\ token'[t].state = "open" /\ token'[t].user = request[q].user
           /\ token'[t].purpose = Purpose(request[q].kind)
           /\ token'[t].email = request[q].email /\ token'[t].late = request[q].late
           /\ token'[t].ends = 0
           /\ \A r \in Token \ {t} :
                /\ r \notin request[q].tokens => token'[r] = token[r]
                /\ r \in request[q].tokens =>
                     /\ token[r].state \in {"open", "expired"}
                     /\ token'[r].state = "used" /\ token'[r].ends = 1
                /\ token'[r].user = token[r].user /\ token'[r].purpose = token[r].purpose
                /\ token'[r].email = token[r].email /\ token'[r].late = token[r].late
<1> DEFINE k == request[q]
           T == request[q].tokens
           new == [state |-> "open", user |-> k.user, purpose |-> Purpose(k.kind),
                   email |-> k.email, ends |-> 0, late |-> k.late]
<1>1. /\ k.kind \in Mailers /\ token[t].state = "none"
      /\ token' = [Use(T) EXCEPT ![t] = new]
  BY DEF CommitToken, Is
<1>2. T \subseteq Token /\ Nobody \notin Token /\ k \in RequestRow
  BY Types, NobodyAssumption DEF IInv, RequestRow
<1>3. T \subseteq Held(q) \ {Nobody}
  BY <1>1, <1>2 DEF Held
<1>4. \A r \in T : r \in Token /\ token[r].state \in {"open", "expired"}
  BY <1>2, <1>3 DEF IInv, Locks
<1>5. k.user \in User /\ k.email \in Email /\ Purpose(k.kind) \in Purposes
  BY <1>1, RequestOfUser, ConsumedEmail, PurposeTells, KindsApart
<1>6. /\ new \in TokenRow /\ new.state = "open" /\ new.user = k.user
      /\ new.purpose = Purpose(k.kind) /\ new.email = k.email /\ new.late = k.late
      /\ new.ends = 0
  <2>1. k.late \in BOOLEAN /\ 0 \in 0..2
    BY <1>2 DEF RequestRow
  <2> QED BY <1>5, <2>1 DEF TokenRow, Options
<1>7. /\ Use(T) \in [Token -> TokenRow]
      /\ \A r \in Token :
           /\ r \notin T => Use(T)[r] = token[r]
           /\ r \in T => Use(T)[r].state = "used" /\ Use(T)[r].ends = 1
           /\ Use(T)[r].user = token[r].user /\ Use(T)[r].purpose = token[r].purpose
           /\ Use(T)[r].email = token[r].email /\ Use(T)[r].late = token[r].late
  BY <1>4, UsedTokens
<1> HIDE DEF new
<1>8. /\ token' \in [Token -> TokenRow] /\ token'[t] = new
      /\ \A r \in Token \ {t} : token'[r] = Use(T)[r]
  BY <1>1, <1>6, <1>7
<1> QED BY <1>1, <1>4, <1>6, <1>7, <1>8

LEMMA CommitTokenStep ==
    ASSUME IInv, NEW q \in Request, NEW t \in Token, CommitToken(q, t)
    PROVE  IInv'
<1> DEFINE k == request[q]
           u == request[q].user
           T == request[q].tokens
<1>1. /\ k.at = "commit" /\ k.kind \in Mailers /\ Done(q) /\ UNCHANGED <<user, session, proven>>
  BY DEF CommitToken, Is, UserMailed
<1>2. /\ request' \in [Request -> RequestRow]
      /\ request'[q] = Idle /\ \A p \in Request \ {q} : request'[p] = request[p]
  BY <1>1, Ended DEF IInv
<1>3. /\ token' \in [Token -> TokenRow]
      /\ token[t].state = "none" /\ t \notin T
      /\ token'[t].state = "open" /\ token'[t].user = u
      /\ token'[t].purpose = Purpose(k.kind)
      /\ token'[t].email = k.email /\ token'[t].late = k.late
      /\ token'[t].ends = 0
      /\ \A r \in Token \ {t} :
           /\ r \notin T => token'[r] = token[r]
           /\ r \in T => /\ token[r].state \in {"open", "expired"}
                         /\ token'[r].state = "used" /\ token'[r].ends = 1
           /\ token'[r].user = token[r].user /\ token'[r].purpose = token[r].purpose
           /\ token'[r].email = token[r].email /\ token'[r].late = token[r].late
  BY MailedTokens
<1>4. u \in User /\ k.email \in Email /\ user[u].state # "none" /\ "register" \notin Mailers
      /\ k.kind \in Kinds
  <2>1. k.kind # "register" /\ k.kind \in Kinds
    BY <1>1 DEF Mailers, Kinds
  <2>2. user[u].state # "none"
    BY <1>1, <2>1 DEF IInv, Requests
  <2> QED BY <1>1, <2>1, <2>2, RequestOfUser, ConsumedEmail DEF Mailers
<1>5. TypeOK'
  BY <1>1, <1>2, <1>3, Types, TypesAfter DEF IInv
<1>6. Requests'
  <2>1. \A p \in Request : \A r \in request[p].tokens : token'[r].state # "none"
    BY <1>3, Types DEF IInv, Requests, RequestRow
  <2> QED BY <1>1, <1>2, <2>1, IdleRow DEF IInv, Requests
<1>7. Owned'
  <2>1. \A r \in Token :
          /\ token'[r].state = "none" <=> token'[r].user = Nobody
          /\ token'[r].user # Nobody => user[token'[r].user].state # "none"
          /\ token'[r].user # Nobody => token'[r].email # Nobody
          /\ token'[r].user = Nobody => token'[r].purpose = "none"
    BY <1>3, <1>4, NobodyAssumption DEF IInv, Owned
  <2>2. \A p, r \in Request : request'[p].kind = "register" /\ request'[p].at = "read"
                              => ~Together(p, r)'
    BY <1>2, IdleRow DEF IInv, Owned, Together, Busy
  <2> QED BY <1>1, <2>1, <2>2 DEF IInv, Owned
<1>8. \A p \in Request : \A r \in Held(p)' \ {Nobody} :
         p # q /\ r \in Held(p) /\ r # t /\ r \notin T /\ r \in Token
  <2> SUFFICES ASSUME NEW p \in Request, NEW r \in Held(p)' \ {Nobody}
               PROVE  p # q /\ r \in Held(p) /\ r # t /\ r \notin T /\ r \in Token
    OBVIOUS
  <2>1. p # q /\ r \in Held(p) /\ r \in Token
    BY <1>1, EndKeeps, HeldTokens
  <2>2. r # t
    BY <1>3, <2>1 DEF IInv, Locks
  <2>3. T \subseteq Held(q)
    BY <1>1 DEF Held
  <2> QED BY <2>1, <2>2, <2>3 DEF IInv, Locks
<1>9. Locks'
  <2>1. \A p \in Request : \A r \in Held(p)' \ {Nobody} : token'[r].state \in {"open", "expired"}
    BY <1>3, <1>8 DEF IInv, Locks
  <2>2. \A r \in Token : /\ token'[r].ends <= 1
                         /\ token'[r].state \in {"none", "open", "expired"} => token'[r].ends = 0
    BY <1>3 DEF IInv, Locks
  <2> QED BY <1>1, <2>1, <2>2, EndKeeps DEF Locks
<1>10. Consuming'
  <2>1. \A p \in Request : request'[p].token # Nobody =>
           p # q /\ request'[p].token \in Token \ {t}
    BY <1>8 DEF Held
  <2> QED BY <1>2, <1>3, <2>1 DEF IInv, Consuming
<1>11. SeenSessions' /\ Revoked'
  BY <1>1, <1>2, IdleRow DEF IInv, SeenSessions, Revoked, Live
<1>12. SeenTokens'
  <2> SUFFICES ASSUME NEW p \in Request, NEW r \in Token, request'[p].at = "commit",
                      token'[r].user = request'[p].user
               PROVE  /\ /\ request'[p].kind \in Mailers
                         /\ token'[r].state = "open"
                         /\ token'[r].purpose = Purpose(request'[p].kind)
                         => r \in request'[p].tokens \/ request'[p].late
                      /\ /\ request'[p].kind = "delete_account"
                         /\ token'[r].state # "gone" /\ token'[r].purpose = "change_email"
                         => r \in request'[p].tokens \/ request'[p].late
    BY DEF SeenTokens
  <2>1. p # q /\ request'[p] = request[p]
    BY <1>2, IdleRow
  <2>2. CASE r # t
    <3>1. /\ token'[r].state = "open" => token[r].state = "open"
          /\ token'[r].state # "gone" => token[r].state # "gone"
      BY <1>3, <2>2
    <3> QED BY <1>3, <2>1, <2>2, <3>1 DEF IInv, SeenTokens
  <2>3. CASE r = t
    <3>1. Together(p, q)
      BY <1>1, <1>3, <2>1, <2>3 DEF Together, Busy
    <3>2. request[p].kind \in Mailers /\ Purpose(k.kind) = Purpose(request[p].kind)
          => request[p].late
      BY <1>1, <3>1, PurposeTells DEF IInv, Noticed, Spoils
    <3>3. request[p].kind = "delete_account" /\ Purpose(k.kind) = "change_email"
          => request[p].late
      BY <1>1, <3>1, PurposeTells DEF IInv, Noticed, Spoils
    <3> QED BY <1>3, <2>1, <2>3, <3>2, <3>3
  <2> QED BY <2>2, <2>3
<1>13. OneOpenToken'
  <2>1. ASSUME NEW r \in Token \ {t}, token'[r].state = "open"
        PROVE  r \notin T /\ token[r].state = "open"
    BY <1>3, <2>1
  <2>2. ASSUME NEW r \in Token \ {t}, token'[r].state = "open", token'[r].user = u,
               token'[r].purpose = Purpose(k.kind)
        PROVE  k.late
    BY <1>1, <1>3, <2>1, <2>2 DEF IInv, SeenTokens
  <2> QED BY <1>3, <2>1, <2>2 DEF IInv, OneOpenToken
<1>14. Replaced'
  BY <1>1, <1>2, IdleRow DEF IInv, Replaced
<1>15. Addresses'
  <2>1. \A r \in Token : token'[r].purpose = "verify_email" =>
                           Current(token'[r].user, token'[r].email)
    BY <1>1, <1>3, PurposeTells DEF IInv, Addresses, Current
  <2> QED BY <1>1, <1>2, <2>1, IdleRow DEF IInv, Addresses, VerifiedAddress, Current
<1>16. Deleted'
  BY <1>1, <1>2, IdleRow DEF IInv, Deleted, DeletedIsAnonymous
<1> QED BY <1>1, <1>5, <1>6, <1>7, <1>9, <1>10, <1>11, <1>12, <1>13, <1>14, <1>15, <1>16,
           EndKeeps DEF IInv

-----------------------------------------------------------------------------
(* Rows that are locked.                                                   *)

LEMMA LockRow ==
    ASSUME IInv, NEW q \in Request, NEW S \in SUBSET Session, NEW T \in SUBSET Token,
           Lock(q, S, T), request[q].at = "read"
    PROVE  /\ request' \in [Request -> RequestRow]
           /\ request'[q].at = "commit" /\ request'[q].sessions = S /\ request'[q].tokens = T
           /\ \A p \in Request :
                /\ p # q => request'[p] = request[p]
                /\ request'[p].kind = request[p].kind /\ request'[p].user = request[p].user
                /\ request'[p].session = request[p].session /\ request'[p].token = request[p].token
                /\ request'[p].email = request[p].email /\ request'[p].late = request[p].late
                /\ request'[p].at = "idle" <=> request[p].at = "idle"
                /\ request'[p].at = "read" => p # q
                /\ request'[p].at = "issue" => p # q
           /\ Noticed'
<1> DEFINE new == [request[q] EXCEPT !.at = "commit", !.sessions = S, !.tokens = T]
<1>1. request \in [Request -> RequestRow] /\ request' = [request EXCEPT ![q] = new]
  BY Types DEF IInv, Lock
<1>2. new \in RequestRow
  BY <1>1 DEF RequestRow
<1>3. request[q] \in RequestRow
  BY <1>1
<1>4. /\ new.at = "commit" /\ new.sessions = S /\ new.tokens = T
      /\ new.kind = request[q].kind /\ new.user = request[q].user
      /\ new.session = request[q].session /\ new.token = request[q].token
      /\ new.email = request[q].email /\ new.late = request[q].late
  BY <1>3 DEF RequestRow
<1> HIDE DEF new
<1>5. request' \in [Request -> RequestRow]
      /\ \A p \in Request : request'[p] = IF p = q THEN new ELSE request[p]
  BY <1>1, <1>2
<1>6. \A p \in Request :
        /\ request'[p].kind = request[p].kind /\ request'[p].user = request[p].user
        /\ request'[p].session = request[p].session /\ request'[p].token = request[p].token
        /\ request'[p].email = request[p].email /\ request'[p].late = request[p].late
        /\ request'[p].at = "idle" <=> request[p].at = "idle"
  BY <1>4, <1>5
<1>7. Noticed'
  BY <1>6 DEF IInv, Noticed, Together, Busy
<1> QED BY <1>4, <1>5, <1>6, <1>7

LEMMA KindsDisjoint ==
    /\ Mailers \cap Consumers = {} /\ Mailers \cap Revokers = {}
    /\ "register" \notin Mailers \cup Revokers /\ "delete_account" \notin Mailers
    /\ "refresh" \notin Mailers \cup Revokers
BY DEF Mailers, Consumers, Revokers

LEMMA SupersedeStep ==
    ASSUME IInv, NEW q \in Request, Supersede(q)
    PROVE  IInv'
<1> DEFINE k == request[q]
           older == Unused(request[q].user, Purpose(request[q].kind))
<1>1. /\ k.at = "read" /\ k.kind \in Mailers /\ Lock(q, {}, older)
      /\ \A t \in older : ~TokenLocked(t)
      /\ UNCHANGED <<user, session, token, proven>>
  BY DEF Supersede, Is, rows
<1>2. older \in SUBSET Token
      /\ \A t \in Token : t \in older <=> /\ token[t].user = k.user
                                          /\ token[t].purpose = Purpose(k.kind)
                                          /\ token[t].state \in {"open", "expired"}
  BY DEF Unused
<1> HIDE DEF older
<1>3. /\ request' \in [Request -> RequestRow]
      /\ request'[q].at = "commit" /\ request'[q].sessions = {} /\ request'[q].tokens = older
      /\ \A p \in Request :
           /\ p # q => request'[p] = request[p]
           /\ request'[p].kind = request[p].kind /\ request'[p].user = request[p].user
           /\ request'[p].session = request[p].session /\ request'[p].token = request[p].token
           /\ request'[p].email = request[p].email /\ request'[p].late = request[p].late
           /\ request'[p].at = "idle" <=> request[p].at = "idle"
           /\ request'[p].at = "read" => p # q
           /\ request'[p].at = "issue" => p # q
      /\ Noticed'
  BY <1>1, <1>2, LockRow
<1>4. TypeOK'
  BY <1>1, <1>3, Types, TypesAfter DEF IInv
<1>5. Requests'
  <2>1. \A t \in older : token[t].state # "none"
    BY <1>2
  <2> QED BY <1>1, <1>3, <2>1, KindsDisjoint DEF IInv, Requests
<1>6. Owned'
  BY <1>1, <1>3 DEF IInv, Owned, Together, Busy
<1>7. /\ \A p \in Request \ {q} : Held(p)' = Held(p)
      /\ Held(q)' = {Nobody} \cup older
  <2>1. k.token = Nobody
    BY <1>1, KindsDisjoint DEF IInv, Requests
  <2> QED BY <1>1, <1>3, <2>1 DEF Held
<1>8. \A p \in Request : Held(p) \cap older = {}
  BY <1>1, <1>2, NobodyAssumption DEF Held, TokenLocked
<1>9. Locks'
  BY <1>1, <1>2, <1>7, <1>8 DEF IInv, Locks
<1>10. Consuming'
  BY <1>1, <1>3 DEF IInv, Consuming
<1>11. SeenSessions' /\ Revoked'
  BY <1>1, <1>3, KindsDisjoint DEF IInv, SeenSessions, Revoked, Live
<1>12. SeenTokens'
  BY <1>1, <1>2, <1>3, KindsDisjoint DEF IInv, SeenTokens
<1>13. Replaced' /\ OneOpenToken'
  BY <1>1, <1>3 DEF IInv, Replaced, OneOpenToken
<1>14. Addresses' /\ Deleted'
  BY <1>1, <1>3 DEF IInv, Addresses, VerifiedAddress, Current, Deleted, DeletedIsAnonymous
<1> QED BY <1>3, <1>4, <1>5, <1>6, <1>9, <1>10, <1>11, <1>12, <1>13, <1>14 DEF IInv

LEMMA RevokeStep ==
    ASSUME IInv, NEW q \in Request, Revoke(q)
    PROVE  IInv'
<1> DEFINE k == request[q]
           u == request[q].user
           S == Live(u)
           T == IF k.kind = "delete_account"
                THEN {t \in Token : token[t].user = u /\ token[t].state # "gone"} ELSE {}
<1>1. /\ k.at = "read" /\ k.kind \in Revokers /\ Lock(q, S, T)
      /\ UNCHANGED <<user, session, token, proven>>
  BY DEF Revoke, Is, rows
<1>2. /\ S \in SUBSET Session /\ T \in SUBSET Token
      /\ \A s \in Live(u) : s \in S
      /\ k.kind = "delete_account" =>
           \A t \in Token : token[t].user = u /\ token[t].state # "gone" => t \in T
      /\ \A t \in T : token[t].state # "none"
  <2>1. u \in User
    BY <1>1, RequestOfUser, KindsApart
  <2>2. \A t \in T : token[t].state # "none"
    BY <2>1, NobodyAssumption DEF IInv, Owned
  <2> QED BY <2>2 DEF Live
<1> HIDE DEF S, T
<1>3. /\ request' \in [Request -> RequestRow]
      /\ request'[q].at = "commit" /\ request'[q].sessions = S /\ request'[q].tokens = T
      /\ \A p \in Request :
           /\ p # q => request'[p] = request[p]
           /\ request'[p].kind = request[p].kind /\ request'[p].user = request[p].user
           /\ request'[p].session = request[p].session /\ request'[p].token = request[p].token
           /\ request'[p].email = request[p].email /\ request'[p].late = request[p].late
           /\ request'[p].at = "idle" <=> request[p].at = "idle"
           /\ request'[p].at = "read" => p # q
           /\ request'[p].at = "issue" => p # q
      /\ Noticed'
  BY <1>1, <1>2, LockRow
<1>4. TypeOK'
  BY <1>1, <1>3, Types, TypesAfter DEF IInv
<1>5. Requests'
  BY <1>1, <1>2, <1>3, KindsDisjoint DEF IInv, Requests
<1>6. Owned'
  BY <1>1, <1>3 DEF IInv, Owned, Together, Busy
<1>7. \A p \in Request : Held(p)' = Held(p)
  BY <1>1, <1>3, KindsDisjoint DEF Held
<1>8. Locks' /\ Consuming'
  BY <1>1, <1>3, <1>7 DEF IInv, Locks, Consuming
<1>9. \A v : Live(v)' = Live(v)
  BY <1>1 DEF Live
<1>10. SeenSessions' /\ Revoked'
  BY <1>1, <1>2, <1>3, <1>9 DEF IInv, SeenSessions, Revoked, Live
<1>11. SeenTokens'
  BY <1>1, <1>2, <1>3, KindsDisjoint DEF IInv, SeenTokens
<1>12. Replaced' /\ OneOpenToken'
  BY <1>1, <1>3 DEF IInv, Replaced, OneOpenToken
<1>13. Addresses' /\ Deleted'
  BY <1>1, <1>3 DEF IInv, Addresses, VerifiedAddress, Current, Deleted, DeletedIsAnonymous
<1> QED BY <1>3, <1>4, <1>5, <1>6, <1>8, <1>10, <1>11, <1>12, <1>13 DEF IInv

-----------------------------------------------------------------------------
(* All sessions of a user are revoked.                                     *)

\* The user afterwards: only a deletion takes it away, only the
\* confirmation of an email changes its address.
LEMMA UserRevoked ==
    ASSUME IInv, NEW q \in Request, CommitRevoke(q)
    PROVE  LET k == request[q]
               u == request[q].user IN
           /\ user' \in [User -> UserRow] /\ proven' \in [User -> SUBSET Email]
           /\ u \in User /\ user[u].state # "none"
           /\ \A v \in User \ {u} : user'[v] = user[v] /\ proven'[v] = proven[v]
           /\ k.kind = "confirm_email" =>
                /\ user'[u].email = k.email /\ k.email \in proven'[u]
                /\ user'[u].email # Nobody
                /\ user'[u].state = user[u].state /\ user'[u].name = user[u].name
                /\ user'[u].late = user[u].late
           /\ k.kind = "delete_account" =>
                /\ user'[u].state = "deleted" /\ user'[u].email = Nobody
                /\ user'[u].name = "deleted" /\ user'[u].late = k.late
           /\ k.kind \notin {"confirm_email", "delete_account"} =>
                user'[u] = user[u] /\ proven'[u] = proven[u]
<1> DEFINE k == request[q]
           u == request[q].user
           confirmed == [user[u] EXCEPT !.email = k.email, !.verified = TRUE]
           deleted == [user[u] EXCEPT !.state = "deleted", !.email = Nobody, !.name = "deleted",
                                      !.late = k.late]
<1>1. /\ k.at = "commit" /\ k.kind \in Revokers
      /\ user' = [user EXCEPT ![u] = UserAfter(q)]
      /\ proven' = IF k.kind = "confirm_email"
                   THEN [proven EXCEPT ![u] = @ \cup {k.email}] ELSE proven
  BY DEF CommitRevoke, Is
<1>2. user \in [User -> UserRow] /\ proven \in [User -> SUBSET Email] /\ k \in RequestRow
  BY Types DEF IInv
<1>3. u \in User /\ user[u].state # "none"
  <2>1. k.kind \in Kinds /\ k.kind # "register"
    BY <1>1, KindsDisjoint DEF Kinds
  <2> QED BY <1>1, <2>1, RequestOfUser DEF IInv, Requests
<1>4. user[u] \in UserRow
  BY <1>2, <1>3
<1>5. k.kind = "confirm_email" => k.email \in Email
  BY ConsumedEmail DEF Consumers
<1>6. UserAfter(q) = IF k.kind = "confirm_email" THEN confirmed
                     ELSE IF k.kind = "delete_account" THEN deleted ELSE user[u]
  BY DEF UserAfter
<1>7. k.kind = "confirm_email" =>
        /\ confirmed \in UserRow /\ confirmed.email = k.email
        /\ confirmed.state = user[u].state /\ confirmed.name = user[u].name
        /\ confirmed.late = user[u].late
  BY <1>4, <1>5 DEF UserRow, Options
<1>8. /\ deleted \in UserRow /\ deleted.state = "deleted" /\ deleted.email = Nobody
      /\ deleted.name = "deleted" /\ deleted.late = k.late
  <2>1. k.late \in BOOLEAN
    BY <1>2 DEF RequestRow
  <2> QED BY <1>4, <2>1 DEF UserRow, Options
<1> HIDE DEF confirmed, deleted
<1>9. UserAfter(q) \in UserRow
  BY <1>4, <1>6, <1>7, <1>8
<1>10. /\ user' \in [User -> UserRow] /\ user'[u] = UserAfter(q)
       /\ \A v \in User \ {u} : user'[v] = user[v]
  BY <1>1, <1>2, <1>3, <1>9
<1>11. /\ proven' \in [User -> SUBSET Email]
       /\ \A v \in User \ {u} : proven'[v] = proven[v]
       /\ k.kind = "confirm_email" => k.email \in proven'[u]
       /\ k.kind # "confirm_email" => proven'[u] = proven[u]
  BY <1>1, <1>2, <1>3, <1>5
<1>12. k.kind = "confirm_email" => k.email # Nobody
  BY <1>5, NobodyAssumption
<1> QED BY <1>3, <1>6, <1>7, <1>8, <1>10, <1>11, <1>12

\* The sessions afterwards.
LEMMA SessionsRevoked ==
    ASSUME IInv, NEW q \in Request, CommitRevoke(q)
    PROVE  /\ session' \in [Session -> SessionRow]
           /\ \A s \in Session :
                /\ session'[s].user = session[s].user /\ session'[s].from = session[s].from
                /\ session'[s].late = session[s].late
                /\ session'[s].state \in {session[s].state, "revoked"}
                /\ session'[s].state = "none" <=> session[s].state = "none"
                /\ session[s].user # request[q].user => session'[s] = session[s]
                /\ session[s].user = request[q].user /\ s \in request[q].sessions
                   => session'[s].state = "revoked"
<1> DEFINE u == request[q].user
           new(s) == [session[s] EXCEPT !.old = TRUE,
                        !.state = IF s \in request[q].sessions THEN "revoked" ELSE @]
<1>1. session' = [s \in Session |-> IF session[s].user # u THEN session[s] ELSE new(s)]
  BY DEF CommitRevoke
<1>2. session \in [Session -> SessionRow]
  BY Types DEF IInv
<1>3. u \in User
  BY UserRevoked
<1>4. ASSUME NEW s \in Session
      PROVE  /\ new(s) \in SessionRow
             /\ new(s).user = session[s].user /\ new(s).from = session[s].from
             /\ new(s).late = session[s].late
             /\ new(s).state = IF s \in request[q].sessions THEN "revoked" ELSE session[s].state
  <2>1. session[s] \in SessionRow
    BY <1>2
  <2> QED BY <2>1 DEF SessionRow
<1>5. \A s \in Session : session[s].user = u => session[s].state # "none"
  BY <1>3, NobodyAssumption DEF IInv, Owned
<1> HIDE DEF new
<1>6. /\ session' \in [Session -> SessionRow]
      /\ \A s \in Session : session'[s] = IF session[s].user # u THEN session[s] ELSE new(s)
  BY <1>1, <1>2, <1>4
<1> QED BY <1>4, <1>5, <1>6

\* The tokens afterwards: those of a deleted account are gone, what the
\* request consumed is used; neither is locked by another request.
LEMMA TokensRevoked ==
    ASSUME IInv, NEW q \in Request, CommitRevoke(q)
    PROVE  /\ token' \in [Token -> TokenRow]
           /\ \A t \in Token :
                /\ token'[t].user = token[t].user /\ token'[t].purpose = token[t].purpose
                /\ token'[t].email = token[t].email /\ token'[t].late = token[t].late
                /\ token'[t].state = "none" <=> token[t].state = "none"
                /\ token'[t].state # "gone" => token[t].state # "gone"
                /\ token'[t].state \in {"none", "open", "expired"} => token'[t] = token[t]
                /\ token'[t].ends <= 1
                /\ \A p \in Request \ {q} : t \in Held(p) => token'[t] = token[t]
<1> DEFINE k == request[q]
           consumed == {request[q].token} \ {Nobody}
           gone(t) == [token[t] EXCEPT !.state = "gone"]
<1>1. /\ k.kind \in Revokers /\ \A t \in Doomed(q) : ~TokenLocked(t)
      /\ token' = [t \in Token |-> IF t \in Doomed(q) THEN gone(t) ELSE Use(consumed)[t]]
  BY DEF CommitRevoke, Is
<1>2. token \in [Token -> TokenRow] /\ k \in RequestRow
  BY Types DEF IInv
<1>3. \A t \in consumed : t \in Token /\ token[t].state \in {"open", "expired"} /\ t \in Held(q)
  BY <1>2 DEF IInv, Locks, Held, RequestRow, Options
<1>4. /\ Use(consumed) \in [Token -> TokenRow]
      /\ \A r \in Token :
           /\ r \notin consumed => Use(consumed)[r] = token[r]
           /\ r \in consumed => Use(consumed)[r].state = "used" /\ Use(consumed)[r].ends = 1
           /\ Use(consumed)[r].user = token[r].user /\ Use(consumed)[r].purpose = token[r].purpose
           /\ Use(consumed)[r].email = token[r].email /\ Use(consumed)[r].late = token[r].late
  BY <1>3, UsedTokens
<1>5. ASSUME NEW t \in Token
      PROVE  /\ gone(t) \in TokenRow /\ gone(t).state = "gone" /\ gone(t).ends = token[t].ends
             /\ gone(t).user = token[t].user /\ gone(t).purpose = token[t].purpose
             /\ gone(t).email = token[t].email /\ gone(t).late = token[t].late
  <2>1. token[t] \in TokenRow
    BY <1>2
  <2> QED BY <2>1 DEF TokenRow
<1> HIDE DEF gone, consumed
<1>6. /\ token' \in [Token -> TokenRow]
      /\ \A t \in Token : token'[t] = IF t \in Doomed(q) THEN gone(t) ELSE Use(consumed)[t]
  BY <1>1, <1>4, <1>5
<1>7. \A t \in Doomed(q) : token[t].state # "none"
  BY DEF Doomed, IInv, Requests
<1>8. ASSUME NEW t \in Token, NEW p \in Request \ {q}, t \in Held(p)
      PROVE  token'[t] = token[t]
  <2>1. t # Nobody
    BY NobodyAssumption
  <2>2. t \notin consumed
    BY <1>3, <1>8, <2>1 DEF IInv, Locks
  <2>3. TokenLocked(t)
    BY <1>8, <2>1 DEF Held, TokenLocked
  <2> QED BY <1>1, <1>4, <1>6, <2>2, <2>3
<1>9. ASSUME NEW t \in Token
      PROVE  /\ token'[t].user = token[t].user /\ token'[t].purpose = token[t].purpose
             /\ token'[t].email = token[t].email /\ token'[t].late = token[t].late
             /\ token'[t].state = "none" <=> token[t].state = "none"
             /\ token'[t].state # "gone" => token[t].state # "gone"
             /\ token'[t].state \in {"none", "open", "expired"} => token'[t] = token[t]
             /\ token'[t].ends <= 1
  <2>1. token[t].ends <= 1
    BY DEF IInv, Locks
  <2>2. CASE t \in Doomed(q)
    <3>1. token'[t] = gone(t)
      BY <1>6, <2>2
    <3> QED BY <1>5, <1>7, <2>1, <2>2, <3>1
  <2>3. CASE t \notin Doomed(q) /\ t \in consumed
    <3>1. token'[t] = Use(consumed)[t]
      BY <1>6, <2>3
    <3> QED BY <1>3, <1>4, <2>3, <3>1
  <2>4. CASE t \notin Doomed(q) /\ t \notin consumed
    <3>1. token'[t] = token[t]
      BY <1>4, <1>6, <2>4
    <3> QED BY <2>1, <3>1
  <2> QED BY <2>2, <2>3, <2>4
<1> QED BY <1>6, <1>8, <1>9

LEMMA CommitRevokeStep ==
    ASSUME IInv, NEW q \in Request, CommitRevoke(q)
    PROVE  IInv'
<1> DEFINE k == request[q]
           u == request[q].user
<1>1. k.at = "commit" /\ k.kind \in Revokers /\ Done(q)
  BY DEF CommitRevoke, Is
<1>2. /\ request' \in [Request -> RequestRow]
      /\ request'[q] = Idle /\ \A p \in Request \ {q} : request'[p] = request[p]
  BY <1>1, Ended DEF IInv
<1>3. /\ user' \in [User -> UserRow] /\ proven' \in [User -> SUBSET Email]
      /\ u \in User /\ user[u].state # "none"
      /\ \A v \in User \ {u} : user'[v] = user[v] /\ proven'[v] = proven[v]
      /\ k.kind = "confirm_email" =>
           /\ user'[u].email = k.email /\ k.email \in proven'[u] /\ user'[u].email # Nobody
           /\ user'[u].state = user[u].state /\ user'[u].name = user[u].name
           /\ user'[u].late = user[u].late
      /\ k.kind = "delete_account" =>
           /\ user'[u].state = "deleted" /\ user'[u].email = Nobody
           /\ user'[u].name = "deleted" /\ user'[u].late = k.late
      /\ k.kind \notin {"confirm_email", "delete_account"} =>
           user'[u] = user[u] /\ proven'[u] = proven[u]
  BY UserRevoked
<1>4. /\ session' \in [Session -> SessionRow]
      /\ \A s \in Session :
           /\ session'[s].user = session[s].user /\ session'[s].from = session[s].from
           /\ session'[s].late = session[s].late
           /\ session'[s].state \in {session[s].state, "revoked"}
           /\ session'[s].state = "none" <=> session[s].state = "none"
           /\ session[s].user # u => session'[s] = session[s]
           /\ session[s].user = u /\ s \in k.sessions => session'[s].state = "revoked"
  BY SessionsRevoked
<1>5. /\ token' \in [Token -> TokenRow]
      /\ \A t \in Token :
           /\ token'[t].user = token[t].user /\ token'[t].purpose = token[t].purpose
           /\ token'[t].email = token[t].email /\ token'[t].late = token[t].late
           /\ token'[t].state = "none" <=> token[t].state = "none"
           /\ token'[t].state # "gone" => token[t].state # "gone"
           /\ token'[t].state \in {"none", "open", "expired"} => token'[t] = token[t]
           /\ token'[t].ends <= 1
           /\ \A p \in Request \ {q} : t \in Held(p) => token'[t] = token[t]
  BY TokensRevoked
<1>6. \A v \in User : user[v].state # "none" <=> user'[v].state # "none"
  BY <1>3
<1>7. TypeOK'
  BY <1>2, <1>3, <1>4, <1>5, TypesAfter
<1>8. Requests'
  <2>1. \A p \in Request : \A t \in request[p].tokens : token'[t].state # "none"
    BY <1>5, Types DEF IInv, Requests, RequestRow
  <2>2. \A p \in Request : request[p].at # "idle" =>
           user'[request[p].user].state = "none" <=> user[request[p].user].state = "none"
    BY <1>6 DEF IInv, Requests
  <2>3. \A p \in Request : request[p].session # Nobody =>
           LET x == request[p].session IN
           /\ session'[x].user = session[x].user
           /\ session'[x].state # "none"
           /\ session[x].state = "revoked" => session'[x].state = "revoked"
    BY <1>4, Types DEF IInv, Requests, RequestRow, Options
  <2>4. Requests
    BY DEF IInv
  <2> QED BY <1>2, <2>1, <2>2, <2>3, <2>4, IdleRow DEF Requests
<1>9. Owned'
  <2>1. \A s \in Session : session[s].user \in Options(User)
    BY Types DEF IInv, SessionRow
  <2>2. \A t \in Token : token[t].user \in Options(User)
    BY Types DEF IInv, TokenRow
  <2>3. \A s \in Session : /\ session'[s].state = "none" <=> session'[s].user = Nobody
                           /\ session'[s].user # Nobody => user'[session'[s].user].state # "none"
    BY <1>4, <1>6, <2>1 DEF IInv, Owned, Options
  <2>4. \A t \in Token :
          /\ token'[t].state = "none" <=> token'[t].user = Nobody
          /\ token'[t].user # Nobody => user'[token'[t].user].state # "none"
          /\ token'[t].user # Nobody => token'[t].email # Nobody
          /\ token'[t].user = Nobody => token'[t].purpose = "none"
    BY <1>5, <1>6, <2>2 DEF IInv, Owned, Options
  <2>5. \A v \in User : user'[v].state = "active" => user'[v].email # Nobody
    BY <1>3 DEF IInv, Owned
  <2>6. \A p, r \in Request : request'[p].kind = "register" /\ request'[p].at = "read"
                              => ~Together(p, r)'
    BY <1>2, IdleRow DEF IInv, Owned, Together, Busy
  <2> QED BY <2>3, <2>4, <2>5, <2>6 DEF Owned
<1>10. \A p \in Request : \A t \in Held(p)' \ {Nobody} :
         p # q /\ t \in Held(p) /\ t \in Token /\ token'[t] = token[t]
  <2> SUFFICES ASSUME NEW p \in Request, NEW t \in Held(p)' \ {Nobody}
               PROVE  p # q /\ t \in Held(p) /\ t \in Token /\ token'[t] = token[t]
    OBVIOUS
  <2>1. p # q /\ t \in Held(p) /\ t \in Token
    BY <1>1, EndKeeps, HeldTokens
  <2> QED BY <1>5, <2>1
<1>11. Locks'
  <2>1. \A p \in Request : \A t \in Held(p)' \ {Nobody} : token'[t].state \in {"open", "expired"}
    BY <1>10 DEF IInv, Locks
  <2>2. \A t \in Token : /\ token'[t].ends <= 1
                         /\ token'[t].state \in {"none", "open", "expired"} => token'[t].ends = 0
    BY <1>5 DEF IInv, Locks
  <2> QED BY <1>1, <2>1, <2>2, EndKeeps DEF Locks
<1>12. Consuming'
  <2>1. \A p \in Request : request'[p].token # Nobody =>
           p # q /\ request'[p].token \in Token
    BY <1>10 DEF Held
  <2> QED BY <1>2, <1>5, <2>1 DEF IInv, Consuming
<1>13. SeenSessions'
  BY <1>2, <1>4, IdleRow DEF IInv, SeenSessions, Live
<1>14. Revoked'
  <2> SUFFICES ASSUME NEW s \in Session, session'[s].old, ~session'[s].late
               PROVE  session'[s].state \notin {"live", "expired"}
    BY DEF Revoked, Live
  <2>1. CASE session[s].user # u
    BY <1>4, <2>1 DEF IInv, Revoked, Live
  <2>2. CASE session[s].user = u
    <3>1. s \in Live(u) => s \in k.sessions
      BY <1>1, <1>4 DEF IInv, SeenSessions
    <3> QED BY <1>4, <2>2, <3>1 DEF Live
  <2> QED BY <2>1, <2>2
<1>15. SeenTokens'
  BY <1>2, <1>5, IdleRow DEF IInv, SeenTokens
<1>16. OneOpenToken'
  BY <1>5 DEF IInv, OneOpenToken
<1>17. Replaced'
  BY <1>2, <1>4, IdleRow, Types DEF IInv, Replaced, SessionRow, Options
<1>18. Addresses'
  <2>1. VerifiedAddress'
    BY <1>3 DEF IInv, Addresses, VerifiedAddress
  <2>2. \A v \in User : \A f : Current(v, f) => Current(v, f)'
    BY <1>3 DEF Current
  <2>3. \A p \in Request : request[p].kind \in {"verify_request", "verify_confirm"}
                           => request[p].user \in User
    BY RequestOfUser DEF Kinds, Mailers, Consumers
  <2> QED BY <1>2, <1>5, <2>1, <2>2, <2>3, IdleRow, TokenOfUser DEF IInv, Addresses
<1>19. Deleted'
  <2>1. DeletedIsAnonymous'
    BY <1>2, <1>3 DEF IInv, Deleted, DeletedIsAnonymous
  <2>2. ASSUME NEW p \in Request, request'[p].kind \in {"profile", "confirm_email"},
               user'[request[p].user].state = "deleted"
        PROVE  user'[request[p].user].late
    <3>1. p # q /\ request'[p] = request[p] /\ request[p].kind \in {"profile", "confirm_email"}
      BY <1>2, <2>2, IdleRow
    <3>2. request[p].user \in User /\ Busy(p)
      BY <3>1, RequestOfUser DEF Kinds, Consumers, Busy
    <3>3. CASE request[p].user # u
      BY <1>3, <2>2, <3>1, <3>2, <3>3 DEF IInv, Deleted
    <3>4. CASE request[p].user = u /\ k.kind # "delete_account"
      BY <1>3, <2>2, <3>1, <3>2, <3>4 DEF IInv, Deleted
    <3>5. CASE request[p].user = u /\ k.kind = "delete_account"
      <4>1. Together(q, p)
        BY <1>1, <3>1, <3>2, <3>5 DEF Together, Busy
      <4>2. request[p].kind = "profile" => k.late
        BY <3>5, <4>1 DEF IInv, Noticed, Spoils
      <4>3. ASSUME request[p].kind = "confirm_email"
            PROVE  k.late
        <5> DEFINE t == request[p].token
        <5>1. /\ t \in Token /\ token[t].state \in {"open", "expired"}
              /\ token[t].user = u /\ token[t].purpose = "change_email"
          <6>1. request[p].kind \in Consumers /\ Purpose(request[p].kind) = "change_email"
            BY <4>3 DEF Consumers, Purpose
          <6>2. t \in Token /\ token[t].state \in {"open", "expired"}
            BY <6>1, ConsumedToken
          <6> QED BY <3>5, <6>1, <6>2, NobodyAssumption DEF IInv, Consuming
        <5>2. t \notin k.tokens
          BY <3>5 DEF CommitRevoke, Doomed, TokenLocked
        <5> QED BY <1>1, <3>5, <5>1, <5>2 DEF IInv, SeenTokens
      <4> QED BY <1>3, <3>1, <3>5, <4>2, <4>3
    <3> QED BY <3>3, <3>4, <3>5
  <2> QED BY <1>2, <2>1, <2>2, IdleRow DEF Deleted
<1> QED BY <1>1, <1>7, <1>8, <1>9, <1>11, <1>12, <1>13, <1>14, <1>15, <1>16, <1>17, <1>18,
           <1>19, EndKeeps DEF IInv

-----------------------------------------------------------------------------
(* A request begins.                                                       *)

\* What a request is about when it begins.
Fits(kind, u, s, t, e) ==
    /\ kind \in Kinds /\ u \in User
    /\ s \in Options(Session) /\ t \in Options(Token) /\ e \in Options(Email)
    /\ user[u].state = "none" <=> kind = "register"
    /\ t # Nobody <=> kind \in Consumers
    /\ s # Nobody <=> kind \in {"refresh", "logout"}
    /\ kind \in Mailers \cup Consumers \cup {"register"} => e # Nobody
    /\ s # Nobody => session[s].user = u /\ session[s].state # "none"
    /\ kind = "refresh" => session[s].state = "live"
    /\ t # Nobody => /\ token[t].state = "open" /\ token[t].user = u
                     /\ token[t].purpose = Purpose(kind) /\ token[t].email = e
                     /\ ~TokenLocked(t)
    /\ kind \in {"verify_request", "verify_confirm"} => Current(u, e)
    /\ kind = "register" => \A p \in Request : request[p].user # u
    /\ kind \in {"profile", "confirm_email"} => user[u].state # "deleted"

\* The requests of the user go on, and some notice.
LEMMA BeginRow ==
    ASSUME IInv, NEW q \in Request, NEW kind, NEW u, NEW s, NEW t, NEW e,
           Fits(kind, u, s, t, e), Begin(q, kind, u, s, t, e)
    PROVE  /\ request' \in [Request -> RequestRow]
           /\ request[q] = Idle
           /\ request'[q].at = (IF kind = "login" THEN "issue" ELSE "read")
           /\ request'[q].kind = kind /\ request'[q].user = u
           /\ request'[q].session = s /\ request'[q].token = t /\ request'[q].email = e
           /\ request'[q].tokens = {}
           /\ \A p \in Request \ {q} :
                /\ request'[p].at = request[p].at /\ request'[p].kind = request[p].kind
                /\ request'[p].user = request[p].user
                /\ request'[p].session = request[p].session
                /\ request'[p].token = request[p].token /\ request'[p].email = request[p].email
                /\ request'[p].sessions = request[p].sessions
                /\ request'[p].tokens = request[p].tokens
                /\ request[p].late => request'[p].late
                /\ Busy(p) /\ request[p].user = u =>
                     /\ Spoils(request[p].kind, request[p].session, kind, s) => request'[p].late
                     /\ Spoils(kind, s, request[p].kind, request[p].session) => request'[q].late
                /\ request[p] = Idle => request'[p] = Idle
<1> DEFINE others == {p \in Request \ {q} : request[p].at # "idle" /\ request[p].user = u}
           late == \E o \in others : Spoils(kind, s, request[o].kind, request[o].session)
           new == [at |-> IF kind = "login" THEN "issue" ELSE "read", kind |-> kind,
                   user |-> u, session |-> s, token |-> t, email |-> e,
                   sessions |-> {}, tokens |-> {}, late |-> late]
           spoiled(p) == [request[p] EXCEPT !.late = TRUE]
<1>1. /\ request[q] = Idle
      /\ request' = [p \in Request |->
           IF p = q THEN new
           ELSE IF p \in others /\ Spoils(request[p].kind, request[p].session, kind, s)
           THEN spoiled(p) ELSE request[p]]
  BY DEF Begin
<1>2. \A p \in Request \ {q} :
        p \in others /\ Spoils(kind, s, request[p].kind, request[p].session) => late
  OBVIOUS
<1>3. \A p \in Request \ {q} : Busy(p) /\ request[p].user = u => p \in others
  BY DEF Busy
<1>4. \A p \in others : request[p] # Idle
  BY IdleRow
<1>5. late \in BOOLEAN
  OBVIOUS
<1> HIDE DEF late, others
<1>6. /\ new \in RequestRow
      /\ new.at = (IF kind = "login" THEN "issue" ELSE "read")
      /\ new.kind = kind /\ new.user = u /\ new.session = s /\ new.token = t /\ new.email = e
      /\ new.tokens = {} /\ new.late = late
  <2> DEFINE at == IF kind = "login" THEN "issue" ELSE "read"
  <2>1. at \in {"read", "issue"}
    OBVIOUS
  <2>2. /\ kind \in Kinds /\ u \in Options(User) /\ s \in Options(Session)
        /\ t \in Options(Token) /\ e \in Options(Email)
    BY DEF Fits, Options
  <2> HIDE DEF at
  <2>3. new = [at |-> at, kind |-> kind, user |-> u, session |-> s, token |-> t, email |-> e,
               sessions |-> {}, tokens |-> {}, late |-> late]
    BY DEF at
  <2> HIDE DEF new
  <2> QED BY <1>5, <2>1, <2>2, <2>3 DEF RequestRow, at
<1>7. request \in [Request -> RequestRow]
  BY Types DEF IInv
<1>8. ASSUME NEW p \in Request
      PROVE  /\ spoiled(p) \in RequestRow
             /\ spoiled(p).at = request[p].at /\ spoiled(p).kind = request[p].kind
             /\ spoiled(p).user = request[p].user
             /\ spoiled(p).session = request[p].session
             /\ spoiled(p).token = request[p].token /\ spoiled(p).email = request[p].email
             /\ spoiled(p).sessions = request[p].sessions
             /\ spoiled(p).tokens = request[p].tokens
             /\ spoiled(p).late
  <2>1. request[p] \in RequestRow
    BY <1>7
  <2> QED BY <2>1 DEF RequestRow
<1> HIDE DEF new, spoiled
<1>9. request' \in [Request -> RequestRow]
  BY <1>1, <1>6, <1>7, <1>8
<1>10. /\ request'[q] = new
       /\ \A p \in Request \ {q} :
            request'[p] = IF p \in others /\ Spoils(request[p].kind, request[p].session, kind, s)
                          THEN spoiled(p) ELSE request[p]
  BY <1>1
<1>11. ASSUME NEW p \in Request \ {q}
       PROVE  /\ request'[p].at = request[p].at /\ request'[p].kind = request[p].kind
              /\ request'[p].user = request[p].user
              /\ request'[p].session = request[p].session
              /\ request'[p].token = request[p].token /\ request'[p].email = request[p].email
              /\ request'[p].sessions = request[p].sessions
              /\ request'[p].tokens = request[p].tokens
              /\ request[p].late => request'[p].late
              /\ request[p] = Idle => request'[p] = Idle
              /\ p \in others /\ Spoils(request[p].kind, request[p].session, kind, s)
                 => request'[p].late
  BY <1>4, <1>8, <1>10
<1>12. ASSUME NEW p \in Request \ {q}, Busy(p), request[p].user = u
       PROVE  /\ Spoils(request[p].kind, request[p].session, kind, s) => request'[p].late
              /\ Spoils(kind, s, request[p].kind, request[p].session) => request'[q].late
  BY <1>2, <1>3, <1>6, <1>10, <1>11, <1>12
<1> QED BY <1>1, <1>6, <1>9, <1>10, <1>11, <1>12

LEMMA BeginStep ==
    ASSUME IInv, NEW q \in Request, NEW kind, NEW u, NEW s, NEW t, NEW e,
           Fits(kind, u, s, t, e), Begin(q, kind, u, s, t, e)
    PROVE  IInv'
<1>1. /\ request' \in [Request -> RequestRow]
      /\ request[q] = Idle
      /\ request'[q].at = (IF kind = "login" THEN "issue" ELSE "read")
      /\ request'[q].kind = kind /\ request'[q].user = u
      /\ request'[q].session = s /\ request'[q].token = t /\ request'[q].email = e
      /\ request'[q].tokens = {}
      /\ \A p \in Request \ {q} :
           /\ request'[p].at = request[p].at /\ request'[p].kind = request[p].kind
           /\ request'[p].user = request[p].user
           /\ request'[p].session = request[p].session
           /\ request'[p].token = request[p].token /\ request'[p].email = request[p].email
           /\ request'[p].sessions = request[p].sessions
           /\ request'[p].tokens = request[p].tokens
           /\ request[p].late => request'[p].late
           /\ Busy(p) /\ request[p].user = u =>
                /\ Spoils(request[p].kind, request[p].session, kind, s) => request'[p].late
                /\ Spoils(kind, s, request[p].kind, request[p].session) => request'[q].late
           /\ request[p] = Idle => request'[p] = Idle
  BY BeginRow
<1>2. UNCHANGED <<user, session, token, proven>>
  BY DEF Begin, rows
<1>3. request'[q].at \in {"read", "issue"} /\ (request'[q].at = "issue" <=> kind = "login")
  BY <1>1
<1>4. TypeOK'
  BY <1>1, <1>2, Types, TypesAfter DEF IInv
<1>5. Requests'
  <2>1. \A p \in Request \ {q} : request'[p].at = "idle" => request'[p] = Idle
    BY <1>1 DEF IInv, Requests
  <2>2. "login" \in Issuers /\ "login" # "refresh" /\ "login" # "register"
    BY DEF Issuers
  <2>3. Requests
    BY DEF IInv
  <2> DEFINE Row(k) ==
        /\ k.at # "idle" =>
             /\ k.kind \in Kinds /\ k.user \in User
             /\ user[k.user].state = "none" <=> (k.kind = "register" /\ k.at = "read")
             /\ k.token # Nobody <=> k.kind \in Consumers
             /\ k.session # Nobody <=> k.kind \in {"refresh", "logout"}
             /\ k.kind \in Mailers \cup Consumers \cup {"register"} => k.email # Nobody
        /\ k.session # Nobody =>
             session[k.session].user = k.user /\ session[k.session].state # "none"
        /\ \A x \in k.tokens : token[x].state # "none"
        /\ k.at = "commit" => k.kind \in Revokers \cup Mailers
        /\ k.at = "issue" => k.kind \in Issuers
        /\ k.at = "issue" /\ k.kind = "refresh" => session[k.session].state = "revoked"
  <2>4. Row(request'[q])
    BY <1>1, <1>3, <2>2 DEF Fits
  <2>5. \A p \in Request \ {q} : Row(request'[p])
    BY <1>1, <2>3 DEF Requests
  <2>6. \A p \in Request : Row(request'[p]) /\ (request'[p].at = "idle" => request'[p] = Idle)
    BY <1>3, <2>1, <2>4, <2>5
  <2> QED BY <1>2, <2>6 DEF Requests
<1>6. Owned'
  <2>1. ASSUME NEW p \in Request, NEW r \in Request, request'[p].kind = "register",
               request'[p].at = "read", Together(p, r)'
        PROVE  FALSE
    <3>1. p # r /\ request'[p].at # "idle" /\ request'[r].at # "idle"
          /\ request'[p].user = request'[r].user
      BY <2>1 DEF Together, Busy
    <3>2. CASE p = q
      BY <1>1, <2>1, <3>1, <3>2 DEF Fits
    <3>3. CASE r = q
      <4>1. user[request[p].user].state = "none" /\ request[p].user = u
        BY <1>1, <2>1, <3>1, <3>3 DEF IInv, Requests
      <4> QED BY <4>1 DEF Fits
    <3>4. CASE p # q /\ r # q
      BY <1>1, <2>1, <3>1, <3>4 DEF IInv, Owned, Together, Busy
    <3> QED BY <3>2, <3>3, <3>4
  <2> QED BY <1>2, <2>1 DEF IInv, Owned
<1>7. Noticed'
  <2> SUFFICES ASSUME NEW p \in Request, NEW r \in Request, Together(p, r)',
                      Spoils(request'[p].kind, request'[p].session,
                             request'[r].kind, request'[r].session)
               PROVE  request'[p].late
    BY DEF Noticed
  <2>1. p # r /\ request'[p].at # "idle" /\ request'[r].at # "idle"
        /\ request'[p].user = request'[r].user
    BY DEF Together, Busy
  <2>2. CASE p = q
    BY <1>1, <2>1, <2>2 DEF Busy
  <2>3. CASE r = q
    BY <1>1, <2>1, <2>3 DEF Busy
  <2>4. CASE p # q /\ r # q
    BY <1>1, <2>1, <2>4 DEF IInv, Noticed, Together, Busy
  <2> QED BY <2>2, <2>3, <2>4
<1>8. /\ \A p \in Request \ {q} : Held(p)' = Held(p)
      /\ Held(q)' = {t}
  BY <1>1 DEF Held
<1>9. Locks'
  <2>1. \A p \in Request : t \in Held(p) => t = Nobody
    BY NobodyAssumption, IdleRow DEF Held, Fits, TokenLocked
  <2> QED BY <1>2, <1>8, <2>1 DEF IInv, Locks, Fits
<1>10. Consuming'
  BY <1>1, <1>2 DEF IInv, Consuming, Fits
<1>11. SeenSessions' /\ Revoked'
  BY <1>1, <1>2, <1>3 DEF IInv, SeenSessions, Revoked, Live
<1>12. SeenTokens' /\ OneOpenToken'
  BY <1>1, <1>2, <1>3 DEF IInv, SeenTokens, OneOpenToken
<1>13. Replaced'
  BY <1>1, <1>2 DEF IInv, Replaced, Fits
<1>14. Addresses'
  BY <1>1, <1>2 DEF IInv, Addresses, VerifiedAddress, Current, Fits
<1>15. Deleted'
  BY <1>1, <1>2 DEF IInv, Deleted, DeletedIsAnonymous, Fits
<1> QED BY <1>4, <1>5, <1>6, <1>7, <1>9, <1>10, <1>11, <1>12, <1>13, <1>14, <1>15 DEF IInv

LEMMA BeginLoginStep ==
    ASSUME IInv, NEW q \in Request, NEW u \in User, BeginLogin(q, u)
    PROVE  IInv'
<1>1. user[u].state = "active" /\ Begin(q, "login", u, Nobody, Nobody, Nobody)
  BY DEF BeginLogin, Signed, BeginPlain
<1>2. Fits("login", u, Nobody, Nobody, Nobody)
  BY <1>1 DEF Fits, Options, Kinds, Issuers, Mailers, Consumers
<1> QED BY <1>1, <1>2, BeginStep

LEMMA BeginRegisterStep ==
    ASSUME IInv, NEW q \in Request, NEW u \in User, NEW e \in Email, BeginRegister(q, u, e)
    PROVE  IInv'
<1>1. /\ user[u].state = "none" /\ \A p \in Request : request[p].user # u
      /\ Begin(q, "register", u, Nobody, Nobody, e)
  BY DEF BeginRegister
<1>2. Fits("register", u, Nobody, Nobody, e)
  BY <1>1, NobodyAssumption DEF Fits, Options, Kinds, Issuers, Mailers, Consumers
<1> QED BY <1>1, <1>2, BeginStep

LEMMA BeginSessionStep ==
    ASSUME IInv, NEW q \in Request, NEW kind, NEW s \in Session, BeginSession(q, kind, s)
    PROVE  IInv'
<1> DEFINE u == session[s].user
<1>1. /\ kind \in {"refresh", "logout"} /\ session[s].state \in {"live", "expired"}
      /\ kind = "refresh" => session[s].state = "live"
      /\ Begin(q, kind, u, s, Nobody, Nobody)
  BY DEF BeginSession
<1>2. s # Nobody /\ u \in User /\ user[u].state # "none"
  <2>1. u # Nobody
    BY <1>1 DEF IInv, Owned
  <2> QED BY <2>1, NobodyAssumption, Types DEF IInv, Owned, SessionRow, Options
<1>3. Fits(kind, u, s, Nobody, Nobody)
  BY <1>1, <1>2 DEF Fits, Options, Kinds, Issuers, Mailers, Consumers
<1> QED BY <1>1, <1>3, BeginStep

LEMMA BeginSignedStep ==
    ASSUME IInv, NEW q \in Request, NEW kind, NEW u \in User, BeginSigned(q, kind, u)
    PROVE  IInv'
<1> DEFINE e == IF kind \in Mailers THEN user[u].email ELSE Nobody
<1>1. /\ kind \in {"logout_all", "change_password", "delete_account", "profile",
                   "verify_request", "forgot_password"}
      /\ user[u].state = "active" /\ Begin(q, kind, u, Nobody, Nobody, e)
  BY DEF BeginSigned, Signed
<1>2. user[u].email \in Options(Email) /\ user[u].email # Nobody
  BY <1>1, Types DEF IInv, Owned, UserRow
<1>3. Current(u, user[u].email)
  BY DEF Current
<1>4. Fits(kind, u, Nobody, Nobody, e)
  BY <1>1, <1>2, <1>3 DEF Fits, Options, Kinds, Issuers, Revokers, Mailers, Consumers
<1> QED BY <1>1, <1>4, BeginStep

LEMMA BeginChangeEmailStep ==
    ASSUME IInv, NEW q \in Request, NEW u \in User, NEW e \in Email, BeginChangeEmail(q, u, e)
    PROVE  IInv'
<1>1. user[u].state = "active" /\ Begin(q, "change_email", u, Nobody, Nobody, e)
  BY DEF BeginChangeEmail, Signed
<1>2. Fits("change_email", u, Nobody, Nobody, e)
  BY <1>1, NobodyAssumption DEF Fits, Options, Kinds, Mailers, Consumers
<1> QED BY <1>1, <1>2, BeginStep

LEMMA BeginConsumeStep ==
    ASSUME IInv, NEW q \in Request, NEW kind \in Consumers, NEW t \in Token,
           BeginConsume(q, kind, t)
    PROVE  IInv'
<1> DEFINE u == token[t].user
           e == token[t].email
<1>1. /\ token[t].state = "open" /\ token[t].purpose = Purpose(kind) /\ ~TokenLocked(t)
      /\ kind = "confirm_email" => user[u].state = "active"
      /\ Begin(q, kind, u, Nobody, t, e)
  BY DEF BeginConsume, Signed
<1>2. t # Nobody /\ u \in User
  BY <1>1, PurposeTells, TokenOfUser, NobodyAssumption
<1>3. user[u].state # "none" /\ e # Nobody /\ e \in Options(Email)
  BY <1>2, NobodyAssumption, Types DEF IInv, Owned, TokenRow
<1>4. kind = "verify_confirm" => Current(u, e)
  BY <1>1 DEF IInv, Addresses, Purpose
<1>5. Fits(kind, u, Nobody, t, e)
  BY <1>1, <1>2, <1>3, <1>4 DEF Fits, Options, Kinds, Consumers
<1> QED BY <1>1, <1>5, BeginStep

-----------------------------------------------------------------------------
(* The invariant.                                                          *)

LEMMA InvInit == Init => IInv
<1> SUFFICES ASSUME Init
             PROVE  IInv
  OBVIOUS
<1>1. /\ user = [u \in User |-> NoUser] /\ session = [s \in Session |-> NoSession]
      /\ token = [t \in Token |-> NoToken] /\ request = [q \in Request |-> Idle]
      /\ proven = [u \in User |-> {}]
  BY DEF Init
<1>2. NoUser \in UserRow /\ NoUser.state = "none"
  BY DEF NoUser, UserRow, Options
<1>3. /\ NoSession \in SessionRow /\ NoSession.state = "none"
      /\ NoSession.user = Nobody /\ NoSession.from = Nobody /\ ~NoSession.old
  BY DEF NoSession, SessionRow, Options
<1>4. /\ NoToken \in TokenRow /\ NoToken.state = "none" /\ NoToken.user = Nobody
      /\ NoToken.purpose = "none" /\ NoToken.ends = 0
  <2>1. 0 \in 0..2
    OBVIOUS
  <2> QED BY <2>1 DEF NoToken, TokenRow, Options
<1>5. /\ \A u \in User : user[u] = NoUser
      /\ \A s \in Session : session[s] = NoSession
      /\ \A t \in Token : token[t] = NoToken
      /\ \A q \in Request : request[q] = Idle
  BY <1>1
<1>6. TypeOK
  BY <1>1, <1>2, <1>3, <1>4, IdleRow, Types
<1>7. Requests
  BY <1>5, IdleRow DEF Requests
<1>8. Owned
  BY <1>2, <1>3, <1>4, <1>5, IdleRow DEF Owned
<1>9. Noticed
  BY <1>5, IdleRow DEF Noticed, Together, Busy
<1>10. \A q \in Request : Held(q) \subseteq {Nobody}
  BY <1>5, IdleRow DEF Held
<1>11. Locks
  BY <1>4, <1>5, <1>10 DEF Locks
<1>12. Consuming /\ SeenSessions /\ SeenTokens
  BY <1>5, IdleRow DEF Consuming, SeenSessions, SeenTokens
<1>13. Revoked /\ Replaced
  BY <1>3, <1>5, IdleRow DEF Revoked, Replaced
<1>14. OneOpenToken
  BY <1>4, <1>5 DEF OneOpenToken
<1>15. Addresses
  BY <1>2, <1>4, <1>5, IdleRow DEF Addresses, VerifiedAddress
<1>16. Deleted
  BY <1>2, <1>5, IdleRow DEF Deleted, DeletedIsAnonymous
<1> QED BY <1>6, <1>7, <1>8, <1>9, <1>11, <1>12, <1>13, <1>14, <1>15, <1>16 DEF IInv

\* No request takes a step.
LEMMA StutterStep ==
    ASSUME IInv, UNCHANGED vars
    PROVE  IInv'
<1>1. UNCHANGED <<user, session, token, request, proven>>
  BY DEF vars
<1>2. TypeOK' /\ Requests' /\ Owned' /\ Noticed'
  BY <1>1 DEF IInv, TypeOK, Requests, Owned, Noticed, Together, Busy
<1>3. Locks' /\ Consuming' /\ SeenSessions' /\ SeenTokens'
  BY <1>1 DEF IInv, Locks, Held, Consuming, SeenSessions, SeenTokens, Live
<1>4. Revoked' /\ Replaced' /\ OneOpenToken' /\ Addresses' /\ Deleted'
  BY <1>1 DEF IInv, Revoked, Replaced, OneOpenToken, Addresses, Deleted, Live, Current,
              VerifiedAddress, DeletedIsAnonymous
<1> QED BY <1>2, <1>3, <1>4 DEF IInv

LEMMA InvNext == IInv /\ [Next]_vars => IInv'
<1> SUFFICES ASSUME IInv, [Next]_vars
             PROVE  IInv'
  OBVIOUS
<1>1. CASE \E q \in Request, u \in User :
              \/ BeginLogin(q, u)
              \/ \E k \in Kinds : BeginSigned(q, k, u)
              \/ \E e \in Email : BeginRegister(q, u, e) \/ BeginChangeEmail(q, u, e)
  BY <1>1, BeginLoginStep, BeginSignedStep, BeginRegisterStep, BeginChangeEmailStep
<1>2. CASE \E q \in Request, s \in Session :
              (\E k \in Kinds : BeginSession(q, k, s)) \/ Issue(q, s)
  BY <1>2, BeginSessionStep, IssueStep
<1>3. CASE \E q \in Request, t \in Token :
              (\E k \in Consumers : BeginConsume(q, k, t)) \/ CommitToken(q, t)
  BY <1>3, BeginConsumeStep, CommitTokenStep
<1>4. CASE \E q \in Request : \/ Revoke(q) \/ Supersede(q) \/ CommitRevoke(q)
                              \/ CommitVerify(q) \/ CommitRegister(q) \/ CommitProfile(q)
                              \/ CommitLogout(q) \/ CommitRefresh(q) \/ Fail(q)
  BY <1>4, RevokeStep, SupersedeStep, CommitRevokeStep, CommitVerifyStep, CommitRegisterStep,
     CommitProfileStep, CommitLogoutStep, CommitRefreshStep, FailStep
<1>5. CASE \E s \in Session : ExpireSession(s)
  BY <1>5, ExpireSessionStep
<1>6. CASE \E t \in Token : ExpireToken(t)
  BY <1>6, ExpireTokenStep
<1>7. CASE UNCHANGED vars
  BY <1>7, StutterStep
<1> QED BY <1>1, <1>2, <1>3, <1>4, <1>5, <1>6, <1>7 DEF Next

LEMMA Invariant == Spec => []IInv
BY InvInit, InvNext, PTL DEF Spec

(* A session that was there when all sessions of its user were revoked is  *)
(* never alive again, unless the request that issued it overlapped the     *)
(* revocation (auth.py, account.py).                                       *)
THEOREM SessionsSafe == Spec => []SessionsConsistent
<1>1. IInv => SessionsConsistent
  BY DEF IInv, Revoked, Live, RevocationHolds, SessionsConsistent
<1> QED BY <1>1, Invariant, PTL

(* A session that was refreshed is revoked for good, and sessions that     *)
(* replaced the same one come from refreshes that overlapped (auth.py).    *)
THEOREM RefreshSafe == Spec => []RefreshReplaces
<1>1. IInv => RefreshReplaces
  BY DEF IInv, Replaced, RefreshReplaces
<1> QED BY <1>1, Invariant, PTL

(* A one-time token is consumed or replaced once, and a user has one that  *)
(* is open for a purpose unless two requests for it overlapped             *)
(* (account.py _consume_token, _issue_token).                              *)
THEOREM TokensSafe == Spec => []TokensConsistent
<1>1. IInv => TokensConsistent
  BY DEF IInv, Locks, TokensConsistent, TokenEndsOnce
<1> QED BY <1>1, Invariant, PTL

(* A verified address is one whose link its owner followed, and a deleted  *)
(* account keeps neither email nor name unless a request overlapped its    *)
(* deletion (account.py).                                                  *)
THEOREM AccountsSafe == Spec => []AccountsConsistent
<1>1. IInv => AccountsConsistent
  BY DEF IInv, Addresses, Deleted, AccountsConsistent
<1> QED BY <1>1, Invariant, PTL
=============================================================================
