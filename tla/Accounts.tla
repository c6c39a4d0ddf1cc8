------------------------------ MODULE Accounts ------------------------------
(***************************************************************************)
(* Accounts: users, their sessions and the one-time tokens mailed to them  *)
(* (backend/app/api/routes/auth.py, account.py, api/deps.py).              *)
(*                                                                         *)
(* A request reads without locks first (Begin), except that a one-time     *)
(* token is locked by its FOR UPDATE.  Who revokes all sessions or         *)
(* replaces tokens then runs UPDATEs that hold row locks until the commit  *)
(* (Revoke, Supersede).  A new session is a transaction of its own         *)
(* (Issue), after the one that checked the password or ended the old       *)
(* session.  Passwords are left out: a request that begins has given the   *)
(* right one.                                                              *)
(***************************************************************************)
EXTENDS Naturals, FiniteSets

CONSTANTS
    User, Email, Session, Token,    \* the rows there may be
    Request,        \* requests that may be in progress together
    Nobody,         \* no user, email, session or token
    MaxRows         \* bound: sessions and tokens that exist together

ASSUME NobodyAssumption == Nobody \notin User \cup Email \cup Session \cup Token

VARIABLES
    user,       \* user[u]: the row of users, with the profile and security rows
    session,    \* session[s]: the row of sessions
    token,      \* token[t]: the row of account_tokens
    request,    \* request[q]: the request q, between two of its steps
    proven      \* history: proven[u] are the emails whose links u followed

vars == <<user, session, token, request, proven>>
rows == <<user, session, token, proven>>

Purposes == {"verify_email", "password_reset", "change_email"}

\* Who inserts a session, who revokes all sessions, who mails a token, and
\* who consumes one.
Issuers == {"register", "login", "refresh"}
Revokers == {"logout_all", "change_password", "reset_password",
             "confirm_email", "delete_account"}
Mailers == {"verify_request", "forgot_password", "change_email"}
Consumers == {"verify_confirm", "reset_password", "confirm_email"}
Kinds == Issuers \cup Revokers \cup Mailers \cup Consumers \cup {"logout", "profile"}

Purpose(kind) == CASE kind \in {"verify_request", "verify_confirm"} -> "verify_email"
                   [] kind \in {"forgot_password", "reset_password"} -> "password_reset"
                   [] kind \in {"change_email", "confirm_email"} -> "change_email"

NoUser == [state |-> "none", email |-> Nobody, verified |-> FALSE, name |-> "own",
           late |-> FALSE]
NoSession == [state |-> "none", user |-> Nobody, from |-> Nobody, old |-> FALSE,
              late |-> FALSE]
NoToken == [state |-> "none", user |-> Nobody, purpose |-> "none", email |-> Nobody,
            ends |-> 0, late |-> FALSE]
Idle == [at |-> "idle", kind |-> "none", user |-> Nobody, session |-> Nobody,
         token |-> Nobody, email |-> Nobody, sessions |-> {}, tokens |-> {},
         late |-> FALSE]

Options(S) == S \cup {Nobody}

(* The type of the state.  In every record late says that the request that *)
(* wrote it overlapped one it reads wrong with (Spoils); a session is old  *)
(* once all sessions of its user were revoked; ends counts how often       *)
(* used_at of a token was set.                                             *)
TypeOK ==
    /\ user \in [User -> [state: {"none", "active", "deleted"}, email: Options(Email),
                          verified: BOOLEAN, name: {"own", "deleted"}, late: BOOLEAN]]
    /\ session \in [Session -> [state: {"none", "live", "revoked", "expired"},
                                user: Options(User), from: Options(Session),
                                old: BOOLEAN, late: BOOLEAN]]
    /\ token \in [Token -> [state: {"none", "open", "used", "expired", "gone"},
                            user: Options(User), purpose: Purposes \cup {"none"},
                            email: Options(Email), ends: 0..2, late: BOOLEAN]]
    /\ request \in [Request -> [at: {"idle", "read", "commit", "issue"},
                                kind: Kinds \cup {"none"}, user: Options(User),
                                session: Options(Session), token: Options(Token),
                                email: Options(Email), sessions: SUBSET Session,
                                tokens: SUBSET Token, late: BOOLEAN]]
    /\ proven \in [User -> SUBSET Email]

Init == /\ user = [u \in User |-> NoUser]
        /\ session = [s \in Session |-> NoSession]
        /\ token = [t \in Token |-> NoToken]
        /\ request = [q \in Request |-> Idle]
        /\ proven = [u \in User |-> {}]

-----------------------------------------------------------------------------
(* Rows and their locks.                                                   *)

\* current_user and current_session_user: the token of a request is not
\* stored, the user must be active.
Signed(u) == user[u].state = "active"

Taken(e) == \E u \in User : user[u].email = e

\* Fault: only sessions that have expired are revoked.
LiveExpired(u) == {s \in Session : session[s].user = u /\ session[s].state = "expired"}

\* Sessions that an UPDATE of all sessions sees, tokens that one of all tokens does.
Live(u) == {s \in Session : session[s].user = u /\ session[s].state \in {"live", "expired"}}
Unused(u, purpose) == {t \in Token : /\ token[t].user = u /\ token[t].purpose = purpose
                                     /\ token[t].state \in {"open", "expired"}}

\* Fault: the token is read without FOR UPDATE.
TokenLockedNever(t) == FALSE

\* A request in progress holds the lock of the row; others wait for its end.
UserLocked(u) == \E q \in Request : /\ request[q].at = "commit" /\ request[q].user = u
                                    /\ request[q].kind \in Revokers \ {"logout_all"}
SessionLocked(s) == \E q \in Request : s \in request[q].sessions
TokenLocked(t) == \E q \in Request : \/ request[q].token = t
                                     \/ request[q].kind \in Mailers /\ t \in request[q].tokens

\* The unique index on emails: a row another request is about to commit counts.
EmailFree(u, e) == /\ \A v \in User \ {u} : user[v].email # e
                   /\ \A q \in Request : /\ request[q].at = "commit"
                                         /\ request[q].kind = "confirm_email"
                                         => request[q].user = u \/ request[q].email # e

-----------------------------------------------------------------------------
(* The first step: the request reads what it is about and checks it.       *)

\* Overlaps in which a request works with what is no longer true.
Spoils(kind, s, other, r) ==
    \/ kind \in Issuers /\ other \in Revokers
    \/ kind = "refresh" /\ other = "refresh" /\ s = r
    \/ kind \in Mailers /\ other = kind
    \/ kind = "delete_account" /\ other \in {"change_email", "profile"}

Begin(q, kind, u, s, t, e) ==
    LET others == {p \in Request \ {q} : request[p].at # "idle" /\ request[p].user = u}
    IN  /\ request[q] = Idle
        /\ request' = [p \in Request |->
             IF p = q
             THEN [at |-> IF kind = "login" THEN "issue" ELSE "read", kind |-> kind,
                   user |-> u, session |-> s, token |-> t, email |-> e,
                   sessions |-> {}, tokens |-> {},
                   late |-> \E o \in others :
                              Spoils(kind, s, request[o].kind, request[o].session)]
             ELSE IF p \in others /\ Spoils(request[p].kind, request[p].session, kind, s)
             THEN [request[p] EXCEPT !.late = TRUE]
             ELSE request[p]]
        /\ UNCHANGED rows

\* No session, no token, no email.
BeginPlain(q, kind, u) == Begin(q, kind, u, Nobody, Nobody, Nobody)

BeginRegister(q, u, e) == /\ user[u].state = "none" /\ ~Taken(e)
                          /\ \A p \in Request : request[p].user # u   \* a user of its own
                          /\ Begin(q, "register", u, Nobody, Nobody, e)

\* login: the transaction that checks the password only adds to the audit log.
BeginLogin(q, u) == Signed(u) /\ BeginPlain(q, "login", u)

\* Fault: a session that was revoked can still be refreshed.
BeginSessionRevoked(q, kind, s) ==
    /\ kind \in {"refresh", "logout"}
    /\ session[s].state # "none"
    /\ kind = "refresh" => Signed(session[s].user)
    /\ Begin(q, kind, session[s].user, s, Nobody, Nobody)

\* refresh and logout find the session by the hash of the token.
BeginSession(q, kind, s) ==
    /\ kind \in {"refresh", "logout"}
    /\ session[s].state \in {"live", "expired"}
    /\ kind = "refresh" => session[s].state = "live" /\ Signed(session[s].user)
    /\ Begin(q, kind, session[s].user, s, Nobody, Nobody)

BeginSigned(q, kind, u) ==
    /\ kind \in {"logout_all", "change_password", "delete_account", "profile",
                 "verify_request", "forgot_password"}
    /\ Signed(u)
    /\ kind = "verify_request" => ~user[u].verified
    /\ Begin(q, kind, u, Nobody, Nobody,
             IF kind \in Mailers THEN user[u].email ELSE Nobody)

BeginChangeEmail(q, u, e) == /\ Signed(u) /\ ~Taken(e)
                             /\ Begin(q, "change_email", u, Nobody, Nobody, e)

\* _consume_token: FOR UPDATE, then the checks of the routes that use it.
BeginConsume(q, kind, t) ==
    LET u == token[t].user
        e == token[t].email
    IN  /\ token[t].state = "open" /\ token[t].purpose = Purpose(kind)
        /\ ~TokenLocked(t)
        /\ kind \in {"reset_password", "confirm_email"} => Signed(u)
        /\ kind = "confirm_email" => \A v \in User \ {u} : user[v].email # e
        /\ Begin(q, kind, u, Nobody, t, e)

-----------------------------------------------------------------------------
(* The statements that lock rows and keep them locked until the commit.    *)

Is(q, at, kinds) == request[q].at = at /\ request[q].kind \in kinds

\* What the UPDATEs of q have read and locked; its commit is next.
Lock(q, S, T) ==
    request' = [request EXCEPT ![q] = [@ EXCEPT !.at = "commit", !.sessions = S, !.tokens = T]]

\* The UPDATE of users is flushed, then all sessions are revoked; deleting
\* an account also reads its tokens.
Revoke(q) ==
    LET u == request[q].user
        delete == request[q].kind = "delete_account"
    IN  /\ Is(q, "read", Revokers)
        /\ request[q].kind # "logout_all" => ~UserLocked(u)
        /\ request[q].kind = "confirm_email" => EmailFree(u, request[q].email)
        /\ \A s \in Live(u) : ~SessionLocked(s)
        /\ Lock(q, Live(u), IF delete THEN {t \in Token : /\ token[t].user = u
                                                          /\ token[t].state # "gone"}
                                      ELSE {})
        /\ UNCHANGED rows

\* _issue_token: the UPDATE that marks older tokens of the purpose as used.
Supersede(q) ==
    LET older == Unused(request[q].user, Purpose(request[q].kind))
    IN  /\ Is(q, "read", Mailers)
        /\ \A t \in older : ~TokenLocked(t)
        /\ Lock(q, {}, older)
        /\ UNCHANGED rows

-----------------------------------------------------------------------------
(* Commits.                                                                *)

\* Bound: there is room for one more session or token.
Room == Cardinality({s \in Session : session[s].state # "none"})
        + Cardinality({t \in Token : token[t].state # "none"}) < MaxRows

Done(q) == request' = [request EXCEPT ![q] = Idle]

\* used_at is set for the tokens T.
Use(T) == [t \in Token |-> IF t \in T
                           THEN [token[t] EXCEPT !.state = "used", !.ends = @ + 1]
                           ELSE token[t]]

\* What a request that revokes sessions writes to its user.
UserAfter(q) ==
    LET row == user[request[q].user]
    IN  CASE request[q].kind = "confirm_email" ->
               [row EXCEPT !.email = request[q].email, !.verified = TRUE]
          [] request[q].kind = "delete_account" ->
               [row EXCEPT !.state = "deleted", !.email = Nobody, !.name = "deleted",
                           !.late = request[q].late]
          [] OTHER -> row

Doomed(q) == IF request[q].kind = "delete_account" THEN request[q].tokens ELSE {}

\* The other tokens go with their user; a DELETE waits for the lock of its row.
CommitRevoke(q) ==
    LET u == request[q].user
        consumed == {request[q].token} \ {Nobody}
    IN  /\ Is(q, "commit", Revokers)
        /\ \A t \in Doomed(q) : ~TokenLocked(t)
        /\ user' = [user EXCEPT ![u] = UserAfter(q)]
        /\ session' = [s \in Session |->
             IF session[s].user # u THEN session[s]
             ELSE [session[s] EXCEPT !.old = TRUE,
                     !.state = IF s \in request[q].sessions THEN "revoked" ELSE @]]
        /\ token' = [t \in Token |-> IF t \in Doomed(q) THEN [token[t] EXCEPT !.state = "gone"]
                                     ELSE Use(consumed)[t]]
        /\ proven' = IF request[q].kind = "confirm_email"
                      THEN [proven EXCEPT ![u] = @ \cup {request[q].email}] ELSE proven
        /\ Done(q)

\* Fault: change_email writes the new address before it is confirmed.
UserMailedNew(q) == IF request[q].kind = "change_email"
                    THEN [user EXCEPT ![request[q].user].email = request[q].email] ELSE user

\* Mailing a token leaves the user as it is.
UserMailed(q) == user

CommitToken(q, t) ==
    /\ Is(q, "commit", Mailers) /\ token[t].state = "none" /\ Room
    /\ token' = [Use(request[q].tokens) EXCEPT ![t] =
         [state |-> "open", user |-> request[q].user, purpose |-> Purpose(request[q].kind),
          email |-> request[q].email, ends |-> 0, late |-> request[q].late]]
    /\ user' = UserMailed(q)
    /\ Done(q) /\ UNCHANGED <<session, proven>>

CommitVerify(q) ==
    LET u == request[q].user
    IN  /\ Is(q, "read", {"verify_confirm"})
        /\ user' = [user EXCEPT ![u].verified = TRUE]
        /\ proven' = [proven EXCEPT ![u] = @ \cup {request[q].email}]
        /\ token' = Use({request[q].token})
        /\ Done(q) /\ UNCHANGED session

CommitRegister(q) ==
    /\ Is(q, "read", {"register"}) /\ EmailFree(request[q].user, request[q].email)
    /\ user' = [user EXCEPT ![request[q].user] =
         [NoUser EXCEPT !.state = "active", !.email = request[q].email]]
    /\ request' = [request EXCEPT ![q].at = "issue"]
    /\ UNCHANGED <<session, token, proven>>

\* update_profile writes by id what it was sent.
CommitProfile(q) == /\ Is(q, "read", {"profile"}) /\ ~UserLocked(request[q].user)
                    /\ user' = [user EXCEPT ![request[q].user].name = "own"]
                    /\ Done(q) /\ UNCHANGED <<session, token, proven>>

\* revoked_at of one session, by id.
End(s) == [session EXCEPT ![s].state = "revoked"]

CommitLogout(q) == /\ Is(q, "read", {"logout"}) /\ ~SessionLocked(request[q].session)
                   /\ session' = End(request[q].session)
                   /\ Done(q) /\ UNCHANGED <<user, token, proven>>

\* The first transaction of refresh.
CommitRefresh(q) == /\ Is(q, "read", {"refresh"}) /\ ~SessionLocked(request[q].session)
                    /\ session' = End(request[q].session)
                    /\ request' = [request EXCEPT ![q].at = "issue"]
                    /\ UNCHANGED <<user, token, proven>>

\* _issue.
Issue(q, s) ==
    /\ Is(q, "issue", Issuers) /\ session[s].state = "none" /\ Room
    /\ session' = [session EXCEPT ![s] =
         [NoSession EXCEPT !.state = "live", !.user = request[q].user,
                           !.from = request[q].session, !.late = request[q].late]]
    /\ Done(q) /\ UNCHANGED <<user, token, proven>>

\* An error return, a refused write or a crash: the transaction is undone.
Fail(q) == request[q] # Idle /\ Done(q) /\ UNCHANGED rows

\* expires_at passes.
ExpireSession(s) == /\ session[s].state = "live"
                    /\ session' = [session EXCEPT ![s].state = "expired"]
                    /\ UNCHANGED <<user, token, request, proven>>
ExpireToken(t) == /\ token[t].state = "open"
                  /\ token' = [token EXCEPT ![t].state = "expired"]
                  /\ UNCHANGED <<user, session, request, proven>>

Next == \/ \E q \in Request, u \in User :
              \/ BeginLogin(q, u)
              \/ \E k \in Kinds : BeginSigned(q, k, u)
              \/ \E e \in Email : BeginRegister(q, u, e) \/ BeginChangeEmail(q, u, e)
        \/ \E q \in Request, s \in Session :
              (\E k \in Kinds : BeginSession(q, k, s)) \/ Issue(q, s)
        \/ \E q \in Request, t \in Token :
              (\E k \in Consumers : BeginConsume(q, k, t)) \/ CommitToken(q, t)
        \/ \E q \in Request : \/ Revoke(q) \/ Supersede(q) \/ CommitRevoke(q)
                              \/ CommitVerify(q) \/ CommitRegister(q) \/ CommitProfile(q)
                              \/ CommitLogout(q) \/ CommitRefresh(q) \/ Fail(q)
        \/ \E s \in Session : ExpireSession(s)
        \/ \E t \in Token : ExpireToken(t)

Spec == Init /\ [][Next]_vars

-----------------------------------------------------------------------------
(* What the code promises.                                                 *)

(* Revoking all sessions of a user (logout-all, a new password, a new      *)
(* email, deletion) leaves none alive that was there before, whatever      *)
(* refreshes and logins went on; only one that overlapped it may live.     *)
RevocationHolds ==
    \A s \in Session : session[s].old /\ ~session[s].late => session[s].state # "live"

(* A refresh replaces a session: the old one is revoked and stays so, and  *)
(* two sessions that replaced the same one each came from a refresh that   *)
(* overlapped another; whoever shows the old token later gets none.        *)
RefreshReplaces ==
    /\ \A s \in Session : session[s].from # Nobody =>
         session[session[s].from].state = "revoked"
    /\ \A s, r \in Session :
         s # r /\ session[s].from # Nobody /\ session[s].from = session[r].from
         => session[s].late /\ session[r].late

(* A one-time token ends once: it is consumed by one request or replaced,  *)
(* never both and never twice (account.py _consume_token, _issue_token).   *)
TokenEndsOnce == \A t \in Token : token[t].ends <= 1

(* A user has one open token for a purpose, the newest, unless two requests*)
(* for it overlapped.                                                      *)
OneOpenToken ==
    \A t, r \in Token :
        /\ t # r /\ token[t].state = "open" /\ token[r].state = "open"
        /\ token[t].user = token[r].user /\ token[t].purpose = token[r].purpose
        => token[t].late \/ token[r].late

(* The email of an account that counts as verified is one whose link its   *)
(* owner followed, however requests to change it overlap.                  *)
VerifiedAddress ==
    \A u \in User : user[u].state = "active" /\ user[u].verified => user[u].email \in proven[u]

(* A deleted account keeps no email and no name.  A confirmation of a new  *)
(* email that overlaps the deletion cannot bring one back, since it holds  *)
(* a token the deletion deletes; a change of the profile, or a token that  *)
(* is mailed while the account is deleted, could.                          *)
DeletedIsAnonymous ==
    \A u \in User : user[u].state = "deleted" /\ ~user[u].late =>
        user[u].email = Nobody /\ user[u].name = "deleted"

(* Sessions are consistent: RevocationHolds, and the type of the state.    *)
SessionsConsistent == TypeOK /\ RevocationHolds

(* One-time tokens are consistent: TokenEndsOnce and OneOpenToken.         *)
TokensConsistent == TokenEndsOnce /\ OneOpenToken

(* Addresses and names are consistent: VerifiedAddress and                 *)
(* DeletedIsAnonymous.                                                     *)
AccountsConsistent == VerifiedAddress /\ DeletedIsAnonymous
=============================================================================
