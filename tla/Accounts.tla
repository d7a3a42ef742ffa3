------------------------------ MODULE Accounts -------------------------------
(***************************************************************************)
(* Accounts of the server: bootstrap, login with its throttle, sessions,   *)
(* personal API tokens and password changes (src/auth.rs and the handlers  *)
(* that call it).  A handler runs one SQL statement after another; what it *)
(* has read may have changed when it writes.  Each transaction here starts *)
(* with a write, so that SQLite runs it alone.                             *)
(*                                                                         *)
(* Addresses, cookies and tokens stand for their hashes.  A request whose  *)
(* form carries the wrong CSRF token changes nothing and is left out.      *)
(***************************************************************************)
EXTENDS Integers, FiniteSets

CONSTANTS
  User,        \* addresses of accounts
  Password,
  NoPassword,  \* the address has no account
  Cookie,      \* session tokens, each drawn at most once
  Token,       \* personal API tokens, each drawn at most once
  Request,     \* requests served at a time
  Limit,       \* LOGIN_FAILURE_LIMIT
  LockTime,    \* LOGIN_LOCK_SECONDS
  SessionTime, \* session_days
  MaxTime      \* bound: the clock

ASSUME AccountsAssumption ==
  /\ NoPassword \notin Password /\ IsFiniteSet(Request)
  /\ Limit \in Nat \ {0, 1} /\ LockTime \in Nat \ {0} /\ SessionTime \in Nat \ {0}
  /\ MaxTime \in Nat

VARIABLES
  now,
  password,  \* users.password_hash
  throttle,  \* login_throttle: until 0 is a NULL locked_until, failures 0 no row
  session,   \* sessions, with (history) the password that opened each one, and whether
             \* that password was changed between its verification and the INSERT
  apiToken,  \* api_tokens
  request,   \* how far each request is
  wrong      \* history: failed logins recorded since the throttle was last lifted

vars == <<now, password, throttle, session, apiToken, request, wrong>>

NoRow == [failures |-> 0, until |-> 0]
Unused == [st |-> "unused"]
Gone == [st |-> "gone"]
Idle == [at |-> "idle"]
Login == [at : {"login"}, user : User, pw : Password]
Failed == [at : {"failed"}, user : User]
SignIn == [at : {"verified", "signin"}, user : User, pw : Password, late : BOOLEAN]
Signed == [at : {"session"}, by : Cookie, user : User]
Rotating == [at : {"rotate"}, by : Cookie, user : User, pw : Password]
Handling == {Idle} \cup Login \cup Failed \cup SignIn \cup Signed \cup Rotating
SessionRow == {Unused, Gone} \cup
  [st : {"open"}, user : User, until : Nat, pw : Password, late : BOOLEAN]
TokenRow == {Unused} \cup [st : {"live", "revoked"}, user : User]

TypeOK ==
  /\ now \in 0 .. MaxTime
  /\ password \in [User -> Password \cup {NoPassword}]
  /\ throttle \in [User -> [failures : 0 .. Limit, until : 0 .. MaxTime + LockTime]]
  /\ session \in [Cookie -> SessionRow]
  /\ apiToken \in [Token -> TokenRow]
  /\ request \in [Request -> Handling]
  /\ wrong \in [User -> Nat]

Init ==
  /\ now = 0
  /\ password = [u \in User |-> NoPassword]
  /\ throttle = [u \in User |-> NoRow]
  /\ session = [c \in Cookie |-> Unused]
  /\ apiToken = [k \in Token |-> Unused]
  /\ request = [r \in Request |-> Idle]
  /\ wrong = [u \in User |-> 0]

Locked(u) == throttle[u].until > now
Open(c) == session[c].st = "open"
Goto(r, step) == request' = [request EXCEPT ![r] = step]
Done(r) == Goto(r, Idle)
-----------------------------------------------------------------------------
\* bootstrap: the write to bootstrap_lock makes the count current.
Bootstrap(r, u, p) ==
  /\ request[r] = Idle
  /\ \A v \in User : password[v] = NoPassword
  /\ password' = [password EXCEPT ![u] = p]
  /\ Goto(r, [at |-> "signin", user |-> u, pw |-> p, late |-> FALSE])
  /\ UNCHANGED <<now, throttle, session, apiToken, wrong>>

\* Mutated form: a locked address may go on.
BeginLoginLocked(r, u, p) ==
  /\ request[r] = Idle
  /\ Goto(r, [at |-> "login", user |-> u, pw |-> p])
  /\ UNCHANGED <<now, password, throttle, session, apiToken, wrong>>

\* login: a locked address is refused before the password is looked at.
BeginLogin(r, u, p) ==
  /\ request[r] = Idle /\ ~Locked(u)
  /\ Goto(r, [at |-> "login", user |-> u, pw |-> p])
  /\ UNCHANGED <<now, password, throttle, session, apiToken, wrong>>

RefuseLocked(r, u) ==
  request[r] = Idle /\ Locked(u) /\ UNCHANGED vars

CheckPassword(r) ==
  /\ request[r].at = "login"
  /\ LET u == request[r].user
     IN Goto(r, IF password[u] = request[r].pw
                  THEN [at |-> "verified", user |-> u, pw |-> request[r].pw, late |-> FALSE]
                  ELSE [at |-> "failed", user |-> u])
  /\ UNCHANGED <<now, password, throttle, session, apiToken, wrong>>

\* Mutated form: every failure renews the lock.
AfterFailureRenews(row) ==
  IF row.until > now THEN [row EXCEPT !.until = now + LockTime]
  ELSE IF row.until > 0 THEN [failures |-> 1, until |-> 0]
  ELSE [failures |-> row.failures + 1,
        until |-> IF row.failures + 1 >= Limit THEN now + LockTime ELSE 0]

\* Mutated form: the count goes on after a lock.
AfterFailureCounts(row) ==
  IF row.until > now THEN row
  ELSE [failures |-> row.failures + 1,
        until |-> IF row.failures + 1 >= Limit THEN now + LockTime ELSE 0]

\* login_failure: one upsert.
AfterFailure(row) ==
  IF row.until > now THEN row
  ELSE IF row.until > 0 THEN [failures |-> 1, until |-> 0]
  ELSE [failures |-> row.failures + 1,
        until |-> IF row.failures + 1 >= Limit THEN now + LockTime ELSE 0]

RecordFailure(r) ==
  /\ request[r].at = "failed"
  /\ throttle' = [throttle EXCEPT ![request[r].user] = AfterFailure(@)]
  /\ wrong' = [wrong EXCEPT ![request[r].user] = @ + 1]
  /\ Done(r)
  /\ UNCHANGED <<now, password, session, apiToken>>

\* login_success
ClearThrottle(r) ==
  /\ request[r].at = "verified"
  /\ throttle' = [throttle EXCEPT ![request[r].user] = NoRow]
  /\ wrong' = [wrong EXCEPT ![request[r].user] = 0]
  /\ request' = [request EXCEPT ![r].at = "signin"]
  /\ UNCHANGED <<now, password, session, apiToken>>

CreateSession(r, c) ==
  /\ request[r].at = "signin" /\ session[c] = Unused
  /\ session' = [session EXCEPT ![c] =
       [st |-> "open", user |-> request[r].user, until |-> now + SessionTime,
        pw |-> request[r].pw, late |-> request[r].late]]
  /\ Done(r)
  /\ UNCHANGED <<now, password, throttle, apiToken, wrong>>
-----------------------------------------------------------------------------
\* UiSession: the session is looked up once, before the body is read.
Authenticate(r, c) ==
  /\ request[r] = Idle
  /\ Open(c) /\ session[c].until > now
  /\ Goto(r, [at |-> "session", by |-> c, user |-> session[c].user])
  /\ UNCHANGED <<now, password, throttle, session, apiToken, wrong>>

OpenOf(u) == {c \in Cookie : Open(c) /\ session[c].user = u}

Close(cookies) == session' = [c \in Cookie |-> IF c \in cookies THEN Gone ELSE session[c]]

Logout(r) ==
  /\ request[r].at = "session"
  /\ Close({request[r].by} \cap {c \in Cookie : Open(c)})
  /\ Done(r)
  /\ UNCHANGED <<now, password, throttle, apiToken, wrong>>

RevokeOtherSessions(r) ==
  /\ request[r].at = "session"
  /\ Close(OpenOf(request[r].user) \ {request[r].by})
  /\ Done(r)
  /\ UNCHANGED <<now, password, throttle, apiToken, wrong>>

\* A session of someone else is not found; the handler answers alike.
RevokeSession(r, c) ==
  /\ request[r].at = "session"
  /\ Close({c} \cap OpenOf(request[r].user))
  /\ Done(r)
  /\ UNCHANGED <<now, password, throttle, apiToken, wrong>>

CreateApiToken(r, k) ==
  /\ request[r].at = "session" /\ apiToken[k] = Unused
  /\ apiToken' = [apiToken EXCEPT ![k] = [st |-> "live", user |-> request[r].user]]
  /\ Done(r)
  /\ UNCHANGED <<now, password, throttle, session, wrong>>

RevokeApiToken(r, k) ==
  /\ request[r].at = "session"
  /\ apiToken' = IF apiToken[k] = [st |-> "live", user |-> request[r].user]
                   THEN [apiToken EXCEPT ![k].st = "revoked"] ELSE apiToken
  /\ Done(r)
  /\ UNCHANGED <<now, password, throttle, session, wrong>>

\* create_member, for an address without an account.
CreateAccount(r, u, p) ==
  /\ request[r].at = "session" /\ password[u] = NoPassword
  /\ password' = [password EXCEPT ![u] = p]
  /\ Done(r)
  /\ UNCHANGED <<now, throttle, session, apiToken, wrong>>

\* change_password: the current password is verified before the transaction.
VerifyCurrent(r, current, new) ==
  /\ request[r].at = "session" /\ password[request[r].user] = current
  /\ Goto(r, [at |-> "rotate", by |-> request[r].by, user |-> request[r].user, pw |-> new])
  /\ UNCHANGED <<now, password, throttle, session, apiToken, wrong>>

\* The logins of this user that have verified the password already.
Overtaken(r, u) == {q \in Request \ {r} : request[q].at \in {"verified", "signin"} /\ request[q].user = u}

\* Mutated form: the other sessions stay.
RotateOnly(r) ==
  /\ request[r].at = "rotate"
  /\ LET u == request[r].user  by == request[r].by  new == request[r].pw
     IN /\ password' = [password EXCEPT ![u] = new]
        /\ session' = [session EXCEPT ![by] = IF @.st = "open" THEN [@ EXCEPT !.pw = new] ELSE @]
        /\ request' = [q \in Request |->
             IF q = r THEN Idle
             ELSE IF q \in Overtaken(r, u) THEN [request[q] EXCEPT !.late = TRUE] ELSE request[q]]
  /\ UNCHANGED <<now, throttle, apiToken, wrong>>

\* The session that made the change stays; it counts as opened with the new password.
Rotate(r) ==
  /\ request[r].at = "rotate"
  /\ LET u == request[r].user  by == request[r].by  new == request[r].pw
     IN /\ password' = [password EXCEPT ![u] = new]
        /\ session' = [c \in Cookie |->
             IF c \notin OpenOf(u) THEN session[c]
             ELSE IF c = by THEN [session[c] EXCEPT !.pw = new] ELSE Gone]
        /\ request' = [q \in Request |->
             IF q = r THEN Idle
             ELSE IF q \in Overtaken(r, u) THEN [request[q] EXCEPT !.late = TRUE] ELSE request[q]]
  /\ UNCHANGED <<now, throttle, apiToken, wrong>>
-----------------------------------------------------------------------------
\* A handler ends early: a check refuses, a statement fails, or the client has gone.
Abort(r) ==
  /\ request[r] # Idle
  /\ Done(r)
  /\ UNCHANGED <<now, password, throttle, session, apiToken, wrong>>

\* A lock that runs out lifts the throttle.
Tick ==
  /\ now < MaxTime /\ now' = now + 1
  /\ wrong' = [u \in User |-> IF throttle[u].until = now' THEN 0 ELSE wrong[u]]
  /\ UNCHANGED <<password, throttle, session, apiToken, request>>

Next ==
  \/ Tick
  \/ \E r \in Request :
       \/ \E u \in User : RefuseLocked(r, u)
       \/ \E u \in User, p \in Password :
            Bootstrap(r, u, p) \/ BeginLogin(r, u, p) \/ CreateAccount(r, u, p)
       \/ CheckPassword(r) \/ RecordFailure(r) \/ ClearThrottle(r)
       \/ \E c \in Cookie : CreateSession(r, c) \/ Authenticate(r, c) \/ RevokeSession(r, c)
       \/ Logout(r) \/ RevokeOtherSessions(r)
       \/ \E k \in Token : CreateApiToken(r, k) \/ RevokeApiToken(r, k)
       \/ \E p, q \in Password : VerifyCurrent(r, p, q)
       \/ Rotate(r) \/ Abort(r)

Spec == Init /\ [][Next]_vars
-----------------------------------------------------------------------------
(* Properties. *)

\* "After LOGIN_FAILURE_LIMIT consecutive failures the identity is locked out": requests
\* that were past the check when the lock came may still fail, and no others.
FailuresAreBounded == \A u \in User : wrong[u] <= Limit + Cardinality(Request) - 1

\* A lock runs for LOGIN_LOCK_SECONDS: failures of requests that overtook it neither
\* extend nor shorten it; only a login that had verified the password lifts it.
LockRunsItsTime ==
  [][\A u \in User : Locked(u) =>
       \/ throttle'[u] = throttle[u]
       \/ throttle'[u] = NoRow /\ \E r \in Request : request[r].at = "verified" /\ request[r].user = u]_vars

\* Two sessions that change the password or revoke each other, in any order, leave no session
\* behind that an older password opened (change_password).  A login that had verified the
\* password before it was changed is another matter: see RotationEvicts.
SessionsFollowPassword ==
  \A c \in Cookie : Open(c) => session[c].late \/ session[c].pw = password[session[c].user]

\* "Keep the current session alive, but evict every other one so a stolen credential cannot
\* survive a rotation" (handlers.rs:1563-1564): no open session was opened with a password
\* that is not its user's any more.
RotationEvicts ==
  \A c \in Cookie : Open(c) => session[c].pw = password[session[c].user]

\* The inductive part: a login that has verified its password holds the current one,
\* unless it was overtaken; without a lock the count is below the limit.
Current ==
  /\ \A r \in Request : request[r].at \in {"verified", "signin"} =>
       request[r].late \/ request[r].pw = password[request[r].user]
  /\ \A u \in User : throttle[u].until = 0 => throttle[u].failures < Limit

\* A session or a token ends only by a request of its own user.
Asked(u) == \E r \in Request : request[r].at \in {"session", "rotate"} /\ request[r].user = u /\ request'[r] = Idle
CredentialsEndByTheirUser ==
  [][/\ \A c \in Cookie : Open(c) /\ session'[c] = Gone => Asked(session[c].user)
     /\ \A k \in Token : apiToken[k].st = "live" /\ apiToken'[k] # apiToken[k] => Asked(apiToken[k].user)]_vars
=============================================================================
