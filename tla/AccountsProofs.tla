---------------------------- MODULE AccountsProofs ----------------------------
(* Proofs about Accounts, for any number of accounts, sessions and requests, and *)
(* any limit and lock time.                                                      *)
EXTENDS Accounts, FiniteSetTheorems, TLAPS

USE AccountsAssumption

\* What the fields of a request are, by how far it is.
LEMMA HandlingFields ==
  ASSUME NEW x \in Handling
  PROVE  /\ x.at \in {"idle", "login", "failed", "verified", "signin", "session", "rotate"}
         /\ x.at = "idle" => x = Idle
         /\ x.at = "login" => x.user \in User /\ x.pw \in Password
         /\ x.at = "failed" => x.user \in User
         /\ x.at \in {"verified", "signin"} =>
              x \in SignIn /\ x.user \in User /\ x.pw \in Password
         /\ x.at = "session" => x.by \in Cookie /\ x.user \in User
         /\ x.at = "rotate" => x.by \in Cookie /\ x.user \in User /\ x.pw \in Password
  BY DEF Handling, Idle, Login, Failed, SignIn, Signed, Rotating

LEMMA RowFields ==
  ASSUME NEW x \in SessionRow
  PROVE  /\ x.st \in {"unused", "gone", "open"}
         /\ x.st = "open" =>
              /\ x \in [st : {"open"}, user : User, until : Nat, pw : Password, late : BOOLEAN]
              /\ x.user \in User /\ x.pw \in Password
  BY DEF SessionRow, Unused, Gone

LEMMA IdleType == Idle \in Handling /\ Idle.at = "idle"
  BY DEF Handling, Idle

LEMMA GoneType == Gone \in SessionRow /\ Gone.st = "gone" /\ Unused \in SessionRow /\ Unused.st = "unused"
  BY DEF SessionRow, Gone, Unused

\* The inductive invariant.
Inv == TypeOK /\ Current /\ SessionsFollowPassword

\* What one request, one throttle row and one session must fulfil.
HeldBy(x, pass) == x.at \in {"verified", "signin"} => x.late \/ x.pw = pass[x.user]
Follows(x, pass) == x.st = "open" => x.late \/ x.pw = pass[x.user]
Counts(row) == row.until = 0 => row.failures < Limit

LEMMA InvParts ==
  Inv <=> /\ TypeOK
          /\ \A r \in Request : HeldBy(request[r], password)
          /\ \A u \in User : Counts(throttle[u])
          /\ \A c \in Cookie : Follows(session[c], password)
  BY DEF Inv, Current, SessionsFollowPassword, HeldBy, Follows, Counts, Open

LEMMA InvPartsNext ==
  Inv' <=> /\ TypeOK'
           /\ \A r \in Request : HeldBy(request'[r], password')
           /\ \A u \in User : Counts(throttle'[u])
           /\ \A c \in Cookie : Follows(session'[c], password')
  BY DEF Inv, Current, SessionsFollowPassword, HeldBy, Follows, Counts, Open

\* An address without an account is in no one's hands.
LEMMA NewAccount ==
  ASSUME NEW pass \in [User -> Password \cup {NoPassword}], NEW u \in User, pass[u] = NoPassword,
         NEW new
  PROVE  /\ \A x \in Handling : HeldBy(x, pass) => HeldBy(x, [pass EXCEPT ![u] = new])
         /\ \A x \in SessionRow : Follows(x, pass) => Follows(x, [pass EXCEPT ![u] = new])
<1>1. ASSUME NEW x \in Handling, HeldBy(x, pass) PROVE HeldBy(x, [pass EXCEPT ![u] = new])
  BY <1>1, HandlingFields DEF HeldBy
<1>2. ASSUME NEW x \in SessionRow, Follows(x, pass) PROVE Follows(x, [pass EXCEPT ![u] = new])
  BY <1>2, RowFields DEF Follows
<1>3. QED
  BY <1>1, <1>2

-----------------------------------------------------------------------------
LEMMA Initially == Init => Inv
<1> SUFFICES ASSUME Init PROVE Inv
  OBVIOUS
<1>1. /\ now = 0 /\ password = [u \in User |-> NoPassword]
      /\ throttle = [u \in User |-> NoRow]
      /\ session = [c \in Cookie |-> Unused] /\ apiToken = [k \in Token |-> Unused]
      /\ request = [r \in Request |-> Idle] /\ wrong = [u \in User |-> 0]
  BY DEF Init
<1>2. NoRow \in [failures : 0 .. Limit, until : 0 .. MaxTime + LockTime] /\ Counts(NoRow)
  BY DEF NoRow, Counts
<1>3. TypeOK
  BY <1>1, <1>2, IdleType, GoneType DEF TypeOK, TokenRow
<1>4. \A r \in Request : HeldBy(request[r], password)
  BY <1>1, IdleType DEF HeldBy
<1>5. \A c \in Cookie : Follows(session[c], password)
  BY <1>1, GoneType DEF Follows
<1>6. QED
  BY <1>1, <1>2, <1>3, <1>4, <1>5, InvParts

\* A step of one request that changes no password, throttle or session.
LEMMA Moves ==
  ASSUME Inv, NEW r \in Request, NEW x \in Handling, HeldBy(x, password), Goto(r, x),
         UNCHANGED <<now, password, throttle, session, wrong>>, apiToken' \in [Token -> TokenRow]
  PROVE  Inv'
<1>1. /\ request \in [Request -> Handling] /\ request' = [request EXCEPT ![r] = x]
      /\ \A q \in Request : HeldBy(request[q], password)
      /\ \A u \in User : Counts(throttle[u])
      /\ \A c \in Cookie : Follows(session[c], password)
  BY InvParts DEF TypeOK, Goto
<1>2. TypeOK'
  BY <1>1 DEF Inv, TypeOK
<1>3. \A q \in Request : HeldBy(request'[q], password)
  BY <1>1
<1>4. QED
  BY <1>1, <1>2, <1>3, InvPartsNext

LEMMA IdleHeld == HeldBy(Idle, password)
  BY IdleType DEF HeldBy

LEMMA BootstrapStep ==
  ASSUME Inv, NEW r \in Request, NEW u \in User, NEW p \in Password, Bootstrap(r, u, p)
  PROVE  Inv'
<1> DEFINE new == [at |-> "signin", user |-> u, pw |-> p, late |-> FALSE]
<1>1. /\ password' = [password EXCEPT ![u] = p] /\ request' = [request EXCEPT ![r] = new]
      /\ UNCHANGED <<now, throttle, session, apiToken, wrong>>
      /\ password[u] = NoPassword
  BY DEF Bootstrap, Goto
<1>2. new \in Handling
  BY DEF Handling, SignIn
<1>3. /\ TypeOK
      /\ \A q \in Request : HeldBy(request[q], password)
      /\ \A v \in User : Counts(throttle[v])
      /\ \A c \in Cookie : Follows(session[c], password)
  BY InvParts
<1>4. TypeOK'
  BY <1>1, <1>2, <1>3 DEF TypeOK
<1>5. HeldBy(new, password')
  BY <1>1, <1>3 DEF HeldBy, TypeOK
<1>6. \A q \in Request : HeldBy(request'[q], password')
  BY <1>1, <1>3, <1>5, NewAccount DEF TypeOK
<1>7. \A c \in Cookie : Follows(session'[c], password')
  BY <1>1, <1>3, NewAccount DEF TypeOK
<1>8. QED
  BY <1>1, <1>3, <1>4, <1>6, <1>7, InvPartsNext

LEMMA CreateAccountStep ==
  ASSUME Inv, NEW r \in Request, NEW u \in User, NEW p \in Password, CreateAccount(r, u, p)
  PROVE  Inv'
<1>1. /\ password' = [password EXCEPT ![u] = p] /\ request' = [request EXCEPT ![r] = Idle]
      /\ UNCHANGED <<now, throttle, session, apiToken, wrong>>
      /\ password[u] = NoPassword
  BY DEF CreateAccount, Done, Goto
<1>2. /\ TypeOK
      /\ \A q \in Request : HeldBy(request[q], password)
      /\ \A v \in User : Counts(throttle[v])
      /\ \A c \in Cookie : Follows(session[c], password)
  BY InvParts
<1>3. TypeOK'
  BY <1>1, <1>2, IdleType DEF TypeOK
<1>4. HeldBy(Idle, password')
  BY IdleType DEF HeldBy
<1>5. \A q \in Request : HeldBy(request'[q], password')
  BY <1>1, <1>2, <1>4, NewAccount DEF TypeOK
<1>6. \A c \in Cookie : Follows(session'[c], password')
  BY <1>1, <1>2, NewAccount DEF TypeOK
<1>7. QED
  BY <1>1, <1>2, <1>3, <1>5, <1>6, InvPartsNext

LEMMA BeginLoginStep ==
  ASSUME Inv, NEW r \in Request, NEW u \in User, NEW p \in Password, BeginLogin(r, u, p)
  PROVE  Inv'
<1> DEFINE new == [at |-> "login", user |-> u, pw |-> p]
<1>1. new \in Handling /\ HeldBy(new, password)
  BY DEF Handling, Login, HeldBy
<1>2. QED
  BY <1>1, Moves DEF BeginLogin, Inv, TypeOK

LEMMA CheckPasswordStep ==
  ASSUME Inv, NEW r \in Request, CheckPassword(r)
  PROVE  Inv'
<1> DEFINE u == request[r].user
           p == request[r].pw
           good == [at |-> "verified", user |-> u, pw |-> p, late |-> FALSE]
           bad == [at |-> "failed", user |-> u]
<1>1. u \in User /\ p \in Password
  BY HandlingFields DEF Inv, TypeOK, CheckPassword
<1>2. good \in Handling /\ bad \in Handling /\ HeldBy(bad, password)
  BY <1>1 DEF Handling, SignIn, Failed, HeldBy
<1>3. apiToken' \in [Token -> TokenRow] /\ UNCHANGED <<now, password, throttle, session, wrong>>
  BY DEF CheckPassword, Inv, TypeOK
<1>4. CASE password[u] = p
  <2>1. Goto(r, good)
    BY <1>4 DEF CheckPassword
  <2>2. HeldBy(good, password)
    BY <1>4 DEF HeldBy
  <2>3. QED
    BY <1>2, <1>3, <2>1, <2>2, Moves
<1>5. CASE password[u] # p
  <2>1. Goto(r, bad)
    BY <1>5 DEF CheckPassword
  <2>2. QED
    BY <1>2, <1>3, <2>1, Moves
<1>6. QED
  BY <1>4, <1>5

\* login_failure keeps the count below the limit, or sets the lock.
LEMMA AfterFailureType ==
  ASSUME NEW row \in [failures : 0 .. Limit, until : 0 .. MaxTime + LockTime], Counts(row),
         now \in 0 .. MaxTime
  PROVE  /\ AfterFailure(row) \in [failures : 0 .. Limit, until : 0 .. MaxTime + LockTime]
         /\ Counts(AfterFailure(row))
<1>1. CASE row.until > now
  BY <1>1 DEF AfterFailure, Counts
<1>2. CASE row.until <= now /\ row.until > 0
  BY <1>2 DEF AfterFailure, Counts
<1>3. CASE row.until = 0
  BY <1>3 DEF AfterFailure, Counts
<1>4. QED
  BY <1>1, <1>2, <1>3

LEMMA RecordFailureStep ==
  ASSUME Inv, NEW r \in Request, RecordFailure(r)
  PROVE  Inv'
<1>1. PICK u \in User : u = request[r].user
  BY HandlingFields DEF Inv, TypeOK, RecordFailure
<1>2. /\ TypeOK
      /\ \A q \in Request : HeldBy(request[q], password)
      /\ \A v \in User : Counts(throttle[v])
      /\ \A c \in Cookie : Follows(session[c], password)
  BY InvParts
<1>3. /\ throttle' = [throttle EXCEPT ![u] = AfterFailure(throttle[u])]
      /\ wrong' = [wrong EXCEPT ![u] = wrong[u] + 1]
      /\ request' = [request EXCEPT ![r] = Idle]
      /\ UNCHANGED <<now, password, session, apiToken>>
  BY <1>1, <1>2 DEF RecordFailure, Done, Goto, TypeOK
<1>4. AfterFailure(throttle[u]) \in [failures : 0 .. Limit, until : 0 .. MaxTime + LockTime]
        /\ Counts(AfterFailure(throttle[u]))
  BY <1>2, AfterFailureType DEF TypeOK
<1>5. TypeOK'
  BY <1>2, <1>3, <1>4, IdleType DEF TypeOK
<1>6. \A q \in Request : HeldBy(request'[q], password')
  BY <1>2, <1>3, IdleHeld DEF TypeOK
<1>7. \A v \in User : Counts(throttle'[v])
  BY <1>2, <1>3, <1>4 DEF TypeOK
<1>8. QED
  BY <1>2, <1>3, <1>5, <1>6, <1>7, InvPartsNext

LEMMA ClearThrottleStep ==
  ASSUME Inv, NEW r \in Request, ClearThrottle(r)
  PROVE  Inv'
<1>1. PICK u \in User : u = request[r].user
  BY HandlingFields DEF Inv, TypeOK, ClearThrottle
<1>2. /\ TypeOK
      /\ \A q \in Request : HeldBy(request[q], password)
      /\ \A v \in User : Counts(throttle[v])
      /\ \A c \in Cookie : Follows(session[c], password)
  BY InvParts
<1>3. PICK x : x = [request[r] EXCEPT !.at = "signin"]
  OBVIOUS
<1>4. /\ throttle' = [throttle EXCEPT ![u] = NoRow]
      /\ wrong' = [wrong EXCEPT ![u] = 0]
      /\ request' = [request EXCEPT ![r] = x]
      /\ UNCHANGED <<now, password, session, apiToken>>
  BY <1>1, <1>3 DEF ClearThrottle
<1>5. request[r] \in SignIn
  BY <1>2, HandlingFields DEF ClearThrottle, TypeOK
<1>6. x \in SignIn /\ x.at = "signin" /\ x.late = request[r].late /\ x.pw = request[r].pw
        /\ x.user = request[r].user
  BY <1>3, <1>5 DEF SignIn
<1>7. x \in Handling /\ HeldBy(x, password)
  BY <1>2, <1>6 DEF Handling, HeldBy, ClearThrottle
<1>8. NoRow \in [failures : 0 .. Limit, until : 0 .. MaxTime + LockTime] /\ Counts(NoRow)
  BY DEF NoRow, Counts
<1>9. TypeOK'
  BY <1>2, <1>4, <1>7, <1>8 DEF TypeOK
<1>10. \A q \in Request : HeldBy(request'[q], password')
  BY <1>2, <1>4, <1>7 DEF TypeOK
<1>11. \A v \in User : Counts(throttle'[v])
  BY <1>2, <1>4, <1>8 DEF TypeOK
<1>12. QED
  BY <1>2, <1>4, <1>9, <1>10, <1>11, InvPartsNext

LEMMA CreateSessionStep ==
  ASSUME Inv, NEW r \in Request, NEW c \in Cookie, CreateSession(r, c)
  PROVE  Inv'
<1> DEFINE row == [st |-> "open", user |-> request[r].user, until |-> now + SessionTime,
                   pw |-> request[r].pw, late |-> request[r].late]
<1>1. /\ TypeOK
      /\ \A q \in Request : HeldBy(request[q], password)
      /\ \A v \in User : Counts(throttle[v])
      /\ \A d \in Cookie : Follows(session[d], password)
  BY InvParts
<1>2. request[r] \in SignIn
  BY <1>1, HandlingFields DEF CreateSession, TypeOK
<1>3. row \in SessionRow
  BY <1>1, <1>2 DEF SignIn, SessionRow, TypeOK
<1>4. PICK x : x = row
  OBVIOUS
<1>5. Follows(x, password)
  BY <1>1, <1>4 DEF Follows, HeldBy, CreateSession
<1>6. /\ session' = [session EXCEPT ![c] = x]
      /\ request' = [request EXCEPT ![r] = Idle]
      /\ UNCHANGED <<now, password, throttle, apiToken, wrong>>
  BY <1>4 DEF CreateSession, Done, Goto
<1>7. TypeOK'
  BY <1>1, <1>3, <1>4, <1>6, IdleType DEF TypeOK
<1>8. \A q \in Request : HeldBy(request'[q], password')
  BY <1>1, <1>6, IdleHeld DEF TypeOK
<1>9. \A d \in Cookie : Follows(session'[d], password')
  BY <1>1, <1>5, <1>6 DEF TypeOK
<1>10. QED
  BY <1>1, <1>6, <1>7, <1>8, <1>9, InvPartsNext

LEMMA AuthenticateStep ==
  ASSUME Inv, NEW r \in Request, NEW c \in Cookie, Authenticate(r, c)
  PROVE  Inv'
<1> DEFINE x == [at |-> "session", by |-> c, user |-> session[c].user]
<1>1. session[c].user \in User
  BY RowFields DEF Authenticate, Open, Inv, TypeOK
<1>2. x \in Handling /\ HeldBy(x, password)
  BY <1>1 DEF Handling, Signed, HeldBy
<1>3. QED
  BY <1>2, Moves DEF Authenticate, Inv, TypeOK

\* Sessions that end leave the others as they are.
LEMMA CloseStep ==
  ASSUME Inv, NEW r \in Request, NEW cookies, Close(cookies), Done(r),
         UNCHANGED <<now, password, throttle, apiToken, wrong>>
  PROVE  Inv'
<1>1. /\ TypeOK
      /\ \A q \in Request : HeldBy(request[q], password)
      /\ \A v \in User : Counts(throttle[v])
      /\ \A c \in Cookie : Follows(session[c], password)
  BY InvParts
<1>2. /\ session' = [c \in Cookie |-> IF c \in cookies THEN Gone ELSE session[c]]
      /\ request' = [request EXCEPT ![r] = Idle]
  BY DEF Close, Done, Goto
<1>3. TypeOK'
  BY <1>1, <1>2, IdleType, GoneType DEF TypeOK
<1>4. \A q \in Request : HeldBy(request'[q], password')
  BY <1>1, <1>2, IdleHeld DEF TypeOK
<1>5. \A c \in Cookie : Follows(session'[c], password')
  BY <1>1, <1>2, GoneType DEF Follows
<1>6. QED
  BY <1>1, <1>3, <1>4, <1>5, InvPartsNext

LEMMA TokenStep ==
  ASSUME Inv, NEW r \in Request, NEW k \in Token, CreateApiToken(r, k) \/ RevokeApiToken(r, k)
  PROVE  Inv'
<1>1. request[r].user \in User /\ apiToken \in [Token -> TokenRow]
  BY HandlingFields DEF Inv, TypeOK, CreateApiToken, RevokeApiToken
<1>2. apiToken' \in [Token -> TokenRow]
  <2>1. CASE CreateApiToken(r, k)
    BY <1>1, <2>1 DEF CreateApiToken, TokenRow
  <2>2. CASE RevokeApiToken(r, k)
    <3>1. [apiToken[k] EXCEPT !.st = "revoked"] \in TokenRow
             \/ apiToken[k] # [st |-> "live", user |-> request[r].user]
      BY <1>1 DEF TokenRow
    <3>2. QED
      BY <1>1, <2>2, <3>1 DEF RevokeApiToken
  <2>3. QED
    BY <2>1, <2>2
<1>3. Goto(r, Idle) /\ UNCHANGED <<now, password, throttle, session, wrong>>
  BY DEF CreateApiToken, RevokeApiToken, Done
<1>4. QED
  BY <1>2, <1>3, IdleType, IdleHeld, Moves

LEMMA VerifyCurrentStep ==
  ASSUME Inv, NEW r \in Request, NEW p \in Password, NEW q \in Password, VerifyCurrent(r, p, q)
  PROVE  Inv'
<1> DEFINE x == [at |-> "rotate", by |-> request[r].by, user |-> request[r].user, pw |-> q]
<1>1. request[r].by \in Cookie /\ request[r].user \in User
  BY HandlingFields DEF Inv, TypeOK, VerifyCurrent
<1>2. x \in Handling /\ HeldBy(x, password)
  BY <1>1 DEF Handling, Rotating, HeldBy
<1>3. QED
  BY <1>2, Moves DEF VerifyCurrent, Inv, TypeOK

LEMMA AbortStep ==
  ASSUME Inv, NEW r \in Request, Abort(r)
  PROVE  Inv'
  BY IdleType, IdleHeld, Moves DEF Abort, Done, Inv, TypeOK

LEMMA TickStep ==
  ASSUME Inv, Tick
  PROVE  Inv'
<1>1. /\ TypeOK
      /\ \A q \in Request : HeldBy(request[q], password)
      /\ \A v \in User : Counts(throttle[v])
      /\ \A c \in Cookie : Follows(session[c], password)
  BY InvParts
<1>2. UNCHANGED <<password, throttle, session, apiToken, request>> /\ now' \in 0 .. MaxTime
        /\ wrong' \in [User -> Nat]
  BY <1>1 DEF Tick, TypeOK
<1>3. TypeOK'
  BY <1>1, <1>2 DEF TypeOK
<1>4. QED
  BY <1>1, <1>2, <1>3, InvPartsNext

\* The sessions of the user end but one, which holds the new password; the logins that
\* were overtaken are marked, and others hold another user's password.
LEMMA RotateStep ==
  ASSUME Inv, NEW r \in Request, Rotate(r)
  PROVE  Inv'
<1>1. /\ TypeOK
      /\ \A q \in Request : HeldBy(request[q], password)
      /\ \A v \in User : Counts(throttle[v])
      /\ \A c \in Cookie : Follows(session[c], password)
  BY InvParts
<1>2. PICK u \in User, by \in Cookie, new \in Password :
        u = request[r].user /\ by = request[r].by /\ new = request[r].pw
  BY <1>1, HandlingFields DEF TypeOK, Rotate
<1>3. /\ password' = [password EXCEPT ![u] = new]
      /\ session' = [c \in Cookie |->
           IF c \notin OpenOf(u) THEN session[c]
           ELSE IF c = by THEN [session[c] EXCEPT !.pw = new] ELSE Gone]
      /\ request' = [q \in Request |->
           IF q = r THEN Idle
           ELSE IF q \in Overtaken(r, u) THEN [request[q] EXCEPT !.late = TRUE] ELSE request[q]]
      /\ UNCHANGED <<now, throttle, apiToken, wrong>>
  BY <1>2 DEF Rotate
<1>4. \A c \in Cookie : session'[c] \in SessionRow /\ Follows(session'[c], password')
  <2> SUFFICES ASSUME NEW c \in Cookie
               PROVE  session'[c] \in SessionRow /\ Follows(session'[c], password')
    OBVIOUS
  <2>1. CASE c \notin OpenOf(u)
    <3>1. session'[c] = session[c] /\ session[c] \in SessionRow /\ Follows(session[c], password)
      BY <1>1, <1>3, <2>1 DEF TypeOK
    <3>2. session[c].st = "open" => session[c].user # u
      BY <2>1 DEF OpenOf, Open
    <3>3. session[c].st = "open" => password'[session[c].user] = password[session[c].user]
      BY <1>1, <1>3, <3>1, <3>2, RowFields DEF TypeOK
    <3>4. QED
      BY <3>1, <3>3 DEF Follows
  <2>2. CASE c \in OpenOf(u) /\ c = by
    <3>1. session[c] \in [st : {"open"}, user : User, until : Nat, pw : Password, late : BOOLEAN]
            /\ session[c].user = u
      BY <1>1, <2>2, RowFields DEF OpenOf, Open, TypeOK
    <3>2. PICK x : x = [session[c] EXCEPT !.pw = new]
      OBVIOUS
    <3>3. /\ x \in [st : {"open"}, user : User, until : Nat, pw : Password, late : BOOLEAN]
          /\ x.pw = new /\ x.user = u
      BY <3>1, <3>2
    <3>4. session'[c] = x
      BY <1>3, <2>2, <3>2
    <3>5. password'[u] = new
      BY <1>1, <1>3 DEF TypeOK
    <3>6. QED
      BY <3>3, <3>4, <3>5 DEF SessionRow, Follows
  <2>3. CASE c \in OpenOf(u) /\ c # by
    BY <1>3, <2>3, GoneType DEF Follows
  <2>4. QED
    BY <2>1, <2>2, <2>3
<1>5. \A q \in Request : request'[q] \in Handling /\ HeldBy(request'[q], password')
  <2> SUFFICES ASSUME NEW q \in Request
               PROVE  request'[q] \in Handling /\ HeldBy(request'[q], password')
    OBVIOUS
  <2>1. CASE q = r
    BY <1>3, <2>1, IdleType DEF HeldBy
  <2>2. CASE q # r /\ q \in Overtaken(r, u)
    <3>1. request[q] \in SignIn
      BY <1>1, <2>2, HandlingFields DEF Overtaken, TypeOK
    <3>2. PICK x : x = [request[q] EXCEPT !.late = TRUE]
      OBVIOUS
    <3>3. x \in SignIn /\ x.late = TRUE
      BY <3>1, <3>2 DEF SignIn
    <3>4. request'[q] = x
      BY <1>3, <2>2, <3>2
    <3>5. QED
      BY <3>3, <3>4 DEF Handling, HeldBy
  <2>3. CASE q # r /\ q \notin Overtaken(r, u)
    <3>1. request'[q] = request[q] /\ request[q] \in Handling /\ HeldBy(request[q], password)
      BY <1>1, <1>3, <2>3 DEF TypeOK
    <3>2. request[q].at \in {"verified", "signin"} => request[q].user # u
      BY <2>3 DEF Overtaken
    <3>3. request[q].at \in {"verified", "signin"} =>
            password'[request[q].user] = password[request[q].user]
      BY <1>1, <1>3, <3>1, <3>2, HandlingFields DEF TypeOK
    <3>4. QED
      BY <3>1, <3>3 DEF HeldBy
  <2>4. QED
    BY <2>1, <2>2, <2>3
<1>6. session' \in [Cookie -> SessionRow]
  BY <1>3, <1>4
<1>7. request' \in [Request -> Handling]
  BY <1>3, <1>5
<1>8. TypeOK'
  BY <1>1, <1>3, <1>6, <1>7 DEF TypeOK
<1>9. QED
  BY <1>1, <1>3, <1>4, <1>5, <1>8, InvPartsNext

-----------------------------------------------------------------------------
LEMMA StepCases ==
  [Next]_vars =>
    \/ Tick \/ UNCHANGED vars
    \/ \E r \in Request, u \in User, p \in Password :
         Bootstrap(r, u, p) \/ BeginLogin(r, u, p) \/ CreateAccount(r, u, p)
    \/ \E r \in Request : CheckPassword(r) \/ RecordFailure(r) \/ ClearThrottle(r)
    \/ \E r \in Request, c \in Cookie : CreateSession(r, c) \/ Authenticate(r, c)
    \/ \E r \in Request, cookies \in SUBSET Cookie :
         Close(cookies) /\ Done(r) /\ UNCHANGED <<now, password, throttle, apiToken, wrong>>
    \/ \E r \in Request, k \in Token : CreateApiToken(r, k) \/ RevokeApiToken(r, k)
    \/ \E r \in Request, p, q \in Password : VerifyCurrent(r, p, q)
    \/ \E r \in Request : Rotate(r) \/ Abort(r)
<1>1. ASSUME NEW r \in Request, Logout(r) \/ RevokeOtherSessions(r)
      PROVE  \E cookies \in SUBSET Cookie :
               Close(cookies) /\ Done(r) /\ UNCHANGED <<now, password, throttle, apiToken, wrong>>
  BY <1>1 DEF Logout, RevokeOtherSessions, OpenOf
<1>2. ASSUME NEW r \in Request, NEW c \in Cookie, RevokeSession(r, c)
      PROVE  \E cookies \in SUBSET Cookie :
               Close(cookies) /\ Done(r) /\ UNCHANGED <<now, password, throttle, apiToken, wrong>>
  BY <1>2 DEF RevokeSession, OpenOf
<1>3. QED
  BY <1>1, <1>2 DEF Next, RefuseLocked

LEMMA Inductive == Inv /\ [Next]_vars => Inv'
<1> SUFFICES ASSUME Inv, [Next]_vars PROVE Inv'
  OBVIOUS
<1>1. CASE UNCHANGED vars
  BY <1>1 DEF vars, Inv, TypeOK, Current, SessionsFollowPassword, Open
<1>2. QED
  BY <1>1, StepCases, TickStep, BootstrapStep, BeginLoginStep, CreateAccountStep, CheckPasswordStep,
     RecordFailureStep, ClearThrottleStep, CreateSessionStep, AuthenticateStep, CloseStep, TokenStep,
     VerifyCurrentStep, RotateStep, AbortStep

LEMMA Invariance == Spec => []Inv
  BY Initially, Inductive, PTL DEF Spec

\* The tables and requests keep their shape; above all the count of login_failure never
\* passes LOGIN_FAILURE_LIMIT.
THEOREM AccountsTypeOK == Spec => []TypeOK
<1>1. Inv => TypeOK
  BY DEF Inv
<1>2. QED
  BY <1>1, Invariance, PTL

\* change_password and create_session: no open session outlives a change of the password
\* it was opened with, except of a login the change overtook.
THEOREM AccountsSessions == Spec => []SessionsFollowPassword
<1>1. Inv => SessionsFollowPassword
  BY DEF Inv
<1>2. QED
  BY <1>1, Invariance, PTL

-----------------------------------------------------------------------------
\* A step that touches a throttle records a failure or clears it after a login.
LEMMA ThrottleSteps ==
  ASSUME Inv, [Next]_vars
  PROVE  \/ UNCHANGED throttle
         \/ \E r \in Request : RecordFailure(r) \/ ClearThrottle(r)
<1>1. ASSUME NEW r \in Request, NEW u \in User, NEW p \in Password,
             Bootstrap(r, u, p) \/ BeginLogin(r, u, p) \/ CreateAccount(r, u, p)
      PROVE  UNCHANGED throttle
  BY <1>1 DEF Bootstrap, BeginLogin, CreateAccount
<1>2. ASSUME NEW r \in Request, NEW c \in Cookie, CreateSession(r, c) \/ Authenticate(r, c)
      PROVE  UNCHANGED throttle
  BY <1>2 DEF CreateSession, Authenticate
<1>3. ASSUME NEW r \in Request, NEW k \in Token, CreateApiToken(r, k) \/ RevokeApiToken(r, k)
      PROVE  UNCHANGED throttle
  BY <1>3 DEF CreateApiToken, RevokeApiToken
<1>4. ASSUME NEW r \in Request, NEW p \in Password, NEW q \in Password, VerifyCurrent(r, p, q)
      PROVE  UNCHANGED throttle
  BY <1>4 DEF VerifyCurrent
<1>5. ASSUME NEW r \in Request, CheckPassword(r) \/ Rotate(r) \/ Abort(r)
      PROVE  UNCHANGED throttle
  BY <1>5 DEF CheckPassword, Rotate, Abort
<1>6. Tick \/ UNCHANGED vars => UNCHANGED throttle
  BY DEF Tick, vars
<1>7. QED
  BY <1>1, <1>2, <1>3, <1>4, <1>5, <1>6, StepCases

LEMMA LockStep ==
  ASSUME Inv, [Next]_vars, NEW u \in User, Locked(u)
  PROVE  \/ throttle'[u] = throttle[u]
         \/ throttle'[u] = NoRow /\ \E r \in Request : request[r].at = "verified" /\ request[r].user = u
<1>1. throttle \in [User -> [failures : 0 .. Limit, until : 0 .. MaxTime + LockTime]]
  BY DEF Inv, TypeOK
<1>2. ASSUME NEW r \in Request, RecordFailure(r) PROVE throttle'[u] = throttle[u]
  BY <1>1, <1>2 DEF RecordFailure, AfterFailure, Locked
<1>3. ASSUME NEW r \in Request, ClearThrottle(r), request[r].user # u
      PROVE  throttle'[u] = throttle[u]
  BY <1>1, <1>3 DEF ClearThrottle
<1>4. ASSUME NEW r \in Request, ClearThrottle(r), request[r].user = u
      PROVE  throttle'[u] = NoRow /\ request[r].at = "verified"
  BY <1>1, <1>4 DEF ClearThrottle
<1>5. QED
  BY <1>2, <1>3, <1>4, ThrottleSteps

\* login_failure and login_success: whatever fails while a lock is set, the lock runs as
\* long as it was set for.
THEOREM AccountsLock == Spec => LockRunsItsTime
<1> DEFINE Runs(u) ==
      Locked(u) => \/ throttle'[u] = throttle[u]
                   \/ throttle'[u] = NoRow
                        /\ \E r \in Request : request[r].at = "verified" /\ request[r].user = u
<1>1. Inv /\ [Next]_vars => [\A u \in User : Runs(u)]_vars
  BY LockStep
<1>2. QED
  BY <1>1, Invariance, PTL DEF Spec, LockRunsItsTime
-----------------------------------------------------------------------------
(* How many failures one lock sees: FailuresAreBounded. *)

\* Requests that were past the check of the lock and may still record a failure.
Past(u) == {r \in Request : request[r].at \in {"login", "failed"} /\ request[r].user = u}

\* Without a lock the row counts the failures; a lock that has run out has lifted them; and
\* each one recorded under a lock takes a request out of those that are past the check.
Spent(u) ==
  /\ throttle[u].until = 0 => wrong[u] <= throttle[u].failures
  /\ throttle[u].until > 0 /\ ~Locked(u) => wrong[u] = 0
  /\ Locked(u) => wrong[u] + Cardinality(Past(u)) <= Limit + Cardinality(Request) - 1

LEMMA PastFinite ==
  ASSUME NEW u
  PROVE  /\ IsFiniteSet(Past(u)) /\ Cardinality(Past(u)) \in Nat
         /\ Cardinality(Request) \in Nat /\ Cardinality(Past(u)) <= Cardinality(Request)
<1>1. IsFiniteSet(Request) /\ Past(u) \subseteq Request
  BY DEF Past
<1>2. QED
  BY <1>1, FS_Subset, FS_CardinalityType

LEMMA Fewer ==
  ASSUME NEW A, NEW B, IsFiniteSet(A), B \subseteq A
  PROVE  /\ Cardinality(B) \in Nat /\ Cardinality(A) \in Nat /\ Cardinality(B) <= Cardinality(A)
         /\ \A x \in A : x \notin B => Cardinality(B) <= Cardinality(A) - 1
<1>1. IsFiniteSet(B) /\ Cardinality(B) \in Nat /\ Cardinality(A) \in Nat /\ Cardinality(B) <= Cardinality(A)
  BY FS_Subset, FS_CardinalityType
<1>2. ASSUME NEW x \in A, x \notin B
      PROVE  Cardinality(B) <= Cardinality(A) - 1
  <2>1. IsFiniteSet(A \ {x}) /\ Cardinality(A \ {x}) = Cardinality(A) - 1
    BY FS_RemoveElement
  <2>2. B \subseteq A \ {x}
    BY <1>2
  <2>3. QED
    BY <2>1, <2>2, FS_Subset
<1>3. QED
  BY <1>1, <1>2

\* A step that leaves the address alone lets no request pass its lock.
LEMMA SpentStays ==
  ASSUME Inv, NEW u \in User, Spent(u), now' = now, throttle'[u] = throttle[u], wrong'[u] = wrong[u],
         Locked(u) => Past(u)' \subseteq Past(u)
  PROVE  Spent(u)'
<1>1. Locked(u)' <=> Locked(u)
  BY DEF Locked
<1>2. Locked(u) => Cardinality(Past(u)') <= Cardinality(Past(u)) /\ Cardinality(Past(u)') \in Nat
  BY PastFinite, Fewer
<1>3. wrong[u] \in Nat /\ Limit \in Nat /\ Cardinality(Request) \in Nat /\ Cardinality(Past(u)) \in Nat
  BY PastFinite DEF Inv, TypeOK
<1>4. QED
  BY <1>1, <1>2, <1>3 DEF Spent

\* Only a login that is not refused gets past the check.
LEMMA PastMoves ==
  ASSUME Inv, [Next]_vars, NEW u \in User, Locked(u)
  PROVE  Past(u)' \subseteq Past(u)
<1> SUFFICES ASSUME NEW q \in Request, request'[q].at \in {"login", "failed"}, request'[q].user = u
             PROVE  request[q].at \in {"login", "failed"} /\ request[q].user = u
  BY DEF Past
<1>1. request \in [Request -> Handling]
  BY DEF Inv, TypeOK
<1>2. ASSUME NEW r \in Request, NEW x, Goto(r, x),
             x.at \in {"login", "failed"} /\ x.user = u =>
               request[r].at \in {"login", "failed"} /\ request[r].user = u
      PROVE  request[q].at \in {"login", "failed"} /\ request[q].user = u
  BY <1>1, <1>2 DEF Goto
<1>3. ASSUME NEW r \in Request, NEW v \in User, NEW p \in Password,
             Bootstrap(r, v, p) \/ BeginLogin(r, v, p) \/ CreateAccount(r, v, p)
      PROVE  request[q].at \in {"login", "failed"} /\ request[q].user = u
  BY <1>2, <1>3, IdleType DEF Bootstrap, BeginLogin, CreateAccount, Done
<1>4. ASSUME NEW r \in Request, CheckPassword(r)
      PROVE  request[q].at \in {"login", "failed"} /\ request[q].user = u
  BY <1>2, <1>4 DEF CheckPassword
<1>5. ASSUME NEW r \in Request, ClearThrottle(r)
      PROVE  request[q].at \in {"login", "failed"} /\ request[q].user = u
  <2>1. request[r] \in SignIn
    BY <1>1, <1>5, HandlingFields DEF ClearThrottle
  <2>2. request'[r].at = "signin"
    BY <1>1, <1>5, <2>1 DEF ClearThrottle, SignIn
  <2>3. q # r /\ request'[q] = request[q]
    BY <1>1, <1>5, <2>2 DEF ClearThrottle
  <2>4. QED
    BY <2>3
<1>6. ASSUME NEW r \in Request, Done(r)
      PROVE  request[q].at \in {"login", "failed"} /\ request[q].user = u
  BY <1>2, <1>6, IdleType DEF Done
<1>7. ASSUME NEW r \in Request, NEW c \in Cookie, CreateSession(r, c) \/ Authenticate(r, c)
      PROVE  request[q].at \in {"login", "failed"} /\ request[q].user = u
  BY <1>2, <1>6, <1>7 DEF CreateSession, Authenticate
<1>8. ASSUME NEW r \in Request, NEW k \in Token, CreateApiToken(r, k) \/ RevokeApiToken(r, k)
      PROVE  request[q].at \in {"login", "failed"} /\ request[q].user = u
  BY <1>6, <1>8 DEF CreateApiToken, RevokeApiToken
<1>9. ASSUME NEW r \in Request, NEW p \in Password, NEW w \in Password, VerifyCurrent(r, p, w)
      PROVE  request[q].at \in {"login", "failed"} /\ request[q].user = u
  BY <1>2, <1>9 DEF VerifyCurrent
<1>10. ASSUME NEW r \in Request, Rotate(r)
       PROVE  request[q].at \in {"login", "failed"} /\ request[q].user = u
  <2>1. PICK v : v = request[r].user
    OBVIOUS
  <2>2. request' = [p \in Request |->
          IF p = r THEN Idle
          ELSE IF p \in Overtaken(r, v) THEN [request[p] EXCEPT !.late = TRUE] ELSE request[p]]
    BY <1>10, <2>1 DEF Rotate
  <2>3. CASE q \in Overtaken(r, v) /\ q # r
    <3>1. request[q] \in SignIn
      BY <1>1, <2>3, HandlingFields DEF Overtaken
    <3>2. [request[q] EXCEPT !.late = TRUE].at \in {"verified", "signin"}
      BY <3>1 DEF SignIn
    <3>3. QED
      BY <2>2, <2>3, <3>2
  <2>4. CASE q \notin Overtaken(r, v) \/ q = r
    BY <2>2, <2>4, IdleType
  <2>5. QED
    BY <2>3, <2>4
<1>11. CASE Tick \/ UNCHANGED vars
  BY <1>11 DEF Tick, vars
<1>12. QED
  BY <1>3, <1>4, <1>5, <1>6, <1>7, <1>8, <1>9, <1>10, <1>11, StepCases DEF RecordFailure, Abort

LEMMA SpentRecord ==
  ASSUME Inv, Inv', NEW r \in Request, RecordFailure(r), NEW u \in User, Spent(u), u = request[r].user
  PROVE  Spent(u)'
<1>1. /\ throttle'[u] = AfterFailure(throttle[u]) /\ wrong'[u] = wrong[u] + 1 /\ now' = now
      /\ throttle[u] \in [failures : 0 .. Limit, until : 0 .. MaxTime + LockTime]
      /\ wrong[u] \in Nat /\ now \in Nat
  BY DEF RecordFailure, Inv, TypeOK
<1>2. r \in Past(u) /\ r \notin Past(u)'
  BY IdleType DEF RecordFailure, Past, Done, Goto, Inv, TypeOK
<1>3. Cardinality(Past(u)') \in Nat /\ Cardinality(Past(u)') <= Cardinality(Request) - 1
  <2>1. Past(u)' \subseteq Request /\ IsFiniteSet(Request) /\ r \in Request
    BY DEF Past
  <2>2. QED
    BY <1>2, <2>1, Fewer
<1>4. throttle[u].until = 0 => throttle[u].failures < Limit
  BY DEF Inv, Current
<1>5. Cardinality(Request) \in Nat /\ Limit \in Nat /\ LockTime \in Nat \ {0}
  BY PastFinite
<1>6. CASE Locked(u)
  <2>1. throttle'[u] = throttle[u] /\ Locked(u)'
    BY <1>1, <1>6 DEF AfterFailure, Locked
  <2>2. Past(u)' \subseteq Past(u)
    BY <1>6, PastMoves DEF Next
  <2>3. Cardinality(Past(u)') <= Cardinality(Past(u)) - 1 /\ Cardinality(Past(u)) \in Nat
    BY <1>2, <2>2, PastFinite, Fewer
  <2>4. wrong[u] + Cardinality(Past(u)) <= Limit + Cardinality(Request) - 1
    BY <1>6 DEF Spent
  <2>5. throttle'[u].until # 0
    BY <1>1, <1>6, <2>1 DEF Locked
  <2>6. QED
    BY <1>1, <1>3, <1>5, <2>1, <2>3, <2>4, <2>5 DEF Spent
<1>7. CASE ~Locked(u) /\ throttle[u].until > 0
  <2>1. throttle'[u] = [failures |-> 1, until |-> 0] /\ wrong'[u] = 1
    BY <1>1, <1>7 DEF AfterFailure, Locked, Spent
  <2>2. ~Locked(u)'
    BY <1>1, <2>1 DEF Locked
  <2>3. QED
    BY <2>1, <2>2 DEF Spent
<1>8. CASE throttle[u].until = 0
  <2>1. wrong[u] <= throttle[u].failures
    BY <1>8 DEF Spent
  <2>2. throttle'[u] = [failures |-> throttle[u].failures + 1,
                        until |-> IF throttle[u].failures + 1 >= Limit THEN now + LockTime ELSE 0]
    BY <1>1, <1>8 DEF AfterFailure
  <2>3. CASE throttle[u].failures + 1 >= Limit
    <3>1. throttle'[u].until = now' + LockTime /\ Locked(u)'
      BY <1>1, <1>5, <2>2, <2>3 DEF Locked
    <3>2. wrong'[u] <= Limit
      BY <1>1, <1>4, <1>8, <2>1
    <3>3. QED
      BY <1>1, <1>3, <1>5, <3>1, <3>2 DEF Spent
  <2>4. CASE ~(throttle[u].failures + 1 >= Limit)
    <3>1. throttle'[u] = [failures |-> throttle[u].failures + 1, until |-> 0] /\ ~Locked(u)'
      BY <1>1, <2>2, <2>4 DEF Locked
    <3>2. QED
      BY <1>1, <2>1, <3>1 DEF Spent
  <2>5. QED
    BY <2>3, <2>4
<1>9. QED
  BY <1>1, <1>6, <1>7, <1>8

LEMMA SpentNext ==
  ASSUME Inv, Inv', [Next]_vars, NEW u \in User, Spent(u)
  PROVE  Spent(u)'
<1>1. CASE \E r \in Request : RecordFailure(r)
  <2>1. PICK r \in Request : RecordFailure(r)
    BY <1>1
  <2>2. CASE u = request[r].user
    BY <2>1, <2>2, SpentRecord
  <2>3. CASE u # request[r].user
    <3>1. throttle'[u] = throttle[u] /\ wrong'[u] = wrong[u] /\ now' = now
      BY <2>1, <2>3 DEF RecordFailure, Inv, TypeOK
    <3>2. QED
      BY <3>1, SpentStays, PastMoves
  <2>4. QED
    BY <2>2, <2>3
<1>2. CASE \E r \in Request : ClearThrottle(r)
  <2>1. PICK r \in Request : ClearThrottle(r)
    BY <1>2
  <2>2. CASE u = request[r].user
    <3>1. throttle'[u] = NoRow /\ wrong'[u] = 0 /\ now' = now /\ now \in Nat
      BY <2>1, <2>2 DEF ClearThrottle, Inv, TypeOK
    <3>2. QED
      BY <3>1 DEF NoRow, Spent, Locked
  <2>3. CASE u # request[r].user
    <3>1. throttle'[u] = throttle[u] /\ wrong'[u] = wrong[u] /\ now' = now
      BY <2>1, <2>3 DEF ClearThrottle, Inv, TypeOK
    <3>2. QED
      BY <3>1, SpentStays, PastMoves
  <2>4. QED
    BY <2>2, <2>3
<1>3. CASE Tick
  <2>1. /\ now' = now + 1 /\ throttle' = throttle /\ request' = request /\ now \in Nat
        /\ wrong'[u] = IF throttle[u].until = now' THEN 0 ELSE wrong[u]
        /\ throttle[u].until \in Nat
    BY <1>3 DEF Tick, Inv, TypeOK
  <2>2. Past(u)' = Past(u)
    BY <2>1 DEF Past
  <2>3. QED
    BY <2>1, <2>2 DEF Spent, Locked
<1>4. CASE UNCHANGED <<now, throttle, wrong>>
  BY <1>4, SpentStays, PastMoves
<1>5. QED
  BY <1>1, <1>2, <1>3, <1>4, StepCases
     DEF vars, Bootstrap, BeginLogin, CreateAccount, CheckPassword, CreateSession, Authenticate,
         CreateApiToken, RevokeApiToken, VerifyCurrent, Rotate, Abort

\* login: after LOGIN_FAILURE_LIMIT failures only requests that were past the check may
\* still record one.
THEOREM AccountsFailures == Spec => []FailuresAreBounded
<1> DEFINE AllSpent == \A u \in User : Spent(u)
<1>1. Init => AllSpent
  BY DEF Init, Spent, Locked, NoRow
<1>2. Inv /\ Inv' /\ AllSpent /\ [Next]_vars => AllSpent'
  BY SpentNext
<1>3. Inv /\ AllSpent => FailuresAreBounded
  <2> SUFFICES ASSUME Inv, AllSpent, NEW u \in User
               PROVE  wrong[u] <= Limit + Cardinality(Request) - 1
    BY DEF FailuresAreBounded
  <2>1. /\ throttle[u] \in [failures : 0 .. Limit, until : 0 .. MaxTime + LockTime]
        /\ throttle[u].until = 0 => throttle[u].failures < Limit
        /\ wrong[u] \in Nat /\ Limit \in Nat \ {0}
    BY DEF Inv, TypeOK, Current
  <2>2. Cardinality(Request) \in Nat /\ Cardinality(Past(u)) \in Nat
    BY PastFinite
  <2>3. QED
    BY <2>1, <2>2 DEF Spent
<1>4. QED
  BY <1>1, <1>2, <1>3, Invariance, PTL DEF Spec
-----------------------------------------------------------------------------
(* Who ends a credential: CredentialsEndByTheirUser. *)

\* A request that has looked up a session goes on for that session's user.
Owns(r) ==
  request[r].at \in {"session", "rotate"} =>
    /\ session[request[r].by].st # "unused"
    /\ Open(request[r].by) => session[request[r].by].user = request[r].user

\* A session row is opened once and keeps its user.
LEMMA SessionMoves ==
  ASSUME Inv, [Next]_vars, NEW c \in Cookie, session[c].st # "unused"
  PROVE  session'[c].st # "unused" /\ (Open(c)' => Open(c) /\ session'[c].user = session[c].user)
<1>1. ASSUME NEW r \in Request, NEW d \in Cookie, CreateSession(r, d)
      PROVE  session'[c] = session[c]
  BY <1>1, GoneType DEF CreateSession, Inv, TypeOK
<1>2. ASSUME NEW cookies, Close(cookies)
      PROVE  session'[c] = session[c] \/ session'[c] = Gone
  BY <1>2 DEF Close
<1>3. ASSUME NEW r \in Request, Rotate(r)
      PROVE  session'[c].st # "unused" /\ (Open(c)' => Open(c) /\ session'[c].user = session[c].user)
  <2>1. PICK u, new, by : u = request[r].user /\ new = request[r].pw /\ by = request[r].by
    OBVIOUS
  <2>2. session'[c] = IF c \notin OpenOf(u) THEN session[c]
                      ELSE IF c = by THEN [session[c] EXCEPT !.pw = new] ELSE Gone
    BY <1>3, <2>1 DEF Rotate
  <2>3. CASE c \in OpenOf(u)
    <3>1. Open(c) /\ session[c] \in [st : {"open"}, user : User, until : Nat, pw : Password, late : BOOLEAN]
      BY <2>3, RowFields DEF OpenOf, Open, Inv, TypeOK
    <3>2. [session[c] EXCEPT !.pw = new].st = "open" /\ [session[c] EXCEPT !.pw = new].user = session[c].user
      BY <3>1
    <3>3. QED
      BY <2>2, <2>3, <3>1, <3>2, GoneType DEF Open
  <2>4. CASE c \notin OpenOf(u)
    BY <2>2, <2>4 DEF Open
  <2>5. QED
    BY <2>3, <2>4
<1>4. CASE session' = session
  BY <1>4 DEF Open
<1>5. QED
  BY <1>1, <1>2, <1>3, <1>4, GoneType, StepCases
     DEF vars, Open, Bootstrap, BeginLogin, CreateAccount, CheckPassword, RecordFailure, ClearThrottle,
         Authenticate, CreateApiToken, RevokeApiToken, VerifyCurrent, Abort, Tick

LEMMA RequestMoves ==
  ASSUME Inv, [Next]_vars, NEW q \in Request, request'[q].at \in {"session", "rotate"}
  PROVE  \/ /\ request[q].at \in {"session", "rotate"}
            /\ request'[q].by = request[q].by /\ request'[q].user = request[q].user
         \/ \E c \in Cookie : Authenticate(q, c)
<1>1. request \in [Request -> Handling]
  BY DEF Inv, TypeOK
<1>2. ASSUME NEW r \in Request, NEW x, Goto(r, x)
      PROVE  (q = r /\ request'[q] = x) \/ (q # r /\ request'[q] = request[q])
  BY <1>1, <1>2 DEF Goto
<1>3. ASSUME NEW r \in Request, Done(r)
      PROVE  request'[q] = request[q]
  BY <1>2, <1>3, IdleType DEF Done
<1>4. ASSUME NEW r \in Request, NEW v \in User, NEW p \in Password,
             Bootstrap(r, v, p) \/ BeginLogin(r, v, p) \/ CreateAccount(r, v, p)
      PROVE  request'[q] = request[q]
  BY <1>2, <1>3, <1>4 DEF Bootstrap, BeginLogin, CreateAccount
<1>5. ASSUME NEW r \in Request, CheckPassword(r)
      PROVE  request'[q] = request[q]
  BY <1>2, <1>5 DEF CheckPassword
<1>6. ASSUME NEW r \in Request, ClearThrottle(r)
      PROVE  request'[q] = request[q]
  <2>1. request[r] \in SignIn
    BY <1>1, <1>6, HandlingFields DEF ClearThrottle
  <2>2. request'[r].at = "signin"
    BY <1>1, <1>6, <2>1 DEF ClearThrottle, SignIn
  <2>3. QED
    BY <1>1, <1>6, <2>2 DEF ClearThrottle
<1>7. ASSUME NEW r \in Request, NEW c \in Cookie, CreateSession(r, c)
      PROVE  request'[q] = request[q]
  BY <1>3, <1>7 DEF CreateSession
<1>8. ASSUME NEW r \in Request, NEW c \in Cookie, Authenticate(r, c)
      PROVE  request'[q] = request[q] \/ Authenticate(q, c)
  BY <1>2, <1>8 DEF Authenticate
<1>9. ASSUME NEW r \in Request, NEW k \in Token, CreateApiToken(r, k) \/ RevokeApiToken(r, k)
      PROVE  request'[q] = request[q]
  BY <1>3, <1>9 DEF CreateApiToken, RevokeApiToken
<1>10. ASSUME NEW r \in Request, NEW p \in Password, NEW w \in Password, VerifyCurrent(r, p, w)
       PROVE  /\ request[q].at \in {"session", "rotate"}
              /\ request'[q].by = request[q].by /\ request'[q].user = request[q].user
  BY <1>2, <1>10 DEF VerifyCurrent
<1>11. ASSUME NEW r \in Request, Rotate(r)
       PROVE  request'[q] = request[q]
  <2>1. PICK v : v = request[r].user
    OBVIOUS
  <2>2. request' = [p \in Request |->
          IF p = r THEN Idle
          ELSE IF p \in Overtaken(r, v) THEN [request[p] EXCEPT !.late = TRUE] ELSE request[p]]
    BY <1>11, <2>1 DEF Rotate
  <2>3. CASE q \in Overtaken(r, v) /\ q # r
    <3>1. request[q] \in SignIn
      BY <1>1, <2>3, HandlingFields DEF Overtaken
    <3>2. [request[q] EXCEPT !.late = TRUE].at \in {"verified", "signin"}
      BY <3>1 DEF SignIn
    <3>3. QED
      BY <2>2, <2>3, <3>2
  <2>4. CASE q \notin Overtaken(r, v) \/ q = r
    BY <2>2, <2>4, IdleType
  <2>5. QED
    BY <2>3, <2>4
<1>12. CASE Tick \/ UNCHANGED vars
  BY <1>12 DEF Tick, vars
<1>13. QED
  BY <1>3, <1>4, <1>5, <1>6, <1>7, <1>8, <1>9, <1>10, <1>11, <1>12, StepCases DEF RecordFailure, Abort

LEMMA OwnsNext ==
  ASSUME Inv, [Next]_vars, NEW r \in Request, Owns(r)
  PROVE  Owns(r)'
<1> SUFFICES ASSUME request'[r].at \in {"session", "rotate"}
             PROVE  /\ session'[request'[r].by].st # "unused"
                    /\ Open(request[r].by)' => session'[request'[r].by].user = request'[r].user
  BY DEF Owns
<1>1. CASE /\ request[r].at \in {"session", "rotate"}
           /\ request'[r].by = request[r].by /\ request'[r].user = request[r].user
  <2>1. request[r].by \in Cookie
    BY <1>1, HandlingFields DEF Inv, TypeOK
  <2>2. PICK c \in Cookie : c = request[r].by
    BY <2>1
  <2>3. session[c].st # "unused" /\ (Open(c) => session[c].user = request[r].user)
    BY <1>1, <2>2 DEF Owns
  <2>4. session'[c].st # "unused" /\ (Open(c)' => Open(c) /\ session'[c].user = session[c].user)
    BY <2>3, SessionMoves
  <2>5. QED
    BY <1>1, <2>2, <2>3, <2>4 DEF Open
<1>2. ASSUME NEW c \in Cookie, Authenticate(r, c)
      PROVE  /\ session'[request'[r].by].st # "unused"
             /\ Open(request[r].by)' => session'[request'[r].by].user = request'[r].user
  BY <1>2 DEF Authenticate, Goto, Open, Inv, TypeOK
<1>3. QED
  BY <1>1, <1>2, RequestMoves

LEMMA SessionEnds ==
  ASSUME Inv, \A r \in Request : Owns(r), Next, NEW c \in Cookie, Open(c), session'[c] = Gone
  PROVE  Asked(session[c].user)
<1>1. session'[c] # session[c]
  BY GoneType DEF Open
<1>2. ASSUME NEW r \in Request, NEW d \in Cookie, CreateSession(r, d)
      PROVE  FALSE
  BY <1>1, <1>2, GoneType DEF CreateSession, Open, Inv, TypeOK
<1>3. ASSUME NEW r \in Request, NEW cookies, request[r].at = "session", Close(cookies), Done(r),
             c \in cookies => session[c].user = request[r].user
      PROVE  Asked(session[c].user)
  <2>1. c \in cookies
    BY <1>1, <1>3 DEF Close
  <2>2. request'[r] = Idle
    BY <1>3 DEF Done, Goto, Inv, TypeOK
  <2>3. QED
    BY <1>3, <2>1, <2>2 DEF Asked
<1>4. ASSUME NEW r \in Request, Logout(r)
      PROVE  Asked(session[c].user)
  BY <1>3, <1>4 DEF Logout, Owns
<1>5. ASSUME NEW r \in Request, RevokeOtherSessions(r)
      PROVE  Asked(session[c].user)
  BY <1>3, <1>5 DEF RevokeOtherSessions, OpenOf
<1>6. ASSUME NEW r \in Request, NEW d \in Cookie, RevokeSession(r, d)
      PROVE  Asked(session[c].user)
  BY <1>3, <1>6 DEF RevokeSession, OpenOf
<1>7. ASSUME NEW r \in Request, Rotate(r)
      PROVE  Asked(session[c].user)
  <2>1. c \in OpenOf(request[r].user)
    BY <1>1, <1>7 DEF Rotate
  <2>2. request'[r] = Idle /\ request[r].at = "rotate"
    BY <1>7 DEF Rotate
  <2>3. QED
    BY <2>1, <2>2 DEF OpenOf, Asked
<1>8. QED
  BY <1>1, <1>2, <1>4, <1>5, <1>6, <1>7
     DEF Next, vars, RefuseLocked, Bootstrap, BeginLogin, CreateAccount, CheckPassword, RecordFailure,
         ClearThrottle, Authenticate, CreateApiToken, RevokeApiToken, VerifyCurrent, Abort, Tick

LEMMA TokenEnds ==
  ASSUME Inv, Next, NEW k \in Token, apiToken[k].st = "live", apiToken'[k] # apiToken[k]
  PROVE  Asked(apiToken[k].user)
<1>1. ASSUME NEW r \in Request, NEW j \in Token, CreateApiToken(r, j)
      PROVE  FALSE
  BY <1>1 DEF CreateApiToken, Unused, Inv, TypeOK
<1>2. ASSUME NEW r \in Request, NEW j \in Token, RevokeApiToken(r, j)
      PROVE  Asked(apiToken[k].user)
  <2>1. j = k /\ apiToken[k] = [st |-> "live", user |-> request[r].user] /\ request[r].at = "session"
    BY <1>2 DEF RevokeApiToken, Inv, TypeOK
  <2>2. request'[r] = Idle
    BY <1>2 DEF RevokeApiToken, Done, Goto, Inv, TypeOK
  <2>3. QED
    BY <2>1, <2>2 DEF Asked
<1>3. QED
  BY <1>1, <1>2
     DEF Next, vars, RefuseLocked, Bootstrap, BeginLogin, CreateAccount, CheckPassword, RecordFailure,
         ClearThrottle, Authenticate, CreateSession, Logout, RevokeOtherSessions, RevokeSession,
         VerifyCurrent, Rotate, Abort, Tick

\* logout, revoke_session, revoke_other_sessions, change_password and the revocation of a
\* token: a credential ends only by a request of the user it belongs to, whatever happened
\* to the session between its lookup and the statement.
THEOREM AccountsCredentials == Spec => CredentialsEndByTheirUser
<1> DEFINE AllOwn == \A r \in Request : Owns(r)
           Ends == /\ \A c \in Cookie : Open(c) /\ session'[c] = Gone => Asked(session[c].user)
                   /\ \A k \in Token : apiToken[k].st = "live" /\ apiToken'[k] # apiToken[k] =>
                        Asked(apiToken[k].user)
<1>1. Init => AllOwn
  BY IdleType DEF Init, Owns
<1>2. Inv /\ AllOwn /\ [Next]_vars => AllOwn'
  BY OwnsNext
<1>3. Inv /\ AllOwn /\ [Next]_vars => [Ends]_vars
  BY SessionEnds, TokenEnds
<1>4. QED
  BY <1>1, <1>2, <1>3, Invariance, PTL DEF Spec, CredentialsEndByTheirUser
=============================================================================
