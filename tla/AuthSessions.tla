---------------------------- MODULE AuthSessions ----------------------------
(***************************************************************************)
(* Server-side sessions of the Express backend (api/routes/auth.ts and     *)
(* api/middleware/auth.ts) together with the cookie jar of the browsers    *)
(* that use them (frontend-react/src/api/client.ts).                       *)
(*                                                                         *)
(* A handler runs on Node's event loop and gives the loop up at every      *)
(* `await db.query`, so each statement it sends is one action here and the *)
(* statements of concurrent requests interleave freely.  The synchronous   *)
(* code after a SELECT (hash and fingerprint comparison, signing the new   *)
(* tokens) belongs to the action of that SELECT.  A reply reaches the      *)
(* browser in a step of its own: replies on parallel connections overtake  *)
(* each other.                                                             *)
(*                                                                         *)
(* Two refresh tokens of one session differ only in the JWT's iat, which   *)
(* counts whole seconds: a token is its session and its iat, and the hash  *)
(* the row keeps is the iat of the token it was computed from.             *)
(***************************************************************************)
EXTENDS Naturals

CONSTANTS
    Users,        \* accounts
    Sessions,     \* the session ids randomUUID may draw
    Browsers,     \* cookie jars; each has one fingerprint of its own
    Tabs,         \* pages of one browser: they share its jar, not isRefreshing
    Requests,     \* slots for HTTP requests in flight
    None,         \* absent user, session or browser
    AccessTTL,    \* ACCESS_TOKEN_TTL_SECONDS
    RefreshTTL,   \* REFRESH_TOKEN_TTL_SECONDS
    Reliable,     \* FALSE: requests and replies may get lost, the process may die
    MaxClock      \* bound on the clock, for model checking

ASSUME NoneAssumption ==
    /\ None \notin Users
    /\ None \notin Sessions
    /\ None \notin Browsers
    /\ None \notin Tabs

ASSUME TTLAssumption ==
    /\ AccessTTL \in Nat
    /\ RefreshTTL \in Nat
    /\ MaxClock \in Nat

ASSUME ReliableAssumption == Reliable \in BOOLEAN

VARIABLES
    clock,        \* seconds, as the JWTs and the database see them
    row,          \* the table user_sessions
    jar,          \* per browser, the token pair its two cookies hold
    req,          \* per slot, the request in flight: its handler's locals
    ended,        \* sessions a delivered reply has rightly reported as ended
    told          \* sessions a delivered reply has reported as ended

vars == <<clock, row, jar, req, ended, told>>

-----------------------------------------------------------------------------

Row == [user    : Users \cup {None},      \* None: no such row yet
        browser : Browsers \cup {None},   \* fingerprint_hash
        hash    : Nat,                    \* refresh_token_hash
        expires : Nat,                    \* expires_at
        revoked : BOOLEAN]                \* revoked_at IS NOT NULL

NoRow == [user |-> None, browser |-> None, hash |-> 0, expires |-> 0, revoked |-> FALSE]

Cookies == [sid : Sessions \cup {None}, iat : Nat]

NoCookies == [sid |-> None, iat |-> 0]

PCs == {"idle", "insert", "select", "rotate", "mismatch", "verify",
        "password", "revokeOthers", "revoke", "reply"}

Ops == {"none", "login", "refresh", "access", "changePassword", "logout"}

Request ==
    [pc      : PCs,
     op      : Ops,
     browser : Browsers \cup {None},
     tab     : Tabs \cup {None},
     user    : Users \cup {None},
     sid     : Sessions \cup {None},    \* from the token; the new session of a login
     iat     : Nat,                     \* of the token sent, then of the token signed
     late    : BOOLEAN,                 \* sent after its session was reported as ended
     granted : BOOLEAN,                 \* verifyToken let it through
     others  : SUBSET Sessions,         \* sessions a password change must end
     ack     : SUBSET Sessions,         \* sessions the reply rightly reports as ended
     says    : SUBSET Sessions,         \* sessions the reply reports as ended
     cookie  : {"keep", "set", "clear"}]

NoRequest ==
    [pc |-> "idle", op |-> "none", browser |-> None, tab |-> None, user |-> None,
     sid |-> None, iat |-> 0, late |-> FALSE, granted |-> FALSE,
     others |-> {}, ack |-> {}, says |-> {}, cookie |-> "keep"]

TypeOK ==
    /\ clock \in Nat
    /\ row \in [Sessions -> Row]
    /\ jar \in [Browsers -> Cookies]
    /\ req \in [Requests -> Request]
    /\ ended \subseteq Sessions
    /\ told \subseteq Sessions

Init ==
    /\ clock = 0
    /\ row = [s \in Sessions |-> NoRow]
    /\ jar = [b \in Browsers |-> NoCookies]
    /\ req = [q \in Requests |-> NoRequest]
    /\ ended = {}
    /\ told = {}

-----------------------------------------------------------------------------

\* Mutant: the SELECT forgets revoked_at
ActiveIgnoringRevocation(s) == row[s].user # None /\ row[s].expires > clock

\* revoked_at IS NULL AND expires_at > CURRENT_TIMESTAMP
Active(s) ==
    /\ row[s].user # None
    /\ ~row[s].revoked
    /\ row[s].expires > clock

\* jwt.verify: a token is expired from the second iat + ttl on
Fresh(iat, ttl) == clock < iat + ttl

\* The slot q now holds the request r
Put(q, r) == req' = [req EXCEPT ![q] = r]

Send(q, r) ==
    /\ req[q].pc = "idle"
    /\ Put(q, r)
    /\ UNCHANGED <<clock, row, jar, ended, told>>

\* The handler answers without issuing tokens
Answer(q, cookie) ==
    Put(q, [req[q] EXCEPT !.pc = "reply", !.iat = 0, !.others = {},
                          !.cookie = cookie])

-----------------------------------------------------------------------------
(* Login and register, from the moment the credentials were accepted.      *)

\* createSessionAndTokens signs the pair before it sends its statement
LoginSign(q, b, u) ==
    Send(q, [NoRequest EXCEPT !.pc = "insert", !.op = "login", !.browser = b,
                              !.user = u, !.iat = clock])

\* The INSERT of the fresh row
LoginInsert(q, s) ==
    /\ req[q].pc = "insert"
    /\ row[s].user = None
    /\ row' = [row EXCEPT ![s] = [user    |-> req[q].user,
                                  browser |-> req[q].browser,
                                  hash    |-> req[q].iat,
                                  expires |-> clock + RefreshTTL,
                                  revoked |-> FALSE]]
    /\ Put(q, [req[q] EXCEPT !.pc = "reply", !.cookie = "set", !.user = None, !.sid = s])
    /\ UNCHANGED <<clock, jar, ended, told>>

\* The INSERT fails: a 500, and no cookies
LoginError(q) ==
    /\ req[q].pc = "insert"
    /\ Put(q, [req[q] EXCEPT !.pc = "reply", !.user = None])
    /\ UNCHANGED <<clock, row, jar, ended, told>>

-----------------------------------------------------------------------------
(* POST /refresh.                                                          *)

\* Mutant: the page forgets that it is refreshing
NeverRefreshing(b, t) == FALSE

\* isRefreshing in client.ts: one refresh in flight per page, not per jar
IsRefreshing(b, t) ==
    \E q \in Requests : req[q].op = "refresh" /\ req[q].browser = b /\ req[q].tab = t

RefreshSend(q, b, t) ==
    /\ jar[b].sid # None
    /\ ~IsRefreshing(b, t)
    /\ Send(q, [NoRequest EXCEPT !.pc = "select", !.op = "refresh", !.browser = b,
                                 !.tab = t, !.sid = jar[b].sid, !.iat = jar[b].iat])

\* The JWT has expired, or the SELECT returns no row
RefreshNoSession(q) ==
    /\ req[q].pc = "select"
    /\ ~(Fresh(req[q].iat, RefreshTTL) /\ Active(req[q].sid))
    /\ Answer(q, "clear")
    /\ UNCHANGED <<clock, row, jar, ended, told>>

\* The token differs from the row's, or else the fingerprint does (the address or
\* the language of a browser may change at any time): the session is to be revoked
RefreshMismatch(q) ==
    /\ req[q].pc = "select"
    /\ Fresh(req[q].iat, RefreshTTL) /\ Active(req[q].sid)
    /\ Put(q, [req[q] EXCEPT !.pc = "mismatch", !.iat = 0])
    /\ UNCHANGED <<clock, row, jar, ended, told>>

\* Both match: the new pair is signed now, the row is updated by a later statement
RefreshMatch(q) ==
    LET s == req[q].sid IN
    /\ req[q].pc = "select"
    /\ Fresh(req[q].iat, RefreshTTL) /\ Active(s)
    /\ req[q].iat = row[s].hash
    /\ Put(q, [req[q] EXCEPT !.pc = "rotate", !.iat = clock])
    /\ UNCHANGED <<clock, row, jar, ended, told>>

\* Mutants: the UPDATE revives the row; it leaves the expiry alone; its
\* parameters are swapped
RotatedRevived(s, iat) ==
    [row EXCEPT ![s].hash = iat, ![s].expires = clock + RefreshTTL, ![s].revoked = FALSE]
RotatedWithoutExpiry(s, iat) == [row EXCEPT ![s].hash = iat]
RotatedSwapped(s, iat) == [row EXCEPT ![s].hash = s, ![s].expires = clock + RefreshTTL]

\* UPDATE ... SET refresh_token_hash, expires_at WHERE id: no other condition
Rotated(s, iat) == [row EXCEPT ![s].hash = iat, ![s].expires = clock + RefreshTTL]

RefreshRotate(q) ==
    /\ req[q].pc = "rotate"
    /\ row' = Rotated(req[q].sid, req[q].iat)
    /\ Put(q, [req[q] EXCEPT !.pc = "reply", !.cookie = "set"])
    /\ UNCHANGED <<clock, jar, ended, told>>

RefreshRevoke(q) ==
    /\ req[q].pc = "mismatch"
    /\ row' = [row EXCEPT ![req[q].sid].revoked = TRUE]
    /\ Answer(q, "clear")
    /\ UNCHANGED <<clock, jar, ended, told>>

\* A statement fails: the catch block clears the cookies
RefreshError(q) ==
    /\ req[q].pc \in {"select", "rotate", "mismatch"}
    /\ Answer(q, "clear")
    /\ UNCHANGED <<clock, row, jar, ended, told>>

-----------------------------------------------------------------------------
(* verifyToken, and the handlers behind it.                                *)

AccessSend(q, b, op) ==
    /\ jar[b].sid # None
    /\ Send(q, [NoRequest EXCEPT !.pc = "verify", !.op = op, !.browser = b,
                                 !.sid = jar[b].sid, !.iat = jar[b].iat,
                                 !.late = jar[b].sid \in ended])

\* The JWT has expired, assertActiveSession finds no row, or the fingerprint
\* differs: whatever the row, the answer may be a 401
VerifyDenied(q) ==
    /\ req[q].pc = "verify"
    /\ Answer(q, "keep")
    /\ UNCHANGED <<clock, row, jar, ended, told>>

VerifyGranted(q) ==
    /\ req[q].pc = "verify"
    /\ Fresh(req[q].iat, AccessTTL)
    /\ Active(req[q].sid)
    /\ Put(q, [req[q] EXCEPT !.granted = TRUE,
                          !.pc = IF req[q].op = "changePassword" THEN "password" ELSE "reply"])
    /\ UNCHANGED <<clock, row, jar, ended, told>>

\* change-password: the current password is wrong, the new one too weak, or
\* the statement fails
PasswordRejected(q) ==
    /\ req[q].pc = "password"
    /\ Answer(q, "keep")
    /\ UNCHANGED <<clock, row, jar, ended, told>>

SessionsOf(u) == {s \in Sessions : row[s].user = u}

\* UPDATE users SET password_hash.  The sessions opened before this point
\* are those the change has to end.
PasswordUpdate(q) ==
    /\ req[q].pc = "password"
    /\ Put(q, [req[q] EXCEPT !.pc = "revokeOthers",
                          !.others = SessionsOf(row[req[q].sid].user) \ {req[q].sid}])
    /\ UNCHANGED <<clock, row, jar, ended, told>>

\* UPDATE user_sessions SET revoked_at WHERE user_id AND id <> own AND not revoked
PasswordRevokeOthers(q) ==
    /\ req[q].pc = "revokeOthers"
    /\ row' = [s \in Sessions |->
                 [row[s] EXCEPT !.revoked =
                    @ \/ (row[s].user = row[req[q].sid].user /\ s # req[q].sid)]]
    /\ Put(q, [req[q] EXCEPT !.pc = "reply", !.iat = 0, !.others = {},
                          !.ack = req[q].others, !.says = req[q].others])
    /\ UNCHANGED <<clock, jar, ended, told>>

\* The second statement fails: the password is changed, the answer is a 500
PasswordError(q) ==
    /\ req[q].pc = "revokeOthers"
    /\ Answer(q, "keep")
    /\ UNCHANGED <<clock, row, jar, ended, told>>

-----------------------------------------------------------------------------
(* POST /logout.                                                           *)

\* The session is read from the cookies without verifying them
LogoutSend(q, b) ==
    Send(q, [NoRequest EXCEPT !.pc = IF jar[b].sid = None THEN "reply" ELSE "revoke",
                              !.op = "logout", !.browser = b, !.sid = jar[b].sid,
                              !.cookie = "clear"])

LogoutRevoke(q) ==
    /\ req[q].pc = "revoke"
    /\ row' = [row EXCEPT ![req[q].sid].revoked = TRUE]
    /\ Put(q, [req[q] EXCEPT !.pc = "reply",
                          !.ack = {req[q].sid}, !.says = {req[q].sid}])
    /\ UNCHANGED <<clock, jar, ended, told>>

\* The UPDATE fails: the error is logged, the answer is the same
LogoutError(q) ==
    /\ req[q].pc = "revoke"
    /\ Put(q, [req[q] EXCEPT !.pc = "reply", !.says = {req[q].sid}])
    /\ UNCHANGED <<clock, row, jar, ended, told>>

-----------------------------------------------------------------------------

\* The browser receives the reply and applies its Set-Cookie headers
Deliver(q) ==
    LET r == req[q] IN
    /\ r.pc = "reply"
    /\ jar' = CASE r.cookie = "set"   -> [jar EXCEPT ![r.browser] =
                                            [sid |-> r.sid, iat |-> r.iat]]
                [] r.cookie = "clear" -> [jar EXCEPT ![r.browser] = NoCookies]
                [] OTHER              -> jar
    /\ ended' = ended \cup r.ack
    /\ told' = told \cup r.says
    /\ Put(q, NoRequest)
    /\ UNCHANGED <<clock, row>>

\* The process dies, or the connection: the handler goes no further, no reply arrives
Lose(q) ==
    /\ ~Reliable
    /\ req[q].pc # "idle"
    /\ Put(q, NoRequest)
    /\ UNCHANGED <<clock, row, jar, ended, told>>

Tick ==
    /\ clock < MaxClock
    /\ clock' = clock + 1
    /\ UNCHANGED <<row, jar, req, ended, told>>

Login(q) ==
    \/ \E b \in Browsers, u \in Users : LoginSign(q, b, u)
    \/ \E s \in Sessions : LoginInsert(q, s)
    \/ LoginError(q)

Refresh(q) ==
    \/ \E b \in Browsers, t \in Tabs : RefreshSend(q, b, t)
    \/ RefreshNoSession(q) \/ RefreshMismatch(q) \/ RefreshMatch(q)
    \/ RefreshRotate(q) \/ RefreshRevoke(q) \/ RefreshError(q)

Access(q) ==
    \/ \E b \in Browsers, op \in {"access", "changePassword"} : AccessSend(q, b, op)
    \/ VerifyDenied(q) \/ VerifyGranted(q)
    \/ PasswordRejected(q) \/ PasswordUpdate(q) \/ PasswordRevokeOthers(q) \/ PasswordError(q)

Logout(q) ==
    \/ \E b \in Browsers : LogoutSend(q, b)
    \/ LogoutRevoke(q) \/ LogoutError(q)

Next ==
    \/ Tick
    \/ \E q \in Requests : Login(q) \/ Refresh(q) \/ Access(q) \/ Logout(q)
                           \/ Deliver(q) \/ Lose(q)

Spec == Init /\ [][Next]_vars

-----------------------------------------------------------------------------
(* What the sessions promise.                                              *)

\* Once a reply has rightly reported a session as ended (a logout, or the other
\* sessions at a password change) the session is revoked for good, whatever
\* refresh handlers that had already read its row still write to it.
EndedStaysEnded == \A s \in ended : row[s].revoked

\* A request sent after its session was reported as ended is never admitted by
\* verifyToken, although its access token is still a valid JWT.
NoAccessAfterEnd == \A q \in Requests : req[q].late => ~req[q].granted

\* A browser that only ever sends the tokens its jar holds is never taken for a
\* replay: no refresh of it meets an active session whose hash is another token's
\* (the handler would revoke it, "Refresh token mismatch").
\* It takes one refresh in flight per jar, and every reply delivered.
HonestClientKept ==
    \A q \in Requests :
        req[q].pc = "select" /\ Active(req[q].sid) => req[q].iat = row[req[q].sid].hash

\* The row never expires before the newest refresh token signed for it does:
\* as long as the JWT verifies, expiry is not what turns the client away.
RowOutlivesToken ==
    \A s \in Sessions : row[s].user # None => row[s].hash + RefreshTTL <= row[s].expires

\* Whatever a reply reports as ended is ended.  POST /logout reports success also
\* when its UPDATE failed (auth.ts catches the error and answers the same).
ReportedEndedIsEnded == \A s \in told : row[s].revoked
=============================================================================
