------------------------- MODULE AuthSessionsProofs -------------------------
(***************************************************************************)
(* Proofs about AuthSessions, for every number of users, sessions,         *)
(* browsers and requests in flight and for every value of the lifetimes.   *)
(***************************************************************************)
EXTENDS AuthSessions, TLAPS

(***************************************************************************)
(* The inductive invariant behind the first four theorems.  RequestOK is   *)
(* what it says of one request in flight, beside a given table, clock and  *)
(* set of reported sessions.                                               *)
(***************************************************************************)

\* The handlers that work on the session of a token
Working == {"select", "rotate", "mismatch", "verify", "password", "revokeOthers", "revoke"}

RequestOK(r, table, now, reported) ==
    /\ r \in Request
    \* its token names a session that has a row, so no login can draw that id
    /\ r.sid # None => table[r.sid].user # None
    /\ r.pc \in Working => r.sid # None
    /\ r.pc = "insert" => r.user \in Users
    \* it is not signed in the future
    /\ r.iat <= now
    \* what a password change has set out to end are its user's other sessions
    /\ r.pc = "revokeOthers" =>
         \A s \in r.others : table[s].user = table[r.sid].user /\ s # r.sid
    \* what its reply rightly reports as ended is ended
    /\ \A s \in r.ack : table[s].revoked
    /\ r.late => r.sid \in reported /\ r.pc # "insert" /\ ~r.granted

JarsOK ==
    \A b \in Browsers :
        /\ jar[b].sid # None => row[jar[b].sid].user # None
        /\ jar[b].iat <= clock

RevokedRowsExist == \A s \in Sessions : row[s].revoked => row[s].user # None

IndInv ==
    /\ TypeOK
    /\ \A q \in Requests : RequestOK(req[q], row, clock, ended)
    /\ JarsOK
    /\ RevokedRowsExist
    /\ EndedStaysEnded
    /\ RowOutlivesToken

\* No step takes a row away, gives it to another user, or revives it
RowsKept ==
    \A s \in Sessions :
        /\ row[s].user # None => row'[s].user = row[s].user
        /\ row[s].revoked => row'[s].revoked

-----------------------------------------------------------------------------

LEMMA InitInd == Init => IndInv
  <1>1. NoRow \in Row /\ NoCookies \in Cookies /\ NoRequest \in Request
    BY DEF NoRow, Row, NoCookies, Cookies, NoRequest, Request, PCs, Ops
  <1>2. Init => TypeOK
    BY <1>1 DEF Init, TypeOK
  <1>3. ASSUME Init PROVE RequestOK(NoRequest, row, clock, ended)
    BY <1>1, <1>3 DEF Init, RequestOK, NoRequest, Working
  <1> QED
    BY <1>2, <1>3 DEF Init, IndInv, JarsOK, NoCookies, RevokedRowsExist, NoRow, EndedStaysEnded,
                      RowOutlivesToken

\* What a request in flight may rely on is not taken away by the steps of others
LEMMA RequestKept ==
  ASSUME TypeOK, row' \in [Sessions -> Row], clock' \in Nat,
         RowsKept, clock <= clock', ended \subseteq ended',
         NEW r, RequestOK(r, row, clock, ended)
  PROVE  RequestOK(r, row', clock', ended')
  <1>1. r \in Request /\ r.sid \in Sessions \cup {None} /\ r.iat \in Nat
        /\ r.others \subseteq Sessions /\ r.ack \subseteq Sessions
    BY DEF RequestOK, Request
  <1>2. r.pc = "revokeOthers" => r.sid # None
    BY DEF RequestOK, Working
  <1>3. r.pc = "revokeOthers" =>
          \A s \in r.others : row'[s].user = row'[r.sid].user /\ s # r.sid
    BY <1>1, <1>2 DEF RequestOK, RowsKept
  <1> QED BY <1>1, <1>3 DEF RequestOK, RowsKept, TypeOK

\* A step of the handler in slot q, which leaves the jars, the clock and the
\* reported sessions alone
LEMMA HandlerStep ==
  ASSUME IndInv, NEW q \in Requests, NEW r, req' = [req EXCEPT ![q] = r],
         row' \in [Sessions -> Row], RowsKept, RevokedRowsExist', RowOutlivesToken',
         UNCHANGED <<clock, jar, ended, told>>,
         RequestOK(r, row', clock, ended)
  PROVE  IndInv'
  <1>1. TypeOK'
    BY DEF IndInv, TypeOK, RequestOK
  <1>2. ASSUME NEW p \in Requests PROVE RequestOK(req'[p], row', clock', ended')
    <2>1. CASE p = q
      BY <2>1 DEF IndInv, TypeOK
    <2>2. CASE p # q
      <3>1. req'[p] = req[p]
        BY <2>2 DEF IndInv, TypeOK
      <3>2. RequestOK(req[p], row', clock', ended')
        BY RequestKept DEF IndInv, TypeOK
      <3> QED BY <3>1, <3>2
    <2> QED BY <2>1, <2>2
  <1>3. JarsOK'
    BY DEF IndInv, JarsOK, RowsKept, TypeOK, Cookies
  <1>4. EndedStaysEnded'
    BY DEF IndInv, TypeOK, EndedStaysEnded, RowsKept
  <1> QED BY <1>1, <1>2, <1>3, <1>4 DEF IndInv

\* A step that leaves the table alone as well
LEMMA LocalStep ==
  ASSUME IndInv, NEW q \in Requests, NEW r, req' = [req EXCEPT ![q] = r],
         UNCHANGED <<clock, row, jar, ended, told>>,
         RequestOK(r, row, clock, ended)
  PROVE  IndInv'
  <1>1. row' \in [Sessions -> Row] /\ RowsKept /\ RevokedRowsExist' /\ RowOutlivesToken'
    BY DEF IndInv, TypeOK, RowsKept, RevokedRowsExist, RowOutlivesToken
  <1> QED BY <1>1, HandlerStep
LEMMA NoRequestType == NoRequest \in Request
  BY DEF NoRequest, Request, PCs, Ops

LEMMA SaysType ==
  ASSUME NEW r \in Request, NEW s \in Sessions
  PROVE  [r EXCEPT !.pc = "reply", !.says = {s}] \in Request
  BY DEF Request, PCs

LEMMA TokensType ==
  ASSUME NEW r \in Request, NEW s \in Sessions
  PROVE  [r EXCEPT !.pc = "reply", !.cookie = "set", !.user = None, !.sid = s] \in Request
  BY DEF Request, PCs

LEMMA LoginSignInd ==
  ASSUME IndInv, NEW q \in Requests, NEW b \in Browsers, NEW u \in Users, LoginSign(q, b, u)
  PROVE  IndInv'
  <1>0. clock \in Nat
    BY DEF IndInv, TypeOK
  <1> DEFINE r == [NoRequest EXCEPT !.pc = "insert", !.op = "login", !.browser = b,
                                    !.user = u, !.iat = clock]
  <1>1. r \in Request
    BY <1>0, NoRequestType DEF Request, PCs, Ops
  <1>2. /\ r.pc = "insert" /\ r.user = u /\ r.sid = None /\ r.iat = clock
        /\ r.others = {} /\ r.ack = {} /\ r.late = FALSE /\ r.granted = FALSE
    BY DEF NoRequest
  <1>3. req' = [req EXCEPT ![q] = r]
    BY DEF LoginSign, Send, Put
  <1> HIDE DEF r
  <1>4. RequestOK(r, row, clock, ended)
    BY <1>0, <1>1, <1>2 DEF LoginSign, RequestOK, Working, IndInv, TypeOK
  <1> QED BY <1>3, <1>4, LocalStep DEF LoginSign, Send

LEMMA LoginErrorInd ==
  ASSUME IndInv, NEW q \in Requests, LoginError(q)
  PROVE  IndInv'
  <1>0. RequestOK(req[q], row, clock, ended) /\ req[q] \in Request
    BY DEF IndInv, TypeOK
  <1> DEFINE r == [req[q] EXCEPT !.pc = "reply", !.user = None]
  <1>1. r \in Request
    BY <1>0 DEF IndInv, TypeOK, Request, PCs
  <1>2. /\ r.pc = "reply" /\ r.sid = req[q].sid /\ r.iat = req[q].iat
        /\ r.others = req[q].others /\ r.ack = req[q].ack
        /\ r.late = req[q].late /\ r.granted = req[q].granted
    BY <1>0 DEF Request
  <1>3. req' = [req EXCEPT ![q] = r]
    BY DEF LoginError, Put
  <1> HIDE DEF r
  <1>4. RequestOK(r, row, clock, ended)
    BY <1>0, <1>1, <1>2 DEF LoginError, RequestOK, Working, IndInv, TypeOK
  <1> QED BY <1>3, <1>4, LocalStep DEF LoginError

LEMMA RefreshSendInd ==
  ASSUME IndInv, NEW q \in Requests, NEW b \in Browsers, NEW t \in Tabs, RefreshSend(q, b, t)
  PROVE  IndInv'
  <1>0. /\ jar[b].sid \in Sessions \cup {None} /\ jar[b].iat \in Nat /\ jar[b].iat <= clock
        /\ jar[b].sid # None => row[jar[b].sid].user # None
    BY DEF IndInv, TypeOK, Cookies, JarsOK
  <1> DEFINE r == [NoRequest EXCEPT !.pc = "select", !.op = "refresh", !.browser = b, !.tab = t,
                                  !.sid = jar[b].sid, !.iat = jar[b].iat]
  <1>1. r \in Request
    BY <1>0, NoRequestType DEF Request, PCs, Ops
  <1>2. /\ r.pc = "select" /\ r.sid = jar[b].sid /\ r.iat = jar[b].iat
        /\ r.others = {} /\ r.ack = {} /\ r.late = FALSE /\ r.granted = FALSE
    BY DEF NoRequest
  <1>3. req' = [req EXCEPT ![q] = r]
    BY DEF RefreshSend, Send, Put
  <1> HIDE DEF r
  <1>4. RequestOK(r, row, clock, ended)
    BY <1>0, <1>1, <1>2 DEF RefreshSend, RequestOK, Working, IndInv, TypeOK
  <1> QED BY <1>3, <1>4, LocalStep DEF RefreshSend, Send

\* The handlers that answer without issuing tokens
LEMMA AnswerInd ==
  ASSUME IndInv, NEW q \in Requests, req[q].pc \in Working, NEW c \in {"keep", "set", "clear"},
         Answer(q, c), UNCHANGED <<clock, row, jar, ended, told>>
  PROVE  IndInv'
  <1>0. RequestOK(req[q], row, clock, ended) /\ req[q] \in Request
    BY DEF IndInv, TypeOK
  <1> DEFINE r == [req[q] EXCEPT !.pc = "reply", !.iat = 0, !.others = {}, !.cookie = c]
  <1>1. r \in Request
    BY <1>0 DEF Request, PCs
  <1>2. /\ r.pc = "reply" /\ r.iat = 0 /\ r.others = {} /\ r.sid = req[q].sid
        /\ r.ack = req[q].ack /\ r.late = req[q].late /\ r.granted = req[q].granted
    BY <1>0 DEF Request
  <1>3. req' = [req EXCEPT ![q] = r]
    BY DEF Answer, Put
  <1> HIDE DEF r
  <1>4. RequestOK(r, row, clock, ended)
    BY <1>0, <1>1, <1>2 DEF RequestOK, Working, IndInv, TypeOK
  <1> QED BY <1>3, <1>4, LocalStep

LEMMA RefreshMismatchInd ==
  ASSUME IndInv, NEW q \in Requests, RefreshMismatch(q)
  PROVE  IndInv'
  <1>0. RequestOK(req[q], row, clock, ended) /\ req[q] \in Request
    BY DEF IndInv, TypeOK
  <1> DEFINE r == [req[q] EXCEPT !.pc = "mismatch", !.iat = 0]
  <1>1. r \in Request
    BY <1>0 DEF IndInv, TypeOK, Request, PCs
  <1>2. /\ r.pc = "mismatch" /\ r.sid = req[q].sid /\ r.iat = 0
        /\ r.others = req[q].others /\ r.ack = req[q].ack
        /\ r.late = req[q].late /\ r.granted = req[q].granted
    BY <1>0 DEF Request
  <1>3. req' = [req EXCEPT ![q] = r]
    BY DEF RefreshMismatch, Put
  <1> HIDE DEF r
  <1>4. RequestOK(r, row, clock, ended)
    BY <1>0, <1>1, <1>2 DEF RefreshMismatch, RequestOK, Working, IndInv, TypeOK
  <1> QED BY <1>3, <1>4, LocalStep DEF RefreshMismatch

LEMMA RefreshMatchInd ==
  ASSUME IndInv, NEW q \in Requests, RefreshMatch(q)
  PROVE  IndInv'
  <1>0. RequestOK(req[q], row, clock, ended) /\ req[q] \in Request
    BY DEF IndInv, TypeOK
  <1> DEFINE r == [req[q] EXCEPT !.pc = "rotate", !.iat = clock]
  <1>1. r \in Request
    BY <1>0 DEF IndInv, TypeOK, Request, PCs
  <1>2. /\ r.pc = "rotate" /\ r.sid = req[q].sid /\ r.iat = clock
        /\ r.others = req[q].others /\ r.ack = req[q].ack
        /\ r.late = req[q].late /\ r.granted = req[q].granted
    BY <1>0 DEF Request
  <1>3. req' = [req EXCEPT ![q] = r]
    BY DEF RefreshMatch, Put
  <1> HIDE DEF r
  <1>4. RequestOK(r, row, clock, ended)
    BY <1>0, <1>1, <1>2 DEF RefreshMatch, RequestOK, Working, IndInv, TypeOK
  <1> QED BY <1>3, <1>4, LocalStep DEF RefreshMatch

LEMMA AccessSendInd ==
  ASSUME IndInv, NEW q \in Requests, NEW b \in Browsers, NEW op \in {"access",
         "changePassword"}, AccessSend(q, b, op)
  PROVE  IndInv'
  <1>0. /\ jar[b].sid \in Sessions \cup {None} /\ jar[b].iat \in Nat /\ jar[b].iat <= clock
        /\ jar[b].sid # None => row[jar[b].sid].user # None
    BY DEF IndInv, TypeOK, Cookies, JarsOK
  <1> DEFINE late == jar[b].sid \in ended
             r == [NoRequest EXCEPT !.pc = "verify", !.op = op, !.browser = b,
                                    !.sid = jar[b].sid, !.iat = jar[b].iat, !.late = late]
  <1>00. late \in BOOLEAN
    OBVIOUS
  <1> HIDE DEF late
  <1>1. r \in Request
    BY <1>0, <1>00, NoRequestType DEF Request, PCs, Ops
  <1>2. /\ r.pc = "verify" /\ r.sid = jar[b].sid /\ r.iat = jar[b].iat
        /\ r.others = {} /\ r.ack = {} /\ r.late = late
        /\ r.granted = FALSE
    BY DEF NoRequest
  <1>3. req' = [req EXCEPT ![q] = r]
    BY DEF AccessSend, Send, Put, late
  <1> HIDE DEF r
  <1>4. RequestOK(r, row, clock, ended)
    BY <1>0, <1>1, <1>2 DEF AccessSend, RequestOK, Working, IndInv, TypeOK, late
  <1> QED BY <1>3, <1>4, LocalStep DEF AccessSend, Send

LEMMA VerifyGrantedInd ==
  ASSUME IndInv, NEW q \in Requests, VerifyGranted(q)
  PROVE  IndInv'
  <1>0. RequestOK(req[q], row, clock, ended) /\ req[q] \in Request
    BY DEF IndInv, TypeOK
  <1> DEFINE next == IF req[q].op = "changePassword" THEN "password" ELSE "reply"
             r == [req[q] EXCEPT !.granted = TRUE, !.pc = next]
  <1>00. next \in {"password", "reply"}
    OBVIOUS
  <1>3. req' = [req EXCEPT ![q] = r]
    BY DEF VerifyGranted, Put
  <1> HIDE DEF next
  <1>1. r \in Request
    BY <1>0, <1>00 DEF Request, PCs
  <1>2. /\ r.pc = next
        /\ r.sid = req[q].sid /\ r.iat = req[q].iat
        /\ r.others = req[q].others /\ r.ack = req[q].ack
        /\ r.late = req[q].late /\ r.granted = TRUE
    BY <1>0 DEF Request
  <1> HIDE DEF r
  <1>4. RequestOK(r, row, clock, ended)
    BY <1>0, <1>00, <1>1, <1>2 DEF VerifyGranted, RequestOK, Working, IndInv, TypeOK, Active,
       EndedStaysEnded
  <1> QED BY <1>3, <1>4, LocalStep DEF VerifyGranted

LEMMA PasswordUpdateInd ==
  ASSUME IndInv, NEW q \in Requests, PasswordUpdate(q)
  PROVE  IndInv'
  <1>0. RequestOK(req[q], row, clock, ended) /\ req[q] \in Request
    BY DEF IndInv, TypeOK
  <1>00. SessionsOf(row[req[q].sid].user) \ {req[q].sid} \in SUBSET Sessions
    BY DEF SessionsOf
  <1> DEFINE r == [req[q] EXCEPT !.pc = "revokeOthers",
              !.others = SessionsOf(row[req[q].sid].user) \ {req[q].sid}]
  <1>1. r \in Request
    BY <1>0, <1>00 DEF IndInv, TypeOK, Request, PCs
  <1>2. /\ r.pc = "revokeOthers" /\ r.sid = req[q].sid /\ r.iat = req[q].iat
        /\ r.others = SessionsOf(row[req[q].sid].user) \ {req[q].sid}
        /\ r.ack = req[q].ack /\ r.late = req[q].late
        /\ r.granted = req[q].granted
    BY <1>0 DEF Request
  <1>3. req' = [req EXCEPT ![q] = r]
    BY DEF PasswordUpdate, Put
  <1> HIDE DEF r
  <1>4. RequestOK(r, row, clock, ended)
    BY <1>0, <1>1, <1>2 DEF PasswordUpdate, RequestOK, Working, IndInv, TypeOK, SessionsOf
  <1> QED BY <1>3, <1>4, LocalStep DEF PasswordUpdate

LEMMA LogoutSendInd ==
  ASSUME IndInv, NEW q \in Requests, NEW b \in Browsers, LogoutSend(q, b)
  PROVE  IndInv'
  <1>0. /\ jar[b].sid \in Sessions \cup {None} /\ jar[b].iat \in Nat /\ jar[b].iat <= clock
        /\ jar[b].sid # None => row[jar[b].sid].user # None
    BY DEF IndInv, TypeOK, Cookies, JarsOK
  <1> DEFINE next == IF jar[b].sid = None THEN "reply" ELSE "revoke"
             r == [NoRequest EXCEPT !.pc = next,
                                  !.op = "logout", !.browser = b, !.sid = jar[b].sid,
                                  !.cookie = "clear"]
  <1>00. next \in PCs
    BY DEF PCs
  <1> HIDE DEF next
  <1>1. r \in Request
    BY <1>0, <1>00, NoRequestType DEF Request, PCs, Ops
  <1>2. /\ r.pc = next
        /\ r.sid = jar[b].sid /\ r.iat = 0 /\ r.others = {} /\ r.ack = {}
        /\ r.late = FALSE /\ r.granted = FALSE
    BY DEF NoRequest
  <1>3. req' = [req EXCEPT ![q] = r]
    BY DEF LogoutSend, Send, Put, next
  <1> HIDE DEF r
  <1>4. RequestOK(r, row, clock, ended)
    BY <1>0, <1>1, <1>2 DEF LogoutSend, RequestOK, Working, IndInv, TypeOK, next
  <1> QED BY <1>3, <1>4, LocalStep DEF LogoutSend, Send

LEMMA LogoutErrorInd ==
  ASSUME IndInv, NEW q \in Requests, LogoutError(q)
  PROVE  IndInv'
  <1>0. RequestOK(req[q], row, clock, ended) /\ req[q] \in Request
    BY DEF IndInv, TypeOK
  <1>00. req[q].sid \in Sessions
    BY <1>0 DEF LogoutError, RequestOK, Working, Request
  <1> DEFINE r == [req[q] EXCEPT !.pc = "reply", !.says = {req[q].sid}]
  <1>1. r \in Request
    BY <1>0, <1>00, SaysType
  <1>2. /\ r.pc = "reply" /\ r.sid = req[q].sid /\ r.iat = req[q].iat
        /\ r.others = req[q].others /\ r.ack = req[q].ack
        /\ r.late = req[q].late /\ r.granted = req[q].granted
    BY <1>0 DEF Request
  <1>3. req' = [req EXCEPT ![q] = r]
    BY DEF LogoutError, Put
  <1> HIDE DEF r
  <1>4. RequestOK(r, row, clock, ended)
    BY <1>0, <1>1, <1>2 DEF LogoutError, RequestOK, Working, IndInv, TypeOK
  <1> QED BY <1>3, <1>4, LocalStep DEF LogoutError
-----------------------------------------------------------------------------
(* The actions that write the table.                                       *)

LEMMA LoginInsertInd ==
  ASSUME IndInv, NEW q \in Requests, NEW s \in Sessions, LoginInsert(q, s)
  PROVE  IndInv'
  <1>0. RequestOK(req[q], row, clock, ended) /\ req[q] \in Request /\ clock \in Nat
        /\ row \in [Sessions -> Row] /\ row[s].user = None /\ ~row[s].revoked
        /\ s \notin req[q].ack /\ req[q].pc = "insert"
    BY DEF IndInv, TypeOK, LoginInsert, RevokedRowsExist, RequestOK
  <1>00. req[q].user # None
    BY <1>0, NoneAssumption DEF RequestOK
  <1>11. clock + RefreshTTL \in Nat /\ req[q].browser \in Browsers \cup {None}
                                    /\ req[q].user \in Users
        /\ req[q].iat \in Nat /\ req[q].iat <= clock
    BY <1>0, TTLAssumption DEF Request, RequestOK
  <1> DEFINE new == [user |-> req[q].user, browser |-> req[q].browser, hash |-> req[q].iat,
                     expires |-> clock + RefreshTTL, revoked |-> FALSE]
             r == [req[q] EXCEPT !.pc = "reply", !.cookie = "set", !.user = None, !.sid = s]
  <1>1. new \in Row /\ new.user = req[q].user /\ new.hash = req[q].iat /\ ~new.revoked
        /\ new.expires = clock + RefreshTTL
    BY <1>0, <1>11 DEF Row
  <1> HIDE DEF new
  <1>2. r \in Request
    BY <1>0, TokensType
  <1>3. /\ r.pc = "reply" /\ r.sid = s /\ r.iat = req[q].iat /\ r.ack = req[q].ack
        /\ r.late = req[q].late /\ r.granted = req[q].granted
    BY <1>0 DEF Request
  <1>4. req' = [req EXCEPT ![q] = r] /\ row' = [row EXCEPT ![s] = new]
    BY DEF LoginInsert, Put, new
  <1> HIDE DEF r
  <1>5. row' \in [Sessions -> Row] /\ RowsKept /\ RevokedRowsExist' /\ RowOutlivesToken'
    BY <1>0, <1>00, <1>1, <1>11, <1>4, TTLAssumption
       DEF RowsKept, IndInv, RevokedRowsExist, RowOutlivesToken, Row
  <1>6. RequestOK(r, row', clock, ended)
    BY <1>0, <1>00, <1>1, <1>2, <1>3, <1>4 DEF RequestOK, Request, Working
  <1> QED BY <1>4, <1>5, <1>6, HandlerStep DEF LoginInsert

LEMMA RevokeRow ==
  ASSUME IndInv, NEW s \in Sessions, row[s].user # None,
         row' = [row EXCEPT ![s].revoked = TRUE]
  PROVE  /\ row' \in [Sessions -> Row] /\ RowsKept /\ RevokedRowsExist' /\ RowOutlivesToken'
         /\ row'[s].revoked
  <1>1. row' \in [Sessions -> Row]
    BY DEF IndInv, TypeOK, Row
  <1>2. \A u \in Sessions : /\ row'[u].user = row[u].user /\ row'[u].hash = row[u].hash
                            /\ row'[u].expires = row[u].expires
                            /\ row'[u].revoked = (row[u].revoked \/ u = s)
    BY DEF IndInv, TypeOK, Row
  <1> QED BY <1>1, <1>2 DEF IndInv, RowsKept, RevokedRowsExist, RowOutlivesToken

LEMMA RefreshRotateInd ==
  ASSUME IndInv, NEW q \in Requests, RefreshRotate(q)
  PROVE  IndInv'
  <1>0. RequestOK(req[q], row, clock, ended) /\ req[q] \in Request
        /\ row \in [Sessions -> Row] /\ clock \in Nat
    BY DEF IndInv, TypeOK
  <1>00. req[q].sid \in Sessions /\ row[req[q].sid].user # None /\ req[q].iat \in Nat
         /\ req[q].iat <= clock /\ clock + RefreshTTL \in Nat
    BY <1>0, TTLAssumption DEF RefreshRotate, RequestOK, Working, Request
  <1> DEFINE r == [req[q] EXCEPT !.pc = "reply", !.cookie = "set"]
  <1>1. r \in Request
    BY <1>0 DEF Request, PCs
  <1>2. /\ r.pc = "reply" /\ r.sid = req[q].sid /\ r.iat = req[q].iat /\ r.ack = req[q].ack
        /\ r.late = req[q].late /\ r.granted = req[q].granted
    BY <1>0 DEF Request
  <1>3. req' = [req EXCEPT ![q] = r]
    BY DEF RefreshRotate, Put
  <1> HIDE DEF r
  <1>4. row' \in [Sessions -> Row]
    BY <1>0, <1>00 DEF RefreshRotate, Rotated, Row
  <1>5. \A s \in Sessions :
          /\ row'[s].user = row[s].user /\ row'[s].revoked = row[s].revoked
          /\ s # req[q].sid => row'[s] = row[s]
          /\ s = req[q].sid => row'[s].hash = req[q].iat /\ row'[s].expires = clock + RefreshTTL
    BY <1>0, <1>00 DEF RefreshRotate, Rotated, Row
  <1>6. RowsKept /\ RevokedRowsExist' /\ RowOutlivesToken'
    BY <1>0, <1>00, <1>5, TTLAssumption
       DEF IndInv, RowsKept, RevokedRowsExist, RowOutlivesToken
  <1>7. RequestOK(r, row', clock, ended)
    BY <1>0, <1>00, <1>1, <1>2, <1>5 DEF RequestOK, Working, Request
  <1> QED BY <1>3, <1>4, <1>6, <1>7, HandlerStep DEF RefreshRotate

LEMMA RefreshRevokeInd ==
  ASSUME IndInv, NEW q \in Requests, RefreshRevoke(q)
  PROVE  IndInv'
  <1>0. RequestOK(req[q], row, clock, ended) /\ req[q] \in Request /\ clock \in Nat
    BY DEF IndInv, TypeOK
  <1>00. req[q].sid \in Sessions /\ row[req[q].sid].user # None
    BY <1>0 DEF RefreshRevoke, RequestOK, Working, Request
  <1> DEFINE r == [req[q] EXCEPT !.pc = "reply", !.iat = 0, !.others = {}, !.cookie = "clear"]
  <1>1. r \in Request
    BY <1>0 DEF Request, PCs
  <1>2. /\ r.pc = "reply" /\ r.sid = req[q].sid /\ r.iat = 0 /\ r.ack = req[q].ack
        /\ r.late = req[q].late /\ r.granted = req[q].granted
    BY <1>0 DEF Request
  <1>3. req' = [req EXCEPT ![q] = r]
    BY DEF RefreshRevoke, Answer, Put
  <1> HIDE DEF r
  <1>4. row' \in [Sessions -> Row] /\ RowsKept /\ RevokedRowsExist' /\ RowOutlivesToken'
    BY <1>00, RevokeRow DEF RefreshRevoke
  <1>5. RequestOK(r, row', clock, ended)
    BY <1>0, <1>00, <1>1, <1>2, <1>4 DEF RequestOK, Working, Request, RowsKept
  <1> QED BY <1>3, <1>4, <1>5, HandlerStep DEF RefreshRevoke

LEMMA LogoutRevokeInd ==
  ASSUME IndInv, NEW q \in Requests, LogoutRevoke(q)
  PROVE  IndInv'
  <1>0. RequestOK(req[q], row, clock, ended) /\ req[q] \in Request
    BY DEF IndInv, TypeOK
  <1>00. req[q].sid \in Sessions /\ row[req[q].sid].user # None
    BY <1>0 DEF LogoutRevoke, RequestOK, Working, Request
  <1> DEFINE r == [req[q] EXCEPT !.pc = "reply", !.ack = {req[q].sid}, !.says = {req[q].sid}]
  <1>1. r \in Request
    BY <1>0, <1>00 DEF Request, PCs
  <1>2. /\ r.pc = "reply" /\ r.sid = req[q].sid /\ r.iat = req[q].iat /\ r.ack = {req[q].sid}
        /\ r.late = req[q].late /\ r.granted = req[q].granted
    BY <1>0 DEF Request
  <1>3. req' = [req EXCEPT ![q] = r]
    BY DEF LogoutRevoke, Put
  <1> HIDE DEF r
  <1>4. row' \in [Sessions -> Row] /\ RowsKept /\ RevokedRowsExist' /\ RowOutlivesToken'
        /\ row'[req[q].sid].revoked
    BY <1>00, RevokeRow DEF LogoutRevoke
  <1>5. RequestOK(r, row', clock, ended)
    BY <1>0, <1>00, <1>1, <1>2, <1>4 DEF RequestOK, Working, Request, RowsKept
  <1> QED BY <1>3, <1>4, <1>5, HandlerStep DEF LogoutRevoke

LEMMA PasswordRevokeOthersInd ==
  ASSUME IndInv, NEW q \in Requests, PasswordRevokeOthers(q)
  PROVE  IndInv'
  <1>0. RequestOK(req[q], row, clock, ended) /\ req[q] \in Request /\ clock \in Nat
        /\ row \in [Sessions -> Row]
    BY DEF IndInv, TypeOK
  <1>00. req[q].sid \in Sessions /\ row[req[q].sid].user # None
                                 /\ req[q].others \subseteq Sessions
         /\ \A s \in req[q].others : row[s].user = row[req[q].sid].user /\ s # req[q].sid
    BY <1>0 DEF PasswordRevokeOthers, RequestOK, Working, Request
  <1> DEFINE r == [req[q] EXCEPT !.pc = "reply", !.iat = 0, !.others = {},
                                 !.ack = req[q].others, !.says = req[q].others]
             revoked(s) == row[s].revoked \/ (row[s].user = row[req[q].sid].user
                     /\ s # req[q].sid)
  <1>1. r \in Request
    BY <1>0 DEF Request, PCs
  <1>2. /\ r.pc = "reply" /\ r.sid = req[q].sid /\ r.iat = 0 /\ r.ack = req[q].others
        /\ r.late = req[q].late /\ r.granted = req[q].granted
    BY <1>0 DEF Request
  <1>3. req' = [req EXCEPT ![q] = r]
    BY DEF PasswordRevokeOthers, Put
  <1> HIDE DEF r
  <1>4. row' = [s \in Sessions |-> [row[s] EXCEPT !.revoked = revoked(s)]]
    BY DEF PasswordRevokeOthers
  <1>5. \A s \in Sessions : revoked(s) \in BOOLEAN
    BY <1>0 DEF Row
  <1>6. \A s \in Sessions : revoked(s) <=> 
          (row[s].revoked \/ (row[s].user = row[req[q].sid].user /\ s # req[q].sid))
    OBVIOUS
  <1> HIDE DEF revoked
  <1>7. row' \in [Sessions -> Row]
    BY <1>0, <1>4, <1>5 DEF Row
  <1>8. \A s \in Sessions : /\ row'[s].user = row[s].user /\ row'[s].hash = row[s].hash
                            /\ row'[s].expires = row[s].expires /\ row'[s].revoked = revoked(s)
    BY <1>0, <1>4 DEF Row
  <1>9. RowsKept /\ RevokedRowsExist' /\ RowOutlivesToken'
    BY <1>00, <1>6, <1>8 DEF IndInv, RowsKept, RevokedRowsExist, RowOutlivesToken
  <1>10. RequestOK(r, row', clock, ended)
    BY <1>0, <1>00, <1>1, <1>2, <1>6, <1>8 DEF RequestOK, Working, Request
  <1> QED BY <1>3, <1>7, <1>9, <1>10, HandlerStep DEF PasswordRevokeOthers

-----------------------------------------------------------------------------
(* The steps that are no handler's.                                        *)

LEMMA DeliverInd ==
  ASSUME IndInv, NEW q \in Requests, Deliver(q)
  PROVE  IndInv'
  <1>0. RequestOK(req[q], row, clock, ended) /\ req[q] \in Request /\ clock \in Nat
        /\ row \in [Sessions -> Row] /\ jar \in [Browsers -> Cookies]
        /\ req \in [Requests -> Request] /\ ended \subseteq Sessions /\ told \subseteq Sessions
    BY DEF IndInv, TypeOK
  <1>00. /\ req[q].sid \in Sessions \cup {None} /\ req[q].iat \in Nat /\ req[q].iat <= clock
         /\ req[q].sid # None => row[req[q].sid].user # None
         /\ req[q].ack \subseteq Sessions /\ req[q].says \subseteq Sessions
         /\ \A s \in req[q].ack : row[s].revoked
    BY <1>0 DEF RequestOK, Request
  <1> DEFINE pair == [sid |-> req[q].sid, iat |-> req[q].iat]
  <1>1. pair \in Cookies /\ pair.sid = req[q].sid /\ pair.iat = req[q].iat
    BY <1>00 DEF Cookies
  <1>2. NoCookies \in Cookies /\ NoCookies.sid = None /\ NoCookies.iat = 0
    BY DEF Cookies, NoCookies
  <1>3. /\ UNCHANGED <<clock, row>> /\ req' = [req EXCEPT ![q] = NoRequest]
        /\ ended' = ended \cup req[q].ack /\ told' = told \cup req[q].says
        /\ \/ jar' = [jar EXCEPT ![req[q].browser] = pair]
           \/ jar' = [jar EXCEPT ![req[q].browser] = NoCookies]
           \/ jar' = jar
    BY DEF Deliver, Put
  <1> HIDE DEF pair
  <1>4. \A b \in Browsers : jar'[b] = jar[b] \/ jar'[b] = pair \/ jar'[b] = NoCookies
    BY <1>0, <1>3
  <1>5. JarsOK'
    BY <1>0, <1>00, <1>1, <1>2, <1>3, <1>4 DEF IndInv, JarsOK
  <1>6. TypeOK'
    BY <1>0, <1>00, <1>1, <1>2, <1>3, NoRequestType DEF TypeOK
  <1>7. EndedStaysEnded'
    BY <1>00, <1>3 DEF IndInv, EndedStaysEnded
  <1>8. RequestOK(NoRequest, row', clock', ended')
    BY <1>0, <1>3, NoRequestType DEF RequestOK, NoRequest, Working
  <1>9. ASSUME NEW p \in Requests PROVE RequestOK(req'[p], row', clock', ended')
    <2>1. RequestOK(req[p], row', clock', ended')
      BY <1>0, <1>3, RequestKept DEF IndInv, RowsKept
    <2> QED BY <1>0, <1>3, <1>8, <2>1
  <1> QED
    BY <1>3, <1>5, <1>6, <1>7, <1>9 DEF IndInv, RevokedRowsExist, RowOutlivesToken

LEMMA LoseInd ==
  ASSUME IndInv, NEW q \in Requests, Lose(q)
  PROVE  IndInv'
  <1>1. RequestOK(NoRequest, row, clock, ended)
    BY NoRequestType DEF IndInv, TypeOK, RequestOK, NoRequest, Working
  <1> QED BY <1>1, LocalStep DEF Lose, Put

LEMMA TickInd ==
  ASSUME IndInv, Tick
  PROVE  IndInv'
  <1>1. /\ clock \in Nat /\ clock' = clock + 1 /\ UNCHANGED <<row, jar, req, ended, told>>
        /\ row \in [Sessions -> Row] /\ jar \in [Browsers -> Cookies]
    BY DEF Tick, IndInv, TypeOK
  <1>2. TypeOK'
    BY <1>1 DEF IndInv, TypeOK
  <1>3. ASSUME NEW p \in Requests PROVE RequestOK(req'[p], row', clock', ended')
    BY <1>1, RequestKept DEF IndInv, RowsKept
  <1>4. JarsOK'
    BY <1>1 DEF IndInv, JarsOK, Cookies
  <1> QED
    BY <1>1, <1>2, <1>3, <1>4 DEF IndInv, EndedStaysEnded, RevokedRowsExist, RowOutlivesToken

LEMMA StepInd == IndInv /\ [Next]_vars => IndInv'
  <1> SUFFICES ASSUME IndInv, [Next]_vars PROVE IndInv'
    OBVIOUS
  <1>1. CASE UNCHANGED vars
    BY <1>1 DEF vars, IndInv, TypeOK, JarsOK, EndedStaysEnded, RevokedRowsExist,
                RowOutlivesToken
  <1>2. CASE Tick
    BY <1>2, TickInd
  <1>3. ASSUME NEW q \in Requests, Login(q) PROVE IndInv'
    BY <1>3, LoginSignInd, LoginInsertInd, LoginErrorInd DEF Login
  <1>4. ASSUME NEW q \in Requests, Refresh(q) PROVE IndInv'
    <2>1. CASE RefreshNoSession(q) \/ RefreshError(q)
      BY <2>1, AnswerInd DEF RefreshNoSession, RefreshError, Working
    <2> QED
      BY <1>4, <2>1, RefreshSendInd, RefreshMismatchInd, RefreshMatchInd, RefreshRotateInd,
         RefreshRevokeInd DEF Refresh
  <1>5. ASSUME NEW q \in Requests, Access(q) PROVE IndInv'
    <2>1. CASE VerifyDenied(q) \/ PasswordRejected(q) \/ PasswordError(q)
      BY <2>1, AnswerInd DEF VerifyDenied, PasswordRejected, PasswordError, Working
    <2> QED
      BY <1>5, <2>1, AccessSendInd, VerifyGrantedInd, PasswordUpdateInd, PasswordRevokeOthersInd
         DEF Access
  <1>6. ASSUME NEW q \in Requests, Logout(q) PROVE IndInv'
    BY <1>6, LogoutSendInd, LogoutRevokeInd, LogoutErrorInd DEF Logout
  <1>7. ASSUME NEW q \in Requests, Deliver(q) \/ Lose(q) PROVE IndInv'
    BY <1>7, DeliverInd, LoseInd
  <1> QED BY <1>1, <1>2, <1>3, <1>4, <1>5, <1>6, <1>7 DEF Next

THEOREM Inductive == Spec => []IndInv
  BY InitInd, StepInd, PTL DEF Spec

-----------------------------------------------------------------------------

\* The variables have their types in every reachable state: the table, the cookie
\* jars and the locals of every handler of auth.ts
THEOREM TypeCorrect == Spec => []TypeOK
  <1>1. IndInv => TypeOK
    BY DEF IndInv
  <1> QED BY <1>1, Inductive, PTL

\* A session reported as ended stays revoked, however many refreshes that had read
\* its row before are still to write to it (UPDATE ... SET refresh_token_hash, auth.ts)
THEOREM EndedStaysEndedCorrect == Spec => []EndedStaysEnded
  <1>1. IndInv => EndedStaysEnded
    BY DEF IndInv
  <1> QED BY <1>1, Inductive, PTL

\* verifyToken admits no request that was sent after its session had been reported
\* as ended, however long its access token remains valid
THEOREM NoAccessAfterEndCorrect == Spec => []NoAccessAfterEnd
  <1>1. IndInv => NoAccessAfterEnd
    BY DEF IndInv, RequestOK, NoAccessAfterEnd
  <1> QED BY <1>1, Inductive, PTL

\* A row expires no earlier than the refresh token whose hash it keeps, although
\* the token is signed when the row is read and the row is updated later
THEOREM RowOutlivesTokenCorrect == Spec => []RowOutlivesToken
  <1>1. IndInv => RowOutlivesToken
    BY DEF IndInv
  <1> QED BY <1>1, Inductive, PTL

(***************************************************************************)
(* An honest browser keeps its session (HonestClientKept): one page per    *)
(* browser, every request and every reply delivered.                       *)
(***************************************************************************)

\* A session stays with the browser it was opened from
OwnSessions ==
    /\ \A b \in Browsers : jar[b].sid # None => row[jar[b].sid].browser = b
    /\ \A q \in Requests : /\ req[q].sid # None => row[req[q].sid].browser = req[q].browser
                           /\ req[q].pc # "idle" => req[q].browser \in Browsers

\* At most one refresh is in flight per browser; only refreshes rotate
OneRefresh ==
    /\ \A p, q \in Requests : req[p].op = "refresh" /\ req[q].op = "refresh"
                              /\ req[p].browser = req[q].browser => p = q
    /\ \A q \in Requests :
         /\ req[q].op = "refresh" => req[q].tab \in Tabs
         /\ req[q].pc \in {"select", "rotate", "mismatch"} => req[q].op = "refresh"
         /\ req[q].pc = "insert" => req[q].op = "login"

\* A reply that sets cookies carries the newest token of its session
SetsNewest ==
    \A q \in Requests : req[q].cookie = "set" =>
        /\ req[q].pc = "reply"
        /\ req[q].op \in {"login", "refresh"}
        /\ req[q].sid # None
        /\ req[q].iat = row[req[q].sid].hash

\* Nobody but its login reply knows a session whose cookies have not arrived yet
UndeliveredLogin ==
    \A q \in Requests : req[q].op = "login" /\ req[q].sid # None =>
        /\ req[q].pc = "reply"
        /\ \A b \in Browsers : jar[b].sid # req[q].sid
        /\ \A p \in Requests : p # q => req[p].sid # req[q].sid

\* The jar holds the newest token, or the refresh reply that brings it is on its way
JarIsNewest ==
    \A b \in Browsers : jar[b].sid # None =>
        \/ jar[b].iat = row[jar[b].sid].hash
        \/ \E q \in Requests : /\ req[q].op = "refresh" /\ req[q].cookie = "set"
                               /\ req[q].sid = jar[b].sid /\ req[q].browser = b

\* A refresh was sent with the newest token
SelectsNewest ==
    \A q \in Requests : req[q].pc = "select" => req[q].iat = row[req[q].sid].hash

HonestInv ==
    /\ IndInv
    /\ OwnSessions
    /\ OneRefresh
    /\ SetsNewest
    /\ UndeliveredLogin
    /\ JarIsNewest
    /\ SelectsNewest

\* One page per browser
OnePage == \A t, u \in Tabs : t = u

\* No step signs a token for a session, or moves it to another browser
HashesKept ==
    \A s \in Sessions : row'[s].hash = row[s].hash /\ row'[s].browser = row[s].browser

-----------------------------------------------------------------------------

LEMMA InitHonest == Init => HonestInv
  <1>1. NoRequest.pc = "idle" /\ NoRequest.op = "none" /\ NoRequest.sid = None
        /\ NoRequest.cookie = "keep" /\ NoCookies.sid = None
    BY DEF NoRequest, NoCookies
  <1> QED
    BY <1>1, InitInd DEF Init, HonestInv, OwnSessions, OneRefresh, SetsNewest,
                         UndeliveredLogin, JarIsNewest, SelectsNewest

\* A request that leaves a free slot: it names no session, or the one in the jar
LEMMA SendHonest ==
  ASSUME HonestInv, IndInv', NEW q \in Requests, req[q].pc = "idle", NEW r \in Request,
         req' = [req EXCEPT ![q] = r], UNCHANGED <<row, jar>>,
         r.browser \in Browsers,
         r.sid = None \/ r.sid = jar[r.browser].sid,
         r.cookie # "set",
         r.op = "login" => r.sid = None,
         r.pc = "insert" => r.op = "login",
         r.pc \in {"select", "rotate", "mismatch"} => r.op = "refresh",
         r.op = "refresh" =>
            r.tab \in Tabs
                    /\ \A p \in Requests : req[p].op = "refresh" => req[p].browser # r.browser,
         r.pc = "select" => r.iat = row[r.sid].hash
  PROVE  HonestInv'
  <1>1. /\ req'[q] = r /\ \A p \in Requests : p # q => req'[p] = req[p]
    BY DEF HonestInv, IndInv, TypeOK
  <1>2. OwnSessions'
    BY <1>1 DEF HonestInv, OwnSessions
  <1>3. OneRefresh'
    BY <1>1 DEF HonestInv, OneRefresh
  <1>4. SetsNewest'
    BY <1>1 DEF HonestInv, SetsNewest
  <1>5. UndeliveredLogin'
    BY <1>1 DEF HonestInv, UndeliveredLogin
  <1>6. JarIsNewest'
    BY <1>1 DEF HonestInv, JarIsNewest, SetsNewest
  <1>7. SelectsNewest'
    BY <1>1 DEF HonestInv, SelectsNewest
  <1> QED BY <1>2, <1>3, <1>4, <1>5, <1>6, <1>7 DEF HonestInv

\* A handler that goes on, or answers, without issuing tokens
LEMMA HandlerHonest ==
  ASSUME HonestInv, IndInv', NEW q \in Requests, NEW r \in Request,
         req' = [req EXCEPT ![q] = r], HashesKept, UNCHANGED jar,
         req[q].pc \notin {"idle", "reply"},
         r.browser = req[q].browser, r.tab = req[q].tab, r.op = req[q].op, r.sid = req[q].sid,
         r.cookie # "set",
         r.pc \in {"rotate", "mismatch", "password", "revokeOthers", "reply"},
         r.pc \in {"rotate", "mismatch"} => req[q].pc = "select"
  PROVE  HonestInv'
  <1>1. /\ req'[q] = r /\ \A p \in Requests : p # q => req'[p] = req[p]
    BY DEF HonestInv, IndInv, TypeOK
  <1>2. OwnSessions'
    <2>1. /\ \A b \in Browsers : jar[b].sid # None => jar[b].sid \in Sessions
          /\ \A p \in Requests : req[p].sid # None => req[p].sid \in Sessions
      BY DEF HonestInv, IndInv, TypeOK, Cookies, Request
    <2> QED BY <1>1, <2>1 DEF HonestInv, OwnSessions, HashesKept
  <1>3. OneRefresh'
    BY <1>1 DEF HonestInv, OneRefresh
  <1>4. SetsNewest'
    <2>1. \A p \in Requests : req[p].sid # None => req[p].sid \in Sessions
      BY DEF HonestInv, IndInv, TypeOK, Request
    <2> QED BY <1>1, <2>1 DEF HonestInv, SetsNewest, HashesKept
  <1>5. UndeliveredLogin'
    BY <1>1 DEF HonestInv, UndeliveredLogin
  <1>6. JarIsNewest'
    <2>1. \A b \in Browsers : jar[b].sid # None => jar[b].sid \in Sessions
      BY DEF HonestInv, IndInv, TypeOK, Cookies
    <2>2. req[q].cookie # "set"
      BY DEF HonestInv, SetsNewest
    <2> QED BY <1>1, <2>1, <2>2 DEF HonestInv, JarIsNewest, HashesKept
  <1>7. SelectsNewest'
    <2>1. \A p \in Requests : req[p].pc = "select" => req[p].sid \in Sessions
      BY DEF HonestInv, IndInv, TypeOK, Request, RequestOK, Working
    <2> QED BY <1>1, <2>1 DEF HonestInv, SelectsNewest, HashesKept
  <1> QED BY <1>2, <1>3, <1>4, <1>5, <1>6, <1>7 DEF HonestInv
LEMMA AnswerHonest ==
  ASSUME HonestInv, IndInv', NEW q \in Requests, NEW c \in {"keep", "clear"}, Answer(q, c),
         req[q].pc \notin {"idle", "reply"}, HashesKept, UNCHANGED jar
  PROVE  HonestInv'
  <1>0. req[q] \in Request /\ req'[q] \in Request /\ req \in [Requests -> Request]
    BY DEF HonestInv, IndInv, TypeOK
  <1> DEFINE r == [req[q] EXCEPT !.pc = "reply", !.iat = 0, !.others = {}, !.cookie = c]
  <1>1. req' = [req EXCEPT ![q] = r]
    BY DEF Answer, Put
  <1>2. /\ r.browser = req[q].browser /\ r.tab = req[q].tab /\ r.op = req[q].op
        /\ r.sid = req[q].sid
        /\ r.pc = "reply" /\ r.cookie = c
    BY <1>0 DEF Request
  <1> HIDE DEF r
  <1>3. r \in Request
    BY <1>0, <1>1
  <1> QED BY <1>1, <1>2, <1>3, HandlerHonest

LEMMA LoginErrorHonest ==
  ASSUME HonestInv, IndInv', NEW q \in Requests, LoginError(q)
  PROVE  HonestInv'
  <1>0. req[q] \in Request /\ req'[q] \in Request /\ req \in [Requests -> Request]
        /\ row \in [Sessions -> Row] /\ RequestOK(req[q], row, clock, ended)
    BY DEF HonestInv, IndInv, TypeOK
  <1> DEFINE r == [req[q] EXCEPT !.pc = "reply", !.user = None]
  <1>1. req' = [req EXCEPT ![q] = r]
    BY DEF LoginError, Put
  <1>2. /\ r.browser = req[q].browser /\ r.tab = req[q].tab /\ r.op = req[q].op
        /\ r.sid = req[q].sid
        /\ r.pc = "reply" /\ r.cookie = req[q].cookie
    BY <1>0 DEF Request
  <1> HIDE DEF r
  <1>3. r \in Request
    BY <1>0, <1>1
  <1>4. HashesKept /\ UNCHANGED jar
    BY DEF LoginError, HashesKept
  <1>5. req[q].cookie # "set"
    BY <1>0 DEF LoginError, HonestInv, SetsNewest
  <1> QED BY <1>1, <1>2, <1>3, <1>4, <1>5, HandlerHonest DEF LoginError

LEMMA RefreshMismatchHonest ==
  ASSUME HonestInv, IndInv', NEW q \in Requests, RefreshMismatch(q)
  PROVE  HonestInv'
  <1>0. req[q] \in Request /\ req'[q] \in Request /\ req \in [Requests -> Request]
        /\ row \in [Sessions -> Row] /\ RequestOK(req[q], row, clock, ended)
    BY DEF HonestInv, IndInv, TypeOK
  <1> DEFINE r == [req[q] EXCEPT !.pc = "mismatch", !.iat = 0]
  <1>1. req' = [req EXCEPT ![q] = r]
    BY DEF RefreshMismatch, Put
  <1>2. /\ r.browser = req[q].browser /\ r.tab = req[q].tab /\ r.op = req[q].op
        /\ r.sid = req[q].sid
        /\ r.pc = "mismatch" /\ r.cookie = req[q].cookie
    BY <1>0 DEF Request
  <1> HIDE DEF r
  <1>3. r \in Request
    BY <1>0, <1>1
  <1>4. HashesKept /\ UNCHANGED jar
    BY DEF RefreshMismatch, HashesKept
  <1>5. req[q].cookie # "set"
    BY <1>0 DEF RefreshMismatch, HonestInv, SetsNewest
  <1> QED BY <1>1, <1>2, <1>3, <1>4, <1>5, HandlerHonest DEF RefreshMismatch

LEMMA RefreshMatchHonest ==
  ASSUME HonestInv, IndInv', NEW q \in Requests, RefreshMatch(q)
  PROVE  HonestInv'
  <1>0. req[q] \in Request /\ req'[q] \in Request /\ req \in [Requests -> Request]
        /\ row \in [Sessions -> Row] /\ RequestOK(req[q], row, clock, ended)
    BY DEF HonestInv, IndInv, TypeOK
  <1> DEFINE r == [req[q] EXCEPT !.pc = "rotate", !.iat = clock]
  <1>1. req' = [req EXCEPT ![q] = r]
    BY DEF RefreshMatch, Put
  <1>2. /\ r.browser = req[q].browser /\ r.tab = req[q].tab /\ r.op = req[q].op
        /\ r.sid = req[q].sid
        /\ r.pc = "rotate" /\ r.cookie = req[q].cookie
    BY <1>0 DEF Request
  <1> HIDE DEF r
  <1>3. r \in Request
    BY <1>0, <1>1
  <1>4. HashesKept /\ UNCHANGED jar
    BY DEF RefreshMatch, HashesKept
  <1>5. req[q].cookie # "set"
    BY <1>0 DEF RefreshMatch, HonestInv, SetsNewest
  <1> QED BY <1>1, <1>2, <1>3, <1>4, <1>5, HandlerHonest DEF RefreshMatch

LEMMA VerifyGrantedHonest ==
  ASSUME HonestInv, IndInv', NEW q \in Requests, VerifyGranted(q)
  PROVE  HonestInv'
  <1>0. req[q] \in Request /\ req'[q] \in Request /\ req \in [Requests -> Request]
        /\ row \in [Sessions -> Row] /\ RequestOK(req[q], row, clock, ended)
    BY DEF HonestInv, IndInv, TypeOK
  <1> DEFINE r == [req[q] EXCEPT !.granted = TRUE,
              !.pc = IF req[q].op = "changePassword" THEN "password" ELSE "reply"]
  <1>1. req' = [req EXCEPT ![q] = r]
    BY DEF VerifyGranted, Put
  <1>2. /\ r.browser = req[q].browser /\ r.tab = req[q].tab /\ r.op = req[q].op
        /\ r.sid = req[q].sid
        /\ r.pc = (IF req[q].op = "changePassword" THEN "password" ELSE "reply")
        /\ r.cookie = req[q].cookie
    BY <1>0 DEF Request
  <1> HIDE DEF r
  <1>3. r \in Request
    BY <1>0, <1>1
  <1>4. HashesKept /\ UNCHANGED jar
    BY DEF VerifyGranted, HashesKept
  <1>5. req[q].cookie # "set"
    BY <1>0 DEF VerifyGranted, HonestInv, SetsNewest
  <1> QED BY <1>1, <1>2, <1>3, <1>4, <1>5, HandlerHonest DEF VerifyGranted

LEMMA PasswordUpdateHonest ==
  ASSUME HonestInv, IndInv', NEW q \in Requests, PasswordUpdate(q)
  PROVE  HonestInv'
  <1>0. req[q] \in Request /\ req'[q] \in Request /\ req \in [Requests -> Request]
        /\ row \in [Sessions -> Row] /\ RequestOK(req[q], row, clock, ended)
    BY DEF HonestInv, IndInv, TypeOK
  <1> DEFINE r == [req[q] EXCEPT !.pc = "revokeOthers",
              !.others = SessionsOf(row[req[q].sid].user) \ {req[q].sid}]
  <1>1. req' = [req EXCEPT ![q] = r]
    BY DEF PasswordUpdate, Put
  <1>2. /\ r.browser = req[q].browser /\ r.tab = req[q].tab /\ r.op = req[q].op
        /\ r.sid = req[q].sid
        /\ r.pc = "revokeOthers" /\ r.cookie = req[q].cookie
    BY <1>0 DEF Request
  <1> HIDE DEF r
  <1>3. r \in Request
    BY <1>0, <1>1
  <1>4. HashesKept /\ UNCHANGED jar
    BY DEF PasswordUpdate, HashesKept
  <1>5. req[q].cookie # "set"
    BY <1>0 DEF PasswordUpdate, HonestInv, SetsNewest
  <1> QED BY <1>1, <1>2, <1>3, <1>4, <1>5, HandlerHonest DEF PasswordUpdate

LEMMA PasswordRevokeOthersHonest ==
  ASSUME HonestInv, IndInv', NEW q \in Requests, PasswordRevokeOthers(q)
  PROVE  HonestInv'
  <1>0. req[q] \in Request /\ req'[q] \in Request /\ req \in [Requests -> Request]
        /\ row \in [Sessions -> Row] /\ RequestOK(req[q], row, clock, ended)
    BY DEF HonestInv, IndInv, TypeOK
  <1> DEFINE r == [req[q] EXCEPT !.pc = "reply", !.iat = 0, !.others = {},
              !.ack = req[q].others, !.says = req[q].others]
  <1>1. req' = [req EXCEPT ![q] = r]
    BY DEF PasswordRevokeOthers, Put
  <1>2. /\ r.browser = req[q].browser /\ r.tab = req[q].tab /\ r.op = req[q].op
        /\ r.sid = req[q].sid
        /\ r.pc = "reply" /\ r.cookie = req[q].cookie
    BY <1>0 DEF Request
  <1> HIDE DEF r
  <1>3. r \in Request
    BY <1>0, <1>1
  <1>4. HashesKept /\ UNCHANGED jar
    BY <1>0 DEF PasswordRevokeOthers, HashesKept, Row
  <1>5. req[q].cookie # "set"
    BY <1>0 DEF PasswordRevokeOthers, HonestInv, SetsNewest
  <1> QED BY <1>1, <1>2, <1>3, <1>4, <1>5, HandlerHonest DEF PasswordRevokeOthers

LEMMA LogoutRevokeHonest ==
  ASSUME HonestInv, IndInv', NEW q \in Requests, LogoutRevoke(q)
  PROVE  HonestInv'
  <1>0. req[q] \in Request /\ req'[q] \in Request /\ req \in [Requests -> Request]
        /\ row \in [Sessions -> Row] /\ RequestOK(req[q], row, clock, ended)
    BY DEF HonestInv, IndInv, TypeOK
  <1> DEFINE r == [req[q] EXCEPT !.pc = "reply", !.ack = {req[q].sid}, !.says = {req[q].sid}]
  <1>1. req' = [req EXCEPT ![q] = r]
    BY DEF LogoutRevoke, Put
  <1>2. /\ r.browser = req[q].browser /\ r.tab = req[q].tab /\ r.op = req[q].op
        /\ r.sid = req[q].sid
        /\ r.pc = "reply" /\ r.cookie = req[q].cookie
    BY <1>0 DEF Request
  <1> HIDE DEF r
  <1>3. r \in Request
    BY <1>0, <1>1
  <1>4. HashesKept /\ UNCHANGED jar
    BY <1>0 DEF LogoutRevoke, HashesKept, Row
  <1>5. req[q].cookie # "set"
    BY <1>0 DEF LogoutRevoke, HonestInv, SetsNewest
  <1> QED BY <1>1, <1>2, <1>3, <1>4, <1>5, HandlerHonest DEF LogoutRevoke

LEMMA LogoutErrorHonest ==
  ASSUME HonestInv, IndInv', NEW q \in Requests, LogoutError(q)
  PROVE  HonestInv'
  <1>0. req[q] \in Request /\ req'[q] \in Request /\ req \in [Requests -> Request]
        /\ row \in [Sessions -> Row] /\ RequestOK(req[q], row, clock, ended)
    BY DEF HonestInv, IndInv, TypeOK
  <1> DEFINE r == [req[q] EXCEPT !.pc = "reply", !.says = {req[q].sid}]
  <1>1. req' = [req EXCEPT ![q] = r]
    BY DEF LogoutError, Put
  <1>2. /\ r.browser = req[q].browser /\ r.tab = req[q].tab /\ r.op = req[q].op
        /\ r.sid = req[q].sid
        /\ r.pc = "reply" /\ r.cookie = req[q].cookie
    BY <1>0 DEF Request
  <1> HIDE DEF r
  <1>3. r \in Request
    BY <1>0, <1>1
  <1>4. HashesKept /\ UNCHANGED jar
    BY DEF LogoutError, HashesKept
  <1>5. req[q].cookie # "set"
    BY <1>0 DEF LogoutError, HonestInv, SetsNewest
  <1> QED BY <1>1, <1>2, <1>3, <1>4, <1>5, HandlerHonest DEF LogoutError

LEMMA RefreshRevokeHonest ==
  ASSUME HonestInv, IndInv', NEW q \in Requests, RefreshRevoke(q)
  PROVE  HonestInv'
  <1>1. HashesKept
    BY DEF RefreshRevoke, HashesKept, HonestInv, IndInv, TypeOK, Row
  <1> QED BY <1>1, AnswerHonest DEF RefreshRevoke

-----------------------------------------------------------------------------
(* The requests a browser sends.                                           *)

LEMMA LoginSignHonest ==
  ASSUME HonestInv, IndInv', NEW q \in Requests, NEW b \in Browsers, NEW u \in Users,
         LoginSign(q, b, u)
  PROVE  HonestInv'
  <1> DEFINE r == [NoRequest EXCEPT !.pc = "insert", !.op = "login", !.browser = b,
                                    !.user = u, !.iat = clock]
  <1>1. req' = [req EXCEPT ![q] = r] /\ req[q].pc = "idle" /\ UNCHANGED <<row, jar>>
    BY DEF LoginSign, Send, Put
  <1>2. /\ r.pc = "insert" /\ r.op = "login" /\ r.browser = b /\ r.sid = None
        /\ r.cookie = "keep"
    BY DEF NoRequest
  <1> HIDE DEF r
  <1>3. r \in Request
    BY <1>1 DEF HonestInv, IndInv, TypeOK
  <1> QED BY <1>1, <1>2, <1>3, SendHonest

LEMMA RefreshSendHonest ==
  ASSUME HonestInv, IndInv', OnePage, NEW q \in Requests, NEW b \in Browsers, NEW t \in Tabs,
         RefreshSend(q, b, t)
  PROVE  HonestInv'
  <1> DEFINE r == [NoRequest EXCEPT !.pc = "select", !.op = "refresh", !.browser = b, !.tab = t,
                                    !.sid = jar[b].sid, !.iat = jar[b].iat]
  <1>1. req' = [req EXCEPT ![q] = r] /\ req[q].pc = "idle" /\ UNCHANGED <<row, jar>>
        /\ jar[b].sid # None
    BY DEF RefreshSend, Send, Put
  <1>2. /\ r.pc = "select" /\ r.op = "refresh" /\ r.browser = b /\ r.tab = t
        /\ r.sid = jar[b].sid /\ r.iat = jar[b].iat /\ r.cookie = "keep"
    BY DEF NoRequest
  <1> HIDE DEF r
  <1>3. r \in Request
    BY <1>1 DEF HonestInv, IndInv, TypeOK
  <1>4. \A p \in Requests : req[p].op = "refresh" => req[p].browser # b
    BY DEF RefreshSend, IsRefreshing, OnePage, HonestInv, OneRefresh
  <1>5. jar[b].iat = row[jar[b].sid].hash
    BY <1>1, <1>4 DEF HonestInv, JarIsNewest
  <1> QED BY <1>1, <1>2, <1>3, <1>4, <1>5, SendHonest

LEMMA AccessSendHonest ==
  ASSUME HonestInv, IndInv', NEW q \in Requests, NEW b \in Browsers,
         NEW op \in {"access", "changePassword"}, AccessSend(q, b, op)
  PROVE  HonestInv'
  <1> DEFINE late == jar[b].sid \in ended
             r == [NoRequest EXCEPT !.pc = "verify", !.op = op, !.browser = b,
                                    !.sid = jar[b].sid, !.iat = jar[b].iat, !.late = late]
  <1>1. req' = [req EXCEPT ![q] = r] /\ req[q].pc = "idle" /\ UNCHANGED <<row, jar>>
    BY DEF AccessSend, Send, Put
  <1> HIDE DEF late
  <1>2. /\ r.pc = "verify" /\ r.op = op /\ r.browser = b /\ r.sid = jar[b].sid
        /\ r.cookie = "keep"
    BY DEF NoRequest
  <1> HIDE DEF r
  <1>3. r \in Request
    BY <1>1 DEF HonestInv, IndInv, TypeOK
  <1> QED BY <1>1, <1>2, <1>3, SendHonest

LEMMA LogoutSendHonest ==
  ASSUME HonestInv, IndInv', NEW q \in Requests, NEW b \in Browsers, LogoutSend(q, b)
  PROVE  HonestInv'
  <1> DEFINE next == IF jar[b].sid = None THEN "reply" ELSE "revoke"
             r == [NoRequest EXCEPT !.pc = next, !.op = "logout", !.browser = b,
                                    !.sid = jar[b].sid, !.cookie = "clear"]
  <1>1. req' = [req EXCEPT ![q] = r] /\ req[q].pc = "idle" /\ UNCHANGED <<row, jar>>
    BY DEF LogoutSend, Send, Put
  <1>0. next \in {"reply", "revoke"}
    OBVIOUS
  <1> HIDE DEF next
  <1>2. /\ r.pc = next /\ r.op = "logout" /\ r.browser = b /\ r.sid = jar[b].sid
        /\ r.cookie = "clear"
    BY DEF NoRequest
  <1> HIDE DEF r
  <1>3. r \in Request
    BY <1>1 DEF HonestInv, IndInv, TypeOK
  <1> QED BY <1>0, <1>1, <1>2, <1>3, SendHonest

-----------------------------------------------------------------------------
(* The steps that bring new tokens into play.                              *)

LEMMA LoginInsertHonest ==
  ASSUME HonestInv, IndInv', NEW q \in Requests, NEW s \in Sessions, LoginInsert(q, s)
  PROVE  HonestInv'
  <1>0. req[q] \in Request /\ req'[q] \in Request /\ req \in [Requests -> Request]
        /\ row \in [Sessions -> Row] /\ jar' = jar /\ req[q].pc = "insert" /\ row[s].user = None
    BY DEF HonestInv, IndInv, TypeOK, LoginInsert
  <1> DEFINE new == [user |-> req[q].user, browser |-> req[q].browser, hash |-> req[q].iat,
                     expires |-> clock + RefreshTTL, revoked |-> FALSE]
             r == [req[q] EXCEPT !.pc = "reply", !.cookie = "set", !.user = None, !.sid = s]
  <1>1. req' = [req EXCEPT ![q] = r] /\ row' = [row EXCEPT ![s] = new]
    BY DEF LoginInsert, Put
  <1>2. /\ r.pc = "reply" /\ r.op = req[q].op /\ r.browser = req[q].browser /\ r.sid = s
        /\ r.iat = req[q].iat /\ r.cookie = "set" /\ r.tab = req[q].tab
    BY <1>0 DEF Request
  <1>3. new.browser = req[q].browser /\ new.hash = req[q].iat
    OBVIOUS
  <1> HIDE DEF r, new
  <1>4. /\ req'[q] = r /\ \A p \in Requests : p # q => req'[p] = req[p]
        /\ row'[s] = new /\ \A u \in Sessions : u # s => row'[u] = row[u]
    BY <1>0, <1>1
  \* the id is fresh: nobody names it yet
  <1>5. /\ \A b \in Browsers : jar[b].sid # s
        /\ \A p \in Requests : req[p].sid # s
        /\ \A b \in Browsers : jar[b].sid # None => jar[b].sid \in Sessions
        /\ \A p \in Requests : req[p].sid # None => req[p].sid \in Sessions
    BY <1>0, NoneAssumption
       DEF HonestInv, IndInv, TypeOK, JarsOK, RequestOK, Cookies, Request
  <1>6. OwnSessions'
    BY <1>0, <1>2, <1>3, <1>4, <1>5 DEF HonestInv, OwnSessions
  <1>7. OneRefresh'
    BY <1>0, <1>2, <1>4 DEF HonestInv, OneRefresh
  <1>8. SetsNewest'
    BY <1>0, <1>2, <1>3, <1>4, <1>5, NoneAssumption DEF HonestInv, SetsNewest, OneRefresh
  <1>9. UndeliveredLogin'
    BY <1>0, <1>2, <1>4, <1>5 DEF HonestInv, UndeliveredLogin
  <1>10. JarIsNewest'
    BY <1>0, <1>4, <1>5 DEF HonestInv, JarIsNewest, SetsNewest
  <1>11. SelectsNewest'
    <2>1. \A p \in Requests : req[p].pc = "select" => req[p].sid \in Sessions
      BY DEF HonestInv, IndInv, TypeOK, Request, RequestOK, Working
    <2> QED BY <1>2, <1>4, <1>5, <2>1 DEF HonestInv, SelectsNewest
  <1> QED BY <1>6, <1>7, <1>8, <1>9, <1>10, <1>11 DEF HonestInv

LEMMA RefreshRotateHonest ==
  ASSUME HonestInv, IndInv', NEW q \in Requests, RefreshRotate(q)
  PROVE  HonestInv'
  <1>0. req[q] \in Request /\ req'[q] \in Request /\ req \in [Requests -> Request]
        /\ row \in [Sessions -> Row] /\ jar' = jar /\ req[q].pc = "rotate"
        /\ RequestOK(req[q], row, clock, ended)
    BY DEF HonestInv, IndInv, TypeOK, RefreshRotate
  <1> DEFINE r == [req[q] EXCEPT !.pc = "reply", !.cookie = "set"]
             s == req[q].sid
  <1>1. req' = [req EXCEPT ![q] = r] /\ row' = Rotated(s, req[q].iat)
    BY DEF RefreshRotate, Put
  <1>2. /\ r.pc = "reply" /\ r.op = req[q].op /\ r.browser = req[q].browser /\ r.sid = s
        /\ r.iat = req[q].iat /\ r.cookie = "set" /\ r.tab = req[q].tab
    BY <1>0 DEF Request
  <1>3. s \in Sessions /\ req[q].op = "refresh"
    BY <1>0 DEF RequestOK, Working, Request, HonestInv, OneRefresh
  <1> HIDE DEF r
  <1>4. /\ req'[q] = r /\ \A p \in Requests : p # q => req'[p] = req[p]
        /\ row'[s].hash = req[q].iat
        /\ \A u \in Sessions : row'[u].browser = row[u].browser /\ (u # s => row'[u] = row[u])
    BY <1>0, <1>1, <1>3 DEF Rotated, Row
  <1> HIDE DEF s
  <1>5. /\ \A b \in Browsers : jar[b].sid # None => jar[b].sid \in Sessions
        /\ \A p \in Requests : req[p].sid # None => req[p].sid \in Sessions
    BY DEF HonestInv, IndInv, TypeOK, Cookies, Request
  \* the session is the browser's own, and this is its only refresh
  <1>6. /\ row[s].browser = req[q].browser /\ s # None
        /\ \A p \in Requests : p # q /\ req[p].sid = s => req[p].op # "refresh"
        /\ \A p \in Requests : p # q /\ req[p].sid = s => req[p].op # "login"
    BY <1>0, <1>3, NoneAssumption DEF s, HonestInv, OwnSessions, OneRefresh, UndeliveredLogin
  <1>7. OwnSessions'
    <2>1. \A c \in Browsers : jar'[c].sid # None => row'[jar'[c].sid].browser = c
      BY <1>0, <1>4, <1>5 DEF HonestInv, OwnSessions
    <2>2. \A p \in Requests :
            /\ req'[p].sid # None => row'[req'[p].sid].browser = req'[p].browser
            /\ req'[p].pc # "idle" => req'[p].browser \in Browsers
      BY <1>0, <1>2, <1>3, <1>4, <1>5, <1>6 DEF HonestInv, OwnSessions
    <2> QED BY <2>1, <2>2 DEF OwnSessions
  <1>8. OneRefresh'
    BY <1>0, <1>2, <1>4 DEF HonestInv, OneRefresh
  <1>9. SetsNewest'
    BY <1>0, <1>2, <1>3, <1>4, <1>5, <1>6 DEF HonestInv, SetsNewest
  <1>10. UndeliveredLogin'
    BY <1>0, <1>2, <1>3, <1>4 DEF HonestInv, UndeliveredLogin, s
  <1>11. JarIsNewest'
    BY <1>0, <1>2, <1>3, <1>4, <1>5, <1>6 DEF HonestInv, JarIsNewest, OwnSessions, SetsNewest
  <1>12. SelectsNewest'
    <2>1. \A p \in Requests : req[p].pc = "select" => req[p].sid \in Sessions
            /\ req[p].op = "refresh"
      BY DEF HonestInv, IndInv, TypeOK, Request, RequestOK, Working, OneRefresh
    <2> QED BY <1>2, <1>4, <1>6, <2>1 DEF HonestInv, SelectsNewest
  <1> QED BY <1>7, <1>8, <1>9, <1>10, <1>11, <1>12 DEF HonestInv

LEMMA DeliverHonest ==
  ASSUME HonestInv, IndInv', NEW q \in Requests, Deliver(q)
  PROVE  HonestInv'
  <1>0. req[q] \in Request /\ req \in [Requests -> Request] /\ row' = row
        /\ jar \in [Browsers -> Cookies] /\ req[q].pc = "reply" /\ req[q].browser \in Browsers
    BY DEF HonestInv, IndInv, TypeOK, Deliver, OwnSessions
  <1> DEFINE pair == [sid |-> req[q].sid, iat |-> req[q].iat]
             b == req[q].browser
  <1>1. /\ req' = [req EXCEPT ![q] = NoRequest]
        /\ \/ req[q].cookie = "set" /\ jar' = [jar EXCEPT ![b] = pair]
           \/ req[q].cookie # "set" /\ jar' = [jar EXCEPT ![b] = NoCookies]
           \/ req[q].cookie # "set" /\ jar' = jar
    BY DEF Deliver, Put
  <1>2. /\ NoRequest.pc = "idle" /\ NoRequest.op = "none" /\ NoRequest.sid = None
        /\ NoRequest.cookie = "keep" /\ NoCookies.sid = None
        /\ pair.sid = req[q].sid /\ pair.iat = req[q].iat
    BY DEF NoRequest, NoCookies
  <1> HIDE DEF pair
  <1>3. /\ req'[q] = NoRequest /\ \A p \in Requests : p # q => req'[p] = req[p]
        /\ \A c \in Browsers : c # b => jar'[c] = jar[c]
        /\ \/ req[q].cookie = "set" /\ jar'[b] = pair
           \/ req[q].cookie # "set" /\ (jar'[b] = NoCookies \/ jar'[b] = jar[b])
    BY <1>0, <1>1
  <1>4. OwnSessions'
    <2>1. \A c \in Browsers : jar'[c].sid # None => row'[jar'[c].sid].browser = c
      <3> SUFFICES ASSUME NEW c \in Browsers, jar'[c].sid # None
                   PROVE  row'[jar'[c].sid].browser = c
        OBVIOUS
      <3>1. jar'[c] = jar[c] \/ (c = b /\ jar'[c] = pair) \/ (c = b /\ jar'[c] = NoCookies)
        BY <1>3
      <3> QED BY <1>0, <1>2, <3>1 DEF HonestInv, OwnSessions
    <2>2. \A p \in Requests :
            /\ req'[p].sid # None => row'[req'[p].sid].browser = req'[p].browser
            /\ req'[p].pc # "idle" => req'[p].browser \in Browsers
      BY <1>0, <1>2, <1>3 DEF HonestInv, OwnSessions
    <2> QED BY <2>1, <2>2 DEF OwnSessions
  <1>5. OneRefresh'
    BY <1>2, <1>3 DEF HonestInv, OneRefresh
  <1>6. SetsNewest'
    BY <1>0, <1>2, <1>3 DEF HonestInv, SetsNewest
  <1>7. UndeliveredLogin'
    BY <1>0, <1>2, <1>3 DEF HonestInv, UndeliveredLogin
  <1>8. JarIsNewest'
    <2> SUFFICES ASSUME NEW c \in Browsers, jar'[c].sid # None
                 PROVE  \/ jar'[c].iat = row[jar'[c].sid].hash
                        \/ \E p \in Requests : /\ req'[p].op = "refresh"
                                               /\ req'[p].cookie = "set"
                                               /\ req'[p].sid = jar'[c].sid
                                               /\ req'[p].browser = c
      BY <1>0 DEF JarIsNewest
    <2>1. CASE c = b /\ req[q].cookie = "set"
      BY <1>0, <1>2, <1>3, <2>1 DEF HonestInv, SetsNewest
    <2>2. CASE jar'[c] = jar[c] /\ (req[q].cookie # "set" \/ c # b)
      <3>1. \/ jar[c].iat = row[jar[c].sid].hash
            \/ \E p \in Requests : /\ req[p].op = "refresh" /\ req[p].cookie = "set"
                                   /\ req[p].sid = jar[c].sid /\ req[p].browser = c
        BY <2>2 DEF HonestInv, JarIsNewest
      <3> QED BY <1>3, <2>2, <3>1
    <2> QED BY <1>2, <1>3, <2>1, <2>2
  <1>9. SelectsNewest'
    BY <1>0, <1>2, <1>3 DEF HonestInv, SelectsNewest
  <1> QED BY <1>4, <1>5, <1>6, <1>7, <1>8, <1>9 DEF HonestInv

-----------------------------------------------------------------------------

LEMMA StepHonest ==
  ASSUME OnePage, Reliable = TRUE
  PROVE  HonestInv /\ [Next]_vars => HonestInv'
  <1> SUFFICES ASSUME HonestInv, [Next]_vars PROVE HonestInv'
    OBVIOUS
  <1>0. IndInv'
    BY StepInd DEF HonestInv
  <1>00. ASSUME UNCHANGED row PROVE HashesKept
    BY <1>00 DEF HashesKept
  <1>1. CASE UNCHANGED vars \/ Tick
    <2>1. UNCHANGED <<row, jar, req>>
      BY <1>1 DEF vars, Tick
    <2> QED
      BY <1>0, <2>1 DEF HonestInv, OwnSessions, OneRefresh, SetsNewest, UndeliveredLogin,
                        JarIsNewest, SelectsNewest
  <1>3. ASSUME NEW q \in Requests, Login(q) PROVE HonestInv'
    BY <1>0, <1>3, LoginSignHonest, LoginInsertHonest, LoginErrorHonest DEF Login
  <1>4. ASSUME NEW q \in Requests, Refresh(q) PROVE HonestInv'
    <2>1. CASE RefreshNoSession(q) \/ RefreshError(q)
      BY <1>0, <1>00, <2>1, AnswerHonest DEF RefreshNoSession, RefreshError
    <2> QED
      BY <1>0, <1>4, <2>1, RefreshSendHonest, RefreshMismatchHonest, RefreshMatchHonest,
         RefreshRotateHonest, RefreshRevokeHonest DEF Refresh
  <1>5. ASSUME NEW q \in Requests, Access(q) PROVE HonestInv'
    <2>1. CASE VerifyDenied(q) \/ PasswordRejected(q) \/ PasswordError(q)
      BY <1>0, <1>00, <2>1, AnswerHonest DEF VerifyDenied, PasswordRejected, PasswordError
    <2> QED
      BY <1>0, <1>5, <2>1, AccessSendHonest, VerifyGrantedHonest, PasswordUpdateHonest,
         PasswordRevokeOthersHonest DEF Access
  <1>6. ASSUME NEW q \in Requests, Logout(q) PROVE HonestInv'
    BY <1>0, <1>6, LogoutSendHonest, LogoutRevokeHonest, LogoutErrorHonest DEF Logout
  <1>7. ASSUME NEW q \in Requests, Deliver(q) \/ Lose(q) PROVE HonestInv'
    BY <1>0, <1>7, DeliverHonest DEF Lose
  <1> QED BY <1>1, <1>3, <1>4, <1>5, <1>6, <1>7 DEF Next

\* With one page per browser (isRefreshing in client.ts is per page) and every reply
\* delivered, no refresh of an active session carries an outdated token: the replay
\* check of POST /refresh never ends the session of an honest client
THEOREM HonestClientKeptCorrect ==
  ASSUME OnePage, Reliable = TRUE
  PROVE  Spec => []HonestClientKept
  <1>1. HonestInv => HonestClientKept
    BY DEF HonestInv, SelectsNewest, HonestClientKept
  <1> QED BY <1>1, InitHonest, StepHonest, PTL DEF Spec
====
