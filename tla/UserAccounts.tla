----------------------------- MODULE UserAccounts -----------------------------
(***************************************************************************)
(* An account of the backend: its row in users, the copies of the row in   *)
(* Redis (api/data/db.ts), and the handlers that decide by the copies or   *)
(* change what they are copies of (api/routes/auth.ts, users.ts).          *)
(*                                                                         *)
(* Handlers interleave at every `await`.  There is one account, which may  *)
(* not exist yet.  What makes a session of a granted login is              *)
(* AuthSessions.  The copy under the name is only asked for whether there  *)
(* is one, like that under the address, and is left out.                   *)
(***************************************************************************)
EXTENDS Naturals

CONSTANTS
    None,
    Requests,       \* slots for requests in flight
    Passwords, Addresses,
    CacheTTL,       \* USER_CACHE_TTL_SECONDS
    Latency,        \* bound on the time from a row's read to the last use of it
    LockWindow,     \* LOCK_WINDOW_MINUTES
    MaxFailed,      \* MAX_FAILED_LOGIN_ATTEMPTS
    MaxChanges,     \* bound on the changes of the row, but for those of logins,
    MaxClock        \* and on the clock, for model checking

VARIABLES
    clock,
    user,           \* the row of users, None before it is there
    authCache,      \* Redis: per address, the row as a login asks for it
    profileCache,   \* Redis: what is shown of the account, under its id; all that
                    \* matters of it here is that it is there
    req,            \* per slot, the request in flight: its handler's locals
    left,           \* history: when a fact of the row last ceased to hold
    changes

vars == <<clock, user, authCache, profileCache, req, left, changes>>

Locks == 0..(MaxClock + LockWindow)

User ==
    [password : Passwords, address : Addresses, failed : 0..MaxFailed, locked : Locks,
     deleted : BOOLEAN]

Logins == {"login", "create"}
Edits == {"move", "lock", "unlock", "delete", "restore"}
Views == {"view", "prefer", "rename"}

Idle ==
    [pc |-> "idle", op |-> "none", address |-> None, password |-> None, new |-> None,
     seen |-> None, at |-> None]

\* A copy in Redis, of the row or of what is shown of the account
Copies == [row : User, expires : Nat] \cup [expires : Nat]

AccountsAssumption ==
    /\ CacheTTL \in Nat \ {0} /\ Latency \in Nat /\ LockWindow \in Nat
    /\ MaxFailed \in Nat \ {0} /\ MaxChanges \in Nat /\ MaxClock \in Nat
    /\ None \notin Nat /\ None \notin User /\ None \notin Copies
    /\ "open" \notin Passwords \cup Addresses

\* What a row says that a copy may still say afterwards; "open" is that the account is
\* not locked
Facts == Passwords \cup Addresses \cup {"live", "open"}

Holds(f, row) ==
    /\ row # None
    /\ \/ f \in {row.password, row.address}
       \/ f = "live" /\ ~row.deleted
       \/ f = "open" /\ row.locked <= clock

\* A row in which a fact ceases to hold, or by which the account is locked for longer
Ceases(f, row) ==
    /\ user # None
    /\ IF f = "open" THEN row.locked > user.locked ELSE Holds(f, user) /\ ~Holds(f, row)

\* A statement that changes the row
Write(row) ==
    /\ user' = row
    /\ left' = [f \in Facts |-> IF Ceases(f, row) THEN clock ELSE left[f]]

Changes == changes < MaxChanges /\ changes' = changes + 1

Shown == user # None /\ ~user.deleted
Found(address) == Shown /\ user.address = address

-----------------------------------------------------------------------------
(* The copies in Redis.  An operation of Redis that fails is ignored, so   *)
(* that each may do nothing (api/data/redis.ts).                           *)

Live(entry) == entry # None /\ clock < entry.expires

Copy(row) == [row |-> row, expires |-> clock + CacheTTL]

SetProfile == profileCache' \in {profileCache, [expires |-> clock + CacheTTL]}

\* cacheUserRecord of a whole row.  A write that another's invalidation comes between
\* leaves what one that fails would
CacheUser(row) ==
    /\ SetProfile
    /\ authCache' \in {authCache, [authCache EXCEPT ![row.address] = Copy(row)]}

\* invalidateUserCaches: one command, for the id and for the address that the handler has
Invalidate(address) ==
    \/ profileCache' = None /\ authCache' = [authCache EXCEPT ![address] = None]
    \/ UNCHANGED <<profileCache, authCache>>

-----------------------------------------------------------------------------

Go(q, r) == req' = [req EXCEPT ![q] = r]
To(q, pc) == Go(q, [req[q] EXCEPT !.pc = pc])
End(q) == Go(q, Idle)

\* A statement has been executed, and has given a row
Did(q, pc) == Go(q, [req[q] EXCEPT !.pc = pc, !.at = clock])
Saw(q, pc, row) == Go(q, [req[q] EXCEPT !.pc = pc, !.seen = row, !.at = clock])

Begin(q, pc, op, address, password, new) ==
    Go(q, [pc |-> pc, op |-> op, address |-> address, password |-> password, new |-> new,
           seen |-> None, at |-> None])

Start(q) ==
    /\ req[q].pc = "idle"
    /\ \/ \E op \in Logins, a \in Addresses, p \in Passwords :
            Begin(q, "lookup", op, a, p, None)
       \/ \E p, n \in Passwords : p # n /\ Begin(q, "verify", "password", None, p, n)
       \/ \E op \in Edits : Begin(q, "edit", op, None, None, None)
       \/ \E op \in Views :
            Begin(q, IF op = "view" THEN "profile" ELSE "save", op, None, None, None)
    /\ UNCHANGED <<clock, user, authCache, profileCache, left, changes>>

\* What a login does next, of a row that it has been given: an account that is locked in
\* that row is refused.  A registration goes on where there is none
Decided(q, row) ==
    IF req[q].op = "create" THEN IF row = None THEN To(q, "insert") ELSE End(q)
    ELSE IF row = None \/ row.locked > clock THEN End(q) ELSE Saw(q, "guess", row)

\* getUserByEmail: the copy, if there is one
Lookup(q) ==
    /\ req[q].pc = "lookup"
    /\ \/ Live(authCache[req[q].address]) /\ Decided(q, authCache[req[q].address].row)
       \/ To(q, "select")
    /\ UNCHANGED <<clock, user, authCache, profileCache, left, changes>>

Select(q) ==
    /\ req[q].pc = "select"
    /\ IF Found(req[q].address)
       THEN Saw(q, "fill", user)
       ELSE Decided(q, None)
    /\ UNCHANGED <<clock, user, authCache, profileCache, left, changes>>

Fill(q) ==
    /\ req[q].pc = "fill"
    /\ CacheUser(req[q].seen)
    /\ Decided(q, req[q].seen)
    /\ UNCHANGED <<clock, user, left, changes>>

\* The password is not that of the row: one more failure, and a lock with the last one
Miss(q) ==
    /\ req[q].pc = "guess" /\ req[q].password # req[q].seen.password
    /\ Write([user EXCEPT !.failed = IF @ < MaxFailed THEN @ + 1 ELSE @,
                          !.locked = IF user.failed + 1 >= MaxFailed
                                     THEN clock + LockWindow ELSE @])
    /\ Did(q, "drop")
    /\ UNCHANGED <<clock, authCache, profileCache, changes>>

\* The password is: the account is unlocked, whatever has become of it since
Grant(q) ==
    /\ req[q].pc = "guess" /\ req[q].password = req[q].seen.password
    /\ Write([user EXCEPT !.failed = 0, !.locked = 0])
    /\ Did(q, "session")
    /\ UNCHANGED <<clock, authCache, profileCache, changes>>

\* An address or name that is taken, if only by a deleted account, is refused
Insert(q) ==
    /\ req[q].pc = "insert"
    /\ IF user = None
       THEN LET row == [password |-> req[q].password, address |-> req[q].address,
                        failed |-> 0, locked |-> 0, deleted |-> FALSE]
            IN  Write(row) /\ Did(q, "publish")
       ELSE End(q) /\ UNCHANGED <<user, left>>
    /\ UNCHANGED <<clock, authCache, profileCache, changes>>

\* createSessionAndTokens
Session(q) ==
    /\ req[q].pc = "session"
    /\ To(q, "drop")
    /\ UNCHANGED <<clock, user, authCache, profileCache, left, changes>>

\* The copies are dropped, and of a granted login and a new name a new one is made
Drop(q) ==
    /\ req[q].pc = "drop"
    /\ Invalidate(req[q].seen.address)
    /\ IF req[q].op = "login" /\ req[q].password = req[q].seen.password
       THEN To(q, "publish") ELSE End(q)
    /\ UNCHANGED <<clock, user, left, changes>>

\* Mutant: the row by which the login was decided is cached as well
PublishWhole(q) ==
    /\ req[q].pc = "publish"
    /\ IF req[q].op = "login" THEN CacheUser(req[q].seen) ELSE SetProfile /\ UNCHANGED authCache
    /\ End(q)
    /\ UNCHANGED <<clock, user, left, changes>>

\* The rows that these statements return are without the password
Publish(q) ==
    /\ req[q].pc = "publish"
    /\ SetProfile
    /\ End(q)
    /\ UNCHANGED <<clock, user, authCache, left, changes>>

-----------------------------------------------------------------------------
(* Changes of the row.                                                     *)

\* change-password reads the row itself
Verify(q) ==
    /\ req[q].pc = "verify"
    /\ IF Shown /\ user.password = req[q].password
       THEN Saw(q, "change", user)
       ELSE End(q)
    /\ UNCHANGED <<clock, user, authCache, profileCache, left, changes>>

\* Then the other sessions are ended, which is a step of AuthSessions
ChangePassword(q) ==
    /\ req[q].pc = "change" /\ Changes
    /\ Write([user EXCEPT !.password = req[q].new])
    /\ To(q, "drop")
    /\ UNCHANGED <<clock, authCache, profileCache>>

Edited(op) ==
    CASE op = "move" -> {[user EXCEPT !.address = a] : a \in Addresses}
      [] op = "lock" -> {[user EXCEPT !.locked = clock + LockWindow]}
      [] op = "unlock" -> {[user EXCEPT !.locked = 0]}
      [] op = "delete" -> IF user.deleted THEN {} ELSE {[user EXCEPT !.deleted = TRUE]}
      [] op = "restore" -> {[user EXCEPT !.deleted = FALSE]}

\* The administrator's changes: what is dropped is the copy under the new address
Edit(q) ==
    /\ req[q].pc = "edit"
    /\ IF user = None \/ Edited(req[q].op) = {}
       THEN End(q) /\ UNCHANGED <<user, left, changes>>
       ELSE /\ Changes
            /\ \E row \in Edited(req[q].op) : Write(row) /\ Saw(q, "drop", row)
    /\ UNCHANGED <<clock, authCache, profileCache>>

\* PUT profile and PUT preferences
Save(q) ==
    /\ req[q].pc = "save"
    /\ IF ~Shown THEN End(q) /\ UNCHANGED <<user, left, changes>>
       ELSE /\ Changes
            /\ Write(user)
            /\ Did(q, IF req[q].op = "rename" THEN "publish" ELSE "profile")
    /\ UNCHANGED <<clock, authCache, profileCache>>

\* getUserById has given what the handler shows; after PUT preferences it is cached again
Given(q) ==
    IF req[q].op = "prefer" THEN Did(q, "renew") ELSE End(q)

\* getUserById: the copy, if there is one
Profile(q) ==
    /\ req[q].pc = "profile"
    /\ \/ Live(profileCache) /\ Given(q)
       \/ To(q, "read")
    /\ UNCHANGED <<clock, user, authCache, profileCache, left, changes>>

Read(q) ==
    /\ req[q].pc = "read"
    /\ IF Shown THEN Did(q, "keep") ELSE End(q)
    /\ UNCHANGED <<clock, user, authCache, profileCache, left, changes>>

Keep(q) ==
    /\ req[q].pc = "keep"
    /\ SetProfile
    /\ Given(q)
    /\ UNCHANGED <<clock, user, authCache, left, changes>>

Renew(q) ==
    /\ req[q].pc = "renew"
    /\ SetProfile
    /\ End(q)
    /\ UNCHANGED <<clock, user, authCache, left, changes>>

\* A statement fails, or the process ends: the handlers keep nothing in memory
Fail(q) ==
    /\ req[q].pc # "idle"
    /\ End(q)
    /\ UNCHANGED <<clock, user, authCache, profileCache, left, changes>>

\* What has been read of the row, or written to it, is used within the latency
Tick ==
    /\ clock < MaxClock
    /\ \A q \in Requests : req[q].at # None => clock < req[q].at + Latency
    /\ clock' = clock + 1
    /\ UNCHANGED <<user, authCache, profileCache, req, left, changes>>

Handle(q) ==
    \/ Start(q)
    \/ Lookup(q) \/ Select(q) \/ Fill(q) \/ Miss(q) \/ Grant(q) \/ Session(q)
    \/ Insert(q) \/ Drop(q) \/ Publish(q)
    \/ Verify(q) \/ ChangePassword(q) \/ Edit(q) \/ Save(q)
    \/ Profile(q) \/ Read(q) \/ Keep(q) \/ Renew(q)
    \/ Fail(q)

NewUser ==
    {[password |-> p, address |-> a, failed |-> 0, locked |-> 0, deleted |-> FALSE] :
        p \in Passwords, a \in Addresses}

Init ==
    /\ clock = 0
    /\ user \in NewUser \cup {None}
    /\ authCache = [a \in Addresses |-> None]
    /\ profileCache = None
    /\ req = [q \in Requests |-> Idle]
    /\ left = [f \in Facts |-> None]
    /\ changes = 0

Next == Tick \/ \E q \in Requests : Handle(q)

Spec == Init /\ [][Next]_vars

-----------------------------------------------------------------------------

Pcs ==
    {"idle", "lookup", "select", "fill", "guess", "session", "insert", "drop", "publish",
     "verify", "change", "edit", "save", "profile", "read", "keep", "renew"}

RequestType ==
    [pc : Pcs, op : {"none", "password"} \cup Logins \cup Edits \cup Views,
     address : Addresses \cup {None}, password : Passwords \cup {None},
     new : Passwords \cup {None}, seen : User \cup {None}, at : 0..MaxClock \cup {None}]

TypeOK ==
    /\ clock \in 0..MaxClock /\ changes \in 0..MaxChanges
    /\ user \in User \cup {None}
    /\ \A a \in Addresses :
        authCache[a] \in {None} \cup [row : User, expires : 0..(MaxClock + CacheTTL)]
    /\ profileCache \in {None} \cup [expires : 0..(MaxClock + CacheTTL)]
    /\ left \in [Facts -> 0..MaxClock \cup {None}]
    /\ req \in [Requests -> RequestType]

\* How long after a fact has ceased to hold a login may still go by it: the copy was read
\* before that, stored, and found when it had all but expired; and of a profile, how long
\* it may still be shown: the login by such a copy makes a copy of the profile
LoginWindow == CacheTTL + 2 * Latency
ShownWindow == LoginWindow + Latency + CacheTTL - 1

\* A fact holds, or has held within the window
Recent(f, window) == Holds(f, user) \/ (left[f] # None /\ clock < left[f] + window)

\* A login is granted by a password and an address that the account has, or had just
\* now, and to an account that is not deleted, or just now was not; no password is
\* compared for one that is locked, unless it was not just now; and what is shown of a
\* profile is that of an account that is there, or was before two copies expired.  Copies
\* of the row that are made of it before a change, that are under its old address, or
\* that PUT preferences makes of copies, do not outlive that (login, auth.ts:457-591;
\* getUserByEmail, getUserById, cacheUser, db.ts:240-301).
DecidedByRecentRow ==
    [][\A q \in Requests :
        /\ Grant(q) => \A f \in {req[q].password, req[q].address, "live"} :
                            Recent(f, LoginWindow)
        /\ Grant(q) \/ Miss(q) => Recent("open", LoginWindow)
        /\ (Profile(q) \/ Keep(q)) /\ req[q].op = "view" /\ req'[q].pc = "idle"
            => Recent("live", ShownWindow)]_vars

=============================================================================
