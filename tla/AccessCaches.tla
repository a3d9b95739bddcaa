---------------------------- MODULE AccessCaches ----------------------------
(***************************************************************************)
(* The two in-process caches of the role-based access control of the       *)
(* Express backend (api/security/rbacService.ts), the middleware that      *)
(* decides by them (api/middleware/authorization.ts) and the handlers that *)
(* change what they cache (api/routes/accessControl.ts).                   *)
(*                                                                         *)
(* Handlers interleave at every `await` of a statement.  Code between two  *)
(* awaits, and a continuation that awaits nothing but settled promises,    *)
(* runs before any other event: requests whose pc is in Micro are such     *)
(* continuations, and nothing else happens while there is one.             *)
(*                                                                         *)
(* A permission is a resource.action.scope triple.  Time is counted in     *)
(* units of the caches' TTL resolution.                                    *)
(***************************************************************************)
EXTENDS Naturals

CONSTANTS
    Users, Roles, Perms,
    Requests,        \* slots for requests in flight
    Root,            \* the role root
    AdminRoles,      \* RBAC_ADMIN_ROLES, ROOT_ONLY_ROLES: root and platform_admin
    Priority,        \* roles.priority
    LegacyRole,      \* roleFromLegacy(users.role), per user
    StaticGrants,    \* ROLE_GRANTS: what the code itself grants each role
    RoutePerm,       \* the permission each mutating route requires
    InitRoles,       \* active rows of user_roles at the start, per user
    InitGrants,      \* rows of role_permissions at the start
    ProfileTTL,      \* PROFILE_CACHE_TTL_MS
    PermissionTTL,   \* PERMISSION_CACHE_TTL_MS
    Latency,         \* bound on the time a cache's SELECT takes
    NamedRoles,      \* roles and permissions that requests name:
    NamedPerms,      \* bounds for model checking
    MaxChanges,      \* bound on the mutating requests,
    MaxClock         \* and on the clock, for model checking

Mutations == {"assign", "revoke", "block", "replace"}

ASSUME RolesAssumption ==
    /\ Users # {}
    /\ Root \in AdminRoles
    /\ AdminRoles \subseteq Roles
    /\ Priority \in [Roles -> Nat]
    /\ \A r \in Roles \ {Root} : Priority[r] < Priority[Root]
    /\ LegacyRole \in [Users -> Roles]
    /\ InitRoles \in [Users -> SUBSET Roles]

ASSUME GrantsAssumption ==
    /\ StaticGrants \subseteq Roles \X Perms
    /\ InitGrants \subseteq Roles \X Perms
    /\ NamedRoles \subseteq Roles
    /\ NamedPerms \subseteq Perms
    /\ RoutePerm \in [Mutations -> Perms]

ASSUME TimeAssumption ==
    /\ ProfileTTL \in Nat \ {0}
    /\ PermissionTTL \in Nat \ {0}
    /\ Latency \in Nat
    /\ MaxClock \in Nat
    /\ MaxChanges \in Nat

VARIABLES
    clock,
    account,         \* tables users and user_roles
    grants,          \* table role_permissions, rows with granted = TRUE
    profileCache,    \* profileCache, an entry counts until it expires
    permMap,         \* rolePermissionCache
    permExpires,     \* permissionsCacheExpiresAt
    flight,          \* permissionRefreshInFlight
    req,             \* per slot, the request in flight: its handler's locals
    turned,          \* per user and role, when the user last gained or lost the use of it
    stripped,        \* per role and permission, when the grant was last removed
    changes,         \* mutating requests so far
    gone             \* per user, roles whose revocation has been answered

tables == <<account, grants>>
caches == <<profileCache, permMap, permExpires, flight>>
history == <<turned, stripped, gone, changes>>
vars == <<clock, tables, caches, req, history>>

-----------------------------------------------------------------------------

Profile == [roles : SUBSET Roles, blocked : BOOLEAN]

Entry == [profile : Profile, expires : Nat]

Flight == [pc : {"none", "sent", "read"}, at : Nat, rows : SUBSET (Roles \X Perms)]

Micro == {"enter", "lookup", "loaded"}

\* Statements in flight, and awaits of the shared permission refresh
Awaits == {"perms", "fetch", "select", "selected", "revoke", "insert", "block",
           "strip", "grant", "written"}

Request ==
    [pc      : {"idle"} \cup Micro \cup Awaits,
     op      : {"none", "check"} \cup Mutations,
     cont    : {"role", "permit", "actor", "target", "reload"},   \* what the loaded profile is for
     actor   : Users,
     target  : Users,
     role    : Roles,
     perm    : Perms,
     flag    : BOOLEAN,          \* the block flag to set
     names   : SUBSET Perms,     \* permissions still to grant
     mine    : Profile,          \* actorProfile
     seen    : Profile,          \* the profile loaded last
     at      : Nat,              \* when its SELECT was sent
     gone    : SUBSET Roles]     \* answered revocations this check must respect

NoProfile == [roles |-> {}, blocked |-> FALSE]

NoFlight == [pc |-> "none", at |-> 0, rows |-> {}]

Someone == CHOOSE u \in Users : TRUE

Idle ==
    [pc |-> "idle", op |-> "none", cont |-> "role", actor |-> Someone, target |-> Someone,
     role |-> Root, perm |-> RoutePerm["replace"], flag |-> FALSE, names |-> {},
     mine |-> NoProfile, seen |-> NoProfile, at |-> 0, gone |-> {}]

TypeOK ==
    /\ clock \in Nat
    /\ account \in [Users -> Profile]
    /\ grants \subseteq Roles \X Perms
    /\ profileCache \in [Users -> Entry]
    /\ permMap \subseteq Roles \X Perms
    /\ permExpires \in Nat
    /\ flight \in Flight
    /\ req \in [Requests -> Request]
    /\ turned \in [Users -> [Roles -> Nat]]
    /\ stripped \in [Roles \X Perms -> Nat]
    /\ changes \in Nat
    /\ gone \in [Users -> SUBSET Roles]

\* Mutant: no default for a legacy role that is not in the table
NormalizedUndefined(u, roles) == IF roles = {} THEN {"undefined"} ELSE roles

\* normalizeRoles: a user without an active row has the legacy role
Normalized(u, roles) == IF roles = {} THEN {LegacyRole[u]} ELSE roles

Snapshot(u) ==
    [roles |-> Normalized(u, account[u].roles), blocked |-> account[u].blocked]

\* The roles a profile lets its user act in
Usable(p) == IF p.blocked THEN {} ELSE p.roles

NoEntry == [profile |-> NoProfile, expires |-> 0]

Init ==
    /\ clock = 1
    /\ account = [u \in Users |-> [roles |-> InitRoles[u], blocked |-> FALSE]]
    /\ grants = InitGrants
    /\ profileCache = [u \in Users |-> NoEntry]
    /\ permMap = {}
    /\ permExpires = 0
    /\ flight = NoFlight
    /\ req = [q \in Requests |-> Idle]
    /\ turned = [u \in Users |-> [r \in Roles |-> 0]]
    /\ stripped = [g \in Roles \X Perms |-> 0]
    /\ changes = 0
    /\ gone = [u \in Users |-> {}]

Put(q, r) == req' = [req EXCEPT ![q] = r]

\* No continuation is waiting to run
Settled == \A q \in Requests : req[q].pc \notin Micro

-----------------------------------------------------------------------------
(* getUserAccessProfile, for the user the request asks about.              *)

Subject(r) == IF r.cont \in {"target", "reload"} THEN r.target ELSE r.actor

\* refreshPermissionCache: fresh, or join the refresh in flight, or start one
Enter(q) ==
    /\ req[q].pc = "enter"
    /\ IF permExpires > clock
         THEN /\ Put(q, [req[q] EXCEPT !.pc = "lookup"])
              /\ UNCHANGED flight
         ELSE /\ Put(q, [req[q] EXCEPT !.pc = "perms"])
              /\ flight' = IF flight.pc = "none"
                             THEN [pc |-> "sent", at |-> clock, rows |-> {}]
                             ELSE flight
    /\ UNCHANGED <<clock, tables, profileCache, permMap, permExpires, history>>

FlightRead ==
    /\ flight.pc = "sent"
    /\ flight' = [flight EXCEPT !.pc = "read", !.rows = grants]
    /\ UNCHANGED <<clock, tables, profileCache, permMap, permExpires, req, history>>

\* Every request that awaits the refresh goes on
FlightDone ==
    /\ flight.pc = "read"
    /\ permMap' = flight.rows
    /\ permExpires' = clock + PermissionTTL
    /\ flight' = NoFlight
    /\ req' = [q \in Requests |->
                IF req[q].pc = "perms" THEN [req[q] EXCEPT !.pc = "lookup"] ELSE req[q]]
    /\ UNCHANGED <<clock, tables, profileCache, history>>

\* Mutant: the routes without asyncHandler, a rejected promise is answered by nobody
FlightFailUnanswered ==
    /\ flight.pc # "none"
    /\ flight' = NoFlight
    /\ UNCHANGED <<clock, tables, profileCache, permMap, permExpires, req, history>>

\* The SELECT fails: the promise rejects for all that await it, and is reset
FlightFail ==
    /\ flight.pc # "none"
    /\ flight' = NoFlight
    /\ req' = [q \in Requests |-> IF req[q].pc = "perms" THEN Idle ELSE req[q]]
    /\ UNCHANGED <<clock, tables, profileCache, permMap, permExpires, history>>

\* Mutant: the entry's expiry is not looked at
CachedForever(u) == profileCache[u].expires > 0

Cached(u) == profileCache[u].expires > clock

LookUp(q) ==
    /\ req[q].pc = "lookup"
    /\ LET u == Subject(req[q])
       IN  Put(q, IF Cached(u)
                    THEN [req[q] EXCEPT !.pc = "loaded", !.seen = profileCache[u].profile]
                    ELSE [req[q] EXCEPT !.pc = "select", !.at = clock])
    /\ UNCHANGED <<clock, tables, caches, history>>

ProfileRead(q) ==
    /\ req[q].pc = "select"
    /\ Put(q, [req[q] EXCEPT !.pc = "selected", !.seen = Snapshot(Subject(req[q]))])
    /\ UNCHANGED <<clock, tables, caches, history>>

ProfileDone(q) ==
    /\ req[q].pc = "selected"
    /\ profileCache' =
         [profileCache EXCEPT ![Subject(req[q])] =
            [profile |-> req[q].seen, expires |-> clock + ProfileTTL]]
    /\ Put(q, [req[q] EXCEPT !.pc = "loaded", !.at = 0])
    /\ UNCHANGED <<clock, tables, permMap, permExpires, flight, history>>

-----------------------------------------------------------------------------
(* The middleware chain of a route and its handler, up to the statements.  *)

Start(q, r) ==
    /\ req[q].pc = "idle"
    /\ Put(q, r)
    /\ UNCHANGED <<clock, tables, caches, turned, stripped, gone>>

Change == changes < MaxChanges /\ changes' = changes + 1

\* requirePermission in front of any route
CheckStart(q) ==
    /\ UNCHANGED changes
    /\ \E u \in Users, p \in NamedPerms :
        Start(q, [Idle EXCEPT !.pc = "enter", !.op = "check", !.cont = "permit",
                              !.actor = u, !.perm = p, !.gone = gone[u]])

\* POST and DELETE users/:id/roles, PATCH users/:id/block: requireRole comes first
MutateStart(q) ==
    /\ Change
    /\ \E a, t \in Users, r \in NamedRoles, op \in {"assign", "revoke", "block"}, f \in BOOLEAN :
        /\ op = "block" \/ f
        /\ Start(q, [Idle EXCEPT !.pc = "enter", !.op = op, !.cont = "role",
                                 !.perm = RoutePerm[op], !.actor = a, !.target = t,
                                 !.role = r, !.flag = f])

\* PUT roles/:roleKey/permissions
ReplaceStart(q) ==
    /\ Change
    /\ \E a \in Users, r \in NamedRoles, names \in SUBSET NamedPerms :
        Start(q, [Idle EXCEPT !.pc = "enter", !.op = "replace", !.cont = "role",
                              !.actor = a, !.role = r, !.names = names])

\* requireRole
RoleGate(q) ==
    /\ req[q].pc = "loaded"
    /\ req[q].cont = "role"
    /\ Put(q, IF Usable(req[q].seen) \cap AdminRoles # {}
                THEN [req[q] EXCEPT !.pc = "enter", !.cont = "permit", !.seen = NoProfile]
                ELSE Idle)
    /\ UNCHANGED <<clock, tables, caches, history>>

\* Mutant: only the rows count
CanAccessByRows(profile, p) == \E r \in Usable(profile) : <<r, p>> \in permMap

\* canAccess, by the grants in the code and by the cached rows
CanAccess(profile, p) ==
    \E r \in Usable(profile) : <<r, p>> \in StaticGrants \cup permMap

Allowed(q) == CanAccess(req[q].seen, req[q].perm)

\* requirePermission: a mutating route goes on to its handler, of the others the
\* decision is all that is modelled
Permit(q) ==
    /\ req[q].pc = "loaded"
    /\ req[q].cont = "permit"
    /\ Put(q, IF req[q].op = "check" \/ ~Allowed(q)
                THEN Idle
                ELSE [req[q] EXCEPT !.pc = IF req[q].op = "replace" THEN "strip" ELSE "fetch",
                                    !.seen = NoProfile])
    /\ UNCHANGED <<clock, tables, caches, history>>

\* getUserById and the SELECT of the role
Fetched(q) ==
    /\ req[q].pc = "fetch"
    /\ Put(q, [req[q] EXCEPT !.pc = "enter", !.cont = "actor"])
    /\ UNCHANGED <<clock, tables, caches, history>>

ActorLoaded(q) ==
    /\ req[q].pc = "loaded"
    /\ req[q].cont = "actor"
    /\ Put(q, [req[q] EXCEPT !.pc = "enter", !.cont = "target",
                             !.mine = req[q].seen, !.seen = NoProfile])
    /\ UNCHANGED <<clock, tables, caches, history>>

\* roleKeys comes ordered by priority: the first is the highest
Highest(profile) ==
    CHOOSE r \in profile.roles : \A s \in profile.roles : Priority[s] <= Priority[r]

\* assertRoleMutationAllowed, assertBlockMutationAllowed
MutationAllowed(r) ==
    LET isRoot == Highest(r.mine) = Root
        rank(p) == Priority[Highest(p)]
    IN  /\ r.actor # r.target
        /\ r.mine.roles \cap AdminRoles # {}
        /\ r.op # "block" /\ ~isRoot =>
             r.role \notin AdminRoles /\ Priority[r.role] < rank(r.mine)
        /\ ~isRoot =>
             Highest(r.seen) \notin AdminRoles /\ rank(r.seen) < rank(r.mine)

TargetLoaded(q) ==
    /\ req[q].pc = "loaded"
    /\ req[q].cont = "target"
    /\ Put(q, IF MutationAllowed(req[q])
                THEN [req[q] EXCEPT !.pc = IF req[q].op = "block" THEN "block" ELSE "revoke",
                                    !.mine = NoProfile, !.seen = NoProfile]
                ELSE Idle)
    /\ UNCHANGED <<clock, tables, caches, history>>

-----------------------------------------------------------------------------
(* The statements that change what the caches hold.                        *)

\* The account of u becomes a; the history notes what this takes and gives
SetAccount(u, a) ==
    LET before == Usable(Snapshot(u))
        after  == Usable([roles |-> Normalized(u, a.roles), blocked |-> a.blocked])
    IN  /\ account' = [account EXCEPT ![u] = a]
        /\ turned' = [turned EXCEPT ![u] =
              [r \in Roles |-> IF (r \in before) # (r \in after) THEN clock ELSE @[r]]]

\* The UPDATE of assignRoleToUser and revokeRoleFromUser
RevokeRow(q) ==
    /\ req[q].pc = "revoke"
    /\ SetAccount(req[q].target,
                  [account[req[q].target] EXCEPT !.roles = @ \ {req[q].role}])
    /\ Put(q, [req[q] EXCEPT !.pc = IF req[q].op = "assign" THEN "insert" ELSE "written"])
    /\ UNCHANGED <<clock, grants, caches, stripped, gone, changes>>

\* The INSERT of assignRoleToUser, unless idx_user_roles_unique_active forbids it
InsertRow(q) ==
    /\ req[q].pc = "insert"
    /\ req[q].role \notin account[req[q].target].roles
    /\ SetAccount(req[q].target,
                  [account[req[q].target] EXCEPT !.roles = @ \cup {req[q].role}])
    /\ gone' = [gone EXCEPT ![req[q].target] = @ \ {req[q].role}]
    /\ Put(q, [req[q] EXCEPT !.pc = "written"])
    /\ UNCHANGED <<clock, grants, caches, stripped, changes>>

\* The UPDATE of setUserBlockedFlag
SetBlocked(q) ==
    /\ req[q].pc = "block"
    /\ SetAccount(req[q].target,
                  [account[req[q].target] EXCEPT !.blocked = req[q].flag])
    /\ Put(q, [req[q] EXCEPT !.pc = "written"])
    /\ UNCHANGED <<clock, grants, caches, stripped, gone, changes>>

\* PUT permissions: UPDATE ... SET granted = FALSE, then one INSERT per permission
StripGrants(q) ==
    /\ req[q].pc = "strip"
    /\ LET taken == grants \cap ({req[q].role} \X Perms)
       IN  /\ grants' = grants \ taken
           /\ stripped' = [g \in Roles \X Perms |->
                              IF g \in taken THEN clock ELSE stripped[g]]
    /\ Put(q, [req[q] EXCEPT !.pc = IF req[q].names = {} THEN "written" ELSE "grant"])
    /\ UNCHANGED <<clock, account, caches, turned, gone, changes>>

GrantOne(q) ==
    /\ req[q].pc = "grant"
    /\ \E p \in req[q].names :
         /\ grants' = grants \cup {<<req[q].role, p>>}
         /\ Put(q, [req[q] EXCEPT !.names = @ \ {p},
                                  !.pc = IF req[q].names = {p} THEN "written" ELSE "grant"])
    /\ UNCHANGED <<clock, account, caches, history>>

\* clearAccessProfileCache and, after a change of grants, invalidatePermissionCache;
\* the handlers of a user's account then load the profile they answer with
Written(q) ==
    /\ req[q].pc = "written"
    /\ IF req[q].op = "replace"
         THEN /\ profileCache' = [u \in Users |-> NoEntry]
              /\ permMap' = {}
              /\ permExpires' = 0
              /\ Put(q, Idle)
         ELSE /\ profileCache' = [profileCache EXCEPT ![req[q].target] = NoEntry]
              /\ Put(q, [req[q] EXCEPT !.pc = "enter", !.cont = "reload"])
              /\ UNCHANGED <<permMap, permExpires>>
    /\ UNCHANGED <<clock, tables, flight, history>>

\* The reply; that of a revocation reports the role as gone
Reloaded(q) ==
    /\ req[q].pc = "loaded"
    /\ req[q].cont = "reload"
    /\ LET r == req[q]
       IN  gone' = IF r.op = "revoke" /\ r.role \notin Snapshot(r.target).roles
                     THEN [gone EXCEPT ![r.target] = @ \cup {r.role}]
                     ELSE gone
    /\ Put(q, Idle)
    /\ UNCHANGED <<clock, tables, caches, turned, stripped, changes>>

\* A statement fails, or its reply is lost: asyncHandler answers 500
Fail(q) ==
    /\ req[q].pc \in Awaits \ {"perms"}
    /\ Put(q, Idle)
    /\ UNCHANGED <<clock, tables, caches, history>>

\* The process dies and comes back
Restart ==
    /\ profileCache' = [u \in Users |-> NoEntry]
    /\ permMap' = {}
    /\ permExpires' = 0
    /\ flight' = NoFlight
    /\ req' = [q \in Requests |-> Idle]
    /\ UNCHANGED <<clock, tables, history>>

\* A SELECT for a cache takes no longer than Latency
Tick ==
    /\ clock < MaxClock
    /\ flight.pc # "none" => clock < flight.at + Latency
    /\ \A q \in Requests :
         req[q].pc \in {"select", "selected"} => clock < req[q].at + Latency
    /\ clock' = clock + 1
    /\ UNCHANGED <<tables, caches, req, history>>

Continue(q) ==
    Enter(q) \/ LookUp(q) \/ RoleGate(q) \/ Permit(q) \/ ActorLoaded(q)
        \/ TargetLoaded(q) \/ Reloaded(q)

Statement(q) ==
    ProfileRead(q) \/ ProfileDone(q) \/ Fetched(q) \/ RevokeRow(q) \/ InsertRow(q)
        \/ SetBlocked(q) \/ StripGrants(q) \/ GrantOne(q) \/ Written(q) \/ Fail(q)

Next ==
    \/ \E q \in Requests : Continue(q)
    \/ /\ Settled
       /\ \/ \E q \in Requests :
                CheckStart(q) \/ MutateStart(q) \/ ReplaceStart(q) \/ Statement(q)
          \/ FlightRead \/ FlightDone \/ FlightFail
          \/ Restart
          \/ Tick

\* PostgreSQL answers each statement or its connection fails, and the event loop
\* takes the answers in the order they came: one that waits behind continuations and
\* other answers again and again is still handled
Fairness ==
    /\ \A q \in Requests : WF_vars(Continue(q)) /\ SF_vars(Settled /\ Statement(q))
    /\ SF_vars(Settled /\ (FlightRead \/ FlightDone \/ FlightFail))

Spec == Init /\ [][Next]_vars /\ Fairness

-----------------------------------------------------------------------------
(* Properties.                                                             *)

ProfileWindow == ProfileTTL + Latency

GrantWindow == PermissionTTL + 2 * Latency

\* u acts in r, or did less than ProfileWindow ago
HeldRecently(u, r) ==
    \/ r \in Usable(Snapshot(u))
    \/ turned[u][r] > 0 /\ clock < turned[u][r] + ProfileWindow

\* p is granted to r by the code, by a row, or was by a row less than GrantWindow ago
GrantedRecently(r, p) ==
    \/ <<r, p>> \in StaticGrants \cup grants
    \/ stripped[<<r, p>>] > 0 /\ clock < stripped[<<r, p>>] + GrantWindow

\* requirePermission decides the check in q
Decides(q) == Permit(q) /\ req[q].op = "check"

\* Whatever the two caches, the shared refresh and the invalidations do to each
\* other, requirePermission admits a request only by a role its user held, unblocked,
\* and a permission that role had, within the caches' lifetimes and the latency of
\* their SELECTs: a revocation, a block or a removed grant works after that at the
\* latest.
AdmittedByRecentRole ==
    [][\A q \in Requests : Decides(q) /\ Allowed(q) =>
          \E r \in Roles : HeldRecently(req[q].actor, r) /\ GrantedRecently(r, req[q].perm)
      ]_vars

\* A user who has held, unblocked, a role that the code grants the permission for
\* longer than that is not refused: neither an outdated profile nor an emptied
\* permission map stands in the way.
LongHolderAdmitted ==
    [][\A q \in Requests : Decides(q) /\ ~Allowed(q) =>
          \A r \in Usable(Snapshot(req[q].actor)) :
              <<r, req[q].perm>> \in StaticGrants =>
                  /\ turned[req[q].actor][r] > 0
                  /\ clock < turned[req[q].actor][r] + ProfileWindow
      ]_vars

\* No request waits forever, in particular not on a refresh another request started
\* and that failed.
HandlersFinish == \A q \in Requests : req[q].pc # "idle" ~> req[q].pc = "idle"

\* docs/PROJECT_FULL_DOCUMENTATION_EN.md:75: "Access profile caching with
\* invalidation on updates".  A request that arrives after a revocation was answered
\* is not decided by a profile that still has the role.
InvalidatedOnUpdate ==
    [][\A q \in Requests : Decides(q) =>
          req[q].seen.roles \cap req[q].gone \cap gone[req[q].actor] = {}]_vars
=============================================================================
