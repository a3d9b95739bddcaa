------------------------- MODULE AccessCachesProofs -------------------------
(***************************************************************************)
(* Proofs about AccessCaches, for every set of users, roles, permissions   *)
(* and requests and for every value of the lifetimes and the latency.      *)
(***************************************************************************)
EXTENDS AccessCaches, TLAPS

(***************************************************************************)
(* The inductive invariant.  Every copy of an access profile or of the     *)
(* grants, be it in a cache, in a SELECT's answer or in a request's hands, *)
(* may differ from the tables only where the tables changed lately enough: *)
(* each place has its own bound, and every step that copies from one place *)
(* to the next keeps within the bound of the next.                         *)
(***************************************************************************)

Snap(u, acc) == [roles |-> Normalized(u, acc[u].roles), blocked |-> acc[u].blocked]

\* Where profile p and the account of u differ, the account changed, and t is at
\* most w after that
Agrees(u, p, t, w, acc, trn) ==
    \A r \in Roles :
        (r \in Usable(p)) # (r \in Usable(Snap(u, acc))) =>
            trn[u][r] > 0 /\ t <= trn[u][r] + w

\* The grants of S are in the table, or were, and t is at most w after their removal
Since(S, t, w, grs, str) ==
    \A g \in S : g \in grs \/ (str[g] > 0 /\ t <= str[g] + w)

RefreshWindow == PermissionTTL + Latency

\* What a request in flight knows, at time now, beside the tables and the permission map
RequestOK(r, now, acc, trn, map, grs, str) ==
    /\ r.pc \in {"select", "selected"} =>
         /\ r.at <= now
         /\ now <= r.at + Latency
         /\ Since(map, r.at + 1, RefreshWindow, grs, str)
    /\ r.pc = "selected" => Agrees(Subject(r), r.seen, r.at, 0, acc, trn)
    /\ r.pc = "lookup" => Since(map, now + 1, RefreshWindow, grs, str)
    /\ r.pc = "loaded" =>
         /\ Agrees(Subject(r), r.seen, now + 1, ProfileWindow, acc, trn)
         /\ Since(map, now + 1, GrantWindow, grs, str)

RequestsOK ==
    \A q \in Requests :
        RequestOK(req[q], clock, account, turned, permMap, grants, stripped)

ProfileCacheOK ==
    \A u \in Users :
        /\ profileCache[u].expires <= clock + ProfileTTL
        /\ clock < profileCache[u].expires =>
             Agrees(u, profileCache[u].profile, profileCache[u].expires, ProfileWindow,
                    account, turned)

PermissionCacheOK ==
    /\ permExpires <= clock + PermissionTTL
    /\ Since(permMap, permExpires, RefreshWindow, grants, stripped)

FlightOK ==
    /\ flight.pc # "none" => flight.at <= clock /\ clock <= flight.at + Latency
    /\ flight.pc = "read" => Since(flight.rows, flight.at, 0, grants, stripped)

IndInv ==
    /\ TypeOK
    /\ clock >= 1
    /\ ProfileCacheOK
    /\ PermissionCacheOK
    /\ FlightOK
    /\ RequestsOK

-----------------------------------------------------------------------------

\* Where a request's copies are of no use to it
Loading == {"lookup", "select", "selected", "loaded"}

LEMMA QuietOK ==
  ASSUME NEW r, r.pc \notin Loading,
         NEW now, NEW acc, NEW trn, NEW map, NEW grs, NEW str
  PROVE  RequestOK(r, now, acc, trn, map, grs, str)
  BY DEF RequestOK, Loading

LEMMA IdleTyped == Idle \in Request /\ Idle.pc = "idle" /\ NoProfile \in Profile
  <1>1. Someone \in Users
    BY RolesAssumption DEF Someone
  <1>2. Root \in Roles /\ RoutePerm["replace"] \in Perms
    BY RolesAssumption, GrantsAssumption DEF Mutations
  <1>3. NoProfile \in Profile
    BY DEF NoProfile, Profile
  <1> QED BY <1>1, <1>2, <1>3 DEF Idle, Request, Mutations

LEMMA SubjectTyped == ASSUME NEW r \in Request PROVE Subject(r) \in Users
  BY DEF Request, Subject

LEMMA SnapTyped ==
  ASSUME NEW acc \in [Users -> Profile], NEW u \in Users
  PROVE  Snap(u, acc) \in Profile
  <1>1. acc[u].roles \in SUBSET Roles /\ acc[u].blocked \in BOOLEAN
    BY DEF Profile
  <1>2. LegacyRole[u] \in Roles
    BY RolesAssumption
  <1> QED BY <1>1, <1>2 DEF Snap, Normalized, Profile

\* A step in which only the request of q, the history's counters and the shared
\* refresh's beginning change
LEMMA LocalStep ==
  ASSUME IndInv,
         NEW q \in Requests, NEW r \in Request, req' = [req EXCEPT ![q] = r],
         RequestOK(r, clock, account, turned, permMap, grants, stripped),
         UNCHANGED <<clock, tables, profileCache, permMap, permExpires, flight,
                     turned, stripped>>,
         changes' \in Nat, gone' \in [Users -> SUBSET Roles]
  PROVE  IndInv'
  <1>1. TypeOK'
    BY DEF IndInv, TypeOK, tables
  <1>2. RequestsOK'
    <2>1. ASSUME NEW p \in Requests
          PROVE  RequestOK(req'[p], clock, account, turned, permMap, grants, stripped)
      BY DEF IndInv, TypeOK, RequestsOK
    <2> QED BY <2>1 DEF RequestsOK, tables
  <1>3. ProfileCacheOK' /\ PermissionCacheOK' /\ FlightOK' /\ (clock >= 1)'
    BY DEF IndInv, ProfileCacheOK, PermissionCacheOK, FlightOK, tables
  <1> QED BY <1>1, <1>2, <1>3 DEF IndInv

LEMMA InitInd == Init => IndInv
  <1> SUFFICES ASSUME Init PROVE IndInv
    OBVIOUS
  <1>1. NoEntry \in Entry /\ NoFlight \in Flight
    BY IdleTyped DEF NoEntry, Entry, NoFlight, Flight
  <1>2. account \in [Users -> Profile]
    BY RolesAssumption DEF Init, Profile
  <1>3. TypeOK
    BY <1>1, <1>2, IdleTyped, GrantsAssumption DEF Init, TypeOK
  <1>4. RequestsOK
    BY IdleTyped, QuietOK DEF Init, RequestsOK, Loading
  <1>5. ProfileCacheOK
    <2>1. ASSUME NEW u \in Users PROVE profileCache[u].expires = 0
      BY DEF Init, NoEntry
    <2>2. clock = 1 /\ ProfileTTL \in Nat
      BY TimeAssumption DEF Init
    <2>3. 0 <= clock + ProfileTTL /\ ~(clock < 0)
      BY <2>2
    <2> QED BY <2>1, <2>3 DEF ProfileCacheOK
  <1>6. PermissionCacheOK /\ FlightOK /\ clock >= 1
    BY TimeAssumption DEF Init, PermissionCacheOK, FlightOK, NoFlight, Since
  <1> QED BY <1>3, <1>4, <1>5, <1>6 DEF IndInv

-----------------------------------------------------------------------------
(* The steps of one request that leave the tables and the caches alone.    *)

\* Such a step to a request whose copies are of no use
LEMMA QuietStep ==
  ASSUME IndInv,
         NEW q \in Requests, NEW r \in Request, req' = [req EXCEPT ![q] = r],
         r.pc \notin Loading,
         UNCHANGED <<clock, tables, profileCache, permMap, permExpires, flight,
                     turned, stripped>>,
         changes' \in Nat, gone' \in [Users -> SUBSET Roles]
  PROVE  IndInv'
  <1>1. RequestOK(r, clock, account, turned, permMap, grants, stripped)
    BY QuietOK
  <1> QED BY <1>1, LocalStep

LEMMA StartInd ==
  ASSUME IndInv, NEW q \in Requests,
         CheckStart(q) \/ MutateStart(q) \/ ReplaceStart(q)
  PROVE  IndInv'
  <1>1. changes \in Nat /\ gone \in [Users -> SUBSET Roles]
    BY DEF IndInv, TypeOK
  <1>2. CASE CheckStart(q)
    <2>1. PICK u \in Users, p \in NamedPerms :
            Start(q, [Idle EXCEPT !.pc = "enter", !.op = "check", !.cont = "permit",
                                  !.actor = u, !.perm = p, !.gone = gone[u]])
      BY <1>2 DEF CheckStart
    <2> DEFINE r == [Idle EXCEPT !.pc = "enter", !.op = "check", !.cont = "permit",
                                 !.actor = u, !.perm = p, !.gone = gone[u]]
    <2>2. gone[u] \in SUBSET Roles /\ p \in Perms
      BY <1>1, GrantsAssumption
    <2>3. r \in Request /\ r.pc = "enter"
      BY <2>2, IdleTyped DEF Request, Micro
    <2>4. req' = [req EXCEPT ![q] = r]
      BY <2>1 DEF Start, Put
    <2> HIDE DEF r
    <2> QED BY <1>1, <1>2, <2>1, <2>3, <2>4, QuietStep
            DEF CheckStart, Start, caches, Loading
  <1>3. CASE MutateStart(q)
    <2>1. PICK a \in Users, t \in Users, k \in NamedRoles,
               op \in {"assign", "revoke", "block"}, f \in BOOLEAN :
            Start(q, [Idle EXCEPT !.pc = "enter", !.op = op, !.cont = "role",
                                  !.perm = RoutePerm[op], !.actor = a, !.target = t,
                                  !.role = k, !.flag = f])
      BY <1>3 DEF MutateStart
    <2> DEFINE r == [Idle EXCEPT !.pc = "enter", !.op = op, !.cont = "role",
                                 !.perm = RoutePerm[op], !.actor = a, !.target = t,
                                 !.role = k, !.flag = f]
    <2>2. k \in Roles /\ op \in Mutations /\ RoutePerm[op] \in Perms
      BY GrantsAssumption DEF Mutations
    <2>3. r \in Request /\ r.pc = "enter"
      BY <2>2, IdleTyped DEF Request, Micro
    <2>4. req' = [req EXCEPT ![q] = r]
      BY <2>1 DEF Start, Put
    <2>5. changes' \in Nat
      <3>1. Change
        BY <1>3 DEF MutateStart
      <3> QED BY <1>1, <3>1 DEF Change
    <2>6. UNCHANGED <<clock, tables, profileCache, permMap, permExpires, flight,
                      turned, stripped, gone>>
      BY <2>1 DEF Start, caches
    <2> HIDE DEF r
    <2> QED BY <1>1, <2>3, <2>4, <2>5, <2>6, QuietStep DEF Loading
  <1>4. CASE ReplaceStart(q)
    <2>1. PICK a \in Users, k \in NamedRoles, names \in SUBSET NamedPerms :
            Start(q, [Idle EXCEPT !.pc = "enter", !.op = "replace", !.cont = "role",
                                  !.actor = a, !.role = k, !.names = names])
      BY <1>4 DEF ReplaceStart
    <2> DEFINE r == [Idle EXCEPT !.pc = "enter", !.op = "replace", !.cont = "role",
                                 !.actor = a, !.role = k, !.names = names]
    <2>2. k \in Roles /\ names \subseteq Perms
      BY GrantsAssumption
    <2>3. r \in Request /\ r.pc = "enter"
      BY <2>2, IdleTyped DEF Request, Micro, Mutations
    <2>4. req' = [req EXCEPT ![q] = r]
      BY <2>1 DEF Start, Put
    <2>5. changes' \in Nat
      <3>1. Change
        BY <1>4 DEF ReplaceStart
      <3> QED BY <1>1, <3>1 DEF Change
    <2>6. UNCHANGED <<clock, tables, profileCache, permMap, permExpires, flight,
                      turned, stripped, gone>>
      BY <2>1 DEF Start, caches
    <2> HIDE DEF r
    <2> QED BY <1>1, <2>3, <2>4, <2>5, <2>6, QuietStep DEF Loading
  <1> QED BY <1>2, <1>3, <1>4

\* The gates and the handlers' other steps that load no profile
LEMMA GateInd ==
  ASSUME IndInv, NEW q \in Requests,
         \/ RoleGate(q) \/ Permit(q) \/ Fetched(q) \/ ActorLoaded(q)
         \/ TargetLoaded(q) \/ Reloaded(q) \/ Fail(q)
  PROVE  IndInv'
  <1> DEFINE Other(r) == r \in Request /\ r.pc \notin Loading
  <1>1. /\ req[q] \in Request
        /\ req[q].seen \in Profile
        /\ changes \in Nat
        /\ gone \in [Users -> SUBSET Roles]
    BY DEF IndInv, TypeOK, Request
  <1>2. Other(Idle)
    BY IdleTyped DEF Loading
  <1>3. CASE RoleGate(q)
    <2> DEFINE r == IF Usable(req[q].seen) \cap AdminRoles # {}
                      THEN [req[q] EXCEPT !.pc = "enter", !.cont = "permit", !.seen = NoProfile]
                      ELSE Idle
    <2>1. Other([req[q] EXCEPT !.pc = "enter", !.cont = "permit", !.seen = NoProfile])
      BY <1>1, IdleTyped DEF Request, Micro, Loading
    <2>2. Other(r)
      BY <1>2, <2>1
    <2>3. req' = [req EXCEPT ![q] = r]
      BY <1>3 DEF RoleGate, Put
    <2> HIDE DEF r
    <2> QED BY <1>1, <1>3, <2>2, <2>3, QuietStep DEF RoleGate, caches, history
  <1>4. CASE Permit(q)
    <2> DEFINE r == IF req[q].op = "check" \/ ~Allowed(q)
                      THEN Idle
                      ELSE [req[q] EXCEPT !.pc = IF req[q].op = "replace" THEN "strip" ELSE "fetch",
                                          !.seen = NoProfile]
    <2>1. Other([req[q] EXCEPT !.pc = IF req[q].op = "replace" THEN "strip" ELSE "fetch",
                               !.seen = NoProfile])
      BY <1>1, IdleTyped DEF Request, Awaits, Loading
    <2>2. Other(r)
      BY <1>2, <2>1
    <2>3. req' = [req EXCEPT ![q] = r]
      BY <1>4 DEF Permit, Put
    <2> HIDE DEF r
    <2> QED BY <1>1, <1>4, <2>2, <2>3, QuietStep DEF Permit, caches, history
  <1>5. CASE Fetched(q)
    <2> DEFINE r == [req[q] EXCEPT !.pc = "enter", !.cont = "actor"]
    <2>1. Other(r)
      BY <1>1 DEF Request, Micro, Loading
    <2>2. req' = [req EXCEPT ![q] = r]
      BY <1>5 DEF Fetched, Put
    <2> HIDE DEF r
    <2> QED BY <1>1, <1>5, <2>1, <2>2, QuietStep DEF Fetched, caches, history
  <1>6. CASE ActorLoaded(q)
    <2> DEFINE r == [req[q] EXCEPT !.pc = "enter", !.cont = "target",
                                   !.mine = req[q].seen, !.seen = NoProfile]
    <2>1. Other(r)
      BY <1>1, IdleTyped DEF Request, Micro, Loading
    <2>2. req' = [req EXCEPT ![q] = r]
      BY <1>6 DEF ActorLoaded, Put
    <2> HIDE DEF r
    <2> QED BY <1>1, <1>6, <2>1, <2>2, QuietStep DEF ActorLoaded, caches, history
  <1>7. CASE TargetLoaded(q)
    <2> DEFINE r == IF MutationAllowed(req[q])
                      THEN [req[q] EXCEPT !.pc = IF req[q].op = "block" THEN "block" ELSE "revoke",
                                          !.mine = NoProfile, !.seen = NoProfile]
                      ELSE Idle
    <2>1. Other([req[q] EXCEPT !.pc = IF req[q].op = "block" THEN "block" ELSE "revoke",
                               !.mine = NoProfile, !.seen = NoProfile])
      BY <1>1, IdleTyped DEF Request, Awaits, Loading
    <2>2. Other(r)
      BY <1>2, <2>1
    <2>3. req' = [req EXCEPT ![q] = r]
      BY <1>7 DEF TargetLoaded, Put
    <2> HIDE DEF r
    <2> QED BY <1>1, <1>7, <2>2, <2>3, QuietStep DEF TargetLoaded, caches, history
  <1>8. CASE Reloaded(q)
    <2>1. req[q].role \in Roles
      BY <1>1 DEF Request
    <2>2. gone' \in [Users -> SUBSET Roles]
      BY <1>1, <1>8, <2>1 DEF Reloaded
    <2>3. req' = [req EXCEPT ![q] = Idle]
      BY <1>8 DEF Reloaded, Put
    <2> QED BY <1>1, <1>2, <1>8, <2>2, <2>3, QuietStep DEF Reloaded, caches
  <1>9. CASE Fail(q)
    <2>1. req' = [req EXCEPT ![q] = Idle]
      BY <1>9 DEF Fail, Put
    <2> QED BY <1>1, <1>2, <1>9, <2>1, QuietStep DEF Fail, caches, history
  <1> QED BY <1>3, <1>4, <1>5, <1>6, <1>7, <1>8, <1>9

-----------------------------------------------------------------------------
(* The steps that load a profile.                                          *)

LEMMA EnterInd ==
  ASSUME IndInv, NEW q \in Requests, Enter(q)
  PROVE  IndInv'
  <1>1. req[q] \in Request /\ changes' \in Nat /\ gone' \in [Users -> SUBSET Roles]
    BY DEF IndInv, TypeOK, Enter, history
  <1>2. CASE permExpires > clock
    <2> DEFINE r == [req[q] EXCEPT !.pc = "lookup"]
    <2>1. r \in Request /\ r.pc = "lookup"
      BY <1>1 DEF Request, Micro
    <2>2. req' = [req EXCEPT ![q] = r]
      BY <1>2 DEF Enter, Put
    <2>3. UNCHANGED <<clock, tables, profileCache, permMap, permExpires, flight,
                      turned, stripped>>
      BY <1>2 DEF Enter, history
    <2>4. Since(permMap, clock + 1, RefreshWindow, grants, stripped)
      <3>1. ASSUME NEW g \in permMap, g \notin grants
            PROVE  stripped[g] > 0 /\ clock + 1 <= stripped[g] + RefreshWindow
        <4>1. stripped[g] > 0 /\ permExpires <= stripped[g] + RefreshWindow
          BY <3>1 DEF IndInv, PermissionCacheOK, Since
        <4>2. stripped[g] \in Nat /\ clock \in Nat /\ permExpires \in Nat
          BY DEF IndInv, TypeOK
        <4>3. RefreshWindow \in Nat
          BY TimeAssumption DEF RefreshWindow
        <4> QED BY <1>2, <4>1, <4>2, <4>3
      <3> QED BY <3>1 DEF Since
    <2> HIDE DEF r
    <2>5. RequestOK(r, clock, account, turned, permMap, grants, stripped)
      BY <2>1, <2>4 DEF RequestOK
    <2> QED BY <1>1, <2>1, <2>2, <2>3, <2>5, LocalStep
  <1>3. CASE ~(permExpires > clock)
    <2> DEFINE r == [req[q] EXCEPT !.pc = "perms"]
    <2>1. r \in Request /\ r.pc = "perms"
      BY <1>1 DEF Request, Awaits
    <2>2. req' = [req EXCEPT ![q] = r]
      BY <1>3 DEF Enter, Put
    <2>3. UNCHANGED <<clock, tables, profileCache, permMap, permExpires, turned, stripped>>
      BY DEF Enter, history
    <2>4. flight' \in Flight /\ FlightOK'
      <3>1. clock \in Nat /\ flight \in Flight /\ Latency \in Nat
        BY TimeAssumption DEF IndInv, TypeOK
      <3>2. CASE flight.pc = "none"
        <4>1. flight' = [pc |-> "sent", at |-> clock, rows |-> {}]
          BY <1>3, <3>2 DEF Enter
        <4> QED BY <2>3, <3>1, <4>1 DEF Flight, FlightOK
      <3>3. CASE flight.pc # "none"
        <4>1. flight' = flight
          BY <1>3, <3>3 DEF Enter
        <4> QED BY <2>3, <3>1, <4>1 DEF IndInv, FlightOK, tables
      <3> QED BY <3>2, <3>3
    <2> HIDE DEF r
    <2>5. RequestOK(r, clock, account, turned, permMap, grants, stripped)
      BY <2>1, QuietOK DEF Loading
    <2>6. TypeOK'
      BY <1>1, <2>1, <2>2, <2>3, <2>4 DEF IndInv, TypeOK, tables
    <2>7. RequestsOK'
      <3>1. ASSUME NEW p \in Requests
            PROVE  RequestOK(req'[p], clock, account, turned, permMap, grants, stripped)
        BY <2>2, <2>5 DEF IndInv, TypeOK, RequestsOK
      <3> QED BY <2>3, <3>1 DEF RequestsOK, tables
    <2>8. ProfileCacheOK' /\ PermissionCacheOK' /\ (clock >= 1)'
      BY <2>3 DEF IndInv, ProfileCacheOK, PermissionCacheOK, tables
    <2> QED BY <2>4, <2>6, <2>7, <2>8 DEF IndInv
  <1> QED BY <1>2, <1>3

LEMMA LookUpInd ==
  ASSUME IndInv, NEW q \in Requests, LookUp(q)
  PROVE  IndInv'
  <1> DEFINE u == Subject(req[q])
             r == IF Cached(u)
                    THEN [req[q] EXCEPT !.pc = "loaded", !.seen = profileCache[u].profile]
                    ELSE [req[q] EXCEPT !.pc = "select", !.at = clock]
  <1>1. /\ req[q] \in Request
        /\ changes' \in Nat
        /\ gone' \in [Users -> SUBSET Roles]
        /\ clock \in Nat
        /\ Latency \in Nat
    BY TimeAssumption DEF IndInv, TypeOK, LookUp, history
  <1>2. u \in Users
    BY <1>1, SubjectTyped
  <1>3. profileCache[u] \in Entry
    BY <1>2 DEF IndInv, TypeOK
  <1>4. profileCache[u].profile \in Profile /\ profileCache[u].expires \in Nat
    BY <1>3 DEF Entry
  <1>5. req' = [req EXCEPT ![q] = r]
    BY DEF LookUp, Put
  <1>6. UNCHANGED <<clock, tables, profileCache, permMap, permExpires, flight,
                    turned, stripped>>
    BY DEF LookUp, caches, history
  <1>7. Since(permMap, clock + 1, RefreshWindow, grants, stripped)
    BY DEF IndInv, RequestsOK, RequestOK, LookUp
  <1>8. CASE Cached(u)
    <2>1. r = [req[q] EXCEPT !.pc = "loaded", !.seen = profileCache[u].profile]
      BY <1>8
    <2>2. r \in Request
      BY <1>1, <1>4, <2>1 DEF Request, Micro
    <2>3. r.pc = "loaded" /\ r.seen = profileCache[u].profile /\ Subject(r) = u
      BY <1>1, <2>1 DEF Subject, Request
    <2>4. clock < profileCache[u].expires
      BY <1>1, <1>4, <1>8 DEF Cached
    <2>5. Agrees(u, profileCache[u].profile, profileCache[u].expires, ProfileWindow,
                 account, turned)
      BY <1>2, <2>4 DEF IndInv, ProfileCacheOK
    <2>6. Agrees(u, profileCache[u].profile, clock + 1, ProfileWindow, account, turned)
      <3>1. ProfileWindow \in Nat
        BY TimeAssumption DEF ProfileWindow
      <3>2. \A k \in Roles : turned[u][k] \in Nat
        BY <1>2 DEF IndInv, TypeOK
      <3> QED BY <1>1, <1>4, <2>4, <2>5, <3>1, <3>2 DEF Agrees
    <2>7. Since(permMap, clock + 1, GrantWindow, grants, stripped)
      <3>1. RefreshWindow \in Nat /\ GrantWindow \in Nat /\ RefreshWindow <= GrantWindow
        BY TimeAssumption DEF RefreshWindow, GrantWindow
      <3>2. \A g \in permMap : stripped[g] \in Nat
        BY DEF IndInv, TypeOK
      <3> QED BY <1>1, <1>7, <3>1, <3>2 DEF Since
    <2> HIDE DEF r, u
    <2>8. RequestOK(r, clock, account, turned, permMap, grants, stripped)
      BY <2>3, <2>6, <2>7 DEF RequestOK
    <2> QED BY <1>1, <1>5, <1>6, <2>2, <2>8, LocalStep
  <1>9. CASE ~Cached(u)
    <2>1. r = [req[q] EXCEPT !.pc = "select", !.at = clock]
      BY <1>9
    <2>2. r \in Request /\ r.pc = "select" /\ r.at = clock
      BY <1>1, <2>1 DEF Request, Awaits
    <2> HIDE DEF r, u
    <2>3. RequestOK(r, clock, account, turned, permMap, grants, stripped)
      BY <1>1, <1>7, <2>2 DEF RequestOK
    <2> QED BY <1>1, <1>5, <1>6, <2>2, <2>3, LocalStep
  <1> QED BY <1>8, <1>9

LEMMA ProfileReadInd ==
  ASSUME IndInv, NEW q \in Requests, ProfileRead(q)
  PROVE  IndInv'
  <1> DEFINE u == Subject(req[q])
             r == [req[q] EXCEPT !.pc = "selected", !.seen = Snapshot(u)]
  <1>1. /\ req[q] \in Request
        /\ changes' \in Nat
        /\ gone' \in [Users -> SUBSET Roles]
    BY DEF IndInv, TypeOK, ProfileRead, history
  <1>2. u \in Users
    BY <1>1, SubjectTyped
  <1>3. Snapshot(u) = Snap(u, account) /\ Snapshot(u) \in Profile
    BY <1>2, SnapTyped DEF IndInv, TypeOK, Snapshot, Snap
  <1>4. req' = [req EXCEPT ![q] = r]
    BY DEF ProfileRead, Put
  <1>5. UNCHANGED <<clock, tables, profileCache, permMap, permExpires, flight,
                    turned, stripped>>
    BY DEF ProfileRead, caches, history
  <1>6. /\ req[q].at <= clock
        /\ clock <= req[q].at + Latency
        /\ Since(permMap, req[q].at + 1, RefreshWindow, grants, stripped)
    BY DEF IndInv, RequestsOK, RequestOK, ProfileRead
  <1>7. r \in Request
    BY <1>1, <1>3 DEF Request, Awaits
  <1>8. /\ r.pc = "selected"
        /\ r.at = req[q].at
        /\ r.seen = Snap(u, account)
        /\ Subject(r) = u
    BY <1>1, <1>3 DEF Subject, Request
  <1> HIDE DEF r, u
  <1>9. Agrees(Subject(r), r.seen, r.at, 0, account, turned)
    BY <1>8 DEF Agrees
  <1>10. RequestOK(r, clock, account, turned, permMap, grants, stripped)
    BY <1>6, <1>8, <1>9 DEF RequestOK
  <1> QED BY <1>1, <1>4, <1>5, <1>7, <1>10, LocalStep

LEMMA ProfileDoneInd ==
  ASSUME IndInv, NEW q \in Requests, ProfileDone(q)
  PROVE  IndInv'
  <1> DEFINE u == Subject(req[q])
             r == [req[q] EXCEPT !.pc = "loaded", !.at = 0]
             e == [profile |-> req[q].seen, expires |-> clock + ProfileTTL]
  <1>1. /\ req[q] \in Request /\ req[q].seen \in Profile /\ req[q].at \in Nat
        /\ clock \in Nat
        /\ ProfileTTL \in Nat /\ ProfileTTL >= 1
        /\ PermissionTTL \in Nat
        /\ Latency \in Nat
        /\ turned \in [Users -> [Roles -> Nat]]
    BY TimeAssumption DEF IndInv, TypeOK, Request
  <1>2. u \in Users
    BY <1>1, SubjectTyped
  <1>3. req' = [req EXCEPT ![q] = r] /\ profileCache' = [profileCache EXCEPT ![u] = e]
    BY DEF ProfileDone, Put
  <1>4. UNCHANGED <<clock, tables, permMap, permExpires, flight, history>>
    BY DEF ProfileDone
  <1>5. /\ req[q].at <= clock
        /\ clock <= req[q].at + Latency
        /\ Since(permMap, req[q].at + 1, RefreshWindow, grants, stripped)
        /\ Agrees(u, req[q].seen, req[q].at, 0, account, turned)
    BY DEF IndInv, RequestsOK, RequestOK, ProfileDone
  <1>6. r \in Request /\ r.pc = "loaded" /\ r.seen = req[q].seen /\ Subject(r) = u
    BY <1>1 DEF Request, Micro, Subject
  <1>7. e \in Entry /\ e.profile = req[q].seen /\ e.expires = clock + ProfileTTL
    BY <1>1 DEF Entry
  <1>8. Agrees(u, req[q].seen, clock + ProfileTTL, ProfileWindow, account, turned)
    <2>1. \A k \in Roles : turned[u][k] \in Nat
      BY <1>1, <1>2
    <2> QED BY <1>1, <1>5, <2>1 DEF Agrees, ProfileWindow
  <1>9. Agrees(u, req[q].seen, clock + 1, ProfileWindow, account, turned)
    <2>1. \A k \in Roles : turned[u][k] \in Nat
      BY <1>1, <1>2
    <2> QED BY <1>1, <1>8, <2>1 DEF Agrees, ProfileWindow
  <1>10. Since(permMap, clock + 1, GrantWindow, grants, stripped)
    <2>1. \A g \in permMap : stripped[g] \in Nat
      BY DEF IndInv, TypeOK
    <2> QED BY <1>1, <1>5, <2>1 DEF Since, RefreshWindow, GrantWindow
  <1> HIDE DEF r, u, e
  <1>11. RequestOK(r, clock, account, turned, permMap, grants, stripped)
    BY <1>6, <1>9, <1>10 DEF RequestOK
  <1>12. TypeOK'
    BY <1>2, <1>3, <1>4, <1>6, <1>7 DEF IndInv, TypeOK, tables, history
  <1>13. RequestsOK'
    <2>1. ASSUME NEW p \in Requests
          PROVE  RequestOK(req'[p], clock, account, turned, permMap, grants, stripped)
      BY <1>3, <1>11 DEF IndInv, TypeOK, RequestsOK
    <2> QED BY <1>4, <2>1 DEF RequestsOK, tables, history
  <1>14. ProfileCacheOK'
    <2>1. ASSUME NEW v \in Users
          PROVE  /\ profileCache'[v].expires <= clock + ProfileTTL
                 /\ clock < profileCache'[v].expires =>
                      Agrees(v, profileCache'[v].profile, profileCache'[v].expires,
                             ProfileWindow, account, turned)
      <3>1. CASE v = u
        <4>1. profileCache'[v] = e
          BY <1>2, <1>3, <3>1 DEF IndInv, TypeOK
        <4> QED BY <1>1, <1>7, <1>8, <3>1, <4>1
      <3>2. CASE v # u
        <4>1. profileCache'[v] = profileCache[v]
          BY <1>3, <3>2 DEF IndInv, TypeOK
        <4> QED BY <4>1 DEF IndInv, ProfileCacheOK
      <3> QED BY <3>1, <3>2
    <2> QED BY <1>4, <2>1 DEF ProfileCacheOK, tables, history
  <1>15. PermissionCacheOK' /\ FlightOK' /\ (clock >= 1)'
    BY <1>4 DEF IndInv, PermissionCacheOK, FlightOK, tables, history
  <1> QED BY <1>12, <1>13, <1>14, <1>15 DEF IndInv

-----------------------------------------------------------------------------
(* The statements that change the tables.  They run when no continuation   *)
(* is waiting, so no request holds a decision's copies.                    *)

LEMMA AccountStep ==
  ASSUME IndInv, Settled,
         NEW v \in Users, NEW a \in Profile, SetAccount(v, a),
         NEW q \in Requests, NEW r \in Request, req' = [req EXCEPT ![q] = r],
         r.pc \notin Loading,
         UNCHANGED <<clock, grants, caches, stripped, changes>>,
         gone' \in [Users -> SUBSET Roles]
  PROVE  IndInv'
  <1>1. /\ clock \in Nat /\ clock >= 1
        /\ account \in [Users -> Profile]
        /\ turned \in [Users -> [Roles -> Nat]]
        /\ ProfileTTL \in Nat /\ Latency \in Nat
    BY TimeAssumption DEF IndInv, TypeOK
  <1>2. account' = [account EXCEPT ![v] = a] /\ account' \in [Users -> Profile]
    BY <1>1 DEF SetAccount
  <1>3. /\ turned' \in [Users -> [Roles -> Nat]]
        /\ \A u \in Users : u # v => turned'[u] = turned[u]
        /\ \A k \in Roles :
             turned'[v][k] = IF (k \in Usable(Snap(v, account))) # (k \in Usable(Snap(v, account')))
                               THEN clock ELSE turned[v][k]
    <2>1. Snapshot(v) = Snap(v, account)
      BY DEF Snapshot, Snap
    <2>2. [roles |-> Normalized(v, a.roles), blocked |-> a.blocked] = Snap(v, account')
      BY <1>1, <1>2 DEF Snap
    <2> DEFINE f == [k \in Roles |->
                      IF (k \in Usable(Snap(v, account))) # (k \in Usable(Snap(v, account')))
                        THEN clock ELSE turned[v][k]]
    <2>3. turned' = [turned EXCEPT ![v] = f]
      BY <2>1, <2>2 DEF SetAccount
    <2>4. f \in [Roles -> Nat]
      BY <1>1
    <2> HIDE DEF f
    <2>5. turned'[v] = f
      BY <1>1, <2>3
    <2>6. turned' \in [Users -> [Roles -> Nat]] /\ \A u \in Users : u # v => turned'[u] = turned[u]
      BY <1>1, <2>3, <2>4
    <2> QED BY <2>5, <2>6 DEF f
  <1>4. ASSUME NEW u \in Users, NEW p, NEW t \in Nat, NEW w \in Nat, t <= clock + w,
               Agrees(u, p, t, w, account, turned)
        PROVE  Agrees(u, p, t, w, account', turned')
    <2>1. CASE u # v
      <3>1. account'[u] = account[u] /\ turned'[u] = turned[u]
        BY <1>1, <1>2, <1>3, <2>1
      <3>2. Snap(u, account') = Snap(u, account)
        BY <3>1 DEF Snap
      <3> QED BY <1>4, <3>1, <3>2 DEF Agrees
    <2>2. CASE u = v
      <3> SUFFICES ASSUME NEW k \in Roles, (k \in Usable(p)) # (k \in Usable(Snap(u, account')))
                   PROVE  turned'[u][k] > 0 /\ t <= turned'[u][k] + w
        BY DEF Agrees
      <3>1. CASE (k \in Usable(Snap(v, account))) # (k \in Usable(Snap(v, account')))
        <4>1. turned'[u][k] = clock
          BY <1>3, <2>2, <3>1
        <4> QED BY <1>1, <1>4, <4>1
      <3>2. CASE ~((k \in Usable(Snap(v, account))) # (k \in Usable(Snap(v, account'))))
        <4>1. turned'[u][k] = turned[u][k]
          BY <1>3, <2>2, <3>2
        <4>2. (k \in Usable(p)) # (k \in Usable(Snap(u, account)))
          BY <2>2, <3>2
        <4> QED BY <1>4, <4>1, <4>2 DEF Agrees
      <3> QED BY <3>1, <3>2
    <2> QED BY <2>1, <2>2
  <1>5. TypeOK'
    BY <1>2, <1>3 DEF IndInv, TypeOK, caches
  <1>6. ASSUME NEW p \in Requests
        PROVE  RequestOK(req'[p], clock, account', turned', permMap, grants, stripped)
    <2>1. CASE p = q
      <3>1. req'[p] = r
        BY <2>1 DEF IndInv, TypeOK
      <3> QED BY <3>1, QuietOK
    <2>2. CASE p # q
      <3>1. req'[p] = req[p] /\ req[p] \in Request /\ req[p].at \in Nat
        BY <2>2 DEF IndInv, TypeOK, Request
      <3>2. RequestOK(req[p], clock, account, turned, permMap, grants, stripped)
        BY DEF IndInv, RequestsOK
      <3>3. Subject(req[p]) \in Users
        BY <3>1, SubjectTyped
      <3>4. req[p].pc = "selected" =>
              Agrees(Subject(req[p]), req[p].seen, req[p].at, 0, account', turned')
        BY <1>1, <1>4, <3>1, <3>2, <3>3 DEF RequestOK
      <3>5. req[p].pc \notin {"lookup", "loaded"}
        BY DEF Settled, Micro
      <3> QED BY <3>1, <3>2, <3>4, <3>5 DEF RequestOK
    <2> QED BY <2>1, <2>2
  <1>7. RequestsOK'
    BY <1>6 DEF RequestsOK, caches
  <1>8. ASSUME NEW u \in Users, clock < profileCache[u].expires
        PROVE  Agrees(u, profileCache[u].profile, profileCache[u].expires, ProfileWindow,
                      account', turned')
    <2>1. /\ profileCache[u].expires \in Nat
          /\ profileCache[u].expires <= clock + ProfileTTL
          /\ Agrees(u, profileCache[u].profile, profileCache[u].expires, ProfileWindow,
                    account, turned)
      BY <1>8 DEF IndInv, TypeOK, Entry, ProfileCacheOK
    <2>2. ProfileWindow \in Nat /\ profileCache[u].expires <= clock + ProfileWindow
      BY <1>1, <2>1 DEF ProfileWindow
    <2> QED BY <1>4, <2>1, <2>2
  <1>9. ProfileCacheOK'
    BY <1>8 DEF IndInv, ProfileCacheOK, caches
  <1>10. PermissionCacheOK' /\ FlightOK' /\ (clock >= 1)'
    BY DEF IndInv, PermissionCacheOK, FlightOK, caches
  <1> QED BY <1>5, <1>7, <1>9, <1>10 DEF IndInv

LEMMA AccountInd ==
  ASSUME IndInv, Settled, NEW q \in Requests,
         RevokeRow(q) \/ InsertRow(q) \/ SetBlocked(q)
  PROVE  IndInv'
  <1> DEFINE v == req[q].target
  <1>1. /\ req[q] \in Request
        /\ v \in Users
        /\ req[q].role \in Roles
        /\ req[q].flag \in BOOLEAN
        /\ gone \in [Users -> SUBSET Roles]
    BY DEF IndInv, TypeOK, Request
  <1>2. account[v] \in Profile
    BY <1>1 DEF IndInv, TypeOK
  <1>3. CASE RevokeRow(q)
    <2> DEFINE a == [account[v] EXCEPT !.roles = @ \ {req[q].role}]
               r == [req[q] EXCEPT !.pc = IF req[q].op = "assign" THEN "insert" ELSE "written"]
    <2>1. a \in Profile
      BY <1>2 DEF Profile
    <2>2. r \in Request /\ r.pc \notin Loading
      BY <1>1 DEF Request, Awaits, Loading
    <2>3. SetAccount(v, a) /\ req' = [req EXCEPT ![q] = r]
      BY <1>3 DEF RevokeRow, Put
    <2> HIDE DEF a, r, v
    <2> QED BY <1>1, <1>3, <2>1, <2>2, <2>3, AccountStep DEF RevokeRow
  <1>4. CASE InsertRow(q)
    <2> DEFINE a == [account[v] EXCEPT !.roles = @ \cup {req[q].role}]
               r == [req[q] EXCEPT !.pc = "written"]
    <2>1. a \in Profile
      BY <1>1, <1>2 DEF Profile
    <2>2. r \in Request /\ r.pc \notin Loading
      BY <1>1 DEF Request, Awaits, Loading
    <2>3. SetAccount(v, a) /\ req' = [req EXCEPT ![q] = r]
      BY <1>4 DEF InsertRow, Put
    <2>4. gone' \in [Users -> SUBSET Roles]
      BY <1>1, <1>4 DEF InsertRow
    <2> HIDE DEF a, r, v
    <2> QED BY <1>1, <1>4, <2>1, <2>2, <2>3, <2>4, AccountStep DEF InsertRow
  <1>5. CASE SetBlocked(q)
    <2> DEFINE a == [account[v] EXCEPT !.blocked = req[q].flag]
               r == [req[q] EXCEPT !.pc = "written"]
    <2>1. a \in Profile
      BY <1>1, <1>2 DEF Profile
    <2>2. r \in Request /\ r.pc \notin Loading
      BY <1>1 DEF Request, Awaits, Loading
    <2>3. SetAccount(v, a) /\ req' = [req EXCEPT ![q] = r]
      BY <1>5 DEF SetBlocked, Put
    <2> HIDE DEF a, r, v
    <2> QED BY <1>1, <1>5, <2>1, <2>2, <2>3, AccountStep DEF SetBlocked
  <1> QED BY <1>3, <1>4, <1>5

\* What Since says of a set of grants survives a change of the tables that notes
\* what it takes away
LEMMA SinceKept ==
  ASSUME NEW S, NEW t \in Nat, NEW w \in Nat, NEW grs, NEW str, NEW grs2, NEW str2,
         NEW now \in Nat, now > 0, t <= now + w,
         \A g \in grs \ grs2 : str2[g] = now,
         \A g \in S : g \notin grs => str2[g] = str[g],
         Since(S, t, w, grs, str)
  PROVE  Since(S, t, w, grs2, str2)
  <1> SUFFICES ASSUME NEW g \in S, g \notin grs2
               PROVE  str2[g] > 0 /\ t <= str2[g] + w
    BY DEF Since
  <1>1. CASE g \in grs
    <2>1. str2[g] = now
      BY <1>1
    <2> QED BY <2>1
  <1>2. CASE g \notin grs
    <2>1. str2[g] = str[g] /\ str[g] > 0 /\ t <= str[g] + w
      BY <1>2 DEF Since
    <2> QED BY <2>1
  <1> QED BY <1>1, <1>2

LEMMA GrantsStep ==
  ASSUME IndInv, Settled,
         grants' \subseteq Roles \X Perms, stripped' \in [Roles \X Perms -> Nat],
         \A g \in grants \ grants' : stripped'[g] = clock,
         \A g \in Roles \X Perms : g \notin grants => stripped'[g] = stripped[g],
         NEW q \in Requests, NEW r \in Request, req' = [req EXCEPT ![q] = r],
         r.pc \notin Loading,
         UNCHANGED <<clock, account, caches, turned, gone, changes>>
  PROVE  IndInv'
  <1>1. /\ clock \in Nat /\ clock > 0
        /\ permMap \subseteq Roles \X Perms /\ permExpires \in Nat
        /\ flight \in Flight /\ flight.at \in Nat /\ flight.rows \subseteq Roles \X Perms
        /\ PermissionTTL \in Nat /\ Latency \in Nat /\ RefreshWindow \in Nat
        /\ PermissionTTL >= 1
    BY TimeAssumption DEF IndInv, TypeOK, Flight, RefreshWindow
  <1>2. ASSUME NEW S \in SUBSET (Roles \X Perms), NEW t \in Nat, NEW w \in Nat,
               t <= clock + w, Since(S, t, w, grants, stripped)
        PROVE  Since(S, t, w, grants', stripped')
    BY <1>1, <1>2, SinceKept
  <1>3. TypeOK'
    BY DEF IndInv, TypeOK, caches
  <1>4. ASSUME NEW p \in Requests
        PROVE  RequestOK(req'[p], clock, account, turned, permMap, grants', stripped')
    <2>1. CASE p = q
      <3>1. req'[p] = r
        BY <2>1 DEF IndInv, TypeOK
      <3> QED BY <3>1, QuietOK
    <2>2. CASE p # q
      <3>1. req'[p] = req[p] /\ req[p].at \in Nat
        BY <2>2 DEF IndInv, TypeOK, Request
      <3>2. RequestOK(req[p], clock, account, turned, permMap, grants, stripped)
        BY DEF IndInv, RequestsOK
      <3>3. CASE req[p].pc \in {"select", "selected"}
        <4>1. req[p].at + 1 \in Nat /\ req[p].at + 1 <= clock + RefreshWindow
          BY <1>1, <3>1, <3>2, <3>3 DEF RequestOK, RefreshWindow
        <4>2. Since(permMap, req[p].at + 1, RefreshWindow, grants', stripped')
          BY <1>1, <1>2, <3>2, <3>3, <4>1 DEF RequestOK
        <4> QED BY <3>1, <3>2, <3>3, <4>2 DEF RequestOK
      <3>4. CASE req[p].pc \notin {"select", "selected"}
        <4>1. req[p].pc \notin Loading
          BY <3>4 DEF Settled, Micro, Loading
        <4> QED BY <3>1, <4>1, QuietOK
      <3> QED BY <3>3, <3>4
    <2> QED BY <2>1, <2>2
  <1>5. RequestsOK'
    BY <1>4 DEF RequestsOK, caches
  <1>6. ProfileCacheOK' /\ (clock >= 1)'
    BY DEF IndInv, ProfileCacheOK, caches
  <1>7. PermissionCacheOK'
    <2>1. permExpires <= clock + PermissionTTL
          /\ Since(permMap, permExpires, RefreshWindow, grants, stripped)
      BY DEF IndInv, PermissionCacheOK
    <2>2. permExpires <= clock + RefreshWindow
      BY <1>1, <2>1 DEF RefreshWindow
    <2>3. Since(permMap, permExpires, RefreshWindow, grants', stripped')
      BY <1>1, <1>2, <2>1, <2>2
    <2> QED BY <2>1, <2>3 DEF PermissionCacheOK, caches
  <1>8. FlightOK'
    <2>1. flight.pc = "read" => Since(flight.rows, flight.at, 0, grants', stripped')
      BY <1>1, <1>2 DEF IndInv, FlightOK
    <2> QED BY <2>1 DEF IndInv, FlightOK, caches
  <1> QED BY <1>3, <1>5, <1>6, <1>7, <1>8 DEF IndInv

LEMMA GrantsInd ==
  ASSUME IndInv, Settled, NEW q \in Requests, StripGrants(q) \/ GrantOne(q)
  PROVE  IndInv'
  <1>1. /\ req[q] \in Request /\ req[q].role \in Roles /\ req[q].names \subseteq Perms
        /\ grants \subseteq Roles \X Perms
        /\ stripped \in [Roles \X Perms -> Nat]
        /\ clock \in Nat
    BY DEF IndInv, TypeOK, Request
  <1>2. CASE StripGrants(q)
    <2> DEFINE taken == grants \cap ({req[q].role} \X Perms)
               r == [req[q] EXCEPT !.pc = IF req[q].names = {} THEN "written" ELSE "grant"]
    <2>1. /\ grants' = grants \ taken
          /\ stripped' = [g \in Roles \X Perms |-> IF g \in taken THEN clock ELSE stripped[g]]
          /\ req' = [req EXCEPT ![q] = r]
      BY <1>2 DEF StripGrants, Put
    <2>2. r \in Request /\ r.pc \notin Loading
      BY <1>1 DEF Request, Awaits, Loading
    <2>3. taken \subseteq grants
      OBVIOUS
    <2> HIDE DEF taken, r
    <2>4. /\ grants' \subseteq Roles \X Perms
          /\ stripped' \in [Roles \X Perms -> Nat]
          /\ \A g \in grants \ grants' : stripped'[g] = clock
          /\ \A g \in Roles \X Perms : g \notin grants => stripped'[g] = stripped[g]
      BY <1>1, <2>1, <2>3
    <2> QED BY <1>2, <2>1, <2>2, <2>4, GrantsStep DEF StripGrants
  <1>3. CASE GrantOne(q)
    <2>1. PICK p \in req[q].names :
            /\ grants' = grants \cup {<<req[q].role, p>>}
            /\ req' = [req EXCEPT ![q] =
                        [req[q] EXCEPT !.names = @ \ {p},
                                       !.pc = IF req[q].names = {p} THEN "written" ELSE "grant"]]
      BY <1>3 DEF GrantOne, Put
    <2> DEFINE r == [req[q] EXCEPT !.names = @ \ {p},
                                   !.pc = IF req[q].names = {p} THEN "written" ELSE "grant"]
    <2>2. r \in Request /\ r.pc \notin Loading
      BY <1>1 DEF Request, Awaits, Loading
    <2>3. req' = [req EXCEPT ![q] = r]
      BY <2>1
    <2>4. /\ grants' \subseteq Roles \X Perms
          /\ stripped' = stripped
          /\ grants \subseteq grants'
      BY <1>1, <1>3, <2>1 DEF GrantOne, history
    <2> HIDE DEF r
    <2> QED BY <1>1, <1>3, <2>2, <2>3, <2>4, GrantsStep DEF GrantOne, history
  <1> QED BY <1>2, <1>3

-----------------------------------------------------------------------------
(* The steps that empty or fill the caches, and time.                      *)

LEMMA EmptyTyped == NoEntry \in Entry /\ NoFlight \in Flight
  BY IdleTyped DEF NoEntry, Entry, NoFlight, Flight

\* A cache entry that is as before or empty
LEMMA EmptiedOK ==
  ASSUME IndInv, UNCHANGED <<clock, account, turned>>,
         \A u \in Users : profileCache'[u] \in {profileCache[u], NoEntry}
  PROVE  ProfileCacheOK'
  <1>1. clock \in Nat /\ ProfileTTL \in Nat
    BY TimeAssumption DEF IndInv, TypeOK
  <1>2. ASSUME NEW u \in Users
        PROVE  /\ profileCache'[u].expires <= clock + ProfileTTL
               /\ clock < profileCache'[u].expires =>
                    Agrees(u, profileCache'[u].profile, profileCache'[u].expires,
                           ProfileWindow, account, turned)
    <2>1. CASE profileCache'[u] = profileCache[u]
      BY <2>1 DEF IndInv, ProfileCacheOK
    <2>2. CASE profileCache'[u] = NoEntry
      <3>1. profileCache'[u].expires = 0
        BY <2>2 DEF NoEntry
      <3> QED BY <1>1, <3>1
    <2> QED BY <2>1, <2>2
  <1> QED BY <1>2 DEF ProfileCacheOK

LEMMA WrittenInd ==
  ASSUME IndInv, Settled, NEW q \in Requests, Written(q)
  PROVE  IndInv'
  <1>1. /\ req[q] \in Request /\ req[q].target \in Users
        /\ profileCache \in [Users -> Entry]
        /\ clock \in Nat /\ PermissionTTL \in Nat
    BY TimeAssumption DEF IndInv, TypeOK, Request
  <1>2. UNCHANGED <<clock, account, grants, flight, turned, stripped, changes, gone>>
    BY DEF Written, tables, history
  <1>3. CASE req[q].op = "replace"
    <2>1. /\ profileCache' = [u \in Users |-> NoEntry]
          /\ permMap' = {}
          /\ permExpires' = 0
          /\ req' = [req EXCEPT ![q] = Idle]
      BY <1>3 DEF Written, Put
    <2>2. TypeOK'
      BY <1>2, <2>1, EmptyTyped, IdleTyped DEF IndInv, TypeOK
    <2>3. ProfileCacheOK'
      BY <1>2, <2>1, EmptiedOK
    <2>4. PermissionCacheOK' /\ FlightOK' /\ (clock >= 1)'
      BY <1>1, <1>2, <2>1 DEF IndInv, PermissionCacheOK, FlightOK, Since
    <2>5. ASSUME NEW p \in Requests
          PROVE  RequestOK(req'[p], clock, account, turned, {}, grants, stripped)
      <3>1. CASE p = q
        <4>1. req'[p] = Idle
          BY <2>1, <3>1 DEF IndInv, TypeOK
        <4> QED BY <4>1, IdleTyped, QuietOK DEF Loading
      <3>2. CASE p # q
        <4>1. req'[p] = req[p]
          BY <2>1, <3>2 DEF IndInv, TypeOK
        <4>2. req[p].pc \notin {"lookup", "loaded"}
          BY DEF Settled, Micro
        <4> QED BY <4>1, <4>2 DEF IndInv, RequestsOK, RequestOK, Since
      <3> QED BY <3>1, <3>2
    <2>6. RequestsOK'
      BY <1>2, <2>1, <2>5 DEF RequestsOK
    <2> QED BY <2>2, <2>3, <2>4, <2>6 DEF IndInv
  <1>4. CASE req[q].op # "replace"
    <2> DEFINE r == [req[q] EXCEPT !.pc = "enter", !.cont = "reload"]
    <2>1. /\ profileCache' = [profileCache EXCEPT ![req[q].target] = NoEntry]
          /\ permMap' = permMap
          /\ permExpires' = permExpires
          /\ req' = [req EXCEPT ![q] = r]
      BY <1>4 DEF Written, Put
    <2>2. r \in Request /\ r.pc = "enter"
      BY <1>1 DEF Request, Micro
    <2> HIDE DEF r
    <2>3. TypeOK'
      BY <1>1, <1>2, <2>1, <2>2, EmptyTyped DEF IndInv, TypeOK
    <2>4. ProfileCacheOK'
      BY <1>1, <1>2, <2>1, EmptiedOK
    <2>5. PermissionCacheOK' /\ FlightOK' /\ (clock >= 1)'
      BY <1>2, <2>1 DEF IndInv, PermissionCacheOK, FlightOK
    <2>6. RequestOK(r, clock, account, turned, permMap, grants, stripped)
      BY <2>2, QuietOK DEF Loading
    <2>7. ASSUME NEW p \in Requests
          PROVE  RequestOK(req'[p], clock, account, turned, permMap, grants, stripped)
      BY <2>1, <2>6 DEF IndInv, TypeOK, RequestsOK
    <2>8. RequestsOK'
      BY <1>2, <2>1, <2>7 DEF RequestsOK
    <2> QED BY <2>3, <2>4, <2>5, <2>8 DEF IndInv
  <1> QED BY <1>3, <1>4

LEMMA FlightReadInd ==
  ASSUME IndInv, FlightRead
  PROVE  IndInv'
  <1>1. UNCHANGED <<clock, account, grants, profileCache, permMap, permExpires, req,
                    turned, stripped, changes, gone>>
    BY DEF FlightRead, tables, history
  <1>2. /\ flight \in Flight /\ flight.pc = "sent" /\ grants \subseteq Roles \X Perms
        /\ flight' = [flight EXCEPT !.pc = "read", !.rows = grants]
    BY DEF FlightRead, IndInv, TypeOK
  <1>3. flight' \in Flight /\ flight'.at = flight.at /\ flight'.rows = grants
    BY <1>2 DEF Flight
  <1>4. FlightOK'
    BY <1>1, <1>2, <1>3 DEF IndInv, FlightOK, Since
  <1> QED BY <1>1, <1>3, <1>4
          DEF IndInv, TypeOK, ProfileCacheOK, PermissionCacheOK, RequestsOK

LEMMA FlightDoneInd ==
  ASSUME IndInv, Settled, FlightDone
  PROVE  IndInv'
  <1>1. UNCHANGED <<clock, account, grants, profileCache, turned, stripped, changes, gone>>
    BY DEF FlightDone, tables, history
  <1>2. /\ permMap' = flight.rows
        /\ permExpires' = clock + PermissionTTL
        /\ flight' = NoFlight
        /\ req' = [p \in Requests |->
                     IF req[p].pc = "perms" THEN [req[p] EXCEPT !.pc = "lookup"] ELSE req[p]]
    BY DEF FlightDone
  <1>3. /\ clock \in Nat
        /\ PermissionTTL \in Nat /\ PermissionTTL >= 1
        /\ Latency \in Nat
        /\ flight \in Flight /\ flight.at \in Nat /\ flight.rows \subseteq Roles \X Perms
        /\ stripped \in [Roles \X Perms -> Nat]
    BY TimeAssumption DEF IndInv, TypeOK, Flight
  <1>4. /\ clock <= flight.at + Latency
        /\ Since(flight.rows, flight.at, 0, grants, stripped)
    BY DEF IndInv, FlightOK, FlightDone
  \* the rows left the table no earlier than Latency ago
  <1>5. ASSUME NEW t \in Nat, t <= clock + PermissionTTL
        PROVE  Since(flight.rows, t, RefreshWindow, grants, stripped)
    <2> SUFFICES ASSUME NEW g \in flight.rows, g \notin grants
                 PROVE  stripped[g] > 0 /\ t <= stripped[g] + RefreshWindow
      BY DEF Since
    <2>1. stripped[g] > 0 /\ flight.at <= stripped[g] + 0
      BY <1>4 DEF Since
    <2>2. stripped[g] \in Nat
      BY <1>3
    <2> QED BY <1>3, <1>4, <1>5, <2>1, <2>2 DEF RefreshWindow
  <1>6. ASSUME NEW p \in Requests
        PROVE  /\ req'[p] \in Request
               /\ RequestOK(req'[p], clock, account, turned, flight.rows, grants, stripped)
    <2>1. req[p] \in Request /\ req[p].at \in Nat
      BY DEF IndInv, TypeOK, Request
    <2>2. RequestOK(req[p], clock, account, turned, permMap, grants, stripped)
      BY DEF IndInv, RequestsOK
    <2>3. CASE req[p].pc = "perms"
      <3>1. req'[p] = [req[p] EXCEPT !.pc = "lookup"]
        BY <1>2, <2>3
      <3>2. req'[p] \in Request /\ req'[p].pc = "lookup"
        BY <2>1, <3>1 DEF Request, Micro
      <3>3. Since(flight.rows, clock + 1, RefreshWindow, grants, stripped)
        BY <1>3, <1>5
      <3> QED BY <3>2, <3>3 DEF RequestOK
    <2>4. CASE req[p].pc \in {"select", "selected"}
      <3>1. req'[p] = req[p]
        BY <1>2, <2>4
      <3>2. Since(flight.rows, req[p].at + 1, RefreshWindow, grants, stripped)
        BY <1>3, <1>5, <2>1, <2>2, <2>4 DEF RequestOK
      <3> QED BY <2>1, <2>2, <2>4, <3>1, <3>2 DEF RequestOK
    <2>5. CASE req[p].pc \notin {"perms", "select", "selected"}
      <3>1. req'[p] = req[p]
        BY <1>2, <2>5
      <3>2. req[p].pc \notin Loading
        BY <2>5 DEF Settled, Micro, Loading
      <3> QED BY <2>1, <3>1, <3>2, QuietOK
    <2> QED BY <2>3, <2>4, <2>5
  <1>7. RequestsOK'
    BY <1>1, <1>2, <1>6 DEF RequestsOK
  <1>8. req' \in [Requests -> Request]
    BY <1>2, <1>6
  <1>9. TypeOK'
    BY <1>1, <1>2, <1>3, <1>8, EmptyTyped DEF IndInv, TypeOK
  <1>10. PermissionCacheOK'
    <2>1. Since(flight.rows, clock + PermissionTTL, RefreshWindow, grants, stripped)
      BY <1>3, <1>5
    <2> QED BY <1>1, <1>2, <1>3, <2>1 DEF PermissionCacheOK
  <1>11. ProfileCacheOK' /\ FlightOK' /\ (clock >= 1)'
    BY <1>1, <1>2 DEF IndInv, ProfileCacheOK, FlightOK, NoFlight
  <1> QED BY <1>7, <1>9, <1>10, <1>11 DEF IndInv

LEMMA FlightFailInd ==
  ASSUME IndInv, FlightFail
  PROVE  IndInv'
  <1>1. UNCHANGED <<clock, account, grants, profileCache, permMap, permExpires,
                    turned, stripped, changes, gone>>
    BY DEF FlightFail, tables, history
  <1>2. /\ flight' = NoFlight
        /\ req' = [p \in Requests |-> IF req[p].pc = "perms" THEN Idle ELSE req[p]]
    BY DEF FlightFail
  <1>3. ASSUME NEW p \in Requests
        PROVE  /\ req'[p] \in Request
               /\ RequestOK(req'[p], clock, account, turned, permMap, grants, stripped)
    <2>1. CASE req[p].pc = "perms"
      <3>1. req'[p] = Idle
        BY <1>2, <2>1
      <3> QED BY <3>1, IdleTyped, QuietOK DEF Loading
    <2>2. CASE req[p].pc # "perms"
      <3>1. req'[p] = req[p]
        BY <1>2, <2>2
      <3> QED BY <3>1 DEF IndInv, TypeOK, RequestsOK
    <2> QED BY <2>1, <2>2
  <1>4. RequestsOK'
    BY <1>1, <1>3 DEF RequestsOK
  <1>5. req' \in [Requests -> Request]
    BY <1>2, <1>3
  <1>6. TypeOK'
    BY <1>1, <1>2, <1>5, EmptyTyped DEF IndInv, TypeOK
  <1>7. ProfileCacheOK' /\ PermissionCacheOK' /\ FlightOK' /\ (clock >= 1)'
    BY <1>1, <1>2 DEF IndInv, ProfileCacheOK, PermissionCacheOK, FlightOK, NoFlight
  <1> QED BY <1>4, <1>6, <1>7 DEF IndInv

LEMMA RestartInd ==
  ASSUME IndInv, Restart
  PROVE  IndInv'
  <1>1. UNCHANGED <<clock, account, grants, turned, stripped, changes, gone>>
    BY DEF Restart, tables, history
  <1>2. /\ profileCache' = [u \in Users |-> NoEntry]
        /\ permMap' = {}
        /\ permExpires' = 0
        /\ flight' = NoFlight
        /\ req' = [p \in Requests |-> Idle]
        /\ clock \in Nat /\ PermissionTTL \in Nat
    BY TimeAssumption DEF Restart, IndInv, TypeOK
  <1>3. TypeOK'
    BY <1>1, <1>2, EmptyTyped, IdleTyped DEF IndInv, TypeOK
  <1>4. ProfileCacheOK'
    BY <1>1, <1>2, EmptiedOK
  <1>5. RequestsOK'
    BY <1>2, IdleTyped, QuietOK DEF RequestsOK, Loading
  <1>6. PermissionCacheOK' /\ FlightOK' /\ (clock >= 1)'
    BY <1>1, <1>2 DEF IndInv, PermissionCacheOK, FlightOK, NoFlight, Since
  <1> QED BY <1>3, <1>4, <1>5, <1>6 DEF IndInv

LEMMA TickInd ==
  ASSUME IndInv, Settled, Tick
  PROVE  IndInv'
  <1>1. /\ UNCHANGED <<account, grants, profileCache, permMap, permExpires, flight, req,
                       turned, stripped, changes, gone>>
        /\ clock' = clock + 1
        /\ flight.pc # "none" => clock < flight.at + Latency
        /\ \A p \in Requests :
             req[p].pc \in {"select", "selected"} => clock < req[p].at + Latency
    BY DEF Tick, tables, caches, history
  <1>2. /\ clock \in Nat /\ ProfileTTL \in Nat /\ PermissionTTL \in Nat /\ Latency \in Nat
        /\ permExpires \in Nat /\ flight.at \in Nat
    BY TimeAssumption DEF IndInv, TypeOK, Flight
  <1>3. TypeOK'
    BY <1>1, <1>2 DEF IndInv, TypeOK
  <1>4. ASSUME NEW u \in Users
        PROVE  /\ profileCache[u].expires <= clock' + ProfileTTL
               /\ clock' < profileCache[u].expires =>
                    Agrees(u, profileCache[u].profile, profileCache[u].expires,
                           ProfileWindow, account, turned)
    <2>1. profileCache[u].expires \in Nat
      BY DEF IndInv, TypeOK, Entry
    <2> QED BY <1>1, <1>2, <2>1 DEF IndInv, ProfileCacheOK
  <1>5. ProfileCacheOK'
    BY <1>1, <1>4 DEF ProfileCacheOK
  <1>6. PermissionCacheOK'
    BY <1>1, <1>2 DEF IndInv, PermissionCacheOK
  <1>7. FlightOK'
    BY <1>1, <1>2 DEF IndInv, FlightOK
  <1>8. ASSUME NEW p \in Requests
        PROVE  RequestOK(req[p], clock', account, turned, permMap, grants, stripped)
    <2>1. req[p].at \in Nat
      BY DEF IndInv, TypeOK, Request
    <2>2. req[p].pc \notin {"lookup", "loaded"}
      BY DEF Settled, Micro
    <2> QED BY <1>1, <1>2, <2>1, <2>2 DEF IndInv, RequestsOK, RequestOK
  <1>9. RequestsOK'
    BY <1>1, <1>8 DEF RequestsOK
  <1>10. (clock >= 1)'
    BY <1>1, <1>2 DEF IndInv
  <1> QED BY <1>3, <1>5, <1>6, <1>7, <1>9, <1>10 DEF IndInv

LEMMA StutterInd ==
  ASSUME IndInv, UNCHANGED vars
  PROVE  IndInv'
  BY DEF IndInv, vars, tables, caches, history, TypeOK, ProfileCacheOK, PermissionCacheOK,
         FlightOK, RequestsOK

LEMMA StepInd == IndInv /\ [Next]_vars => IndInv'
  <1> SUFFICES ASSUME IndInv, [Next]_vars PROVE IndInv'
    OBVIOUS
  <1>1. ASSUME NEW q \in Requests, Continue(q) PROVE IndInv'
    BY <1>1, EnterInd, LookUpInd, GateInd DEF Continue
  <1>2. ASSUME NEW q \in Requests, Settled,
               CheckStart(q) \/ MutateStart(q) \/ ReplaceStart(q)
        PROVE  IndInv'
    BY <1>2, StartInd
  <1>3. ASSUME NEW q \in Requests, Settled, Statement(q) PROVE IndInv'
    BY <1>3, ProfileReadInd, ProfileDoneInd, GateInd, AccountInd, GrantsInd, WrittenInd
       DEF Statement
  <1>4. ASSUME Settled, FlightRead \/ FlightDone \/ FlightFail PROVE IndInv'
    BY <1>4, FlightReadInd, FlightDoneInd, FlightFailInd
  <1> QED BY <1>1, <1>2, <1>3, <1>4, RestartInd, TickInd, StutterInd DEF Next

-----------------------------------------------------------------------------

\* The state stays within its types: in particular no request, cache entry or answer
\* ever carries a role or a permission that is not in the tables.
THEOREM TypeCorrect == Spec => []TypeOK
  <1>1. IndInv => TypeOK
    BY DEF IndInv
  <1> QED BY <1>1, InitInd, StepInd, PTL DEF Spec

\* Whatever the caches do to each other, a request is admitted only by a role its user
\* held and a permission the role had within the caches' lifetimes and the latency.
THEOREM AdmittedCorrect == Spec => AdmittedByRecentRole
  <1>1. ASSUME IndInv, NEW q \in Requests, Decides(q), Allowed(q)
        PROVE  \E r \in Roles :
                 HeldRecently(req[q].actor, r) /\ GrantedRecently(r, req[q].perm)
    <2>1. /\ req[q] \in Request /\ req[q].actor \in Users /\ req[q].perm \in Perms
          /\ req[q].seen \in Profile
          /\ clock \in Nat
          /\ turned \in [Users -> [Roles -> Nat]]
          /\ stripped \in [Roles \X Perms -> Nat]
      BY <1>1 DEF IndInv, TypeOK, Request
    <2>2. req[q].pc = "loaded" /\ Subject(req[q]) = req[q].actor
      BY <1>1 DEF Decides, Permit, Subject
    <2>3. /\ Agrees(req[q].actor, req[q].seen, clock + 1, ProfileWindow, account, turned)
          /\ Since(permMap, clock + 1, GrantWindow, grants, stripped)
      BY <1>1, <2>2 DEF IndInv, RequestsOK, RequestOK
    <2>4. PICK r \in Usable(req[q].seen) : <<r, req[q].perm>> \in StaticGrants \cup permMap
      BY <1>1 DEF Allowed, CanAccess
    <2>5. r \in Roles
      BY <2>1, <2>4 DEF Usable, Profile
    <2>6. Snapshot(req[q].actor) = Snap(req[q].actor, account)
      BY DEF Snapshot, Snap
    <2>7. ProfileWindow \in Nat /\ GrantWindow \in Nat
      BY TimeAssumption DEF ProfileWindow, GrantWindow
    <2>8. HeldRecently(req[q].actor, r)
      <3>1. CASE r \in Usable(Snapshot(req[q].actor))
        BY <3>1 DEF HeldRecently
      <3>2. CASE r \notin Usable(Snapshot(req[q].actor))
        <4>1. turned[req[q].actor][r] > 0
              /\ clock + 1 <= turned[req[q].actor][r] + ProfileWindow
          BY <2>3, <2>4, <2>5, <2>6, <3>2 DEF Agrees
        <4>2. turned[req[q].actor][r] \in Nat
          BY <2>1, <2>5
        <4> QED BY <2>1, <2>7, <4>1, <4>2 DEF HeldRecently
      <3> QED BY <3>1, <3>2
    <2>9. GrantedRecently(r, req[q].perm)
      <3>1. CASE <<r, req[q].perm>> \in StaticGrants \cup grants
        BY <3>1 DEF GrantedRecently
      <3>2. CASE <<r, req[q].perm>> \notin StaticGrants \cup grants
        <4>1. <<r, req[q].perm>> \in permMap
          BY <2>4, <3>2
        <4>2. stripped[<<r, req[q].perm>>] > 0
              /\ clock + 1 <= stripped[<<r, req[q].perm>>] + GrantWindow
          BY <2>3, <3>2, <4>1 DEF Since
        <4>3. stripped[<<r, req[q].perm>>] \in Nat
          BY <2>1, <2>5
        <4> QED BY <2>1, <2>7, <4>2, <4>3 DEF GrantedRecently
      <3> QED BY <3>1, <3>2
    <2> QED BY <2>5, <2>8, <2>9
  <1>2. IndInv /\ [Next]_vars =>
          [\A q \in Requests : Decides(q) /\ Allowed(q) =>
              \E r \in Roles :
                 HeldRecently(req[q].actor, r) /\ GrantedRecently(r, req[q].perm)]_vars
    BY <1>1
  <1> QED BY <1>2, InitInd, StepInd, PTL DEF Spec, AdmittedByRecentRole

\* A user who has held a role, unblocked, for longer than the profile cache and its
\* SELECT may lag is not refused what the code itself grants that role.
THEOREM LongHolderCorrect == Spec => LongHolderAdmitted
  <1>1. ASSUME IndInv, NEW q \in Requests, Decides(q), ~Allowed(q),
               NEW r \in Usable(Snapshot(req[q].actor)),
               <<r, req[q].perm>> \in StaticGrants
        PROVE  /\ turned[req[q].actor][r] > 0
               /\ clock < turned[req[q].actor][r] + ProfileWindow
    <2>1. /\ req[q] \in Request /\ req[q].actor \in Users
          /\ clock \in Nat
          /\ account \in [Users -> Profile]
          /\ turned \in [Users -> [Roles -> Nat]]
      BY <1>1 DEF IndInv, TypeOK, Request
    <2>2. req[q].pc = "loaded" /\ Subject(req[q]) = req[q].actor
      BY <1>1 DEF Decides, Permit, Subject
    <2>3. Agrees(req[q].actor, req[q].seen, clock + 1, ProfileWindow, account, turned)
      BY <1>1, <2>2 DEF IndInv, RequestsOK, RequestOK
    <2>4. Snapshot(req[q].actor) = Snap(req[q].actor, account)
      BY DEF Snapshot, Snap
    <2>5. r \in Roles
      BY <1>1, <2>1, <2>4, SnapTyped DEF Usable, Profile
    <2>6. r \notin Usable(req[q].seen)
      BY <1>1 DEF Allowed, CanAccess
    <2>7. turned[req[q].actor][r] > 0
          /\ clock + 1 <= turned[req[q].actor][r] + ProfileWindow
      BY <1>1, <2>3, <2>4, <2>5, <2>6 DEF Agrees
    <2>8. turned[req[q].actor][r] \in Nat /\ ProfileWindow \in Nat
      BY <2>1, <2>5, TimeAssumption DEF ProfileWindow
    <2> QED BY <2>1, <2>7, <2>8
  <1>2. IndInv /\ [Next]_vars =>
          [\A q \in Requests : Decides(q) /\ ~Allowed(q) =>
              \A r \in Usable(Snapshot(req[q].actor)) :
                  <<r, req[q].perm>> \in StaticGrants =>
                      /\ turned[req[q].actor][r] > 0
                      /\ clock < turned[req[q].actor][r] + ProfileWindow]_vars
    BY <1>1
  <1> QED BY <1>2, InitInd, StepInd, PTL DEF Spec, LongHolderAdmitted
=============================================================================
