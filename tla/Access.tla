------------------------------- MODULE Access -------------------------------
(***************************************************************************)
(* How long access outlives the right to it.  Session and Permissions say  *)
(* which claims and key sets there can be; here they meet, with time.  A   *)
(* request passes the guards in the order in which they are registered:    *)
(* CompositeAuthGuard (a bearer token that has not expired, of a user who  *)
(* is active and not locked), RolesGuard (the role in the token) and       *)
(* PermissionsGuard (the keys of that role, at most 300 seconds old).      *)
(*                                                                         *)
(* Time is a count of ticks.  Of all tokens of a user that carry one role  *)
(* only the longest remaining life matters.  A handler or a guard takes at *)
(* most HandlerTime from its first await to its last.                      *)
(***************************************************************************)
EXTENDS Integers

CONSTANTS
    Users, Roles, Keys, Requests,
    Routes,            \* those not @Public()
    SuperAdmin,        \* UserRole.SUPER_ADMIN
    RequiredRoles,     \* @Roles(...) of each route, {} for none
    RequiredKeys,      \* @RequirePermission(...) of each route, {} for none
    AccessTtl,         \* JWT_ACCESS_EXPIRES_IN
    RefreshTtl,        \* JWT_REFRESH_EXPIRES_IN
    KeysTtl,           \* CACHE_TTL of PermissionsGuard
    HandlerTime        \* assumed of the environment

ASSUME AccessAssumption ==
    /\ SuperAdmin \in Roles
    /\ Users # {} /\ Routes # {}
    /\ RequiredRoles \in [Routes -> SUBSET Roles]
    /\ RequiredKeys \in [Routes -> SUBSET Keys]
    /\ AccessTtl \in Nat \ {0} /\ RefreshTtl \in Nat \ {0} /\ KeysTtl \in Nat \ {0}
    /\ HandlerTime \in Nat

VARIABLES
    active,        \* users with is_active
    locked,        \* users with locked_until in the future
    session,       \* users with a stored refresh digest
    roleOf,        \* the role in each user's row
    access,        \* access[u][role]: remaining life of u's access tokens with that role
    refresh,       \* the same of the refresh tokens
    grants,        \* the pairs of a role and a key it grants
    cached,        \* cached[role]: the key set under perm:roles:<role>, with its remaining life
    stage, visit,  \* per request: its next await; its user, role, route and what it has read
    waited,        \* ticks since its first await
    opened,        \* what the guards have let through last, since the last tick
    \* History: ticks since something last held, saturating at Long
    sinceActive,   \* the user was active and not locked
    sinceSession, sinceGrant

people == <<active, locked, session, roleOf, sinceActive, sinceSession>>
tokens == <<access, refresh>>
keys == <<grants, cached, sinceGrant>>
requests == <<stage, visit, waited, opened>>
vars == <<people, tokens, keys, requests>>

\* No property tells longer times apart.
Long == HandlerTime + (IF AccessTtl > KeysTtl THEN AccessTtl ELSE KeysTtl)
Ages == 0 .. Long
Pass == [user : Users, role : Roles, route : Routes]
Visit == [user : Users, role : Roles, route : Routes, found : SUBSET Keys]
NoVisit == CHOOSE v \in Visit : v.found = {}
Stages == {"idle", "issue", "query", "store"}

TypeOK ==
    /\ active \subseteq Users /\ locked \subseteq Users /\ session \subseteq Users
    /\ roleOf \in [Users -> Roles]
    /\ access \in [Users -> [Roles -> 0 .. AccessTtl]]
    /\ refresh \in [Users -> [Roles -> 0 .. RefreshTtl]]
    /\ grants \subseteq Roles \X Keys
    /\ cached \in [Roles -> [granted : SUBSET Keys, left : 0 .. KeysTtl]]
    /\ stage \in [Requests -> Stages]
    /\ visit \in [Requests -> Visit]
    /\ waited \in [Requests -> 0 .. HandlerTime]
    /\ opened \subseteq Pass
    /\ sinceActive \in [Users -> Ages]
    /\ sinceSession \in [Users -> Ages]
    /\ sinceGrant \in [Roles -> [Keys -> Ages]]

NoKeys == [granted |-> {}, left |-> 0]
AgeOf(holds) == IF holds THEN 0 ELSE Long
Init ==
    /\ active = Users /\ locked = {} /\ session = {}
    /\ roleOf \in [Users -> Roles]
    /\ access = [u \in Users |-> [role \in Roles |-> 0]]
    /\ refresh = access
    /\ grants \in SUBSET (Roles \X Keys)
    /\ cached = [role \in Roles |-> NoKeys]
    /\ stage = [r \in Requests |-> "idle"]
    /\ visit = [r \in Requests |-> NoVisit]
    /\ waited = [r \in Requests |-> 0]
    /\ opened = {}
    /\ sinceActive = [u \in Users |-> 0]
    /\ sinceSession = [u \in Users |-> Long]
    /\ sinceGrant = [role \in Roles |-> [key \in Keys |-> AgeOf(<<role, key>> \in grants)]]

Begin(r, label, v) ==
    /\ stage[r] = "idle"
    /\ stage' = [stage EXCEPT ![r] = label]
    /\ visit' = [visit EXCEPT ![r] = v]
    /\ waited' = [waited EXCEPT ![r] = 0]
Finish(r) ==
    /\ stage' = [stage EXCEPT ![r] = "idle"]
    /\ visit' = [visit EXCEPT ![r] = NoVisit]
    /\ waited' = [waited EXCEPT ![r] = 0]

-----------------------------------------------------------------------------
(* Tokens: login and switch, refresh, logout                               *)

Issuing(u, role) == [NoVisit EXCEPT !.user = u, !.role = role]

\* verifyOTP and switchOrganization sign the role in the row.
BeginSignIn(r, u) ==
    /\ u \in active \ locked
    /\ Begin(r, "issue", Issuing(u, roleOf[u]))
    /\ UNCHANGED <<people, tokens, keys, opened>>

\* jwt.verify, the row active, a digest stored that matches (Session: any does).
MayRefresh(u, role) == u \in active /\ u \in session /\ refresh[u][role] > 0

\* refreshTokens signs the role of the presented token.
BeginRefresh(r, u, role) ==
    /\ MayRefresh(u, role)
    /\ Begin(r, "issue", Issuing(u, role))
    /\ UNCHANGED <<people, tokens, keys, opened>>

\* The tokens are signed and the digest of the new one is stored.
Issue(r) ==
    LET u == visit[r].user
        role == visit[r].role
    IN  /\ stage[r] = "issue"
        /\ access' = [access EXCEPT ![u] = [@ EXCEPT ![role] = AccessTtl]]
        /\ refresh' = [refresh EXCEPT ![u] = [@ EXCEPT ![role] = RefreshTtl]]
        /\ session' = session \cup {u}
        /\ sinceSession' = [sinceSession EXCEPT ![u] = 0]
        /\ Finish(r)
        /\ UNCHANGED <<active, locked, roleOf, sinceActive, keys, opened>>

AcceptedThoughExpired(u, role) == refresh[u][role] > 0 /\ u \in active \ locked
\* What JwtAccessStrategy accepts: a token that has not expired, of an active user who is not locked.
Accepted(u, role) == access[u][role] > 0 /\ u \in active \ locked

Logout(u) ==
    /\ \E role \in Roles : Accepted(u, role)
    /\ session' = session \ {u}
    /\ UNCHANGED <<active, locked, roleOf, sinceActive, sinceSession, tokens, keys, requests>>

-----------------------------------------------------------------------------
(* Administration: users and what roles grant                              *)

\* UsersService.update and remove.
SetActive(u) ==
    /\ active' = IF u \in active THEN active \ {u} ELSE active \cup {u}
    /\ sinceActive' = [sinceActive EXCEPT ![u] = IF u \in active' \ locked THEN 0 ELSE @]
    /\ UNCHANGED <<locked, session, roleOf, sinceSession, tokens, keys, requests>>

\* The lock that OtpLogin sets, which a login resets or which runs out.
SetLock(u) ==
    /\ locked' = IF u \in locked THEN locked \ {u} ELSE locked \cup {u}
    /\ sinceActive' = [sinceActive EXCEPT ![u] = IF u \in active \ locked' THEN 0 ELSE @]
    /\ UNCHANGED <<active, session, roleOf, sinceSession, tokens, keys, requests>>

SetRole(u, role) ==
    /\ roleOf' = [roleOf EXCEPT ![u] = role]
    /\ UNCHANGED <<active, locked, session, sinceActive, sinceSession, tokens, keys, requests>>

\* Whatever RbacService changes, for the guard a role gains or loses a key.
SetGrant(role, key) ==
    /\ grants' = IF <<role, key>> \in grants THEN grants \ {<<role, key>>}
                 ELSE grants \cup {<<role, key>>}
    /\ sinceGrant' = [sinceGrant EXCEPT ![role] = [@ EXCEPT ![key] = 0]]
    /\ UNCHANGED <<cached, people, tokens, requests>>

-----------------------------------------------------------------------------
(* The guards                                                              *)

Open(u, role, route) == opened' = {[user |-> u, role |-> role, route |-> route]}

\* RolesGuard; PermissionsGuard up to its look-up.
RolesGuard(role, route) == RequiredRoles[route] # {} => role \in RequiredRoles[route]
Bypass(role, route) == RequiredKeys[route] = {} \/ role = SuperAdmin
\* Every key, of the set the guard has in hand.
HasAll(route, granted) == RequiredKeys[route] \subseteq granted

EnterExtending(u, role, route) ==
    /\ Accepted(u, role) /\ RolesGuard(role, route)
    /\ cached[role].left > 0 /\ HasAll(route, cached[role].granted)
    /\ cached' = [cached EXCEPT ![role] = [@ EXCEPT !.left = KeysTtl]]
    /\ Open(u, role, route)
    /\ UNCHANGED <<people, tokens, grants, sinceGrant, stage, visit, waited>>

\* The guards let the request through without a query.
Enter(u, role, route) ==
    /\ Accepted(u, role) /\ RolesGuard(role, route)
    /\ \/ Bypass(role, route)
       \/ cached[role].left > 0 /\ HasAll(route, cached[role].granted)
    /\ Open(u, role, route)
    /\ UNCHANGED <<people, tokens, keys, stage, visit, waited>>

\* The cache has no keys of the role.
Miss(r, u, role, route) ==
    /\ Accepted(u, role) /\ RolesGuard(role, route)
    /\ ~Bypass(role, route) /\ cached[role].left = 0
    /\ Begin(r, "query", [user |-> u, role |-> role, route |-> route, found |-> {}])
    /\ UNCHANGED <<people, tokens, keys, opened>>

KeysOf(role) == {key \in Keys : <<role, key>> \in grants}

Query(r) ==
    /\ stage[r] = "query"
    /\ stage' = [stage EXCEPT ![r] = "store"]
    /\ visit' = [visit EXCEPT ![r] = [@ EXCEPT !.found = KeysOf(visit[r].role)]]
    /\ UNCHANGED <<waited, people, tokens, keys, opened>>

\* SET with a new time to live, then the decision.
Store(r) ==
    LET v == visit[r]
    IN  /\ stage[r] = "store"
        /\ cached' = [cached EXCEPT ![v.role] = [granted |-> v.found, left |-> KeysTtl]]
        /\ IF HasAll(v.route, v.found) THEN Open(v.user, v.role, v.route) ELSE UNCHANGED opened
        /\ Finish(r)
        /\ UNCHANGED <<people, tokens, grants, sinceGrant>>

\* An awaited call throws, or the process dies.
Fail(r) ==
    /\ stage[r] # "idle"
    /\ Finish(r)
    /\ UNCHANGED <<people, tokens, keys, opened>>

-----------------------------------------------------------------------------
Less(n) == IF n > 0 THEN n - 1 ELSE 0
More(n) == IF n < Long THEN n + 1 ELSE n

\* Time passes, as long as no request has been on its way for HandlerTime.
Tick ==
    /\ \A r \in Requests : stage[r] # "idle" => waited[r] < HandlerTime
    /\ waited' = [r \in Requests |-> IF stage[r] = "idle" THEN 0 ELSE waited[r] + 1]
    /\ access' = [u \in Users |-> [role \in Roles |-> Less(access[u][role])]]
    /\ refresh' = [u \in Users |-> [role \in Roles |-> Less(refresh[u][role])]]
    /\ cached' = [role \in Roles |->
                     IF cached[role].left > 1 THEN [cached[role] EXCEPT !.left = @ - 1] ELSE NoKeys]
    /\ opened' = {}
    /\ sinceActive' = [u \in Users |-> IF u \in active \ locked THEN 0 ELSE More(sinceActive[u])]
    /\ sinceSession' = [u \in Users |-> IF u \in session THEN 0 ELSE More(sinceSession[u])]
    /\ sinceGrant' = [role \in Roles |-> [key \in Keys |->
                        IF <<role, key>> \in grants THEN 0 ELSE More(sinceGrant[role][key])]]
    /\ UNCHANGED <<active, locked, session, roleOf, grants, stage, visit>>

Next ==
    \/ Tick
    \/ \E r \in Requests :
          \/ Issue(r) \/ Query(r) \/ Store(r) \/ Fail(r)
          \/ \E u \in Users :
                \/ BeginSignIn(r, u)
                \/ \E role \in Roles : BeginRefresh(r, u, role)
                \/ \E role \in Roles, route \in Routes : Miss(r, u, role, route)
    \/ \E u \in Users :
          \/ Logout(u) \/ SetActive(u) \/ SetLock(u)
          \/ \E role \in Roles : SetRole(u, role)
          \/ \E role \in Roles, route \in Routes : Enter(u, role, route)
    \/ \E role \in Roles, key \in Keys : SetGrant(role, key)

Spec == Init /\ [][Next]_vars

-----------------------------------------------------------------------------
(* Properties                                                              *)

\* A route that asks for keys opens only to a SUPER_ADMIN's token or for a role
\* that granted each of them within the life of a cached set, plus the time one
\* guard takes between its query and its SET.
OpensOnRecentGrant ==
    \A o \in opened :
        o.role # SuperAdmin =>
            \A key \in RequiredKeys[o.route] : sinceGrant[o.role][key] < KeysTtl + HandlerTime

\* "Clears the stored refresh token hash, ending the session": the tokens of a
\* user without a stored session die out.  Nothing opens later than the life of
\* an access token after the session was last stored (which a refresh in flight
\* may do once more), and nothing at all once the user is inactive or locked,
\* but for requests that are past the check.
AccessEndsWithSession ==
    \A o \in opened :
        /\ sinceSession[o.user] < AccessTtl + HandlerTime
        /\ sinceActive[o.user] <= HandlerTime

-----------------------------------------------------------------------------
(* Why they hold: remaining life and age add up to a constant at most      *)

TokensInv ==
    \A u \in Users :
        /\ u \in session => sinceSession[u] = 0
        /\ u \in active \ locked => sinceActive[u] = 0
        /\ \A role \in Roles :
              access[u][role] > 0 => sinceSession[u] + access[u][role] <= AccessTtl

KeysInv ==
    \A role \in Roles, key \in Keys :
        /\ <<role, key>> \in grants => sinceGrant[role][key] = 0
        /\ cached[role].left > 0 /\ key \in cached[role].granted
              => sinceGrant[role][key] + cached[role].left <= KeysTtl + HandlerTime

VisitsInv ==
    \A r \in Requests :
        /\ stage[r] \in {"query", "store"} =>
              /\ sinceSession[visit[r].user] < AccessTtl + waited[r]
              /\ sinceActive[visit[r].user] <= waited[r]
        /\ stage[r] = "store" =>
              \A key \in visit[r].found : sinceGrant[visit[r].role][key] <= waited[r]

AccessInv ==
    /\ TypeOK
    /\ TokensInv /\ KeysInv /\ VisitsInv
    /\ OpensOnRecentGrant /\ AccessEndsWithSession
=============================================================================
