---------------------------- MODULE AccessProofs ----------------------------
(* How long access outlives the right to it: the bounds hold for every number *)
(* of users, roles, routes and overlapping requests, and for all lifetimes.   *)
EXTENDS Access, TLAPS

\* The lifetimes are numbers, and no bound of interest lies above Long.
LEMMA Times ==
  /\ AccessTtl \in Nat \ {0} /\ RefreshTtl \in Nat \ {0} /\ KeysTtl \in Nat \ {0}
  /\ HandlerTime \in Nat /\ Long \in Nat
  /\ AccessTtl + HandlerTime <= Long /\ KeysTtl + HandlerTime <= Long
  BY AccessAssumption DEF Long

LEMMA NoVisitOK == NoVisit \in Visit /\ NoVisit.found = {}
  <1>1. PICK u \in Users, route \in Routes : TRUE
    BY AccessAssumption
  <1>2. [user |-> u, role |-> SuperAdmin, route |-> route, found |-> {}] \in Visit
    BY <1>1, AccessAssumption DEF Visit
  <1>3. \E v \in Visit : v.found = {}
    BY <1>2
  <1> QED  BY <1>3 DEF NoVisit

LEMMA NoKeysOK == NoKeys \in [granted : SUBSET Keys, left : 0 .. KeysTtl]
  BY Times DEF NoKeys

\* A request that is done is at no await and has waited for nothing.
LEMMA FinishOK ==
  ASSUME TypeOK, NEW r \in Requests, Finish(r)
  PROVE  /\ stage' \in [Requests -> Stages] /\ visit' \in [Requests -> Visit]
         /\ waited' \in [Requests -> 0 .. HandlerTime]
         /\ stage'[r] = "idle"
         /\ \A q \in Requests \ {r} :
               stage'[q] = stage[q] /\ visit'[q] = visit[q] /\ waited'[q] = waited[q]
  BY NoVisitOK, Times DEF Finish, TypeOK, Stages

\* A request that begins has not waited yet.
LEMMA BeginOK ==
  ASSUME TypeOK, NEW r \in Requests, NEW label \in Stages, NEW v \in Visit, Begin(r, label, v)
  PROVE  /\ stage' \in [Requests -> Stages] /\ visit' \in [Requests -> Visit]
         /\ waited' \in [Requests -> 0 .. HandlerTime]
         /\ stage'[r] = label /\ visit'[r] = v /\ waited'[r] = 0
         /\ \A q \in Requests \ {r} :
               stage'[q] = stage[q] /\ visit'[q] = visit[q] /\ waited'[q] = waited[q]
  BY Times DEF Begin, TypeOK

LEMMA InitAccess == Init => AccessInv
  <1> SUFFICES ASSUME Init PROVE AccessInv
    OBVIOUS
  <1>1. TypeOK
    <2>1. \A role \in Roles, key \in Keys : AgeOf(<<role, key>> \in grants) \in Ages
      BY Times DEF AgeOf, Ages
    <2>2. sinceGrant \in [Roles -> [Keys -> Ages]]
      <3>1. sinceGrant = [role \in Roles |-> [key \in Keys |-> AgeOf(<<role, key>> \in grants)]]
        BY DEF Init
      <3> DEFINE a(role, key) == AgeOf(<<role, key>> \in grants)
      <3>2. /\ \A role \in Roles : \A key \in Keys : a(role, key) \in Ages
            /\ sinceGrant = [role \in Roles |-> [key \in Keys |-> a(role, key)]]
        BY <2>1, <3>1
      <3> HIDE DEF a
      <3> QED  BY <3>2
    <2>3. sinceActive \in [Users -> Ages] /\ sinceSession \in [Users -> Ages]
      BY Times DEF Init, Ages
    <2>4. /\ access \in [Users -> [Roles -> 0 .. AccessTtl]]
          /\ refresh \in [Users -> [Roles -> 0 .. RefreshTtl]]
      BY Times DEF Init
    <2>5. cached \in [Roles -> [granted : SUBSET Keys, left : 0 .. KeysTtl]]
      BY NoKeysOK DEF Init
    <2>6. /\ visit \in [Requests -> Visit] /\ waited \in [Requests -> 0 .. HandlerTime]
          /\ stage \in [Requests -> Stages]
      BY NoVisitOK, Times DEF Init, Stages
    <2> QED  BY <2>2, <2>3, <2>4, <2>5, <2>6 DEF Init, TypeOK
  <1>2. TokensInv
    <2>1. session = {}
      BY DEF Init
    <2>2. ASSUME NEW u \in Users PROVE sinceActive[u] = 0
      BY DEF Init
    <2>3. ASSUME NEW u \in Users, NEW role \in Roles PROVE ~(access[u][role] > 0)
      BY DEF Init
    <2>4. ASSUME NEW u \in Users
          PROVE  /\ u \in session => sinceSession[u] = 0
                 /\ u \in active \ locked => sinceActive[u] = 0
                 /\ \A role \in Roles :
                       access[u][role] > 0 => sinceSession[u] + access[u][role] <= AccessTtl
      BY <2>1, <2>2, <2>3
    <2> QED  BY <2>4 DEF TokensInv
  <1>3. KeysInv
    BY Times DEF Init, KeysInv, AgeOf, NoKeys
  <1>4. VisitsInv
    BY DEF Init, VisitsInv
  <1> QED  BY <1>1, <1>2, <1>3, <1>4 DEF Init, AccessInv, OpensOnRecentGrant, AccessEndsWithSession

-----------------------------------------------------------------------------
(* One lemma per group of actions                                          *)

\* What opens now satisfies both bounds.
LEMMA OpenOK ==
  ASSUME AccessInv, NEW u \in Users, NEW role \in Roles, NEW route \in Routes, Open(u, role, route),
         sinceSession[u] < AccessTtl + HandlerTime, sinceActive[u] <= HandlerTime,
         role # SuperAdmin =>
            \A key \in RequiredKeys[route] : sinceGrant[role][key] < KeysTtl + HandlerTime,
         UNCHANGED <<sinceSession, sinceActive, sinceGrant>>
  PROVE  opened' \subseteq Pass /\ OpensOnRecentGrant' /\ AccessEndsWithSession'
  <1>1. opened' = {[user |-> u, role |-> role, route |-> route]}
    BY DEF Open
  <1> QED  BY <1>1 DEF Pass, OpensOnRecentGrant, AccessEndsWithSession

\* An accepted token is younger than the end of the session by less than its life.
LEMMA AcceptedOK ==
  ASSUME AccessInv, NEW u \in Users, NEW role \in Roles, Accepted(u, role)
  PROVE  sinceSession[u] < AccessTtl /\ sinceActive[u] = 0
  BY Times DEF AccessInv, TokensInv, TypeOK, Ages, Accepted

LEMMA BeginKeeps ==
  ASSUME AccessInv, NEW r \in Requests, NEW v \in Visit, Begin(r, "issue", v),
         UNCHANGED <<people, tokens, keys, opened>>
  PROVE  AccessInv'
  <1>1. "issue" \in Stages
    BY DEF Stages
  <1> USE BeginOK, <1>1 DEF people, tokens, keys
  <1>2. TypeOK'
    BY DEF AccessInv, TypeOK
  <1>3. VisitsInv'
    BY DEF AccessInv, VisitsInv
  <1> QED
    BY <1>2, <1>3 DEF AccessInv, TokensInv, KeysInv, OpensOnRecentGrant, AccessEndsWithSession

LEMMA IssueKeeps ==
  ASSUME AccessInv, NEW r \in Requests, Issue(r)
  PROVE  AccessInv'
  <1> DEFINE u == visit[r].user
             role == visit[r].role
  <1>1. u \in Users /\ role \in Roles
    BY DEF AccessInv, TypeOK, Visit
  <1>2. /\ access' = [access EXCEPT ![u] = [@ EXCEPT ![role] = AccessTtl]]
        /\ refresh' = [refresh EXCEPT ![u] = [@ EXCEPT ![role] = RefreshTtl]]
        /\ session' = session \cup {u}
        /\ sinceSession' = [sinceSession EXCEPT ![u] = 0]
        /\ UNCHANGED <<active, locked, roleOf, sinceActive, grants, cached, sinceGrant, opened>>
        /\ Finish(r)
    BY DEF Issue, keys
  <1> HIDE DEF u, role
  <1>3. access' \in [Users -> [Roles -> 0 .. AccessTtl]]
    BY <1>1, <1>2, Times DEF AccessInv, TypeOK
  <1>4. refresh' \in [Users -> [Roles -> 0 .. RefreshTtl]]
    BY <1>1, <1>2, Times DEF AccessInv, TypeOK
  <1>5. sinceSession' \in [Users -> Ages]
    BY <1>1, <1>2, Times DEF AccessInv, TypeOK, Ages
  <1>6. TypeOK'
    BY <1>1, <1>2, <1>3, <1>4, <1>5, FinishOK DEF AccessInv, TypeOK
  <1>7. \A w \in Users : 0 <= sinceSession'[w] /\ sinceSession'[w] <= sinceSession[w]
    BY <1>1, <1>2, Times DEF AccessInv, TypeOK, Ages
  <1>8. ASSUME NEW w \in Users
        PROVE  /\ w \in session' => sinceSession'[w] = 0
               /\ w \in active' \ locked' => sinceActive'[w] = 0
               /\ \A ro \in Roles :
                     access'[w][ro] > 0 => sinceSession'[w] + access'[w][ro] <= AccessTtl
    <2>1. CASE w = u
      BY <1>1, <1>2, <1>3, <2>1, Times DEF AccessInv, TypeOK, TokensInv, Ages
    <2>2. CASE w # u
      BY <1>1, <1>2, <2>2 DEF AccessInv, TypeOK, TokensInv
    <2> QED  BY <2>1, <2>2
  <1>9. VisitsInv'
    <2> SUFFICES ASSUME NEW q \in Requests, stage'[q] \in {"query", "store"}
                 PROVE  /\ sinceSession'[visit'[q].user] < AccessTtl + waited'[q]
                        /\ sinceActive'[visit'[q].user] <= waited'[q]
                        /\ stage'[q] = "store" =>
                              \A key \in visit'[q].found : sinceGrant'[visit'[q].role][key] <= waited'[q]
      BY DEF VisitsInv
    <2>1. q # r
      BY <1>2, FinishOK DEF AccessInv
    <2>2. stage'[q] = stage[q] /\ visit'[q] = visit[q] /\ waited'[q] = waited[q]
      BY <1>2, <2>1, FinishOK DEF AccessInv
    <2>3. visit[q].user \in Users
      BY DEF AccessInv, TypeOK, Visit
    <2>4. sinceSession'[visit[q].user] <= sinceSession[visit[q].user]
          /\ sinceSession[visit[q].user] < AccessTtl + waited[q]
      BY <1>7, <2>2, <2>3 DEF AccessInv, VisitsInv
    <2>5. /\ sinceSession'[visit[q].user] \in Int /\ sinceSession[visit[q].user] \in Int
          /\ waited[q] \in Int /\ AccessTtl \in Int
      BY <1>5, <2>3, Times DEF AccessInv, TypeOK, Ages
    <2>6. sinceSession'[visit'[q].user] < AccessTtl + waited'[q]
      BY <2>2, <2>4, <2>5
    <2> QED  BY <1>2, <2>2, <2>6 DEF AccessInv, VisitsInv
  <1>10. OpensOnRecentGrant'
    BY <1>2 DEF AccessInv, OpensOnRecentGrant
  <1>11. AccessEndsWithSession'
    BY <1>2, <1>5, <1>7, Times DEF AccessInv, AccessEndsWithSession, TypeOK, Pass, Ages
  <1> QED  BY <1>2, <1>6, <1>8, <1>9, <1>10, <1>11 DEF AccessInv, TokensInv, KeysInv

\* Neither logging out nor administration adds to what may open.
LEMMA LogoutKeeps ==
  ASSUME AccessInv, NEW u \in Users, Logout(u)
  PROVE  AccessInv'
  <1> USE DEF Logout, tokens, keys, requests
  <1>1. TypeOK'
    BY DEF AccessInv, TypeOK
  <1> QED
    BY <1>1 DEF AccessInv, TokensInv, KeysInv, VisitsInv, OpensOnRecentGrant, AccessEndsWithSession

LEMMA SetActiveKeeps ==
  ASSUME AccessInv, NEW u \in Users, SetActive(u)
  PROVE  AccessInv'
  <1>1. \A w \in Users : sinceActive'[w] \in Ages /\ sinceActive'[w] <= sinceActive[w]
    BY Times DEF SetActive, AccessInv, TypeOK, Ages
  <1>2. TypeOK'
    BY Times DEF SetActive, tokens, keys, requests, AccessInv, TypeOK, Ages
  <1>3. TokensInv'
    BY DEF SetActive, tokens, AccessInv, TypeOK, TokensInv
  <1>4. VisitsInv'
    <2> SUFFICES ASSUME NEW q \in Requests, stage[q] \in {"query", "store"}
                 PROVE  sinceActive'[visit[q].user] <= waited[q]
      BY DEF SetActive, keys, requests, AccessInv, VisitsInv
    <2>1. visit[q].user \in Users /\ waited[q] \in Int
      BY Times DEF AccessInv, TypeOK, Visit
    <2>2. sinceActive[visit[q].user] <= waited[q] /\ sinceActive[visit[q].user] \in Int
      BY <2>1 DEF AccessInv, VisitsInv, TypeOK, Ages
    <2> QED  BY <1>1, <2>1, <2>2 DEF Ages
  <1>5. AccessEndsWithSession'
    BY <1>1, Times DEF SetActive, requests, AccessInv, AccessEndsWithSession, TypeOK, Pass, Ages
  <1> QED
    BY <1>2, <1>3, <1>4, <1>5 DEF SetActive, keys, requests, AccessInv, KeysInv, OpensOnRecentGrant

LEMMA SetLockKeeps ==
  ASSUME AccessInv, NEW u \in Users, SetLock(u)
  PROVE  AccessInv'
  <1>1. \A w \in Users : sinceActive'[w] \in Ages /\ sinceActive'[w] <= sinceActive[w]
    BY Times DEF SetLock, AccessInv, TypeOK, Ages
  <1>2. TypeOK'
    BY Times DEF SetLock, tokens, keys, requests, AccessInv, TypeOK, Ages
  <1>3. TokensInv'
    BY DEF SetLock, tokens, AccessInv, TypeOK, TokensInv
  <1>4. VisitsInv'
    <2> SUFFICES ASSUME NEW q \in Requests, stage[q] \in {"query", "store"}
                 PROVE  sinceActive'[visit[q].user] <= waited[q]
      BY DEF SetLock, keys, requests, AccessInv, VisitsInv
    <2>1. visit[q].user \in Users /\ waited[q] \in Int
      BY Times DEF AccessInv, TypeOK, Visit
    <2>2. sinceActive[visit[q].user] <= waited[q] /\ sinceActive[visit[q].user] \in Int
      BY <2>1 DEF AccessInv, VisitsInv, TypeOK, Ages
    <2> QED  BY <1>1, <2>1, <2>2 DEF Ages
  <1>5. AccessEndsWithSession'
    BY <1>1, Times DEF SetLock, requests, AccessInv, AccessEndsWithSession, TypeOK, Pass, Ages
  <1> QED
    BY <1>2, <1>3, <1>4, <1>5 DEF SetLock, keys, requests, AccessInv, KeysInv, OpensOnRecentGrant

LEMMA SetRoleKeeps ==
  ASSUME AccessInv, NEW u \in Users, NEW role \in Roles, SetRole(u, role)
  PROVE  AccessInv'
  <1> USE DEF SetRole, tokens, keys, requests
  <1>1. TypeOK'
    BY DEF AccessInv, TypeOK
  <1> QED
    BY <1>1 DEF AccessInv, TokensInv, KeysInv, VisitsInv, OpensOnRecentGrant, AccessEndsWithSession

LEMMA SetGrantKeeps ==
  ASSUME AccessInv, NEW ro \in Roles, NEW ke \in Keys, SetGrant(ro, ke)
  PROVE  AccessInv'
  <1> USE DEF SetGrant
  <1>1. sinceGrant' \in [Roles -> [Keys -> Ages]]
    BY Times DEF AccessInv, TypeOK, Ages
  <1>2. ASSUME NEW role \in Roles, NEW key \in Keys
        PROVE  /\ 0 <= sinceGrant'[role][key] /\ sinceGrant'[role][key] <= sinceGrant[role][key]
               /\ sinceGrant'[role][key] \in Int /\ sinceGrant[role][key] \in Int
               /\ <<role, key>> \in grants' => sinceGrant'[role][key] = 0
    <2>1. sinceGrant[role][key] \in Ages /\ sinceGrant'[role][key] \in Ages
      BY <1>1 DEF AccessInv, TypeOK
    <2>2. CASE role = ro /\ key = ke
      BY <2>1, <2>2, Times DEF AccessInv, TypeOK, Ages
    <2>3. CASE ~(role = ro /\ key = ke)
      <3>1. sinceGrant'[role][key] = sinceGrant[role][key]
        BY <2>3 DEF AccessInv, TypeOK
      <3>2. <<role, key>> \in grants' => <<role, key>> \in grants
        BY <2>3
      <3> QED  BY <2>1, <3>1, <3>2 DEF AccessInv, KeysInv, Ages
    <2> QED  BY <2>2, <2>3
  <1>3. TypeOK'
    BY <1>1 DEF people, tokens, requests, AccessInv, TypeOK
  <1>4. KeysInv'
    <2> SUFFICES ASSUME NEW role \in Roles, NEW key \in Keys,
                        cached[role].left > 0, key \in cached[role].granted
                 PROVE  sinceGrant'[role][key] + cached[role].left <= KeysTtl + HandlerTime
      BY <1>2 DEF KeysInv
    <2>1. cached[role].left \in Int
      BY Times DEF AccessInv, TypeOK
    <2>2. sinceGrant[role][key] + cached[role].left <= KeysTtl + HandlerTime
      BY DEF AccessInv, KeysInv
    <2>3. sinceGrant'[role][key] <= sinceGrant[role][key]
          /\ sinceGrant'[role][key] \in Int /\ sinceGrant[role][key] \in Int
      BY <1>2
    <2> HIDE DEF SetGrant
    <2> QED  BY <2>1, <2>2, <2>3, Times
  <1>5. VisitsInv'
    <2> SUFFICES ASSUME NEW q \in Requests, stage[q] = "store", NEW key \in visit[q].found
                 PROVE  sinceGrant'[visit[q].role][key] <= waited[q]
      BY DEF people, requests, AccessInv, VisitsInv
    <2>1. visit[q].role \in Roles /\ key \in Keys /\ waited[q] \in Int
      BY Times DEF AccessInv, TypeOK, Visit
    <2>2. sinceGrant[visit[q].role][key] <= waited[q]
      BY DEF AccessInv, VisitsInv
    <2> QED  BY <1>2, <2>1, <2>2
  <1>6. OpensOnRecentGrant'
    <2> SUFFICES ASSUME NEW o \in opened, o.role # SuperAdmin, NEW key \in RequiredKeys[o.route]
                 PROVE  sinceGrant'[o.role][key] < KeysTtl + HandlerTime
      BY DEF requests, OpensOnRecentGrant
    <2>1. o.role \in Roles /\ key \in Keys
      BY AccessAssumption DEF AccessInv, TypeOK, Pass
    <2> QED  BY <1>2, <2>1, Times DEF AccessInv, OpensOnRecentGrant
  <1> QED
    BY <1>3, <1>4, <1>5, <1>6 DEF people, tokens, requests, AccessInv, TokensInv, AccessEndsWithSession

-----------------------------------------------------------------------------
(* The guards                                                              *)

LEMMA EnterKeeps ==
  ASSUME AccessInv, NEW u \in Users, NEW role \in Roles, NEW route \in Routes, Enter(u, role, route)
  PROVE  AccessInv'
  <1>1. sinceSession[u] < AccessTtl + HandlerTime /\ sinceActive[u] <= HandlerTime
    BY AcceptedOK, Times DEF Enter, AccessInv, TypeOK, Ages
  <1>2. ASSUME role # SuperAdmin, NEW key \in RequiredKeys[route]
        PROVE  sinceGrant[role][key] < KeysTtl + HandlerTime
    <2>1. key \in Keys /\ cached[role].left > 0 /\ key \in cached[role].granted
      BY <1>2, AccessAssumption DEF Enter, Bypass, HasAll
    <2>2. sinceGrant[role][key] + cached[role].left <= KeysTtl + HandlerTime
      BY <2>1 DEF AccessInv, KeysInv
    <2>3. sinceGrant[role][key] \in Int /\ cached[role].left \in Int
      BY <2>1, Times DEF AccessInv, TypeOK, Ages
    <2> QED  BY <2>1, <2>2, <2>3, Times
  <1>3. opened' \subseteq Pass /\ OpensOnRecentGrant' /\ AccessEndsWithSession'
    BY <1>1, <1>2, OpenOK DEF Enter, people, keys
  <1>4. TypeOK'
    BY <1>3 DEF Enter, people, tokens, keys, AccessInv, TypeOK
  <1> QED
    BY <1>3, <1>4 DEF Enter, people, tokens, keys, AccessInv, TokensInv, KeysInv, VisitsInv

LEMMA MissKeeps ==
  ASSUME AccessInv, NEW r \in Requests, NEW u \in Users, NEW role \in Roles, NEW route \in Routes,
         Miss(r, u, role, route)
  PROVE  AccessInv'
  <1> DEFINE v == [user |-> u, role |-> role, route |-> route, found |-> {}]
  <1>1. v \in Visit /\ "query" \in Stages /\ v.user = u
    BY DEF Visit, Stages
  <1>2. Begin(r, "query", v) /\ UNCHANGED <<people, tokens, keys, opened>> /\ Accepted(u, role)
    BY DEF Miss
  <1>3. sinceSession[u] < AccessTtl /\ sinceActive[u] = 0
    BY <1>2, AcceptedOK
  <1> HIDE DEF v
  <1>4. TypeOK'
    BY <1>1, <1>2, BeginOK DEF people, tokens, keys, AccessInv, TypeOK
  <1>5. VisitsInv'
    <2>1. /\ stage'[r] = "query" /\ visit'[r] = v /\ waited'[r] = 0
          /\ \A q \in Requests \ {r} :
                stage'[q] = stage[q] /\ visit'[q] = visit[q] /\ waited'[q] = waited[q]
      BY <1>1, <1>2, BeginOK DEF AccessInv
    <2>2. UNCHANGED <<sinceSession, sinceActive, sinceGrant>>
      BY <1>2 DEF people, keys
    <2>3. sinceSession[u] < AccessTtl + 0 /\ sinceActive[u] <= 0
      BY <1>3, Times DEF AccessInv, TypeOK, Ages
    <2> SUFFICES ASSUME NEW q \in Requests
                 PROVE  /\ stage'[q] \in {"query", "store"} =>
                              /\ sinceSession'[visit'[q].user] < AccessTtl + waited'[q]
                              /\ sinceActive'[visit'[q].user] <= waited'[q]
                        /\ stage'[q] = "store" =>
                              \A key \in visit'[q].found :
                                 sinceGrant'[visit'[q].role][key] <= waited'[q]
      BY DEF VisitsInv
    <2>4. CASE q = r
      BY <1>1, <2>1, <2>2, <2>3, <2>4
    <2>5. CASE q # r
      BY <2>1, <2>2, <2>5 DEF AccessInv, VisitsInv
    <2> QED  BY <2>4, <2>5
  <1> QED
    BY <1>2, <1>4, <1>5 DEF people, tokens, keys, AccessInv, TokensInv, KeysInv, OpensOnRecentGrant,
                            AccessEndsWithSession

LEMMA QueryKeeps ==
  ASSUME AccessInv, NEW r \in Requests, Query(r)
  PROVE  AccessInv'
  <1>1. visit[r] \in Visit /\ KeysOf(visit[r].role) \in SUBSET Keys
    BY DEF AccessInv, TypeOK, KeysOf
  <1>2. [visit[r] EXCEPT !.found = KeysOf(visit[r].role)] \in Visit
    BY <1>1 DEF Visit
  <1>3. TypeOK'
    BY <1>2 DEF Query, people, tokens, keys, AccessInv, TypeOK, Stages
  <1>4. /\ visit'[r].user = visit[r].user /\ visit'[r].role = visit[r].role
        /\ visit'[r].found = KeysOf(visit[r].role) /\ stage'[r] = "store"
    BY <1>1 DEF Query, AccessInv, TypeOK, Visit
  <1>5. VisitsInv'
    <2>1. ASSUME NEW key \in visit'[r].found PROVE sinceGrant[visit[r].role][key] = 0
      BY <1>1, <1>4, <2>1 DEF KeysOf, AccessInv, KeysInv, Visit
    <2>2. waited[r] >= 0
      BY Times DEF AccessInv, TypeOK
    <2> QED
      BY <1>4, <2>1, <2>2 DEF Query, people, keys, AccessInv, VisitsInv, TypeOK
  <1> QED
    BY <1>3, <1>5 DEF Query, people, tokens, keys, AccessInv, TokensInv, KeysInv, OpensOnRecentGrant,
                      AccessEndsWithSession

LEMMA StoreKeeps ==
  ASSUME AccessInv, NEW r \in Requests, Store(r)
  PROVE  AccessInv'
  <1> DEFINE v == visit[r]
  <1>1. v.user \in Users /\ v.role \in Roles /\ v.route \in Routes /\ v.found \in SUBSET Keys
    BY DEF AccessInv, TypeOK, Visit
  <1>2. waited[r] \in Nat /\ waited[r] <= HandlerTime
    BY Times DEF AccessInv, TypeOK
  <1>3. /\ stage[r] = "store" /\ Finish(r)
        /\ cached' = [cached EXCEPT ![v.role] = [granted |-> v.found, left |-> KeysTtl]]
        /\ IF HasAll(v.route, v.found) THEN Open(v.user, v.role, v.route) ELSE UNCHANGED opened
        /\ UNCHANGED <<people, tokens, grants, sinceGrant>>
    BY DEF Store
  <1>4. /\ sinceSession[v.user] < AccessTtl + waited[r] /\ sinceActive[v.user] <= waited[r]
        /\ \A key \in v.found : sinceGrant[v.role][key] <= waited[r]
    BY <1>3 DEF AccessInv, VisitsInv
  <1>5. /\ sinceSession[v.user] \in Int /\ sinceActive[v.user] \in Int
        /\ \A key \in v.found : sinceGrant[v.role][key] \in Int
    BY <1>1 DEF AccessInv, TypeOK, Ages
  <1> HIDE DEF v
  <1>6. opened' \subseteq Pass /\ OpensOnRecentGrant' /\ AccessEndsWithSession'
    <2>1. CASE HasAll(v.route, v.found)
      <3>1. sinceSession[v.user] < AccessTtl + HandlerTime /\ sinceActive[v.user] <= HandlerTime
        BY <1>2, <1>4, <1>5, Times
      <3>2. \A key \in RequiredKeys[v.route] : sinceGrant[v.role][key] < KeysTtl + HandlerTime
        BY <1>2, <1>4, <1>5, <2>1, Times DEF HasAll
      <3> QED  BY <1>1, <1>3, <2>1, <3>1, <3>2, OpenOK DEF people
    <2>2. CASE ~HasAll(v.route, v.found)
      BY <1>3, <2>2 DEF people, AccessInv, TypeOK, OpensOnRecentGrant, AccessEndsWithSession
    <2> QED  BY <2>1, <2>2
  <1>7. cached' \in [Roles -> [granted : SUBSET Keys, left : 0 .. KeysTtl]]
    BY <1>1, <1>3, Times DEF AccessInv, TypeOK
  <1>8. TypeOK'
    BY <1>3, <1>6, <1>7, FinishOK DEF people, tokens, AccessInv, TypeOK
  <1>9. KeysInv'
    <2> SUFFICES ASSUME NEW role \in Roles, NEW key \in Keys,
                        cached'[role].left > 0, key \in cached'[role].granted
                 PROVE  sinceGrant[role][key] + cached'[role].left <= KeysTtl + HandlerTime
      BY <1>3 DEF AccessInv, KeysInv
    <2>1. CASE role = v.role
      <3>1. cached'[role] = [granted |-> v.found, left |-> KeysTtl]
        BY <1>3, <2>1 DEF AccessInv, TypeOK
      <3>2. sinceGrant[role][key] <= waited[r] /\ sinceGrant[role][key] \in Int
        BY <1>4, <1>5, <2>1, <3>1
      <3> QED  BY <1>2, <3>1, <3>2, Times
    <2>2. CASE role # v.role
      BY <1>3, <2>2 DEF AccessInv, TypeOK, KeysInv
    <2> QED  BY <2>1, <2>2
  <1>10. VisitsInv'
    BY <1>3, FinishOK DEF people, AccessInv, VisitsInv
  <1> QED  BY <1>3, <1>6, <1>8, <1>9, <1>10 DEF people, tokens, AccessInv, TokensInv

LEMMA FailKeeps ==
  ASSUME AccessInv, NEW r \in Requests, Fail(r)
  PROVE  AccessInv'
  <1>1. TypeOK'
    BY FinishOK DEF Fail, people, tokens, keys, AccessInv, TypeOK
  <1>2. VisitsInv'
    BY FinishOK DEF Fail, people, keys, AccessInv, VisitsInv
  <1> QED
    BY <1>1, <1>2 DEF Fail, people, tokens, keys, AccessInv, TokensInv, KeysInv, OpensOnRecentGrant,
                      AccessEndsWithSession

-----------------------------------------------------------------------------
(* Time: lives get shorter by what ages grow                               *)

LEMMA Aging ==
  /\ \A n \in Ages : More(n) \in Ages /\ n <= More(n) /\ More(n) <= n + 1
  /\ \A n \in Nat : Less(n) \in Nat /\ Less(n) <= n /\ (Less(n) > 0 => Less(n) = n - 1)
  BY Times DEF Ages, More, Less

LEMMA TickKeeps ==
  ASSUME AccessInv, Tick
  PROVE  AccessInv'
  <1> USE Aging
  <1>1. ASSUME NEW u \in Users
        PROVE  /\ sinceActive[u] \in Ages /\ sinceActive'[u] \in Ages
               /\ sinceActive'[u] <= sinceActive[u] + 1
               /\ sinceSession[u] \in Ages /\ sinceSession'[u] \in Ages
               /\ sinceSession'[u] <= sinceSession[u] + 1
    <2>1. sinceActive[u] \in Ages /\ sinceSession[u] \in Ages
      BY DEF AccessInv, TypeOK
    <2>2. 0 \in Ages
      BY Times DEF Ages
    <2>3. \A n \in Ages : 0 <= n + 1
      BY DEF Ages
    <2> QED  BY <2>1, <2>2, <2>3 DEF Tick
  <1>2. ASSUME NEW role \in Roles, NEW key \in Keys
        PROVE  /\ sinceGrant[role][key] \in Ages /\ sinceGrant'[role][key] \in Ages
               /\ sinceGrant'[role][key] <= sinceGrant[role][key] + 1
    <2>1. sinceGrant[role][key] \in Ages /\ 0 \in Ages /\ \A n \in Ages : 0 <= n + 1
      BY Times DEF AccessInv, TypeOK, Ages
    <2>2. sinceGrant'[role][key] =
            IF <<role, key>> \in grants THEN 0 ELSE More(sinceGrant[role][key])
      BY DEF Tick
    <2> QED  BY <2>1, <2>2
  <1>3. ASSUME NEW q \in Requests
        PROVE  /\ waited[q] \in Nat /\ waited'[q] \in 0 .. HandlerTime
               /\ stage[q] # "idle" => waited'[q] = waited[q] + 1
    BY Times DEF Tick, AccessInv, TypeOK
  <1>4. TypeOK'
    <2>1. access' \in [Users -> [Roles -> 0 .. AccessTtl]]
      <3>1. \A n \in 0 .. AccessTtl : Less(n) \in 0 .. AccessTtl
        BY Times DEF Less
      <3> QED  BY <3>1 DEF Tick, AccessInv, TypeOK
    <2>2. refresh' \in [Users -> [Roles -> 0 .. RefreshTtl]]
      <3>1. \A n \in 0 .. RefreshTtl : Less(n) \in 0 .. RefreshTtl
        BY Times DEF Less
      <3> QED  BY <3>1 DEF Tick, AccessInv, TypeOK
    <2>3. cached' \in [Roles -> [granted : SUBSET Keys, left : 0 .. KeysTtl]]
      <3>1. ASSUME NEW role \in Roles
            PROVE  (IF cached[role].left > 1 THEN [cached[role] EXCEPT !.left = @ - 1] ELSE NoKeys)
                      \in [granted : SUBSET Keys, left : 0 .. KeysTtl]
        <4>1. /\ cached[role] \in [granted : SUBSET Keys, left : 0 .. KeysTtl]
              /\ cached[role].left \in 0 .. KeysTtl
          BY DEF AccessInv, TypeOK
        <4>2. CASE cached[role].left > 1
          <5>1. cached[role].left - 1 \in 0 .. KeysTtl
            BY <4>1, <4>2, Times
          <5> QED  BY <4>1, <4>2, <5>1
        <4>3. CASE ~(cached[role].left > 1)
          BY <4>3, NoKeysOK
        <4> QED  BY <4>2, <4>3
      <3> QED  BY <3>1 DEF Tick
    <2>4. sinceActive' \in [Users -> Ages] /\ sinceSession' \in [Users -> Ages]
      <3>1. /\ sinceActive' = [u \in Users |-> sinceActive'[u]]
            /\ sinceSession' = [u \in Users |-> sinceSession'[u]]
        BY DEF Tick
      <3> QED  BY <1>1, <3>1
    <2>5. sinceGrant' \in [Roles -> [Keys -> Ages]]
      <3>1. sinceGrant' = [role \in Roles |-> [key \in Keys |-> sinceGrant'[role][key]]]
        BY DEF Tick
      <3> QED  BY <1>2, <3>1
    <2>6. waited' \in [Requests -> 0 .. HandlerTime]
      <3>1. waited' = [q \in Requests |-> waited'[q]]
        BY DEF Tick
      <3> QED  BY <1>3, <3>1
    <2> QED  BY <2>1, <2>2, <2>3, <2>4, <2>5, <2>6 DEF Tick, AccessInv, TypeOK
  <1>5. TokensInv'
    <2> SUFFICES ASSUME NEW u \in Users
                 PROVE  /\ u \in session => sinceSession'[u] = 0
                        /\ u \in active \ locked => sinceActive'[u] = 0
                        /\ \A role \in Roles :
                              access'[u][role] > 0 => sinceSession'[u] + access'[u][role] <= AccessTtl
      BY DEF Tick, TokensInv
    <2>1. ASSUME NEW role \in Roles, access'[u][role] > 0
          PROVE  sinceSession'[u] + access'[u][role] <= AccessTtl
      <3>1. access[u][role] \in Nat /\ access'[u][role] = Less(access[u][role])
        BY Times DEF Tick, AccessInv, TypeOK
      <3>2. access'[u][role] = access[u][role] - 1 /\ access[u][role] > 0
        BY <2>1, <3>1
      <3>3. sinceSession[u] + access[u][role] <= AccessTtl
        BY <3>2 DEF AccessInv, TokensInv
      <3> QED  BY <1>1, <3>1, <3>2, <3>3, Times DEF Ages
    <2> QED  BY <2>1 DEF Tick
  <1>6. KeysInv'
    <2> SUFFICES ASSUME NEW role \in Roles, NEW key \in Keys
                 PROVE  /\ <<role, key>> \in grants => sinceGrant'[role][key] = 0
                        /\ cached'[role].left > 0 /\ key \in cached'[role].granted
                              => sinceGrant'[role][key] + cached'[role].left <= KeysTtl + HandlerTime
      BY DEF Tick, KeysInv
    <2>1. ASSUME cached'[role].left > 0, key \in cached'[role].granted
          PROVE  sinceGrant'[role][key] + cached'[role].left <= KeysTtl + HandlerTime
      <3>1. cached[role] \in [granted : SUBSET Keys, left : 0 .. KeysTtl]
        BY DEF AccessInv, TypeOK
      <3>2. cached[role].left > 1 /\ cached'[role] = [cached[role] EXCEPT !.left = @ - 1]
        BY <2>1 DEF Tick, NoKeys
      <3>3. /\ cached'[role].left = cached[role].left - 1
            /\ cached'[role].granted = cached[role].granted
            /\ cached[role].left \in Nat
        BY <3>1, <3>2, Times
      <3>4. sinceGrant[role][key] + cached[role].left <= KeysTtl + HandlerTime
        <4>1. cached[role].left > 0 /\ key \in cached[role].granted
          BY <2>1, <3>2, <3>3
        <4> QED  BY <4>1 DEF AccessInv, KeysInv
      <3> QED  BY <1>2, <3>3, <3>4, Times DEF Ages
    <2> QED  BY <2>1 DEF Tick
  <1>7. VisitsInv'
    <2> SUFFICES ASSUME NEW q \in Requests, stage[q] \in {"query", "store"}
                 PROVE  /\ sinceSession'[visit[q].user] < AccessTtl + waited'[q]
                        /\ sinceActive'[visit[q].user] <= waited'[q]
                        /\ stage[q] = "store" =>
                              \A key \in visit[q].found :
                                 sinceGrant'[visit[q].role][key] <= waited'[q]
      BY DEF Tick, VisitsInv
    <2>1. visit[q].user \in Users /\ visit[q].role \in Roles /\ visit[q].found \in SUBSET Keys
      BY DEF AccessInv, TypeOK, Visit
    <2>2. /\ sinceSession[visit[q].user] < AccessTtl + waited[q]
          /\ sinceActive[visit[q].user] <= waited[q]
          /\ stage[q] = "store" =>
                \A key \in visit[q].found : sinceGrant[visit[q].role][key] <= waited[q]
      BY DEF AccessInv, VisitsInv
    <2>3. waited[q] \in Nat /\ waited'[q] = waited[q] + 1
      BY <1>3
    <2>4. /\ sinceSession'[visit[q].user] < AccessTtl + waited'[q]
          /\ sinceActive'[visit[q].user] <= waited'[q]
      BY <1>1, <2>1, <2>2, <2>3, Times DEF Ages
    <2>5. ASSUME stage[q] = "store", NEW key \in visit[q].found
          PROVE  sinceGrant'[visit[q].role][key] <= waited'[q]
      BY <1>2, <2>1, <2>2, <2>3, <2>5 DEF Ages
    <2> QED  BY <2>4, <2>5
  <1>8. OpensOnRecentGrant' /\ AccessEndsWithSession'
    BY DEF Tick, OpensOnRecentGrant, AccessEndsWithSession
  <1> QED  BY <1>4, <1>5, <1>6, <1>7, <1>8 DEF AccessInv

-----------------------------------------------------------------------------
LEMMA IssuingOK ==
  ASSUME NEW u \in Users, NEW role \in Roles
  PROVE  Issuing(u, role) \in Visit
  BY NoVisitOK DEF Issuing, Visit

LEMMA StepAccess == AccessInv /\ [Next]_vars => AccessInv'
  <1> SUFFICES ASSUME AccessInv, [Next]_vars PROVE AccessInv'
    OBVIOUS
  <1>1. CASE Tick
    BY <1>1, TickKeeps
  <1>2. ASSUME NEW r \in Requests, Issue(r) \/ Query(r) \/ Store(r) \/ Fail(r)
        PROVE  AccessInv'
    BY <1>2, IssueKeeps, QueryKeeps, StoreKeeps, FailKeeps
  <1>3. ASSUME NEW r \in Requests, NEW u \in Users, BeginSignIn(r, u)
        PROVE  AccessInv'
    <2>1. Issuing(u, roleOf[u]) \in Visit
      BY IssuingOK DEF AccessInv, TypeOK
    <2> QED  BY <1>3, <2>1, BeginKeeps DEF BeginSignIn
  <1>4. ASSUME NEW r \in Requests, NEW u \in Users, NEW role \in Roles, BeginRefresh(r, u, role)
        PROVE  AccessInv'
    BY <1>4, IssuingOK, BeginKeeps DEF BeginRefresh
  <1>5. ASSUME NEW r \in Requests, NEW u \in Users, NEW role \in Roles, NEW route \in Routes,
               Miss(r, u, role, route) \/ Enter(u, role, route)
        PROVE  AccessInv'
    BY <1>5, MissKeeps, EnterKeeps
  <1>6. ASSUME NEW u \in Users, Logout(u) \/ SetActive(u) \/ SetLock(u)
        PROVE  AccessInv'
    BY <1>6, LogoutKeeps, SetActiveKeeps, SetLockKeeps
  <1>7. ASSUME NEW u \in Users, NEW role \in Roles, SetRole(u, role)
        PROVE  AccessInv'
    BY <1>7, SetRoleKeeps
  <1>8. ASSUME NEW role \in Roles, NEW key \in Keys, SetGrant(role, key)
        PROVE  AccessInv'
    BY <1>8, SetGrantKeeps
  <1>9. CASE UNCHANGED vars
    BY <1>9 DEF vars, people, tokens, keys, requests, AccessInv, TypeOK, TokensInv, KeysInv,
                VisitsInv, OpensOnRecentGrant, AccessEndsWithSession
  <1>10. ASSUME NEW u \in Users, NEW role \in Roles, NEW route \in Routes, Enter(u, role, route)
         PROVE  AccessInv'
    BY <1>10, EnterKeeps
  <1> QED
    BY <1>1, <1>2, <1>3, <1>4, <1>5, <1>6, <1>7, <1>8, <1>9, <1>10 DEF Next

\* Tokens, key sets, routes and requests of Access keep their types, whatever
\* the lifetimes: no life or age leaves its range.
THEOREM TypeCorrect == Spec => []TypeOK
  <1>1. AccessInv => TypeOK
    BY DEF AccessInv
  <1> QED  BY <1>1, InitAccess, StepAccess, PTL DEF Spec

\* No route opens on a permission that the role of the token has not granted for
\* longer than the guard's cache and one slow guard explain.
THEOREM RevocationLag == Spec => []OpensOnRecentGrant
  <1>1. AccessInv => OpensOnRecentGrant
    BY DEF AccessInv
  <1> QED  BY <1>1, InitAccess, StepAccess, PTL DEF Spec

\* Nothing opens to a user whose session ended longer ago than an access token
\* lives, nor to one who is inactive or locked.
THEOREM LogoutLag == Spec => []AccessEndsWithSession
  <1>1. AccessInv => AccessEndsWithSession
    BY DEF AccessInv
  <1> QED  BY <1>1, InitAccess, StepAccess, PTL DEF Spec
=============================================================================
