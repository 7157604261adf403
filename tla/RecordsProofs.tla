--------------------------- MODULE RecordsProofs ---------------------------
(* Theorems about organizations and their users (Tenancy) and about comments *)
(* and work logs (Attachments), for any number of records and of requests.  *)
EXTENDS Tenancy, Attachments, TLAPS

-----------------------------------------------------------------------------
(* Tenancy                                                                 *)

\* The types but that of overlapped, a truth value, and those of the requests.
TenancyShape ==
    /\ org \in [OrgIds -> OrgRow \cup {Nothing}]
    /\ user \in [UserIds -> UserRow \cup {Nothing}]
    /\ entity \in [OrgIds -> Copy \cup {Nothing}]
    /\ list \in List \cup {Nothing}
    /\ at \in [Clients -> Awaits]
    /\ local \in [Clients -> Local]
    /\ deaths \in 0 .. MaxDeaths
    /\ registered \subseteq OrgIds

\* Of the owners of registered organizations a copy of o has that of o among its
\* members and no other, and its members are users.
Faithful(o, copy) ==
    /\ o \in OrgIds /\ org[o] # Nothing
    /\ \A u \in copy.members : user[u] # Nothing
    /\ \A p \in registered : org[p].owner \in copy.members <=> p = o

\* A request that will insert an organization.
Inserts(a, l) == l.op = "register" \/ (l.op = "create" /\ a \in {"ensureUnique", "save"})

\* Where a request may stand, for each operation.
Stations ==
    [idle |-> {"idle"},
     register |-> {"checkOrgEmail", "insertOrganization", "insertOwner", "clearList", "commit"},
     createUser |-> {"insertUser"},
     create |-> {"ensureUnique", "save", "clearList"},
     findOne |-> {"load", "fill"},
     update |-> {"load", "fill", "ensureUnique", "save", "clearEntity", "clearList"},
     remove |-> {"load", "fill", "save", "clearEntity", "clearList"},
     findAll |-> {"loadList", "fillList"}]

\* What a request at await a holds: what it will insert is not there yet, and the
\* entity it goes on with is a faithful copy.
Holding(a, l) ==
    /\ l \in Local /\ a \in Stations[l.op]
    /\ l.op = "idle" => l = NoLocal
    /\ l.op \in {"register", "createUser", "create", "findOne", "update", "remove"} => l.org \in OrgIds
    /\ l.op \in {"register", "createUser"} => l.user \in UserIds /\ l.login \in Logins
    /\ l.op \in {"register", "create"} => l.email \in Emails
    /\ l.op \in {"findOne", "update", "remove"} /\ a # "load" => l.entity # Nothing
    /\ l.entity # Nothing => Faithful(l.org, l.entity)
    /\ Inserts(a, l) => org[l.org] = Nothing
    /\ l.user # Nothing => l.op \in {"register", "createUser"} /\ user[l.user] = Nothing

\* No two requests insert the same organization or the same user.
Unshared ==
    \A r, q \in Clients : r # q =>
        /\ Inserts(at[r], local[r]) /\ Inserts(at[q], local[q]) => local[r].org # local[q].org
        /\ local[r].user # Nothing => local[r].user # local[q].user

TenancyInv ==
    /\ TenancyShape /\ OwnersBelong /\ Unshared
    /\ \A o \in OrgIds : entity[o] # Nothing => Faithful(o, entity[o])
    /\ \A r \in Clients : Holding(at[r], local[r])

LEMMA NothingIsNoRow ==
  /\ Nothing \notin OrgRow /\ Nothing \notin UserRow /\ Nothing \notin Copy /\ Nothing \notin List
  /\ Nothing \notin OrgIds /\ Nothing \notin UserIds /\ Nothing \notin Logins /\ Nothing \notin Emails
  BY NothingAssumption, TenancyAssumption

LEMMA NoLocalHeld == NoLocal \in Local /\ Holding("idle", NoLocal)
  <1>1. NoLocal \in Local
    BY DEF NoLocal, Local, Operations
  <1> QED
    BY <1>1 DEF NoLocal, Holding, Stations, Inserts

\* The fields of a request that has just begun.
LEMMA NoLocalFields ==
  /\ NoLocal.op = "idle" /\ NoLocal.org = Nothing /\ NoLocal.user = Nothing /\ NoLocal.login = Nothing
  /\ NoLocal.email = Nothing /\ NoLocal.entity = Nothing /\ NoLocal.list = Nothing
  BY DEF NoLocal

LEMMA TenancyInit == InitTenancy => TenancyInv
  <1> SUFFICES ASSUME InitTenancy PROVE TenancyInv
    OBVIOUS
  <1>1. TenancyShape
    BY NoLocalHeld, TenancyAssumption DEF InitTenancy, TenancyShape, Awaits
  <1>2. OwnersBelong
    BY DEF InitTenancy, OwnersBelong
  <1>3. \A r \in Clients : at[r] = "idle" /\ local[r] = NoLocal
    BY DEF InitTenancy
  <1>4. Unshared
    BY <1>3 DEF Unshared, Inserts, NoLocal
  <1>5. \A o \in OrgIds : entity[o] = Nothing
    BY DEF InitTenancy
  <1> QED
    BY <1>1, <1>2, <1>3, <1>4, <1>5, NoLocalHeld DEF TenancyInv

\* A request that moves on, and leaves tables and cached entities alone.
LEMMA TurnKeeps ==
  ASSUME TenancyInv, NEW r \in Clients, NEW a \in Awaits, NEW l \in Local,
         at' = [at EXCEPT ![r] = a], local' = [local EXCEPT ![r] = l],
         UNCHANGED <<org, user, registered>>, Holding(a, l),
         list' \in List \cup {Nothing}, deaths' \in 0 .. MaxDeaths,
         entity' \in [OrgIds -> Copy \cup {Nothing}],
         \A o \in OrgIds : entity'[o] # Nothing => Faithful(o, entity'[o]),
         Inserts(a, l) =>
            \A q \in Clients \ {r} : Inserts(at[q], local[q]) => local[q].org # l.org,
         l.user # Nothing => \A q \in Clients \ {r} : local[q].user # l.user
  PROVE  TenancyInv'
  <1>s. TenancyShape
    BY DEF TenancyInv
  <1>1. /\ at'[r] = a /\ local'[r] = l
        /\ \A q \in Clients \ {r} : at'[q] = at[q] /\ local'[q] = local[q]
    BY <1>s DEF TenancyShape
  <1>2. TenancyShape'
    BY <1>s DEF TenancyShape
  <1>3. OwnersBelong'
    BY DEF TenancyInv, OwnersBelong
  <1>4. ASSUME NEW o, NEW c, Faithful(o, c) PROVE Faithful(o, c)'
    BY <1>4 DEF Faithful
  <1>h. ASSUME NEW b, NEW k, Holding(b, k) PROVE Holding(b, k)'
    BY <1>4, <1>h DEF Holding
  <1>5. ASSUME NEW q \in Clients PROVE Holding(at[q], local[q])'
    <2>1. Holding(at'[q], local'[q])
      BY <1>1 DEF TenancyInv
    <2> QED
      BY <2>1, <1>h
  <1>7. \A o \in OrgIds : entity'[o] # Nothing => Faithful(o, entity[o])'
    BY <1>4
  <1>6. Unshared'
    <2> SUFFICES ASSUME NEW p \in Clients, NEW q \in Clients, p # q
                 PROVE  /\ Inserts(at'[p], local'[p]) /\ Inserts(at'[q], local'[q])
                              => local'[p].org # local'[q].org
                        /\ local'[p].user # Nothing => local'[p].user # local'[q].user
      BY DEF Unshared, Inserts
    <2>1. CASE p # r /\ q # r
      BY <2>1, <1>1 DEF TenancyInv, Unshared
    <2>2. CASE p = r \/ q = r
      BY <2>2, <1>1
    <2> QED
      BY <2>1, <2>2
  <1> QED
    BY <1>2, <1>3, <1>5, <1>6, <1>7 DEF TenancyInv

\* The same request with the same data, one await further.
LEMMA ContinueKeeps ==
  ASSUME TenancyInv, NEW r \in Clients, NEW a \in Awaits, Continue(r, a),
         a \in Stations[local[r].op], a # "load", at[r] # "load",
         Inserts(a, local[r]) => Inserts(at[r], local[r]),
         UNCHANGED <<org, user, registered>>,
         list' \in List \cup {Nothing}, deaths' \in 0 .. MaxDeaths,
         entity' \in [OrgIds -> Copy \cup {Nothing}],
         \A o \in OrgIds : entity'[o] # Nothing => Faithful(o, entity'[o])
  PROVE  TenancyInv'
  <1>1. Holding(at[r], local[r]) /\ TenancyShape
    BY DEF TenancyInv
  <1>2. Holding(a, local[r])
    BY <1>1 DEF Holding
  <1>3. local' = [local EXCEPT ![r] = local[r]] /\ at' = [at EXCEPT ![r] = a]
    BY <1>1 DEF Continue, Advance, TenancyShape
  <1>4. Inserts(a, local[r]) =>
            \A q \in Clients \ {r} : Inserts(at[q], local[q]) => local[q].org # local[r].org
    BY DEF TenancyInv, Unshared
  <1>5. local[r].user # Nothing => \A q \in Clients \ {r} : local[q].user # local[r].user
    BY DEF TenancyInv, Unshared
  <1>6. local[r] \in Local
    BY <1>1 DEF Holding
  <1> QED
    BY <1>2, <1>3, <1>4, <1>5, <1>6, TurnKeeps

\* A request that ends.
LEMMA EndKeeps ==
  ASSUME TenancyInv, NEW r \in Clients, End(r), UNCHANGED <<org, user, registered>>,
         list' \in List \cup {Nothing}, deaths' \in 0 .. MaxDeaths,
         entity' \in [OrgIds -> Copy \cup {Nothing}],
         \A o \in OrgIds : entity'[o] # Nothing => Faithful(o, entity'[o])
  PROVE  TenancyInv'
  <1>1. local' = [local EXCEPT ![r] = NoLocal] /\ at' = [at EXCEPT ![r] = "idle"]
    BY DEF End, Advance
  <1>2. ~Inserts("idle", NoLocal) /\ NoLocal.user = Nothing
    BY DEF Inserts, NoLocal
  <1>3. "idle" \in Awaits
    BY DEF Awaits
  <1> QED
    BY <1>1, <1>2, <1>3, NoLocalHeld, TurnKeeps

\* Caches that a step leaves alone.
LEMMA CachesStay ==
  ASSUME TenancyInv
  PROVE  /\ list \in List \cup {Nothing} /\ deaths \in 0 .. MaxDeaths
         /\ entity \in [OrgIds -> Copy \cup {Nothing}]
         /\ \A o \in OrgIds : entity[o] # Nothing => Faithful(o, entity[o])
  BY DEF TenancyInv, TenancyShape

-----------------------------------------------------------------------------
\* The steps of a registration but its Commit.
LEMMA RegisterKeeps ==
  ASSUME TenancyInv, NEW r \in Clients,
         CheckOrgEmail(r) \/ InsertOrganization(r) \/ InsertOwner(r)
  PROVE  TenancyInv'
  <1> DEFINE a == IF at[r] = "checkOrgEmail" THEN "insertOrganization"
                  ELSE IF at[r] = "insertOrganization" THEN "insertOwner" ELSE "clearList"
  <1>1. /\ at[r] \in {"checkOrgEmail", "insertOrganization", "insertOwner"}
        /\ Continue(r, a) /\ UNCHANGED <<org, user, registered, list, deaths, entity>>
    BY DEF CheckOrgEmail, InsertOrganization, InsertOwner, tables, cache
  <1>2. local[r].op = "register"
    <2>1. at[r] \in Stations[local[r].op] /\ local[r].op \in Operations
      BY DEF TenancyInv, Holding, Local
    <2> QED
      BY <1>1, <2>1 DEF Stations, Operations
  <1>3. a \in Awaits /\ a \in Stations[local[r].op] /\ a # "load" /\ at[r] # "load"
    BY <1>1, <1>2 DEF Stations, Awaits
  <1>4. Inserts(at[r], local[r])
    BY <1>2 DEF Inserts
  <1> HIDE DEF a
  <1> QED
    BY <1>1, <1>3, <1>4, CachesStay, ContinueKeeps

LEMMA BeginRegisterKeeps ==
  ASSUME TenancyInv, NEW r \in Clients, NEW o \in OrgIds, NEW u \in UserIds,
         NEW login \in Logins, NEW email \in Emails, BeginRegister(r, o, u, login, email)
  PROVE  TenancyInv'
  <1> DEFINE l == [NoLocal EXCEPT !.op = "register", !.org = o, !.user = u,
                                  !.login = login, !.email = email]
  <1>1. /\ NewOrg(o) /\ NewUser(u) /\ Start(r, "checkOrgEmail", l)
    BY DEF BeginRegister
  <1>2. /\ l \in Local
        /\ l.op = "register" /\ l.org = o /\ l.user = u /\ l.login = login
        /\ l.email = email /\ l.entity = Nothing
    BY NoLocalHeld, NoLocalFields DEF Local, Operations
  <1>3. l \in Local
    BY <1>2
  <1> HIDE DEF l
  <1>4. Holding("checkOrgEmail", l)
    BY <1>1, <1>2, <1>3 DEF Holding, Stations, NewOrg, NewUser
  <1>5. /\ at' = [at EXCEPT ![r] = "checkOrgEmail"] /\ local' = [local EXCEPT ![r] = l]
        /\ UNCHANGED <<org, user, registered, list, deaths, entity>>
    BY <1>1 DEF Start, Advance, tables, cache
  <1>6. \A q \in Clients \ {r} : local[q].org # l.org /\ local[q].user # l.user
    BY <1>1, <1>2 DEF NewOrg, NewUser
  <1>7. "checkOrgEmail" \in Awaits
    BY DEF Awaits
  <1> QED
    BY <1>3, <1>4, <1>5, <1>6, <1>7, CachesStay, TurnKeeps

LEMMA BeginCreateUserKeeps ==
  ASSUME TenancyInv, NEW r \in Clients, NEW o \in OrgIds, NEW u \in UserIds,
         NEW login \in Logins, BeginCreateUser(r, u, login, o)
  PROVE  TenancyInv'
  <1> DEFINE l == [NoLocal EXCEPT !.op = "createUser", !.org = o, !.user = u, !.login = login]
  <1>1. NewUser(u) /\ Start(r, "insertUser", l)
    BY DEF BeginCreateUser
  <1>2. /\ l \in Local
        /\ l.op = "createUser" /\ l.org = o /\ l.user = u /\ l.login = login /\ l.entity = Nothing
    BY NoLocalHeld, NoLocalFields DEF Local, Operations
  <1>3. l \in Local
    BY <1>2
  <1> HIDE DEF l
  <1>4. Holding("insertUser", l) /\ ~Inserts("insertUser", l)
    BY <1>1, <1>2, <1>3 DEF Holding, Stations, NewUser, Inserts
  <1>5. /\ at' = [at EXCEPT ![r] = "insertUser"] /\ local' = [local EXCEPT ![r] = l]
        /\ UNCHANGED <<org, user, registered, list, deaths, entity>>
    BY <1>1 DEF Start, Advance, tables, cache
  <1>6. \A q \in Clients \ {r} : local[q].user # l.user
    BY <1>1, <1>2 DEF NewUser
  <1>7. "insertUser" \in Awaits
    BY DEF Awaits
  <1> QED
    BY <1>3, <1>4, <1>5, <1>6, <1>7, CachesStay, TurnKeeps

LEMMA BeginCreateKeeps ==
  ASSUME TenancyInv, NEW r \in Clients, NEW o \in OrgIds, NEW email \in Emails,
         BeginCreate(r, o, email)
  PROVE  TenancyInv'
  <1> DEFINE l == [NoLocal EXCEPT !.op = "create", !.org = o, !.email = Lower[email]]
  <1>1. NewOrg(o) /\ Start(r, "ensureUnique", l)
    BY DEF BeginCreate
  <1>0. Lower[email] \in Emails
    BY TenancyAssumption
  <1>2. /\ l \in Local
        /\ l.op = "create" /\ l.org = o /\ l.user = Nothing /\ l.email = Lower[email]
        /\ l.entity = Nothing
    BY <1>0, NoLocalHeld, NoLocalFields DEF Local, Operations
  <1>3. l \in Local
    BY <1>2
  <1> HIDE DEF l
  <1>4. Holding("ensureUnique", l)
    BY <1>0, <1>1, <1>2, <1>3 DEF Holding, Stations, NewOrg
  <1>5. /\ at' = [at EXCEPT ![r] = "ensureUnique"] /\ local' = [local EXCEPT ![r] = l]
        /\ UNCHANGED <<org, user, registered, list, deaths, entity>>
    BY <1>1 DEF Start, Advance, tables, cache
  <1>6. l.user = Nothing /\ \A q \in Clients \ {r} : local[q].org # l.org
    BY <1>1, <1>2 DEF NewOrg
  <1>7. "ensureUnique" \in Awaits
    BY DEF Awaits
  <1> QED
    BY <1>3, <1>4, <1>5, <1>6, <1>7, CachesStay, TurnKeeps

-----------------------------------------------------------------------------
\* What update and remove go on with when they have their copy.
LEMMA ProceedKeeps ==
  ASSUME TenancyInv, NEW r \in Clients, NEW l \in Local, Proceed(r, l),
         l.op \in {"findOne", "update", "remove"}, l.org \in OrgIds, l.user = Nothing,
         l.entity # Nothing, Faithful(l.org, l.entity),
         UNCHANGED <<org, user, registered, list, deaths>>,
         entity' \in [OrgIds -> Copy \cup {Nothing}],
         \A o \in OrgIds : entity'[o] # Nothing => Faithful(o, entity'[o])
  PROVE  TenancyInv'
  <1>1. CASE End(r)
    BY <1>1, CachesStay, EndKeeps
  <1>2. CASE ~End(r)
    <2> DEFINE a == IF MustBeUnique(l) THEN "ensureUnique" ELSE "save"
    <2>1. /\ l.op \in {"update", "remove"}
          /\ at' = [at EXCEPT ![r] = a] /\ local' = [local EXCEPT ![r] = l]
      BY <1>2 DEF Proceed, Advance
    <2>2. a \in {"ensureUnique", "save"} /\ (l.op = "remove" => a = "save")
      BY DEF MustBeUnique
    <2> HIDE DEF a
    <2>3. ~Inserts(a, l)
      BY <2>1 DEF Inserts
    <2>4. Holding(a, l)
      BY <2>1, <2>2, <2>3 DEF Holding, Stations
    <2>5. a \in Awaits
      BY <2>2 DEF Awaits
    <2> QED
      BY <2>1, <2>3, <2>4, <2>5, CachesStay, TurnKeeps
  <1> QED
    BY <1>1, <1>2

LEMMA LookupKeeps ==
  ASSUME TenancyInv, NEW r \in Clients, NEW op \in {"findOne", "update", "remove"},
         NEW o \in OrgIds, NEW email \in Emails \cup {Nothing}, Lookup(r, op, o, email)
  PROVE  TenancyInv'
  <1> DEFINE written == IF email = Nothing THEN Nothing ELSE Lower[email]
             l == [NoLocal EXCEPT !.op = op, !.org = o, !.email = written]
             k == [l EXCEPT !.entity = entity[o]]
  <1>0. written \in Emails \cup {Nothing}
    BY TenancyAssumption
  <1>1. /\ UNCHANGED <<org, user, registered, list, deaths, entity>>
        /\ \/ entity[o] = Nothing /\ Advance(r, "load") /\ local' = [local EXCEPT ![r] = l]
           \/ entity[o] # Nothing /\ Proceed(r, k)
    BY DEF Lookup, tables, cache
  <1>s. entity[o] \in Copy \cup {Nothing} /\ (entity[o] # Nothing => Faithful(o, entity[o]))
    BY DEF TenancyInv, TenancyShape
  <1> HIDE DEF written
  <1>2. /\ l \in Local
        /\ l.op = op /\ l.org = o /\ l.user = Nothing /\ l.entity = Nothing
    BY <1>0, NoLocalHeld, NoLocalFields DEF Local, Operations
  <1> HIDE DEF l
  <1>3. /\ k \in Local
        /\ k.op = op /\ k.org = o /\ k.user = Nothing /\ k.entity = entity[o]
    BY <1>2, <1>s DEF Local
  <1> HIDE DEF k
  <1>4. CASE entity[o] = Nothing /\ Advance(r, "load") /\ local' = [local EXCEPT ![r] = l]
    <2>1. ~Inserts("load", l)
      BY <1>2 DEF Inserts
    <2>2. Holding("load", l)
      BY <1>2, <2>1 DEF Holding, Stations
    <2>3. "load" \in Awaits /\ at' = [at EXCEPT ![r] = "load"]
      BY <1>4 DEF Awaits, Advance
    <2> QED
      BY <1>1, <1>2, <1>4, <2>1, <2>2, <2>3, CachesStay, TurnKeeps
  <1>5. CASE entity[o] # Nothing /\ Proceed(r, k)
    BY <1>1, <1>3, <1>5, <1>s, CachesStay, ProceedKeeps
  <1> QED
    BY <1>1, <1>4, <1>5

\* A copy of a live organization is faithful.
LEMMA CopyIsFaithful ==
  ASSUME TenancyInv, NEW o \in OrgIds, Live(o)
  PROVE  CopyOf(o) \in Copy /\ Faithful(o, CopyOf(o))
  <1>s. TenancyShape /\ OwnersBelong
    BY DEF TenancyInv
  <1>1. org[o] \in OrgRow /\ org[o] # Nothing
    BY <1>s DEF TenancyShape, Live
  <1>2. CopyOf(o) = [email |-> org[o].email, deleted |-> org[o].deleted, members |-> Members(o)]
        /\ CopyOf(o).members = Members(o) /\ Members(o) \subseteq UserIds
    BY DEF CopyOf, Members
  <1>3. CopyOf(o) \in Copy
    BY <1>1, <1>2 DEF Copy, OrgRow
  <1>4. \A u \in Members(o) : user[u] # Nothing
    BY DEF Members
  <1>5. ASSUME NEW p \in registered PROVE org[p].owner \in Members(o) <=> p = o
    <2>1. p \in OrgIds /\ org[p] \in OrgRow /\ org[p].owner # Nothing
          /\ user[org[p].owner] # Nothing /\ user[org[p].owner].org = p
      BY <1>s DEF TenancyShape, OwnersBelong
    <2>2. org[p].owner \in UserIds
      BY <2>1 DEF OrgRow
    <2> QED
      BY <2>1, <2>2 DEF Members
  <1> QED
    BY <1>1, <1>2, <1>3, <1>4, <1>5 DEF Faithful

\* Where a request stands says what it does.
LEMMA StationOp ==
  ASSUME TenancyInv, NEW r \in Clients
  PROVE  /\ local[r] \in Local /\ local[r].op \in Operations /\ Holding(at[r], local[r])
         /\ at[r] \in {"load", "fill"} => local[r].op \in {"findOne", "update", "remove"}
         /\ at[r] = "clearEntity" => local[r].op \in {"update", "remove"}
         /\ at[r] = "ensureUnique" => local[r].op \in {"create", "update"}
         /\ at[r] = "save" => local[r].op \in {"create", "update", "remove"}
         /\ at[r] = "clearList" => local[r].op \in {"register", "create", "update", "remove"}
         /\ at[r] = "commit" => local[r].op = "register"
         /\ at[r] = "insertUser" => local[r].op = "createUser"
         /\ at[r] \in {"loadList", "fillList"} => local[r].op = "findAll"
  <1>1. Holding(at[r], local[r])
    BY DEF TenancyInv
  <1>2. local[r] \in Local /\ local[r].op \in Operations /\ at[r] \in Stations[local[r].op]
    BY <1>1 DEF Holding, Local
  <1> QED
    BY <1>1, <1>2 DEF Stations, Operations

LEMMA LoadKeeps ==
  ASSUME TenancyInv, NEW r \in Clients, Load(r)
  PROVE  TenancyInv'
  <1> DEFINE c == CopyOf(local[r].org)
             l == [local[r] EXCEPT !.entity = c]
  <1>1. /\ at[r] = "load" /\ Live(local[r].org)
        /\ local' = [local EXCEPT ![r] = l] /\ at' = [at EXCEPT ![r] = "fill"]
        /\ UNCHANGED <<org, user, registered, list, deaths, entity>>
    BY DEF Load, Advance, tables, cache
  <1>2. local[r] \in Local /\ Holding(at[r], local[r])
        /\ local[r].op \in {"findOne", "update", "remove"}
    BY <1>1, StationOp
  <1>3. local[r].org \in OrgIds /\ local[r].user = Nothing
    BY <1>2 DEF Holding
  <1>4. c \in Copy /\ Faithful(local[r].org, c)
    BY <1>1, <1>3, CopyIsFaithful
  <1> HIDE DEF c
  <1>5. /\ l \in Local /\ l.op = local[r].op /\ l.org = local[r].org /\ l.user = Nothing
        /\ l.entity = c
    BY <1>2, <1>3, <1>4 DEF Local
  <1> HIDE DEF l
  <1>6. ~Inserts("fill", l)
    BY <1>2, <1>5 DEF Inserts
  <1>7. Holding("fill", l)
    BY <1>2, <1>3, <1>4, <1>5, <1>6, NothingIsNoRow DEF Holding, Stations
  <1>8. "fill" \in Awaits
    BY DEF Awaits
  <1> QED
    BY <1>1, <1>5, <1>6, <1>7, <1>8, CachesStay, TurnKeeps

LEMMA FillKeeps ==
  ASSUME TenancyInv, NEW r \in Clients, Fill(r)
  PROVE  TenancyInv'
  <1> DEFINE l == local[r]
  <1>1. /\ at[r] = "fill" /\ Proceed(r, l)
        /\ entity' = [entity EXCEPT ![l.org] = l.entity]
        /\ UNCHANGED <<org, user, registered, list, deaths>>
    BY DEF Fill, tables
  <1>2. l \in Local /\ Holding(at[r], l) /\ l.op \in {"findOne", "update", "remove"}
    BY <1>1, StationOp
  <1>3. /\ l.org \in OrgIds /\ l.user = Nothing /\ l.entity # Nothing
        /\ Faithful(l.org, l.entity) /\ l.entity \in Copy
    BY <1>1, <1>2 DEF Holding, Local
  <1>4. /\ entity' \in [OrgIds -> Copy \cup {Nothing}]
        /\ \A o \in OrgIds : entity'[o] # Nothing => Faithful(o, entity'[o])
    BY <1>1, <1>3, CachesStay
  <1> QED
    BY <1>1, <1>2, <1>3, <1>4, ProceedKeeps

\* The steps that change no table and follow no copy.
LEMMA OtherStepsKeep ==
  ASSUME TenancyInv, NEW r \in Clients,
         \/ EnsureUnique(r) \/ ClearEntity(r) \/ ClearList(r) \/ BeginFindAll(r) \/ LoadList(r)
         \/ FillList(r) \/ Refuse(r) \/ Dies(r)
  PROVE  TenancyInv'
  <1>s. TenancyShape
    BY DEF TenancyInv
  <1>1. CASE EnsureUnique(r)
    <2>1. at[r] = "ensureUnique" /\ Continue(r, "save")
          /\ UNCHANGED <<org, user, registered, list, deaths, entity>>
      BY <1>1 DEF EnsureUnique, tables, cache
    <2>2. local[r].op \in {"create", "update"}
      BY <2>1, StationOp
    <2>3. "save" \in Awaits /\ "save" \in Stations[local[r].op]
      BY <2>2 DEF Awaits, Stations
    <2>4. Inserts("save", local[r]) => Inserts(at[r], local[r])
      BY <2>1 DEF Inserts
    <2> QED
      BY <2>1, <2>3, <2>4, CachesStay, ContinueKeeps
  <1>2. CASE ClearEntity(r)
    <2>1. /\ at[r] = "clearEntity" /\ Continue(r, "clearList")
          /\ entity' = [entity EXCEPT ![local[r].org] = Nothing]
          /\ UNCHANGED <<org, user, registered, list, deaths>>
      BY <1>2 DEF ClearEntity, tables
    <2>2. local[r].op \in {"update", "remove"}
      BY <2>1, StationOp
    <2>3. "clearList" \in Awaits /\ "clearList" \in Stations[local[r].op]
      BY <2>2 DEF Awaits, Stations
    <2>4. ~Inserts("clearList", local[r])
      BY <2>2 DEF Inserts
    <2>5. /\ entity' \in [OrgIds -> Copy \cup {Nothing}]
          /\ \A o \in OrgIds : entity'[o] # Nothing => Faithful(o, entity'[o])
      BY <2>1, CachesStay
    <2> QED
      BY <2>1, <2>3, <2>4, <2>5, CachesStay, ContinueKeeps
  <1>3. CASE ClearList(r)
    <2>1. at[r] = "clearList" /\ list' = Nothing
          /\ UNCHANGED <<org, user, registered, deaths, entity>>
          /\ IF local[r].op = "register" THEN Continue(r, "commit") ELSE End(r)
      BY <1>3 DEF ClearList, DelList, tables
    <2>2. CASE local[r].op = "register"
      <3>1. "commit" \in Awaits /\ "commit" \in Stations[local[r].op]
        BY <2>2 DEF Awaits, Stations
      <3>2. Inserts(at[r], local[r])
        BY <2>2 DEF Inserts
      <3> QED
        BY <2>1, <2>2, <3>1, <3>2, CachesStay, ContinueKeeps
    <2>3. CASE local[r].op # "register"
      BY <2>1, <2>3, CachesStay, EndKeeps
    <2> QED
      BY <2>2, <2>3
  <1>4. CASE BeginFindAll(r)
    <2> DEFINE l == [NoLocal EXCEPT !.op = "findAll"]
    <2>1. /\ at' = [at EXCEPT ![r] = "loadList"] /\ local' = [local EXCEPT ![r] = l]
          /\ UNCHANGED <<org, user, registered, list, deaths, entity>>
      BY <1>4 DEF BeginFindAll, Start, Advance, tables, cache
    <2>2. l \in Local /\ l.op = "findAll" /\ l.user = Nothing /\ l.entity = Nothing
      BY NoLocalHeld, NoLocalFields DEF Local, Operations
    <2> HIDE DEF l
    <2>3. ~Inserts("loadList", l) /\ "loadList" \in Awaits
      BY <2>2 DEF Inserts, Awaits
    <2>4. Holding("loadList", l)
      BY <2>2, <2>3 DEF Holding, Stations
    <2> QED
      BY <2>1, <2>2, <2>3, <2>4, CachesStay, TurnKeeps
  <1>5. CASE LoadList(r)
    <2> DEFINE x == [items |-> {o \in OrgIds : Live(o)}]
               l == [local[r] EXCEPT !.list = x]
    <2>1. /\ at[r] = "loadList"
          /\ at' = [at EXCEPT ![r] = "fillList"] /\ local' = [local EXCEPT ![r] = l]
          /\ UNCHANGED <<org, user, registered, list, deaths, entity>>
      BY <1>5 DEF LoadList, Advance, tables, cache
    <2>2. local[r] \in Local /\ local[r].op = "findAll" /\ Holding(at[r], local[r])
      BY <2>1, StationOp
    <2>3. x \in List
      BY DEF List
    <2> HIDE DEF x
    <2>4. /\ l \in Local /\ l.op = "findAll" /\ l.org = local[r].org /\ l.user = local[r].user
          /\ l.entity = local[r].entity
      BY <2>2, <2>3 DEF Local
    <2> HIDE DEF l
    <2>5. ~Inserts("fillList", l) /\ "fillList" \in Awaits
      BY <2>4 DEF Inserts, Awaits
    <2>6. Holding("fillList", l) /\ l.user = Nothing
      BY <2>2, <2>4, <2>5 DEF Holding, Stations
    <2> QED
      BY <2>1, <2>4, <2>5, <2>6, CachesStay, TurnKeeps
  <1>6. CASE FillList(r)
    <2>1. local[r].list \in List \cup {Nothing}
      BY StationOp DEF Local
    <2> QED
      BY <1>6, <2>1, CachesStay, EndKeeps DEF FillList, tables
  <1>7. CASE Refuse(r) \/ Dies(r)
    <2>1. /\ End(r) /\ UNCHANGED <<org, user, registered, list, entity>>
          /\ deaths' \in 0 .. MaxDeaths
      BY <1>7, <1>s, TenancyAssumption DEF Refuse, Dies, tables, cache, TenancyShape
    <2> QED
      BY <2>1, CachesStay, EndKeeps
  <1> QED
    BY <1>1, <1>2, <1>3, <1>4, <1>5, <1>6, <1>7

LEMMA ExpireKeeps ==
  ASSUME TenancyInv, Expire
  PROVE  TenancyInv'
  <1>s. TenancyShape
    BY DEF TenancyInv
  <1>1. UNCHANGED <<org, user, registered, at, local, deaths>>
    BY DEF Expire, tables
  <1>2. /\ list' \in List \cup {Nothing} /\ entity' \in [OrgIds -> Copy \cup {Nothing}]
        /\ \A o \in OrgIds : entity'[o] # Nothing => Faithful(o, entity'[o])
    BY CachesStay DEF Expire
  <1>3. TenancyShape'
    BY <1>s, <1>1, <1>2 DEF TenancyShape
  <1> QED
    BY <1>1, <1>2, <1>3 DEF TenancyInv, OwnersBelong, Unshared, Holding, Faithful, Inserts

-----------------------------------------------------------------------------
\* A request that writes a table, and has nothing left to insert.
LEMMA TablesKeep ==
  ASSUME TenancyInv, NEW r \in Clients, NEW a \in Awaits, NEW l \in Local,
         at' = [at EXCEPT ![r] = a], local' = [local EXCEPT ![r] = l],
         UNCHANGED <<list, entity, deaths>>,
         org' \in [OrgIds -> OrgRow \cup {Nothing}], user' \in [UserIds -> UserRow \cup {Nothing}],
         registered' \subseteq OrgIds, OwnersBelong',
         \A o \in OrgIds, c \in Copy : Faithful(o, c) => Faithful(o, c)',
         \A q \in Clients \ {r} : Inserts(at[q], local[q]) => org'[local[q].org] = Nothing,
         \A q \in Clients \ {r} : local[q].user # Nothing => user'[local[q].user] = Nothing,
         l.op = "idle" => l = NoLocal,
         l.op # "idle" => l.op \in {"create", "update", "remove"} /\ a \in Stations[l.op]
                          /\ a # "load" /\ Holding(at[r], l) /\ at[r] # "load",
         a = "idle" <=> l.op = "idle",
         ~Inserts(a, l), l.user = Nothing
  PROVE  TenancyInv'
  <1>s. TenancyShape
    BY DEF TenancyInv
  <1>1. /\ at'[r] = a /\ local'[r] = l
        /\ \A q \in Clients \ {r} : at'[q] = at[q] /\ local'[q] = local[q]
    BY <1>s DEF TenancyShape
  <1>2. TenancyShape'
    BY <1>s DEF TenancyShape
  <1>3. \A o \in OrgIds : entity'[o] # Nothing => Faithful(o, entity[o])'
    BY CachesStay
  <1>4. ASSUME NEW q \in Clients \ {r} PROVE Holding(at[q], local[q])'
    <2>1. Holding(at[q], local[q]) /\ local[q] \in Local
      BY DEF TenancyInv, Holding
    <2>2. local[q].entity # Nothing => Faithful(local[q].org, local[q].entity)'
      BY <2>1 DEF Holding, Local, Faithful
    <2>3. at'[q] = at[q] /\ local'[q] = local[q]
      BY <1>1
    <2> QED
      BY <2>1, <2>2, <2>3 DEF Holding, Inserts
  <1>5. Holding(at[r], local[r])'
    <2>1. CASE l.op = "idle"
      BY <1>1, <2>1, NoLocalFields, NoLocalHeld DEF Holding, Inserts, Stations
    <2>2. CASE l.op # "idle"
      <3>1. l.entity # Nothing => Faithful(l.org, l.entity)'
        BY <2>2 DEF Holding, Local, Faithful
      <3> QED
        BY <1>1, <2>2, <3>1 DEF Holding, Inserts
    <2> QED
      BY <2>1, <2>2
  <1>6. Unshared'
    <2> SUFFICES ASSUME NEW p \in Clients, NEW q \in Clients, p # q
                 PROVE  /\ Inserts(at'[p], local'[p]) /\ Inserts(at'[q], local'[q])
                              => local'[p].org # local'[q].org
                        /\ local'[p].user # Nothing => local'[p].user # local'[q].user
      BY DEF Unshared, Inserts
    <2>1. CASE p # r /\ q # r
      BY <2>1, <1>1 DEF TenancyInv, Unshared
    <2>2. CASE p = r \/ q = r
      BY <2>2, <1>1
    <2> QED
      BY <2>1, <2>2
  <1>7. \A q \in Clients : Holding(at[q], local[q])'
    BY <1>4, <1>5
  <1> QED
    BY <1>2, <1>3, <1>6, <1>7 DEF TenancyInv

\* What the requests that are about to insert know: nobody else inserts it.
LEMMA NothingYet ==
  ASSUME TenancyInv, NEW r \in Clients
  PROVE  /\ Inserts(at[r], local[r]) => org[local[r].org] = Nothing
         /\ local[r].user # Nothing => user[local[r].user] = Nothing
         /\ \A q \in Clients \ {r} :
               /\ Inserts(at[q], local[q]) => org[local[q].org] = Nothing
               /\ local[q].user # Nothing => user[local[q].user] = Nothing
               /\ Inserts(at[q], local[q]) /\ Inserts(at[r], local[r])
                     => local[q].org # local[r].org
               /\ local[r].user # Nothing => local[q].user # local[r].user
  BY DEF TenancyInv, Holding, Unshared

LEMMA InsertUserKeeps ==
  ASSUME TenancyInv, NEW r \in Clients, InsertUser(r)
  PROVE  TenancyInv'
  <1> DEFINE u == local[r].user
             x == [login |-> local[r].login, org |-> local[r].org]
  <1>s. TenancyShape /\ OwnersBelong
    BY DEF TenancyInv
  <1>1. /\ at[r] = "insertUser" /\ user' = [user EXCEPT ![u] = x]
        /\ at' = [at EXCEPT ![r] = "idle"] /\ local' = [local EXCEPT ![r] = NoLocal]
        /\ UNCHANGED <<org, registered, list, entity, deaths>>
    BY DEF InsertUser, End, Advance, cache
  <1>2. Holding(at[r], local[r]) /\ local[r].op = "createUser" /\ local[r] \in Local
    BY <1>1, StationOp
  <1>3. u \in UserIds /\ u # Nothing /\ user[u] = Nothing /\ x \in UserRow
    BY <1>2, NothingIsNoRow DEF Holding, UserRow
  <1> HIDE DEF x
  <1>4. user'[u] = x /\ x # Nothing /\ \A v \in UserIds \ {u} : user'[v] = user[v]
    BY <1>s, <1>1, <1>3, NothingIsNoRow DEF TenancyShape
  <1>5. user' \in [UserIds -> UserRow \cup {Nothing}]
    BY <1>s, <1>1, <1>3 DEF TenancyShape
  <1>6. OwnersBelong'
    <2> SUFFICES ASSUME NEW o \in registered
                 PROVE  /\ org[o] # Nothing /\ org[o].owner # Nothing
                        /\ user'[org[o].owner] # Nothing /\ user'[org[o].owner].org = o
      BY <1>1 DEF OwnersBelong
    <2>1. o \in OrgIds /\ org[o] # Nothing /\ org[o].owner # Nothing
          /\ user[org[o].owner] # Nothing /\ user[org[o].owner].org = o
      BY <1>s DEF OwnersBelong, TenancyShape
    <2>2. org[o].owner \in UserIds
      BY <2>1, <1>s DEF TenancyShape, OrgRow
    <2> QED
      BY <2>1, <2>2, <1>3, <1>4
  <1>7. \A o \in OrgIds, c \in Copy : Faithful(o, c) => Faithful(o, c)'
    BY <1>1, <1>3, <1>4 DEF Faithful, Copy
  <1>8. \A q \in Clients \ {r} : Inserts(at[q], local[q]) => org'[local[q].org] = Nothing
    BY <1>1, NothingYet
  <1>9. \A q \in Clients \ {r} : local[q].user # Nothing => user'[local[q].user] = Nothing
    <2> SUFFICES ASSUME NEW q \in Clients \ {r}, local[q].user # Nothing
                 PROVE  user'[local[q].user] = Nothing
      OBVIOUS
    <2>1. local[q].user \in UserIds
      BY DEF TenancyInv, Holding, Local
    <2> QED
      BY <2>1, <1>3, <1>4, NothingYet
  <1>10. "idle" \in Awaits /\ ~Inserts("idle", NoLocal)
    BY NoLocalFields DEF Awaits, Inserts
  <1>11. registered' \subseteq OrgIds /\ org' \in [OrgIds -> OrgRow \cup {Nothing}]
    BY <1>s, <1>1 DEF TenancyShape
  <1> QED
    BY <1>1, <1>5, <1>6, <1>7, <1>8, <1>9, <1>10, <1>11, NoLocalHeld, NoLocalFields, TablesKeep

\* The organization, its owner and the link between them become visible at once.
LEMMA CommitKeeps ==
  ASSUME TenancyInv, NEW r \in Clients, Commit(r)
  PROVE  TenancyInv'
  <1> DEFINE u == local[r].user
             o == local[r].org
             x == [login |-> local[r].login, org |-> o]
             y == OrganizationOf(r, u)
  <1>s. TenancyShape /\ OwnersBelong
    BY DEF TenancyInv
  <1>1. /\ at[r] = "commit"
        /\ org' = [org EXCEPT ![o] = y] /\ user' = [user EXCEPT ![u] = x]
        /\ registered' = registered \cup {o}
        /\ at' = [at EXCEPT ![r] = "idle"] /\ local' = [local EXCEPT ![r] = NoLocal]
        /\ UNCHANGED <<list, entity, deaths>>
    BY DEF Commit, End, Advance, cache
  <1>2. Holding(at[r], local[r]) /\ local[r].op = "register" /\ local[r] \in Local
    BY <1>1, StationOp
  <1>3. /\ u \in UserIds /\ u # Nothing /\ user[u] = Nothing /\ x \in UserRow /\ x.org = o
        /\ o \in OrgIds /\ org[o] = Nothing /\ Inserts(at[r], local[r])
        /\ y \in OrgRow /\ y.owner = u
    BY <1>2, NothingIsNoRow DEF Holding, UserRow, OrgRow, Inserts, OrganizationOf
  <1> HIDE DEF x, y
  <1>4. /\ user'[u] = x /\ x # Nothing /\ \A v \in UserIds \ {u} : user'[v] = user[v]
        /\ org'[o] = y /\ y # Nothing /\ \A p \in OrgIds \ {o} : org'[p] = org[p]
    BY <1>s, <1>1, <1>3, NothingIsNoRow DEF TenancyShape
  <1>5. /\ user' \in [UserIds -> UserRow \cup {Nothing}]
        /\ org' \in [OrgIds -> OrgRow \cup {Nothing}]
        /\ registered' \subseteq OrgIds
    BY <1>s, <1>1, <1>3 DEF TenancyShape
  <1>6. \A p \in registered :
          /\ p \in OrgIds /\ p # o /\ org'[p] = org[p] /\ org[p].owner \in UserIds \ {u}
          /\ user'[org[p].owner] = user[org[p].owner]
    BY <1>s, <1>3, <1>4 DEF OwnersBelong, TenancyShape, OrgRow
  <1>7. OwnersBelong'
    BY <1>s, <1>1, <1>3, <1>4, <1>6 DEF OwnersBelong
  <1>8. ASSUME NEW p \in OrgIds, NEW c \in Copy, Faithful(p, c) PROVE Faithful(p, c)'
    <2>1. p # o /\ org'[p] # Nothing
      BY <1>3, <1>4, <1>8 DEF Faithful
    <2>2. u \notin c.members /\ \A v \in c.members : user'[v] # Nothing
      BY <1>3, <1>4, <1>8 DEF Faithful, Copy
    <2>3. \A z \in registered' : org'[z].owner \in c.members <=> z = p
      BY <1>1, <1>3, <1>4, <1>6, <1>8, <2>1, <2>2 DEF Faithful
    <2> QED
      BY <2>1, <2>2, <2>3 DEF Faithful
  <1>9. ASSUME NEW q \in Clients \ {r}
        PROVE  /\ Inserts(at[q], local[q]) => org'[local[q].org] = Nothing
               /\ local[q].user # Nothing => user'[local[q].user] = Nothing
    <2>1. /\ Inserts(at[q], local[q]) => local[q].org \in OrgIds
          /\ local[q].user # Nothing => local[q].user \in UserIds
      BY DEF TenancyInv, Holding, Local, Inserts
    <2> QED
      BY <2>1, <1>3, <1>4, NothingYet
  <1>10. "idle" \in Awaits /\ ~Inserts("idle", NoLocal)
    BY NoLocalFields DEF Awaits, Inserts
  <1> QED
    <2>1. \A p \in OrgIds, c \in Copy : Faithful(p, c) => Faithful(p, c)'
      BY <1>8
    <2>2. \A q \in Clients \ {r} : Inserts(at[q], local[q]) => org'[local[q].org] = Nothing
      BY <1>9
    <2>3. \A q \in Clients \ {r} : local[q].user # Nothing => user'[local[q].user] = Nothing
      BY <1>9
    <2> QED
      BY <1>1, <1>5, <1>7, <2>1, <2>2, <2>3, <1>10, NoLocalHeld, NoLocalFields, TablesKeep

LEMMA SaveNewKeeps ==
  ASSUME TenancyInv, NEW r \in Clients, SaveNew(r)
  PROVE  TenancyInv'
  <1> DEFINE o == local[r].org
             y == OrganizationOf(r, Nothing)
  <1>s. TenancyShape /\ OwnersBelong
    BY DEF TenancyInv
  <1>1. /\ at[r] = "save" /\ local[r].op = "create"
        /\ org' = [org EXCEPT ![o] = y]
        /\ at' = [at EXCEPT ![r] = "clearList"] /\ local' = local
        /\ UNCHANGED <<user, registered, list, entity, deaths>>
    BY DEF SaveNew, Continue, Advance, cache
  <1>2. Holding(at[r], local[r]) /\ local[r] \in Local
    BY <1>1, StationOp
  <1>3. /\ o \in OrgIds /\ org[o] = Nothing /\ Inserts(at[r], local[r])
        /\ y \in OrgRow /\ local[r].user = Nothing /\ ~Inserts("clearList", local[r])
    BY <1>1, <1>2, NothingIsNoRow DEF Holding, OrgRow, Inserts, OrganizationOf
  <1> HIDE DEF y
  <1>4. org'[o] = y /\ y # Nothing /\ \A p \in OrgIds \ {o} : org'[p] = org[p]
    BY <1>s, <1>1, <1>3, NothingIsNoRow DEF TenancyShape
  <1>5. /\ org' \in [OrgIds -> OrgRow \cup {Nothing}] /\ registered' \subseteq OrgIds
        /\ user' \in [UserIds -> UserRow \cup {Nothing}]
    BY <1>s, <1>1, <1>3 DEF TenancyShape
  <1>6. \A p \in registered : p \in OrgIds /\ p # o /\ org'[p] = org[p]
    BY <1>s, <1>3, <1>4 DEF OwnersBelong, TenancyShape
  <1>7. OwnersBelong'
    BY <1>s, <1>1, <1>6 DEF OwnersBelong
  <1>8. \A p \in OrgIds, c \in Copy : Faithful(p, c) => Faithful(p, c)'
    BY <1>1, <1>3, <1>4, <1>6 DEF Faithful
  <1>9. \A q \in Clients \ {r} : Inserts(at[q], local[q]) => org'[local[q].org] = Nothing
    <2> SUFFICES ASSUME NEW q \in Clients \ {r}, Inserts(at[q], local[q])
                 PROVE  org'[local[q].org] = Nothing
      OBVIOUS
    <2>1. local[q].org \in OrgIds
      BY DEF TenancyInv, Holding, Inserts
    <2> QED
      BY <2>1, <1>3, <1>4, NothingYet
  <1>10. \A q \in Clients \ {r} : local[q].user # Nothing => user'[local[q].user] = Nothing
    BY <1>1, NothingYet
  <1>11. "clearList" \in Awaits /\ "clearList" \in Stations[local[r].op]
    BY <1>1 DEF Awaits, Stations
  <1>12. local' = [local EXCEPT ![r] = local[r]]
    BY <1>s, <1>1 DEF TenancyShape
  <1> QED
    BY <1>1, <1>2, <1>3, <1>5, <1>7, <1>8, <1>9, <1>10, <1>11, <1>12, TablesKeep

\* The save of a faithful copy leaves every owner where he is: that of this
\* organization is in the array, those of the others are not.
LEMMA SaveEntityKeeps ==
  ASSUME TenancyInv, NEW r \in Clients, SaveEntity(r)
  PROVE  TenancyInv'
  <1> DEFINE l == local[r]
             o == l.org
             members == l.entity.members
             email == SavedEmail(l)
             deleted == IF l.op = "remove" THEN TRUE ELSE l.entity.deleted
  <1>s. TenancyShape /\ OwnersBelong
    BY DEF TenancyInv
  <1>1. /\ at[r] = "save" /\ l.op \in {"update", "remove"}
        /\ org' = [org EXCEPT ![o].email = email, ![o].deleted = deleted]
        /\ Regroup(o, members)
        /\ at' = [at EXCEPT ![r] = "clearEntity"] /\ local' = local
        /\ UNCHANGED <<registered, list, entity, deaths>>
    BY DEF SaveEntity, Continue, Advance, cache
  <1>2. Holding(at[r], l) /\ l \in Local
    BY <1>1, StationOp
  <1>3. /\ l.entity # Nothing /\ l.entity \in Copy /\ Faithful(o, l.entity)
        /\ l.user = Nothing /\ ~Inserts("clearEntity", l)
    BY <1>1, <1>2, NothingIsNoRow DEF Holding, Local, Inserts
  <1>4. /\ o \in OrgIds /\ org[o] # Nothing /\ org[o] \in OrgRow /\ members \subseteq UserIds
    BY <1>s, <1>3 DEF Faithful, TenancyShape, Copy
  <1>5. email \in Emails /\ deleted \in BOOLEAN
    BY <1>2, <1>3 DEF SavedEmail, Local, Copy
  <1> HIDE DEF email, deleted
  <1>6. /\ org'[o] \in OrgRow /\ org'[o].owner = org[o].owner
        /\ \A p \in OrgIds \ {o} : org'[p] = org[p]
        /\ org' \in [OrgIds -> OrgRow \cup {Nothing}]
    BY <1>s, <1>1, <1>4, <1>5 DEF TenancyShape, OrgRow
  <1>7a. ASSUME NEW p \in OrgIds, org[p] # Nothing PROVE org'[p] # Nothing
    BY <1>4, <1>6, <1>7a, NothingIsNoRow
  <1>7b. ASSUME NEW p \in OrgIds, org[p] # Nothing PROVE org'[p].owner = org[p].owner
    BY <1>4, <1>6, <1>7b
  <1>7c. ASSUME NEW p \in OrgIds, org[p] = Nothing PROVE org'[p] = Nothing
    BY <1>4, <1>6, <1>7c
  <1>8. \A u \in UserIds :
          /\ user[u] = Nothing => user'[u] = Nothing
          /\ user[u] # Nothing => user'[u] \in UserRow
          /\ user[u] # Nothing /\ u \in members => user'[u].org = o
          /\ user[u] # Nothing /\ u \notin members /\ user[u].org # o => user'[u] = user[u]
    BY <1>s, <1>1, <1>4 DEF Regroup, TenancyShape, UserRow
  <1>9. user' \in [UserIds -> UserRow \cup {Nothing}]
    <2>1. DOMAIN user' = UserIds /\ user' = [u \in UserIds |-> user'[u]]
      BY <1>1 DEF Regroup
    <2> QED
      BY <2>1, <1>8
  <1>10. OwnersBelong'
    <2> SUFFICES ASSUME NEW p \in registered
                 PROVE  /\ org'[p] # Nothing /\ org'[p].owner # Nothing
                        /\ user'[org'[p].owner] # Nothing /\ user'[org'[p].owner].org = p
      BY <1>1 DEF OwnersBelong
    <2>1. p \in OrgIds /\ org[p] # Nothing /\ org[p].owner # Nothing
          /\ user[org[p].owner] # Nothing /\ user[org[p].owner].org = p
      BY <1>s DEF OwnersBelong, TenancyShape
    <2>2. org[p].owner \in UserIds
      BY <2>1, <1>s DEF TenancyShape, OrgRow
    <2>3. org[p].owner \in members <=> p = o
      BY <1>3 DEF Faithful
    <2>4. org'[p] # Nothing /\ org'[p].owner = org[p].owner
      BY <2>1, <1>7a, <1>7b
    <2>5. user'[org[p].owner] \in UserRow /\ user'[org[p].owner] # Nothing
      BY <2>1, <2>2, <1>8, NothingIsNoRow
    <2>6. CASE p = o
      BY <2>1, <2>2, <2>3, <2>4, <2>5, <2>6, <1>8
    <2>7. CASE p # o
      BY <2>1, <2>2, <2>3, <2>4, <2>5, <2>7, <1>8
    <2> QED
      BY <2>6, <2>7
  <1>11. \A u \in UserIds : user[u] # Nothing => user'[u] # Nothing
    BY <1>8, NothingIsNoRow
  <1>12. ASSUME NEW p \in OrgIds, NEW c \in Copy, Faithful(p, c) PROVE Faithful(p, c)'
    <2>1. c.members \subseteq UserIds
      BY DEF Copy
    <2>2. \A z \in registered : z \in OrgIds /\ org[z] # Nothing
      BY <1>s DEF OwnersBelong, TenancyShape
    <2> QED
      BY <1>1, <1>7a, <1>7b, <1>11, <1>12, <2>1, <2>2 DEF Faithful
  <1>13. ASSUME NEW q \in Clients \ {r}
         PROVE  /\ Inserts(at[q], local[q]) => org'[local[q].org] = Nothing
                /\ local[q].user # Nothing => user'[local[q].user] = Nothing
    <2>1. /\ Inserts(at[q], local[q]) => local[q].org \in OrgIds
          /\ local[q].user # Nothing => local[q].user \in UserIds
      BY DEF TenancyInv, Holding, Local, Inserts
    <2> QED
      BY <2>1, <1>7c, <1>8, NothingYet
  <1>14. "clearEntity" \in Awaits /\ "clearEntity" \in Stations[l.op]
    BY <1>1 DEF Awaits, Stations
  <1>15. local' = [local EXCEPT ![r] = local[r]] /\ registered' \subseteq OrgIds
    BY <1>s, <1>1 DEF TenancyShape
  <1> QED
    <2>1. \A p \in OrgIds, c \in Copy : Faithful(p, c) => Faithful(p, c)'
      BY <1>12
    <2>2. \A q \in Clients \ {r} : Inserts(at[q], local[q]) => org'[local[q].org] = Nothing
      BY <1>13
    <2>3. \A q \in Clients \ {r} : local[q].user # Nothing => user'[local[q].user] = Nothing
      BY <1>13
    <2> QED
      BY <1>1, <1>2, <1>3, <1>6, <1>9, <1>10, <1>14, <1>15, <2>1, <2>2, <2>3, TablesKeep

-----------------------------------------------------------------------------
LEMMA TenancyStep == TenancyInv /\ [NextTenancy]_tenancyVars => TenancyInv'
  <1> SUFFICES ASSUME TenancyInv, [NextTenancy]_tenancyVars PROVE TenancyInv'
    OBVIOUS
  <1>1. ASSUME NEW r \in Clients, Register(r) PROVE TenancyInv'
    BY <1>1, BeginRegisterKeeps, RegisterKeeps, CommitKeeps DEF Register
  <1>2. ASSUME NEW r \in Clients, CreateUser(r) PROVE TenancyInv'
    BY <1>2, BeginCreateUserKeeps, InsertUserKeeps DEF CreateUser
  <1>3. ASSUME NEW r \in Clients, Organize(r) PROVE TenancyInv'
    <2>1. ASSUME NEW o \in OrgIds, NEW op \in {"findOne", "remove"}, Lookup(r, op, o, Nothing)
          PROVE  TenancyInv'
      BY <2>1, LookupKeeps
    <2>2. ASSUME NEW o \in OrgIds, NEW email \in Emails \cup {Nothing}, Lookup(r, "update", o, email)
          PROVE  TenancyInv'
      BY <2>2, LookupKeeps
    <2> QED
      BY <1>3, <2>1, <2>2, BeginCreateKeeps, LoadKeeps, FillKeeps, SaveNewKeeps, SaveEntityKeeps,
         OtherStepsKeep DEF Organize
  <1>4. CASE UNCHANGED tenancyVars
    BY <1>4 DEF tenancyVars, tables, cache, TenancyInv, TenancyShape, OwnersBelong, Unshared,
                Holding, Faithful, Inserts
  <1> QED
    BY <1>1, <1>2, <1>3, <1>4, ExpireKeeps, OtherStepsKeep DEF NextTenancy

\* overlapped is a truth value.
LEMMA OverlappedType ==
  (overlapped \in BOOLEAN) /\ [NextTenancy]_tenancyVars => (overlapped \in BOOLEAN)'
  <1> SUFFICES ASSUME overlapped \in BOOLEAN, [NextTenancy]_tenancyVars
               PROVE  overlapped' \in BOOLEAN
    OBVIOUS
  <1>1. ASSUME NEW r, NEW label, Advance(r, label) PROVE overlapped' \in BOOLEAN
    BY <1>1, Zenon DEF Advance
  <1>2. ASSUME NEW r, NEW label, NEW l, Start(r, label, l) PROVE overlapped' \in BOOLEAN
    BY <1>1, <1>2, Zenon DEF Start
  <1>3. ASSUME NEW r, NEW label, Continue(r, label) PROVE overlapped' \in BOOLEAN
    BY <1>1, <1>3, Zenon DEF Continue
  <1>4. ASSUME NEW r, End(r) PROVE overlapped' \in BOOLEAN
    BY <1>1, <1>4, Zenon DEF End
  <1>5. ASSUME NEW r, NEW l, Proceed(r, l) PROVE overlapped' \in BOOLEAN
    BY <1>1, <1>4, <1>5, Zenon DEF Proceed
  <1>6. ASSUME NEW r, Register(r) PROVE overlapped' \in BOOLEAN
    BY <1>2, <1>3, <1>4, <1>6, Zenon DEF Register, BeginRegister, CheckOrgEmail,
       InsertOrganization, InsertOwner, Commit
  <1>7. ASSUME NEW r, CreateUser(r) PROVE overlapped' \in BOOLEAN
    BY <1>2, <1>4, <1>7, Zenon DEF CreateUser, BeginCreateUser, InsertUser
  <1>8. ASSUME NEW r, NEW op, NEW o, NEW email, Lookup(r, op, o, email)
        PROVE  overlapped' \in BOOLEAN
    BY <1>1, <1>5, <1>8, Zenon DEF Lookup
  <1>9. ASSUME NEW r, Load(r) \/ Fill(r) \/ EnsureUnique(r) \/ SaveNew(r) \/ SaveEntity(r)
                      \/ ClearEntity(r) \/ LoadList(r)
        PROVE  overlapped' \in BOOLEAN
    BY <1>1, <1>3, <1>5, <1>9, Zenon DEF Load, Fill, EnsureUnique, SaveNew, SaveEntity,
       ClearEntity, LoadList
  <1>10. ASSUME NEW r, ClearList(r) \/ BeginFindAll(r) \/ FillList(r) \/ Refuse(r) \/ Dies(r)
         PROVE  overlapped' \in BOOLEAN
    BY <1>2, <1>3, <1>4, <1>10, Zenon DEF ClearList, BeginFindAll, FillList, Refuse, Dies
  <1>11. ASSUME NEW r, Organize(r) PROVE overlapped' \in BOOLEAN
    BY <1>2, <1>8, <1>9, <1>10, <1>11, Zenon DEF Organize, BeginCreate
  <1>12. CASE UNCHANGED overlapped
    BY <1>12, Zenon
  <1> QED
    BY <1>6, <1>7, <1>10, <1>11, <1>12, Zenon DEF NextTenancy, tenancyVars, Expire

LEMMA TenancyAlways == SpecTenancy => []TenancyInv
  BY TenancyInit, TenancyStep, PTL DEF SpecTenancy

\* Rows, e-mails, the cached list and the handlers of registerOrganization,
\* createUser and the organization service keep their types, however many overlap.
THEOREM TenancyTypeCorrect == SpecTenancy => []TenancyOK
  <1>1. InitTenancy => overlapped \in BOOLEAN
    BY Zenon DEF InitTenancy
  <1>2. TenancyInv /\ overlapped \in BOOLEAN => TenancyOK
    BY DEF TenancyInv, TenancyShape, TenancyOK
  <1> QED
    BY TenancyAlways, OverlappedType, <1>1, <1>2, PTL DEF SpecTenancy

\* For any number of registrations, users and overlapping saves, with handlers that
\* die anywhere: an organization that registerOrganization committed has an owner
\* who is a user of it.  The transaction commits both rows or none, and no later
\* save of either row, from whatever copy, changes owner or organization.
THEOREM OwnersStay == SpecTenancy => []OwnersBelong
  <1>1. TenancyInv => OwnersBelong
    BY DEF TenancyInv
  <1> QED
    BY TenancyAlways, <1>1, PTL

-----------------------------------------------------------------------------
\* One request at a time, and the caches tell what it needs: a list has the
\* organizations that were registered, a copy knows whether its row is deleted.
Shows(l) == {o \in registered : Live(o)} \subseteq l.items
ListShows == list # Nothing => Shows(list)
AgreeBut(x) == \A o \in OrgIds : entity[o] # Nothing /\ o # x => entity[o].deleted = org[o].deleted

\* What a request finds at await a when it is the only one: before a Commit there is
\* no list, and only between a save and clearEntity may one copy be behind its row.
Told(a, l) ==
    /\ AgreeBut(IF a = "clearEntity" THEN l.org ELSE Nothing)
    /\ a = "commit" => list = Nothing
    /\ a = "fillList" => Shows(l.list)
    /\ a \in {"fill", "ensureUnique", "save"} /\ l.op # "create" => l.entity.deleted = org[l.org].deleted

OthersIdle(r) == \A q \in Clients \ {r} : at[q] = "idle"
QuietInv ==
    ~overlapped /\ deaths = 0 =>
        /\ \A r, q \in Clients : at[r] # "idle" /\ at[q] # "idle" => r = q
        /\ ListShows
        /\ \A r \in Clients : OthersIdle(r) => Told(at[r], local[r])

Finds(r) == ~overlapped /\ deaths = 0 /\ OthersIdle(r) /\ ListShows /\ Told(at[r], local[r])

LEMMA StepsAlone ==
  ASSUME NEW r \in Clients, NEW a, Advance(r, a), ~overlapped'
  PROVE  ~overlapped /\ (a = "idle" \/ OthersIdle(r))
  BY Zenon DEF Advance, Overlaps, OthersIdle

\* The step of a request, judged by what it leaves at its next await.
LEMMA QuietGoes ==
  ASSUME TenancyInv, QuietInv, NEW r \in Clients, NEW a, NEW l,
         Advance(r, a), local' = [local EXCEPT ![r] = l],
         at[r] # "idle" \/ a # "idle", deaths' = deaths,
         Finds(r) => ListShows' /\ Told(a, l)'
  PROVE  QuietInv'
  <1> SUFFICES ASSUME ~overlapped', deaths' = 0
               PROVE  /\ (\A p, q \in Clients : at[p] # "idle" /\ at[q] # "idle" => p = q)'
                      /\ ListShows'
                      /\ \A p \in Clients : OthersIdle(p)' => Told(at[p], local[p])'
    BY DEF QuietInv
  <1>1. ~overlapped /\ (a = "idle" \/ OthersIdle(r))
    BY StepsAlone
  <1>2. OthersIdle(r)
    BY <1>1 DEF QuietInv, OthersIdle
  <1>3. Finds(r)
    BY <1>1, <1>2 DEF QuietInv, Finds
  <1>4. ListShows' /\ Told(a, l)'
    BY <1>3
  <1>5. /\ \A p \in Clients \ {r} : at'[p] = "idle"
        /\ at'[r] = a /\ local'[r] = l
    BY <1>2 DEF Advance, OthersIdle, TenancyInv, TenancyShape
  <1>6. (\A p, q \in Clients : at[p] # "idle" /\ at[q] # "idle" => p = q)'
    BY <1>5
  <1>7. ASSUME NEW p \in Clients, OthersIdle(p)' PROVE Told(at[p], local[p])'
    <2>1. CASE p = r
      BY <1>4, <1>5, <2>1 DEF Told, Shows, AgreeBut, Live
    <2>2. CASE p # r
      <3>1. a = "idle" /\ at'[p] = "idle"
        BY <1>5, <1>7, <2>2 DEF OthersIdle
      <3> QED
        BY <1>4, <3>1 DEF Told, AgreeBut
    <2> QED
      BY <2>1, <2>2
  <1> QED
    BY <1>4, <1>6, <1>7

\* As long as organizations and caches stay, so does what is true of them.
LEMMA ToldStays ==
  ASSUME UNCHANGED <<org, registered, list, entity>>
  PROVE  /\ ListShows' <=> ListShows
         /\ \A a, l : Told(a, l)' <=> Told(a, l)
  <1>1. \A o : Live(o)' <=> Live(o)
    BY DEF Live
  <1>2. \A l : Shows(l)' <=> Shows(l)
    BY <1>1 DEF Shows
  <1>3. \A x : AgreeBut(x)' <=> AgreeBut(x)
    BY DEF AgreeBut
  <1>4. ListShows' <=> ListShows
    BY <1>2 DEF ListShows
  <1>5. ASSUME NEW a, NEW l PROVE Told(a, l)' <=> Told(a, l)
    BY <1>2, <1>3 DEF Told
  <1> QED
    BY <1>4, <1>5

\* A request that changes no organization and no cache.
LEMMA QuietTurn ==
  ASSUME TenancyInv, QuietInv, NEW r \in Clients, NEW a, NEW l,
         Advance(r, a), local' = [local EXCEPT ![r] = l],
         at[r] # "idle" \/ a # "idle",
         UNCHANGED <<org, registered, list, entity, deaths>>,
         Finds(r) => Told(a, l)
  PROVE  QuietInv'
  <1>1. Finds(r) => ListShows' /\ Told(a, l)'
    BY ToldStays DEF Finds
  <1> QED
    BY <1>1, QuietGoes

\* A step that changes nothing of this.
LEMMA QuietStutter ==
  ASSUME QuietInv, UNCHANGED <<org, registered, list, entity, deaths, at, local>>,
         overlapped' <=> overlapped
  PROVE  QuietInv'
  <1>1. (ListShows' <=> ListShows) /\ \A r : Told(at[r], local[r])' <=> Told(at[r], local[r])
    BY ToldStays
  <1>2. \A r : OthersIdle(r)' <=> OthersIdle(r)
    BY DEF OthersIdle
  <1> QED
    BY <1>1, <1>2 DEF QuietInv

\* An await at which a request finds nothing that it relies on.
Plain == {"idle", "checkOrgEmail", "insertOrganization", "insertOwner", "clearList", "insertUser",
          "load", "loadList"}

LEMMA PlainIsTold ==
  ASSUME NEW a, NEW l, a \in Plain, AgreeBut(Nothing) PROVE Told(a, l)
  BY DEF Told, Plain

LEMMA FindsAgree ==
  ASSUME NEW r \in Clients, Finds(r), at[r] # "clearEntity" PROVE AgreeBut(Nothing)
  BY DEF Finds, Told

LEMMA QuietPlain ==
  ASSUME TenancyInv, QuietInv, NEW r \in Clients, NEW a \in Plain, NEW l,
         Advance(r, a), local' = [local EXCEPT ![r] = l],
         at[r] # "idle" \/ a # "idle", at[r] # "clearEntity",
         UNCHANGED <<org, registered, list, entity, deaths>>
  PROVE  QuietInv'
  <1>1. Finds(r) => Told(a, l)
    BY FindsAgree, PlainIsTold
  <1> QED
    BY <1>1, QuietTurn

\* A request that goes on with the data it has.
LEMMA SameData ==
  ASSUME TenancyInv, NEW r \in Clients, UNCHANGED local
  PROVE  local' = [local EXCEPT ![r] = local[r]]
  BY DEF TenancyInv, TenancyShape

LEMMA QuietRegister ==
  ASSUME TenancyInv, QuietInv, NEW r \in Clients,
         CheckOrgEmail(r) \/ InsertOrganization(r) \/ InsertOwner(r)
  PROVE  QuietInv'
  <1>1. /\ at[r] \in {"checkOrgEmail", "insertOrganization", "insertOwner"}
        /\ \E a \in {"insertOrganization", "insertOwner", "clearList"} : Advance(r, a)
        /\ UNCHANGED <<org, registered, list, entity, deaths, local>>
    BY DEF CheckOrgEmail, InsertOrganization, InsertOwner, Continue, tables, cache
  <1>2. PICK a \in {"insertOrganization", "insertOwner", "clearList"} : Advance(r, a)
    BY <1>1
  <1>3. PICK l : l = local[r]
    OBVIOUS
  <1>4. local' = [local EXCEPT ![r] = l]
    BY <1>1, <1>3, SameData
  <1>5. a \in Plain /\ at[r] # "idle" /\ at[r] # "clearEntity"
    BY <1>1 DEF Plain
  <1> QED
    BY <1>1, <1>2, <1>4, <1>5, QuietPlain

LEMMA QuietBegin ==
  ASSUME TenancyInv, QuietInv, NEW r \in Clients,
         \/ \E o \in OrgIds, u \in UserIds, login \in Logins, email \in Emails :
               BeginRegister(r, o, u, login, email)
         \/ \E u \in UserIds, login \in Logins, o \in OrgIds : BeginCreateUser(r, u, login, o)
         \/ BeginFindAll(r)
  PROVE  QuietInv'
  <1>1. \E a \in {"checkOrgEmail", "insertUser", "loadList"} : \E l : Start(r, a, l)
    BY DEF BeginRegister, BeginCreateUser, BeginFindAll
  <1>2. PICK a \in {"checkOrgEmail", "insertUser", "loadList"} : \E l : Start(r, a, l)
    BY <1>1
  <1>3. PICK l : Start(r, a, l)
    BY <1>2
  <1>4. a \in Plain /\ a # "idle"
    BY DEF Plain
  <1>5. at[r] = "idle" /\ Advance(r, a) /\ local' = [local EXCEPT ![r] = l]
        /\ UNCHANGED <<org, registered, list, entity, deaths>>
    BY <1>3 DEF Start, tables, cache
  <1> QED
    BY <1>4, <1>5, QuietPlain

LEMMA QuietBeginCreate ==
  ASSUME TenancyInv, QuietInv, NEW r \in Clients, NEW o \in OrgIds, NEW email \in Emails,
         BeginCreate(r, o, email)
  PROVE  QuietInv'
  <1>1. PICK l : l = [NoLocal EXCEPT !.op = "create", !.org = o, !.email = Lower[email]]
    OBVIOUS
  <1>2. /\ at[r] = "idle" /\ Advance(r, "ensureUnique") /\ local' = [local EXCEPT ![r] = l]
        /\ UNCHANGED <<org, registered, list, entity, deaths>>
    BY <1>1 DEF BeginCreate, Start, tables, cache
  <1>3. l.op = "create"
    BY <1>1 DEF NoLocal
  <1>4. Finds(r) => Told("ensureUnique", l)
    BY <1>2, <1>3, FindsAgree DEF Told
  <1> QED
    BY <1>2, <1>4, QuietTurn

LEMMA QuietRefuse ==
  ASSUME TenancyInv, QuietInv, NEW r \in Clients, Refuse(r)
  PROVE  QuietInv'
  <1>1. /\ at[r] # "idle" /\ at[r] # "clearEntity"
        /\ Advance(r, "idle") /\ local' = [local EXCEPT ![r] = NoLocal]
        /\ UNCHANGED <<org, registered, list, entity, deaths>>
    BY DEF Refuse, End, tables, cache
  <1>2. PICK l : l = NoLocal
    OBVIOUS
  <1>3. local' = [local EXCEPT ![r] = l] /\ "idle" \in Plain
    BY <1>1, <1>2 DEF Plain
  <1> QED
    BY <1>1, <1>3, QuietPlain

\* A death ends the quiet.
LEMMA QuietDies ==
  ASSUME TenancyInv, NEW r \in Clients, Dies(r)
  PROVE  QuietInv'
  <1>1. deaths' = deaths + 1 /\ deaths \in 0 .. MaxDeaths
    BY DEF Dies, TenancyInv, TenancyShape
  <1>2. deaths' # 0
    BY <1>1, TenancyAssumption
  <1> QED
    BY <1>2 DEF QuietInv

\* A request that goes on where its copy is needed too, with the same data.
LEMMA QuietEnsureUnique ==
  ASSUME TenancyInv, QuietInv, NEW r \in Clients, EnsureUnique(r)
  PROVE  QuietInv'
  <1>1. /\ at[r] = "ensureUnique" /\ Advance(r, "save")
        /\ UNCHANGED <<org, registered, list, entity, deaths, local>>
    BY DEF EnsureUnique, Continue, tables, cache
  <1>2. PICK l : l = local[r]
    OBVIOUS
  <1>3. local' = [local EXCEPT ![r] = l]
    BY <1>1, <1>2, SameData
  <1>4. Finds(r) => Told("save", l)
    BY <1>1, <1>2 DEF Finds, Told
  <1> QED
    BY <1>1, <1>3, <1>4, QuietTurn

\* findOne's copy is a copy of the row: it ends, or goes on with that.
LEMMA QuietProceed ==
  ASSUME TenancyInv, QuietInv, NEW r \in Clients, NEW l, Proceed(r, l), l.op # "create",
         l.op = "findOne" => at[r] # "idle",
         UNCHANGED <<org, registered, list, deaths>>,
         Finds(r) => AgreeBut(Nothing)' /\ l.entity.deleted = org[l.org].deleted
  PROVE  QuietInv'
  <1>0. ASSUME NEW a \in {"ensureUnique", "save"}, Finds(r) PROVE ListShows' /\ Told(a, l)'
    <2>1. ListShows'
      BY <1>0 DEF Finds, ListShows, Shows, Live
    <2>2. Told(a, l)'
      BY <1>0 DEF Told
    <2> QED
      BY <2>1, <2>2
  <1>1. CASE l.op = "findOne"
    <2>1. Advance(r, "idle") /\ local' = [local EXCEPT ![r] = NoLocal] /\ at[r] # "idle"
      BY <1>1 DEF Proceed, End
    <2>2. PICK k : k = NoLocal
      OBVIOUS
    <2>3. Finds(r) => ListShows' /\ Told("idle", k)'
      BY <1>0 DEF Told
    <2> QED
      BY <2>1, <2>2, <2>3, QuietGoes
  <1>2. CASE l.op # "findOne"
    <2>1. PICK a \in {"ensureUnique", "save"} :
            Advance(r, a) /\ local' = [local EXCEPT ![r] = l]
      BY <1>2 DEF Proceed
    <2>2. Finds(r) => ListShows' /\ Told(a, l)'
      BY <1>0
    <2> QED
      BY <2>1, <2>2, QuietGoes
  <1> QED
    BY <1>1, <1>2

LEMMA QuietLookup ==
  ASSUME TenancyInv, QuietInv, NEW r \in Clients, NEW op \in {"findOne", "update", "remove"},
         NEW o \in OrgIds, NEW email \in Emails \cup {Nothing}, Lookup(r, op, o, email)
  PROVE  QuietInv'
  <1> DEFINE written == IF email = Nothing THEN Nothing ELSE Lower[email]
  <1>1. PICK l : l = [NoLocal EXCEPT !.op = op, !.org = o, !.email = written]
    OBVIOUS
  <1>2. /\ at[r] = "idle" /\ UNCHANGED <<org, registered, list, entity, deaths>>
        /\ \/ entity[o] = Nothing /\ Advance(r, "load") /\ local' = [local EXCEPT ![r] = l]
           \/ entity[o] # Nothing /\ Proceed(r, [l EXCEPT !.entity = entity[o]])
    BY <1>1 DEF Lookup, tables, cache
  <1> HIDE DEF written
  <1>3. CASE entity[o] = Nothing /\ Advance(r, "load") /\ local' = [local EXCEPT ![r] = l]
    <2>1. "load" \in Plain
      BY DEF Plain
    <2> QED
      BY <1>2, <1>3, <2>1, QuietPlain
  <1>4. CASE entity[o] # Nothing /\ Proceed(r, [l EXCEPT !.entity = entity[o]])
    <2>1. PICK k : k = [l EXCEPT !.entity = entity[o]]
      OBVIOUS
    <2>2. k.op = op /\ k.org = o /\ k.entity = entity[o]
      BY <1>1, <2>1 DEF NoLocal
    <2>3. Finds(r) => AgreeBut(Nothing)
      BY <1>2, FindsAgree
    <2>4. ASSUME Finds(r) PROVE AgreeBut(Nothing)' /\ k.entity.deleted = org[k.org].deleted
      BY <1>2, <1>4, <2>2, <2>3, <2>4, TenancyAssumption DEF AgreeBut
    <2>5. CASE op # "findOne"
      BY <1>2, <1>4, <2>1, <2>2, <2>4, <2>5, QuietProceed
    <2>6. CASE op = "findOne"
      <3>1. Advance(r, "idle") /\ local' = [local EXCEPT ![r] = NoLocal]
        BY <1>4, <2>1, <2>2, <2>6 DEF Proceed, End
      <3>2. local[r] = NoLocal
        BY <1>2, StationOp DEF Holding, Stations, Operations
      <3>3. UNCHANGED <<at, local>>
        BY <1>2, <3>1, <3>2 DEF Advance, TenancyInv, TenancyShape
      <3>4. overlapped' <=> overlapped
        BY <3>1, Zenon DEF Advance
      <3> QED
        BY <1>2, <3>3, <3>4, QuietStutter
    <2> QED
      BY <2>5, <2>6
  <1> QED
    BY <1>2, <1>3, <1>4

LEMMA QuietLoad ==
  ASSUME TenancyInv, QuietInv, NEW r \in Clients, Load(r)
  PROVE  QuietInv'
  <1>1. PICK l : l = [local[r] EXCEPT !.entity = CopyOf(local[r].org)]
    OBVIOUS
  <1>2. /\ at[r] = "load" /\ Advance(r, "fill") /\ local' = [local EXCEPT ![r] = l]
        /\ UNCHANGED <<org, registered, list, entity, deaths>>
    BY <1>1 DEF Load, tables, cache, TenancyInv, TenancyShape
  <1>3. local[r] \in Local
    BY StationOp
  <1>4. l.org = local[r].org /\ l.entity = CopyOf(local[r].org)
    BY <1>1, <1>3 DEF Local
  <1>5. l.entity.deleted = org[l.org].deleted
    BY <1>4 DEF CopyOf
  <1>6. Finds(r) => Told("fill", l)
    BY <1>2, <1>5, FindsAgree DEF Told
  <1> QED
    BY <1>2, <1>6, QuietTurn

LEMMA QuietFill ==
  ASSUME TenancyInv, QuietInv, NEW r \in Clients, Fill(r)
  PROVE  QuietInv'
  <1>1. PICK l : l = local[r]
    OBVIOUS
  <1>2. /\ at[r] = "fill" /\ Proceed(r, l)
        /\ entity' = [entity EXCEPT ![l.org] = l.entity]
        /\ UNCHANGED <<org, registered, list, deaths>>
    BY <1>1 DEF Fill, tables
  <1>3. l.op \in {"findOne", "update", "remove"} /\ l.org \in OrgIds
    BY <1>1, <1>2, StationOp DEF Holding
  <1>4. entity \in [OrgIds -> Copy \cup {Nothing}]
    BY CachesStay
  <1>5. ASSUME Finds(r) PROVE AgreeBut(Nothing)' /\ l.entity.deleted = org[l.org].deleted
    <2>1. AgreeBut(Nothing) /\ l.entity.deleted = org[l.org].deleted
      BY <1>1, <1>2, <1>3, <1>5 DEF Finds, Told
    <2> QED
      BY <1>2, <1>3, <1>4, <2>1 DEF AgreeBut
  <1> QED
    BY <1>2, <1>3, <1>5, QuietProceed

\* A registered organization has a row; a new one is not among them.
LEMMA QuietSaveNew ==
  ASSUME TenancyInv, QuietInv, NEW r \in Clients, SaveNew(r)
  PROVE  QuietInv'
  <1>1. PICK l : l = local[r]
    OBVIOUS
  <1>2. /\ at[r] = "save" /\ l.op = "create"
        /\ org' = [org EXCEPT ![l.org] = OrganizationOf(r, Nothing)]
        /\ Advance(r, "clearList") /\ UNCHANGED <<local, registered, list, entity, deaths>>
    BY <1>1 DEF SaveNew, Continue, cache
  <1>3. local' = [local EXCEPT ![r] = l]
    BY <1>1, <1>2, SameData
  <1>4. Inserts(at[r], l) /\ Holding(at[r], l)
    BY <1>1, <1>2, StationOp DEF Inserts
  <1>5. l.org \in OrgIds /\ org[l.org] = Nothing
    BY <1>2, <1>4 DEF Holding
  <1>6. l.org \notin registered /\ entity[l.org] = Nothing
    BY <1>5 DEF TenancyInv, OwnersBelong, Faithful
  <1>7. \A o \in OrgIds \ {l.org} : org'[o] = org[o]
    BY <1>2 DEF TenancyInv, TenancyShape
  <1>8. ASSUME Finds(r) PROVE ListShows' /\ Told("clearList", l)'
    <2>1. AgreeBut(Nothing) /\ ListShows
      BY <1>2, <1>8, FindsAgree DEF Finds
    <2>2. {o \in registered : Live(o)}' \subseteq {o \in registered : Live(o)}
      BY <1>2, <1>6, <1>7 DEF Live, TenancyInv, TenancyShape
    <2>3. ListShows'
      BY <1>2, <2>1, <2>2 DEF ListShows, Shows
    <2>4. AgreeBut(Nothing)'
      BY <1>2, <1>6, <1>7, <2>1 DEF AgreeBut
    <2> QED
      BY <2>3, <2>4 DEF Told
  <1> QED
    BY <1>2, <1>3, <1>8, QuietGoes

\* What a save writes of whether the row is deleted is at most more than it was.
LEMMA QuietSaveEntity ==
  ASSUME TenancyInv, QuietInv, NEW r \in Clients, SaveEntity(r)
  PROVE  QuietInv'
  <1>1. PICK l : l = local[r]
    OBVIOUS
  <1>2. /\ at[r] = "save" /\ l.op \in {"update", "remove"}
        /\ org' = [org EXCEPT
              ![l.org].email = SavedEmail(l),
              ![l.org].deleted = IF l.op = "remove" THEN TRUE ELSE l.entity.deleted]
        /\ Advance(r, "clearEntity") /\ UNCHANGED <<local, registered, list, entity, deaths>>
    BY <1>1 DEF SaveEntity, Continue, cache
  <1>3. local' = [local EXCEPT ![r] = l]
    BY <1>1, <1>2, SameData
  <1>4. Holding(at[r], l)
    BY <1>1, StationOp
  <1>5. l.org \in OrgIds /\ org[l.org] # Nothing
    BY <1>2, <1>4 DEF Holding, Faithful
  <1>6. org \in [OrgIds -> OrgRow \cup {Nothing}] /\ registered \subseteq OrgIds
    BY DEF TenancyInv, TenancyShape
  <1>7. /\ \A o \in OrgIds \ {l.org} : org'[o] = org[o]
        /\ org'[l.org].deleted = IF l.op = "remove" THEN TRUE ELSE l.entity.deleted
    BY <1>2, <1>5, <1>6 DEF OrgRow
  <1>8. ASSUME Finds(r) PROVE ListShows' /\ Told("clearEntity", l)'
    <2>1. AgreeBut(Nothing) /\ ListShows /\ l.entity.deleted = org[l.org].deleted
      BY <1>1, <1>2, <1>8, FindsAgree DEF Finds, Told
    <2>2. {o \in registered : Live(o)}' \subseteq {o \in registered : Live(o)}
      BY <1>2, <1>5, <1>6, <1>7, <2>1 DEF Live
    <2>3. ListShows'
      BY <1>2, <2>1, <2>2 DEF ListShows, Shows
    <2>4. AgreeBut(l.org)'
      BY <1>2, <1>7, <2>1, TenancyAssumption DEF AgreeBut
    <2> QED
      BY <2>3, <2>4 DEF Told
  <1> QED
    BY <1>2, <1>3, <1>8, QuietGoes

LEMMA QuietClears ==
  ASSUME TenancyInv, QuietInv, NEW r \in Clients, ClearEntity(r) \/ ClearList(r)
  PROVE  QuietInv'
  <1>1. PICK l : l = local[r]
    OBVIOUS
  <1>2. CASE ClearEntity(r)
    <2>1. /\ at[r] = "clearEntity" /\ Advance(r, "clearList")
          /\ entity' = [entity EXCEPT ![l.org] = Nothing]
          /\ UNCHANGED <<local, org, registered, list, deaths>>
      BY <1>1, <1>2 DEF ClearEntity, Continue, tables
    <2>2. local' = [local EXCEPT ![r] = l]
      BY <1>1, <2>1, SameData
    <2>3. ASSUME Finds(r) PROVE ListShows' /\ Told("clearList", l)'
      <3>1. AgreeBut(l.org) /\ ListShows
        BY <1>1, <2>1, <2>3 DEF Finds, Told
      <3>2. AgreeBut(Nothing)'
        BY <2>1, <3>1, CachesStay, TenancyAssumption DEF AgreeBut
      <3> QED
        BY <2>1, <3>1, <3>2 DEF Told, ListShows, Shows, Live
    <2> QED
      BY <2>1, <2>2, <2>3, QuietGoes
  <1>3. CASE ClearList(r)
    <2>1. /\ at[r] = "clearList" /\ list' = Nothing
          /\ UNCHANGED <<org, registered, entity, deaths>>
      BY <1>3 DEF ClearList, DelList, tables
    <2>2. \E a \in {"commit", "idle"} : \E k : Advance(r, a) /\ local' = [local EXCEPT ![r] = k]
      <3>1. CASE Continue(r, "commit")
        BY <3>1, SameData DEF Continue
      <3>2. CASE End(r)
        BY <3>2 DEF End
      <3> QED
        BY <1>3, <3>1, <3>2 DEF ClearList
    <2>3. PICK a \in {"commit", "idle"} : \E k : Advance(r, a) /\ local' = [local EXCEPT ![r] = k]
      BY <2>2
    <2>4. PICK k : Advance(r, a) /\ local' = [local EXCEPT ![r] = k]
      BY <2>3
    <2>5. ASSUME Finds(r) PROVE ListShows' /\ Told(a, k)'
      <3>1. AgreeBut(Nothing)
        BY <2>1, <2>5, FindsAgree
      <3> QED
        BY <2>1, <3>1 DEF Told, AgreeBut, ListShows
    <2> QED
      BY <2>1, <2>4, <2>5, QuietGoes
  <1> QED
    BY <1>2, <1>3

LEMMA QuietInserts ==
  ASSUME TenancyInv, QuietInv, NEW r \in Clients, InsertUser(r)
  PROVE  QuietInv'
  <1>1. PICK l : l = NoLocal
    OBVIOUS
  <1>2. /\ at[r] = "insertUser" /\ Advance(r, "idle") /\ local' = [local EXCEPT ![r] = l]
        /\ UNCHANGED <<org, registered, list, entity, deaths>>
    BY <1>1 DEF InsertUser, End, cache
  <1> QED
    BY <1>2, QuietPlain DEF Plain

\* There is no list when a registration commits.
LEMMA QuietCommit ==
  ASSUME TenancyInv, QuietInv, NEW r \in Clients, Commit(r)
  PROVE  QuietInv'
  <1>1. PICK l : l = NoLocal
    OBVIOUS
  <1>2. /\ at[r] = "commit" /\ Advance(r, "idle") /\ local' = [local EXCEPT ![r] = l]
        /\ org' = [org EXCEPT ![local[r].org] = OrganizationOf(r, local[r].user)]
        /\ UNCHANGED <<list, entity, deaths>>
    BY <1>1 DEF Commit, End, cache
  <1>3. local[r].op = "register"
    BY <1>2, StationOp
  <1>4. local[r].org \in OrgIds /\ org[local[r].org] = Nothing
    BY <1>3, StationOp DEF Holding, Inserts
  <1>5. entity[local[r].org] = Nothing
    BY <1>4 DEF TenancyInv, Faithful
  <1>6. \A o \in OrgIds : o # local[r].org => org'[o] = org[o]
    BY <1>2 DEF TenancyInv, TenancyShape
  <1>7. ASSUME Finds(r) PROVE ListShows' /\ Told("idle", l)'
    <2>1. AgreeBut(Nothing) /\ list = Nothing
      BY <1>2, <1>7 DEF Finds, Told
    <2>2. AgreeBut(Nothing)'
      BY <1>2, <1>5, <1>6, <2>1 DEF AgreeBut
    <2> QED
      BY <1>2, <2>1, <2>2 DEF Told, ListShows
  <1> QED
    BY <1>2, <1>7, QuietGoes

LEMMA QuietLists ==
  ASSUME TenancyInv, QuietInv, NEW r \in Clients, LoadList(r) \/ FillList(r)
  PROVE  QuietInv'
  <1>1. CASE LoadList(r)
    <2>1. PICK l : l = [local[r] EXCEPT !.list = [items |-> {o \in OrgIds : Live(o)}]]
      OBVIOUS
    <2>2. /\ at[r] = "loadList" /\ Advance(r, "fillList") /\ local' = [local EXCEPT ![r] = l]
          /\ UNCHANGED <<org, registered, list, entity, deaths>>
      BY <1>1, <2>1 DEF LoadList, tables, cache, TenancyInv, TenancyShape
    <2>3. local[r] \in Local
      BY StationOp
    <2>4. l.list.items = {o \in OrgIds : Live(o)}
      BY <2>1, <2>3 DEF Local
    <2>5. Shows(l.list)
      BY <2>4 DEF Shows, TenancyInv, TenancyShape
    <2>6. Finds(r) => Told("fillList", l)
      BY <2>2, <2>5, FindsAgree DEF Told
    <2> QED
      BY <2>2, <2>6, QuietTurn
  <1>2. CASE FillList(r)
    <2>1. PICK l : l = NoLocal
      OBVIOUS
    <2>2. /\ at[r] = "fillList" /\ list' = local[r].list
          /\ Advance(r, "idle") /\ local' = [local EXCEPT ![r] = l]
          /\ UNCHANGED <<org, registered, entity, deaths>>
      BY <1>2, <2>1 DEF FillList, End, tables
    <2>3. ASSUME Finds(r) PROVE ListShows' /\ Told("idle", l)'
      <3>1. AgreeBut(Nothing) /\ Shows(local[r].list)
        BY <2>2, <2>3 DEF Finds, Told
      <3>2. AgreeBut(Nothing)' /\ ListShows'
        BY <2>2, <3>1 DEF AgreeBut, ListShows, Shows, Live
      <3> QED
        BY <3>2 DEF Told
    <2> QED
      BY <2>2, <2>3, QuietGoes
  <1> QED
    BY <1>1, <1>2

\* An entry that is gone says nothing.
LEMMA QuietExpire ==
  ASSUME TenancyInv, QuietInv, Expire
  PROVE  QuietInv'
  <1>1. /\ UNCHANGED <<org, registered, at, local, deaths, overlapped>>
        /\ list' \in {list, Nothing}
        /\ \A o \in OrgIds : entity'[o] \in {entity[o], Nothing}
    BY CachesStay DEF Expire, tables
  <1>2. \A l : Shows(l)' <=> Shows(l)
    BY <1>1 DEF Shows, Live
  <1>3. ListShows => ListShows'
    BY <1>1, <1>2 DEF ListShows
  <1>4. \A x : AgreeBut(x) => AgreeBut(x)'
    BY <1>1 DEF AgreeBut
  <1>5. ASSUME NEW a, NEW l, Told(a, l) PROVE Told(a, l)'
    BY <1>1, <1>2, <1>4, <1>5 DEF Told
  <1>6. \A r : (Told(at[r], local[r]) => Told(at[r], local[r])') /\ (OthersIdle(r)' <=> OthersIdle(r))
    BY <1>1, <1>5 DEF OthersIdle
  <1> QED
    BY <1>1, <1>3, <1>6, Zenon DEF QuietInv

LEMMA QuietStep == TenancyInv /\ QuietInv /\ [NextTenancy]_tenancyVars => QuietInv'
  <1> SUFFICES ASSUME TenancyInv, QuietInv, [NextTenancy]_tenancyVars PROVE QuietInv'
    OBVIOUS
  <1>1. CASE Expire
    BY <1>1, QuietExpire
  <1>2. ASSUME NEW r \in Clients, Register(r) PROVE QuietInv'
    BY <1>2, QuietRegister, QuietBegin, QuietCommit DEF Register
  <1>3. ASSUME NEW r \in Clients, CreateUser(r) PROVE QuietInv'
    BY <1>3, QuietBegin, QuietInserts DEF CreateUser
  <1>4. ASSUME NEW r \in Clients, Organize(r) PROVE QuietInv'
    <2>1. CASE \E o \in OrgIds, email \in Emails : BeginCreate(r, o, email)
      BY <2>1, QuietBeginCreate
    <2>2. CASE \E o \in OrgIds :
                 \/ \E op \in {"findOne", "remove"} : Lookup(r, op, o, Nothing)
                 \/ \E email \in Emails \cup {Nothing} : Lookup(r, "update", o, email)
      BY <2>2, QuietLookup
    <2>3. CASE Load(r) \/ Fill(r) \/ EnsureUnique(r) \/ SaveNew(r) \/ SaveEntity(r)
      BY <2>3, QuietLoad, QuietFill, QuietEnsureUnique, QuietSaveNew, QuietSaveEntity
    <2>4. CASE ClearEntity(r) \/ ClearList(r) \/ BeginFindAll(r) \/ LoadList(r) \/ FillList(r)
      BY <2>4, QuietClears, QuietBegin, QuietLists
    <2> QED
      BY <1>4, <2>1, <2>2, <2>3, <2>4 DEF Organize
  <1>5. ASSUME NEW r \in Clients, Refuse(r) \/ Dies(r) PROVE QuietInv'
    BY <1>5, QuietRefuse, QuietDies
  <1>6. CASE UNCHANGED tenancyVars
    BY <1>6, QuietStutter DEF tenancyVars, tables, cache
  <1> QED
    BY <1>1, <1>2, <1>3, <1>4, <1>5, <1>6 DEF NextTenancy

LEMMA QuietInit == InitTenancy => QuietInv
  <1> SUFFICES ASSUME InitTenancy PROVE QuietInv
    OBVIOUS
  <1>1. /\ \A r \in Clients : at[r] = "idle"
        /\ list = Nothing /\ \A o \in OrgIds : entity[o] = Nothing
    BY DEF InitTenancy
  <1>2. \A r \in Clients : Told(at[r], local[r])
    BY <1>1 DEF Told, AgreeBut
  <1> QED
    BY <1>1, <1>2 DEF QuietInv, ListShows

\* A cached list of organizations has every one that was registered: clearing the
\* list before the COMMIT of a registration loses nothing as long as requests
\* follow one another and no handler dies.
THEOREM RegisteredAreListed == SpecTenancy => []NewOrgShowsUp
  <1>1. QuietInv => NewOrgShowsUp
    BY DEF QuietInv, ListShows, Shows, NewOrgShowsUp
  <1> QED
    BY <1>1, TenancyAlways, QuietInit, QuietStep, PTL DEF SpecTenancy

-----------------------------------------------------------------------------
(* Attachments                                                             *)

-----------------------------------------------------------------------------
(* Attachments                                                             *)

\* The types but that of joined, a truth value.
EntriesShape ==
    /\ entry \in [Entries -> EntryRow \cup {Null}]
    /\ DOMAIN place = Targets /\ \A t \in Targets : place[t] \in Places(t)
    /\ gone \subseteq Targets
    /\ step \in [Callers -> {"idle", "resolve", "save"}]
    /\ plan \in [Callers -> Plan \cup {Null}]
    /\ moves \in 0 .. MaxMoves
    /\ DOMAIN placesHeld = Targets /\ \A t \in Targets : placesHeld[t] \subseteq Places(t)

\* The ids are those of one place that the target has had.
Placed(target, column) ==
    \E p \in placesHeld[target] : \A c \in Named(target) : column[c] = p[c]

\* What a request in progress has in hand: an entity whose ids are true as soon
\* as it may be saved, a target as long as it has to be resolved.
Planned(r) ==
    /\ plan[r] \in Plan
    /\ step[r] = "save" => Placed(plan[r].entity.target, plan[r].entity.column)
    /\ step[r] = "resolve" => plan[r].target \in Targets

\* Who is no moderator saves his own name, on a row that is his unless rows can
\* be given away and requests have overlapped; a row that cannot be given away
\* keeps its author.
Entitled(r) ==
    LET l == plan[r]
    IN  /\ l.actor \notin Moderators =>
              /\ l.entity.author = l.actor
              /\ entry[l.entry] # Null /\ ~(Reassigns /\ joined) => entry[l.entry].author = l.actor
        /\ ~Reassigns /\ entry[l.entry] # Null => l.entity.author = entry[l.entry].author

\* Two requests in progress overlap, and only one of them creates its row.
Apart ==
    \A r, q \in Callers :
        r # q /\ step[r] # "idle" /\ step[q] # "idle" =>
            joined /\ (plan[r].entry = plan[q].entry => entry[plan[r].entry] # Null)

\* Every place of a target is among those it has had.
PlacesKnown == \A t \in Targets : place[t] \in placesHeld[t]

InProgress(r) ==
    /\ step[r] = "idle" => plan[r] = Null
    /\ step[r] # "idle" => Planned(r) /\ Entitled(r)

EntriesInv ==
    /\ EntriesShape /\ PlacesKnown /\ Apart /\ TargetIdsWereTrue
    /\ \A r \in Callers : InProgress(r)

\* A place gives each column it names an id or null, never undefined.
LEMMA PlaceType ==
  ASSUME NEW t \in Targets, NEW p \in Places(t), NEW c \in Named(t)
  PROVE  c \in Columns /\ p[c] \in AllIds \cup {Null} /\ p[c] # Undefined
  BY AttachmentsAssumption DEF Places, Named

LEMMA NullIsNoRow ==
  /\ Null \notin EntryRow /\ Null \notin Plan /\ Null \notin Targets /\ Null \notin Writers
  /\ Null # Undefined
  BY NullAssumption, AttachmentsAssumption

LEMMA RowIsEntity ==
  ASSUME NEW x \in EntryRow
  PROVE  x \in Entity
  BY DEF EntryRow, Entity

LEMMA EntriesInit == InitEntries => EntriesInv
  <1> SUFFICES ASSUME InitEntries PROVE EntriesInv
    OBVIOUS
  <1>1. DOMAIN place = Targets /\ \A t \in Targets : place[t] \in Places(t)
    BY DEF InitEntries
  <1>2. \A t \in Targets : placesHeld[t] \subseteq Places(t)
    BY <1>1 DEF InitEntries
  <1>3. EntriesShape
    BY <1>1, <1>2, AttachmentsAssumption DEF InitEntries, EntriesShape
  <1>4. PlacesKnown /\ TargetIdsWereTrue
    BY DEF InitEntries, PlacesKnown, TargetIdsWereTrue
  <1>5. Apart
    BY DEF InitEntries, Apart
  <1>6. \A r \in Callers : step[r] = "idle" /\ plan[r] = Null
    BY DEF InitEntries
  <1> QED
    BY <1>3, <1>4, <1>5, <1>6 DEF EntriesInv, InProgress

-----------------------------------------------------------------------------
\* Whoever begins while another is in progress overlaps, for ever.
LEMMA ReachJoins ==
  ASSUME NEW r \in Callers, NEW label, Reach(r, label)
  PROVE  /\ joined => joined'
         /\ label # "idle" => (\A q \in Callers \ {r} : step[q] # "idle" => joined')
  BY Zenon DEF Reach, Joined

\* What is said of the other requests stays true when neither they nor the rows
\* they work on change, and places only become more.
LEMMA OthersKeep ==
  ASSUME EntriesInv, NEW q \in Callers, step'[q] = step[q], plan'[q] = plan[q],
         entry' = entry, joined => joined',
         \A t \in Targets : placesHeld[t] \subseteq placesHeld'[t]
  PROVE  InProgress(q)'
  <1>1. InProgress(q)
    BY DEF EntriesInv
  <1>2. CASE step[q] = "idle"
    BY <1>1, <1>2 DEF InProgress
  <1>3. CASE step[q] # "idle"
    <2>1. Planned(q) /\ Entitled(q)
      BY <1>1, <1>3 DEF InProgress
    <2>2. plan[q].entity.target \in Targets
      BY <2>1 DEF Planned, Plan, Entity
    <2>3. Planned(q)'
      BY <2>1, <2>2 DEF Planned, Placed
    <2>4. Entitled(q)'
      BY <2>1 DEF Entitled
    <2> QED
      BY <1>3, <2>3, <2>4 DEF InProgress
  <1> QED
    BY <1>2, <1>3

LEMMA LaunchKeeps ==
  ASSUME EntriesInv, NEW r \in Callers, NEW l \in Plan, Launch(r, l),
         l.target = Null => Placed(l.entity.target, l.entity.column),
         l.actor \notin Moderators =>
            /\ l.entity.author = l.actor
            /\ entry[l.entry] # Null => entry[l.entry].author = l.actor,
         ~Reassigns /\ entry[l.entry] # Null => l.entity.author = entry[l.entry].author,
         \A q \in Callers : plan[q] # Null /\ plan[q].entry = l.entry => entry[l.entry] # Null
  PROVE  EntriesInv'
  <1>1. /\ step[r] = "idle" /\ UNCHANGED <<entry, place, gone, moves, placesHeld>>
        /\ step' = [step EXCEPT ![r] = IF l.target = Null THEN "save" ELSE "resolve"]
        /\ plan' = [plan EXCEPT ![r] = l]
    BY DEF Launch, Reach
  <1>2. joined => joined'
    BY ReachJoins DEF Launch
  <1>3. \A q \in Callers \ {r} : step[q] # "idle" => joined'
    BY ReachJoins DEF Launch
  <1>s. EntriesShape
    BY DEF EntriesInv
  <1>4. EntriesShape'
    BY <1>s, <1>1 DEF EntriesShape
  <1>5. PlacesKnown' /\ TargetIdsWereTrue'
    BY <1>1 DEF EntriesInv, PlacesKnown, TargetIdsWereTrue
  <1>6. step'[r] # "idle" /\ plan'[r] = l
    BY <1>s, <1>1 DEF EntriesShape
  <1>7. InProgress(r)'
    <2>1. Planned(r)'
      BY <1>s, <1>1, <1>6, NullIsNoRow DEF Planned, Placed, EntriesShape, Plan
    <2>2. Entitled(r)'
      BY <1>1, <1>6 DEF Entitled
    <2> QED
      BY <1>6, <2>1, <2>2 DEF InProgress
  <1>8. \A q \in Callers \ {r} : step'[q] = step[q] /\ plan'[q] = plan[q]
    BY <1>s, <1>1 DEF EntriesShape
  <1>9. \A q \in Callers : InProgress(q)'
    BY <1>1, <1>2, <1>7, <1>8, OthersKeep
  <1>10. Apart'
    <2> SUFFICES ASSUME NEW p \in Callers, NEW q \in Callers, p # q,
                        step'[p] # "idle", step'[q] # "idle"
                 PROVE  joined' /\ (plan'[p].entry = plan'[q].entry => entry'[plan'[p].entry] # Null)
      BY DEF Apart
    <2>1. CASE p # r /\ q # r
      BY <2>1, <1>1, <1>2, <1>8 DEF EntriesInv, Apart
    <2>2. ASSUME NEW z \in Callers \ {r}, step'[z] # "idle"
          PROVE  joined' /\ (plan'[z].entry = l.entry => entry'[l.entry] # Null)
      <3>1. step[z] # "idle" /\ plan[z] \in Plan
        BY <1>8, <2>2 DEF EntriesInv, InProgress, Planned
      <3> QED
        BY <1>1, <1>3, <1>8, <3>1, NullIsNoRow
    <2> QED
      BY <1>6, <2>1, <2>2
  <1> QED
    BY <1>4, <1>5, <1>9, <1>10 DEF EntriesInv

\* A request that ends leaves the others as they were.
LEMMA CompleteKeeps ==
  ASSUME EntriesInv, NEW r \in Callers, Complete(r),
         UNCHANGED <<entry, place, gone, moves, placesHeld>>
  PROVE  EntriesInv'
  <1>1. /\ step' = [step EXCEPT ![r] = "idle"] /\ plan' = [plan EXCEPT ![r] = Null]
        /\ joined => joined'
    BY ReachJoins DEF Complete, Reach
  <1>s. EntriesShape
    BY DEF EntriesInv
  <1>2. EntriesShape'
    BY <1>s, <1>1 DEF EntriesShape
  <1>3. PlacesKnown' /\ TargetIdsWereTrue'
    BY DEF EntriesInv, PlacesKnown, TargetIdsWereTrue
  <1>4. /\ step'[r] = "idle" /\ plan'[r] = Null
        /\ \A q \in Callers \ {r} : step'[q] = step[q] /\ plan'[q] = plan[q]
    BY <1>s, <1>1 DEF EntriesShape
  <1>5. \A q \in Callers : InProgress(q)'
    BY <1>1, <1>4, OthersKeep DEF InProgress
  <1>6. Apart'
    BY <1>1, <1>4 DEF EntriesInv, Apart
  <1> QED
    BY <1>2, <1>3, <1>5, <1>6 DEF EntriesInv

LEMMA CreateKeeps ==
  ASSUME EntriesInv, NEW r \in Callers, NEW e \in Entries, NEW actor \in Writers,
         NEW u \in Writers, NEW t \in Targets, Create(r, e, actor, u, t)
  PROVE  EntriesInv'
  <1> DEFINE new == [author |-> u, target |-> t, deleted |-> FALSE,
                     column |-> [c \in Columns |-> Null]]
             l == [entry |-> e, actor |-> actor, target |-> t, entity |-> new]
  <1>1. new \in Entity
    BY DEF Entity
  <1>2. l \in Plan
    BY <1>1 DEF Plan
  <1>3. Launch(r, l) /\ entry[e] = Null /\ \A q \in Callers : plan[q] # Null => plan[q].entry # e
    BY DEF Create
  <1>4. u = actor \/ actor \in Moderators
    BY DEF Create, CanLogFor
  <1> QED
    BY <1>2, <1>3, <1>4, NullIsNoRow, LaunchKeeps

\* Update and remove start from the row as it is.
LEMMA EntityOfRow ==
  ASSUME EntriesInv, NEW e \in Entries, entry[e] # Null
  PROVE  /\ entry[e] \in EntryRow /\ entry[e] \in Entity
         /\ Placed(entry[e].target, entry[e].column)
  <1>1. entry[e] \in EntryRow
    BY DEF EntriesInv, EntriesShape
  <1> QED
    BY <1>1, RowIsEntity DEF EntriesInv, TargetIdsWereTrue, Placed

LEMMA UpdateKeeps ==
  ASSUME EntriesInv, NEW r \in Callers, NEW e \in Entries, NEW actor \in Writers,
         NEW u \in Writers \cup {Null}, NEW t \in Targets \cup {Null}, Update(r, e, actor, u, t)
  PROVE  EntriesInv'
  <1> DEFINE x == [entry[e] EXCEPT !.author = IF u = Null THEN @ ELSE u]
             l == [entry |-> e, actor |-> actor, target |-> t, entity |-> x]
  <1>1. entry[e] # Null /\ CanModify(actor, entry[e]) /\ Launch(r, l)
        /\ (u # Null => Reassigns /\ CanLogFor(actor, u))
    BY DEF Update
  <1>2. /\ entry[e] \in EntryRow /\ entry[e] \in Entity
        /\ Placed(entry[e].target, entry[e].column)
    BY <1>1, EntityOfRow
  <1>3. /\ x \in Entity /\ x.target = entry[e].target /\ x.column = entry[e].column
        /\ x.author = IF u = Null THEN entry[e].author ELSE u
    BY <1>2 DEF Entity
  <1>4. l \in Plan
    BY <1>3 DEF Plan
  <1>5. actor \notin Moderators => x.author = actor /\ entry[e].author = actor
    BY <1>1, <1>3 DEF CanModify, CanLogFor
  <1> HIDE DEF x
  <1> QED
    BY <1>1, <1>2, <1>3, <1>4, <1>5, LaunchKeeps

LEMMA RemoveKeeps ==
  ASSUME EntriesInv, NEW r \in Callers, NEW e \in Entries, NEW actor \in Writers,
         Remove(r, e, actor)
  PROVE  EntriesInv'
  <1> DEFINE x == [entry[e] EXCEPT !.deleted = TRUE]
             l == [entry |-> e, actor |-> actor, target |-> Null, entity |-> x]
  <1>1. entry[e] # Null /\ CanModify(actor, entry[e]) /\ Launch(r, l)
    BY DEF Remove
  <1>2. /\ entry[e] \in EntryRow /\ entry[e] \in Entity
        /\ Placed(entry[e].target, entry[e].column)
    BY <1>1, EntityOfRow
  <1>3. /\ x \in Entity /\ x.target = entry[e].target /\ x.column = entry[e].column
        /\ x.author = entry[e].author
    BY <1>2 DEF Entity
  <1>4. l \in Plan
    BY <1>3 DEF Plan
  <1>5. actor \notin Moderators => entry[e].author = actor
    BY <1>1 DEF CanModify
  <1> HIDE DEF x
  <1> QED
    BY <1>1, <1>2, <1>3, <1>4, <1>5, LaunchKeeps

\* The ids of a target are read in one statement.
LEMMA ResolveKeeps ==
  ASSUME EntriesInv, NEW r \in Callers, Resolve(r)
  PROVE  EntriesInv'
  <1> DEFINE t == plan[r].target
             x == [plan[r].entity EXCEPT !.target = t, !.column = Resolved(t, @)]
             l == [plan[r] EXCEPT !.entity = x]
  <1>1. /\ step[r] = "resolve" /\ UNCHANGED <<entry, place, gone, moves, placesHeld>>
        /\ step' = [step EXCEPT ![r] = "save"]
        /\ plan' = [plan EXCEPT ![r].entity = x]
        /\ joined => joined'
    BY ReachJoins DEF Resolve, Reach
  <1>s. EntriesShape
    BY DEF EntriesInv
  <1>2. Planned(r) /\ Entitled(r)
    BY <1>1 DEF EntriesInv, InProgress
  <1>3. plan[r] \in Plan /\ t \in Targets
    BY <1>1, <1>2 DEF Planned
  <1>4. place[t] \in Places(t) /\ place[t] \in placesHeld[t]
    BY <1>s, <1>3 DEF EntriesInv, EntriesShape, PlacesKnown
  <1>5. /\ Resolved(t, plan[r].entity.column) \in [Columns -> AllIds \cup {Null, Undefined}]
        /\ \A c \in Named(t) : Resolved(t, plan[r].entity.column)[c] = place[t][c]
    BY <1>3, <1>4, PlaceType DEF Resolved
  <1>6. /\ x \in Entity /\ x.author = plan[r].entity.author
        /\ x.target = t /\ x.column = Resolved(t, plan[r].entity.column)
    BY <1>3, <1>5 DEF Plan, Entity
  <1> HIDE DEF x
  <1>7. /\ l \in Plan /\ l.actor = plan[r].actor /\ l.entry = plan[r].entry /\ l.entity = x
    BY <1>3, <1>6 DEF Plan
  <1>8. plan' = [plan EXCEPT ![r] = l]
    BY <1>1, <1>s, <1>3 DEF EntriesShape, Plan, Entity
  <1> HIDE DEF l
  <1>9. /\ step'[r] = "save" /\ plan'[r] = l
        /\ \A q \in Callers \ {r} : step'[q] = step[q] /\ plan'[q] = plan[q]
    BY <1>s, <1>1, <1>8 DEF EntriesShape
  <1>10. EntriesShape'
    BY <1>s, <1>1, <1>7, <1>8 DEF EntriesShape
  <1>11. PlacesKnown' /\ TargetIdsWereTrue'
    BY <1>1 DEF EntriesInv, PlacesKnown, TargetIdsWereTrue
  <1>12. InProgress(r)'
    <2>1. Planned(r)'
      BY <1>1, <1>4, <1>5, <1>6, <1>7, <1>9 DEF Planned, Placed
    <2>2. Entitled(r)'
      BY <1>1, <1>2, <1>6, <1>7, <1>9 DEF Entitled
    <2> QED
      BY <1>9, <2>1, <2>2 DEF InProgress
  <1>13. \A q \in Callers : InProgress(q)'
    BY <1>1, <1>9, <1>12, OthersKeep
  <1>14. Apart'
    BY <1>1, <1>7, <1>9 DEF EntriesInv, Apart
  <1> QED
    BY <1>10, <1>11, <1>13, <1>14 DEF EntriesInv

\* What a save leaves in the row: the author and target of the entity, and of the
\* columns at least those that the target names.
LEMMA SavedRow ==
  ASSUME EntriesInv, NEW r \in Callers, step[r] = "save"
  PROVE  LET e == plan[r].entry
             x == Saved(e, plan[r].entity)
         IN  /\ e \in Entries /\ x \in EntryRow
             /\ x.author = plan[r].entity.author
             /\ Placed(x.target, x.column)
  <1> DEFINE e == plan[r].entry
             y == plan[r].entity
             old == IF entry[e] = Null THEN [c \in Columns |-> Null] ELSE entry[e].column
             columns == [c \in Columns |-> IF y.column[c] = Undefined THEN old[c] ELSE y.column[c]]
  <1>s. EntriesShape
    BY DEF EntriesInv
  <1>1. plan[r] \in Plan /\ Placed(y.target, y.column)
    BY DEF EntriesInv, InProgress, Planned
  <1>2. e \in Entries /\ y \in Entity
    BY <1>1 DEF Plan
  <1>3. old \in [Columns -> AllIds \cup {Null}]
    BY <1>s, <1>2 DEF EntriesShape, EntryRow
  <1>4. columns \in [Columns -> AllIds \cup {Null}]
    BY <1>2, <1>3 DEF Entity
  <1>5. PICK p \in placesHeld[y.target] : \A c \in Named(y.target) : y.column[c] = p[c]
    BY <1>1 DEF Placed
  <1>6. y.target \in Targets /\ p \in Places(y.target)
    BY <1>s, <1>2, <1>5 DEF EntriesShape, Entity
  <1>7. \A c \in Named(y.target) : columns[c] = p[c]
    BY <1>5, <1>6, PlaceType
  <1>8. Saved(e, y) = [y EXCEPT !.column = columns]
    BY DEF Saved
  <1> HIDE DEF columns
  <1>9. /\ Saved(e, y) \in EntryRow /\ Saved(e, y).author = y.author
        /\ Saved(e, y).target = y.target /\ Saved(e, y).column = columns
    BY <1>2, <1>4, <1>8 DEF Entity, EntryRow
  <1>10. Placed(Saved(e, y).target, Saved(e, y).column)
    BY <1>7, <1>9 DEF Placed
  <1> QED
    BY <1>2, <1>9, <1>10

LEMMA SaveKeeps ==
  ASSUME EntriesInv, NEW r \in Callers, SaveEntry(r)
  PROVE  EntriesInv'
  <1> DEFINE e == plan[r].entry
             x == Saved(e, plan[r].entity)
  <1>1. /\ step[r] = "save" /\ UNCHANGED <<place, gone, moves, placesHeld>>
        /\ entry' = [entry EXCEPT ![e] = x]
        /\ step' = [step EXCEPT ![r] = "idle"]
        /\ plan' = [plan EXCEPT ![r] = Null]
        /\ joined => joined'
    BY ReachJoins DEF SaveEntry, Complete, Reach
  <1>2. /\ e \in Entries /\ x \in EntryRow /\ x # Null
        /\ x.author = plan[r].entity.author /\ Placed(x.target, x.column)
    BY <1>1, SavedRow, NullIsNoRow
  <1> HIDE DEF x
  <1>s. EntriesShape
    BY DEF EntriesInv
  <1>3. EntriesShape'
    BY <1>s, <1>1, <1>2 DEF EntriesShape
  <1>4. PlacesKnown'
    BY <1>1 DEF EntriesInv, PlacesKnown
  <1>5. entry'[e] = x /\ \A f \in Entries \ {e} : entry'[f] = entry[f]
    BY <1>s, <1>1, <1>2 DEF EntriesShape
  <1>6. TargetIdsWereTrue'
    BY <1>1, <1>2, <1>5 DEF EntriesInv, TargetIdsWereTrue, Placed
  <1>7. /\ step'[r] = "idle" /\ plan'[r] = Null
        /\ \A q \in Callers \ {r} : step'[q] = step[q] /\ plan'[q] = plan[q]
    BY <1>s, <1>1 DEF EntriesShape
  <1>8. ASSUME NEW q \in Callers PROVE InProgress(q)'
    <2>1. CASE q = r
      BY <2>1, <1>7 DEF InProgress
    <2>2. CASE q # r /\ step[q] = "idle"
      BY <2>2, <1>7 DEF EntriesInv, InProgress
    <2>3. CASE q # r /\ step[q] # "idle"
      <3>1. Planned(q) /\ Entitled(q) /\ Entitled(r)
        BY <2>3, <1>1 DEF EntriesInv, InProgress
      <3>2. Planned(q)'
        BY <3>1, <2>3, <1>1, <1>7 DEF Planned, Placed
      <3>3. plan[q].entry \in Entries
        BY <3>1 DEF Planned, Plan
      <3>4. plan'[q] = plan[q]
        BY <2>3, <1>7
      <3>5. Entitled(q)'
        <4>1. CASE plan[q].entry # e
          <5>1. entry'[plan[q].entry] = entry[plan[q].entry]
            BY <3>3, <4>1, <1>5
          <5> QED
            BY <3>1, <3>4, <5>1, <1>1 DEF Entitled
        <4>2. CASE plan[q].entry = e
          <5>1. joined /\ entry[e] # Null
            BY <4>2, <2>3, <1>1 DEF EntriesInv, Apart
          <5>2. entry'[e].author = plan[r].entity.author
            BY <1>2, <1>5
          <5>3. ~Reassigns => entry'[e].author = entry[e].author
            BY <3>1, <5>1, <5>2 DEF Entitled
          <5> QED
            BY <3>1, <3>4, <4>2, <5>1, <5>3, <1>1 DEF Entitled
        <4> QED
          BY <4>1, <4>2
      <3> QED
        BY <3>2, <3>5, <2>3, <1>7 DEF InProgress
    <2> QED
      BY <2>1, <2>2, <2>3
  <1>9. \A f \in Entries : entry[f] # Null => entry'[f] # Null
    BY <1>2, <1>5
  <1>10. Apart'
    <2> SUFFICES ASSUME NEW p \in Callers, NEW q \in Callers, p # q,
                        step'[p] # "idle", step'[q] # "idle"
                 PROVE  joined' /\ (plan'[p].entry = plan'[q].entry => entry'[plan'[p].entry] # Null)
      BY DEF Apart
    <2>1. p # r /\ q # r /\ plan[p] \in Plan
      BY <1>7 DEF EntriesInv, InProgress, Planned
    <2>2. plan[p].entry \in Entries
      BY <2>1 DEF Plan
    <2> QED
      BY <2>1, <2>2, <1>1, <1>7, <1>9 DEF EntriesInv, Apart
  <1> QED
    BY <1>3, <1>4, <1>6, <1>8, <1>10 DEF EntriesInv

\* Targets move and go; the places they have had stay known.
LEMMA TargetsKeep ==
  ASSUME EntriesInv, NEW t \in Targets, Move(t) \/ Delete(t)
  PROVE  EntriesInv'
  <1>s. EntriesShape
    BY DEF EntriesInv
  <1>1. /\ UNCHANGED <<entry, step, plan, joined>>
        /\ \A u \in Targets : placesHeld[u] \subseteq placesHeld'[u]
    BY <1>s DEF Move, Delete, EntriesShape
  <1>2. EntriesShape'
    <2>1. CASE Delete(t)
      BY <1>s, <2>1 DEF EntriesShape, Delete
    <2>2. CASE Move(t)
      <3>1. PICK p \in Places(t) : /\ place' = [place EXCEPT ![t] = p]
                                   /\ placesHeld' = [placesHeld EXCEPT ![t] = @ \cup {p}]
        BY <2>2 DEF Move
      <3>2. moves' \in 0 .. MaxMoves
        BY <1>s, <2>2, AttachmentsAssumption DEF EntriesShape, Move
      <3>3. /\ DOMAIN place' = Targets /\ \A u \in Targets : place'[u] \in Places(u)
            /\ DOMAIN placesHeld' = Targets /\ \A u \in Targets : placesHeld'[u] \subseteq Places(u)
        BY <1>s, <3>1 DEF EntriesShape
      <3> QED
        BY <1>s, <2>2, <3>2, <3>3 DEF EntriesShape, Move
    <2> QED
      BY <2>1, <2>2
  <1>3. PlacesKnown'
    BY <1>s DEF EntriesInv, EntriesShape, PlacesKnown, Move, Delete
  <1>4. TargetIdsWereTrue'
    BY <1>s, <1>1 DEF EntriesInv, EntriesShape, EntryRow, TargetIdsWereTrue
  <1>5. \A q \in Callers : InProgress(q)'
    BY <1>1, OthersKeep
  <1>6. Apart'
    BY <1>1 DEF EntriesInv, Apart
  <1> QED
    BY <1>2, <1>3, <1>4, <1>5, <1>6 DEF EntriesInv

LEMMA EntriesStep == EntriesInv /\ [NextEntry]_entryVars => EntriesInv'
  <1> SUFFICES ASSUME EntriesInv, [NextEntry]_entryVars PROVE EntriesInv'
    OBVIOUS
  <1>1. ASSUME NEW r \in Callers, NEW e \in Entries, NEW actor \in Writers,
               \/ \E u \in Writers, t \in Targets : Create(r, e, actor, u, t)
               \/ \E u \in Writers \cup {Null}, t \in Targets \cup {Null} : Update(r, e, actor, u, t)
               \/ Remove(r, e, actor)
        PROVE  EntriesInv'
    BY <1>1, CreateKeeps, UpdateKeeps, RemoveKeeps
  <1>2. ASSUME NEW r \in Callers, RefuseEntry(r) PROVE EntriesInv'
    BY <1>2, CompleteKeeps DEF RefuseEntry
  <1>3. CASE UNCHANGED entryVars
    BY <1>3 DEF entryVars, EntriesInv, EntriesShape, PlacesKnown, Apart, TargetIdsWereTrue,
                InProgress, Planned, Placed, Entitled
  <1> QED
    BY <1>1, <1>2, <1>3, ResolveKeeps, SaveKeeps, TargetsKeep DEF NextEntry

\* joined is a truth value.
LEMMA JoinedType == (joined \in BOOLEAN) /\ [NextEntry]_entryVars => (joined \in BOOLEAN)'
  <1> SUFFICES ASSUME joined \in BOOLEAN, [NextEntry]_entryVars PROVE joined' \in BOOLEAN
    OBVIOUS
  <1>1. ASSUME NEW r, NEW label, Reach(r, label) PROVE joined' \in BOOLEAN
    BY <1>1, Zenon DEF Reach
  <1>2. ASSUME NEW r, NEW l, Launch(r, l) PROVE joined' \in BOOLEAN
    BY <1>1, <1>2, Zenon DEF Launch
  <1>3. ASSUME NEW r, NEW e, NEW actor,
               \/ \E u, t : Create(r, e, actor, u, t) \/ Update(r, e, actor, u, t)
               \/ Remove(r, e, actor)
        PROVE  joined' \in BOOLEAN
    BY <1>2, <1>3, Zenon DEF Create, Update, Remove
  <1>4. ASSUME NEW r, Resolve(r) \/ SaveEntry(r) \/ RefuseEntry(r) PROVE joined' \in BOOLEAN
    BY <1>1, <1>4, Zenon DEF Resolve, SaveEntry, RefuseEntry, Complete
  <1>5. CASE UNCHANGED joined
    BY <1>5, Zenon
  <1> QED
    BY <1>3, <1>4, <1>5, Zenon DEF NextEntry, entryVars, Move, Delete

\* A row changes by a save of a request that was entitled to it.
LEMMA ChangeIsEntitled ==
  ASSUME EntriesInv, NEW e \in Entries, [NextEntry]_entryVars, entry'[e] # entry[e]
  PROVE  LET before == IF entry[e] = Null THEN Null ELSE entry[e].author
         IN  \E r \in Callers : Saves(r, e) /\
               \/ plan[r].actor \in Moderators
               \/ /\ entry'[e].author \in {before, plan[r].actor}
                  /\ before \in {Null, plan[r].actor} \/ (Reassigns /\ joined)
  <1>l. ASSUME NEW r, NEW l, Launch(r, l) PROVE FALSE
    BY <1>l DEF Launch
  <1>c. ASSUME NEW r, NEW f, NEW actor,
               \/ \E u, t : Create(r, f, actor, u, t) \/ Update(r, f, actor, u, t)
               \/ Remove(r, f, actor)
        PROVE  FALSE
    BY <1>l, <1>c, Zenon DEF Create, Update, Remove
  <1>o. ASSUME NEW r, Resolve(r) \/ RefuseEntry(r) PROVE FALSE
    BY <1>o DEF Resolve, RefuseEntry
  <1>t. ASSUME NEW t, Move(t) \/ Delete(t) PROVE FALSE
    BY <1>t DEF Move, Delete
  <1>1. PICK r \in Callers : SaveEntry(r)
    BY <1>c, <1>o, <1>t, Zenon DEF NextEntry, entryVars
  <1>2. /\ step[r] = "save" /\ step' = [step EXCEPT ![r] = "idle"]
        /\ entry' = [entry EXCEPT ![plan[r].entry] = Saved(plan[r].entry, plan[r].entity)]
    BY <1>1 DEF SaveEntry, Complete, Reach
  <1>s. EntriesShape
    BY DEF EntriesInv
  <1>3. plan[r].entry = e /\ entry'[e].author = plan[r].entity.author
    BY <1>s, <1>2, SavedRow DEF EntriesShape
  <1>4. Saves(r, e)
    BY <1>s, <1>2, <1>3 DEF EntriesShape, Saves
  <1>5. Entitled(r)
    BY <1>2 DEF EntriesInv, InProgress
  <1>6. CASE plan[r].actor \in Moderators
    BY <1>4, <1>6
  <1>7. CASE plan[r].actor \notin Moderators
    <2>1. entry'[e].author = plan[r].actor
      BY <1>3, <1>5, <1>7 DEF Entitled
    <2>2. entry[e] = Null \/ entry[e].author = plan[r].actor \/ (Reassigns /\ joined)
      BY <1>3, <1>5, <1>7 DEF Entitled
    <2> QED
      BY <1>4, <2>1, <2>2
  <1> QED
    BY <1>6, <1>7

-----------------------------------------------------------------------------

LEMMA EntriesAlways == SpecEntries => []EntriesInv
  BY EntriesInit, EntriesStep, PTL DEF SpecEntries

\* Comments or work logs, their targets and the handlers keep their types, whatever
\* entity a handler loaded before its row or its target changed.
THEOREM EntriesTypeCorrect == SpecEntries => []EntriesOK
  <1>1. InitEntries => joined \in BOOLEAN
    BY Zenon DEF InitEntries
  <1>2. EntriesInv /\ joined \in BOOLEAN => EntriesOK
    BY DEF EntriesInv, EntriesShape, EntriesOK
  <1> QED
    BY EntriesAlways, JoinedType, <1>1, <1>2, PTL DEF SpecEntries

\* For any number of entries, targets and overlapping requests: the ids of the
\* hierarchy that resolveTarget copies into a row were all ids of the target at
\* one moment, also when the row was saved long after and the target has moved.
THEOREM CopiedIdsWereTrue == SpecEntries => []TargetIdsWereTrue
  <1>1. EntriesInv => TargetIdsWereTrue
    BY DEF EntriesInv
  <1> QED
    BY EntriesAlways, <1>1, PTL

\* For any number of users and requests: a row is changed only by its author or a
\* moderator, and becomes somebody else's only at a moderator's hand.  The check
\* reads the loaded entity and the save comes later, so the author of the row at
\* the save must be the one that was checked; only where an update may reassign a
\* row do requests that overlap spoil that.
THEOREM RowsChangeByRight == SpecEntries => OnlyOwnEntries
  <1>1. EntriesInv /\ [NextEntry]_entryVars =>
           [\A e \in Entries : entry'[e] # entry[e] =>
              LET before == IF entry[e] = Null THEN Null ELSE entry[e].author
              IN  \E r \in Callers : Saves(r, e) /\
                    \/ plan[r].actor \in Moderators
                    \/ /\ entry'[e].author \in {before, plan[r].actor}
                       /\ before \in {Null, plan[r].actor} \/ (Reassigns /\ joined)]_entryVars
    BY ChangeIsEntitled
  <1> QED
    BY EntriesAlways, <1>1, PTL DEF SpecEntries, OnlyOwnEntries
=============================================================================
