------------------------------ MODULE Tenancy ------------------------------
(***************************************************************************)
(* Organizations and the users in them: AuthService.registerOrganization,  *)
(* OrganizationService and UsersService.createUser.                        *)
(*                                                                         *)
(* registerOrganization runs in a transaction (READ COMMITTED): what it    *)
(* inserts is in local[r] until Commit, except that its user's e-mail      *)
(* already holds its place in the unique index.  Everything else commits   *)
(* statement by statement.                                                 *)
(*                                                                         *)
(* save(organization) also rewrites the other side of the users relation   *)
(* that findOne loads: a user in the array is put into the organization,   *)
(* and one in the organization but not in the array is taken out of it.    *)
(***************************************************************************)
EXTENDS Integers, FiniteSets

CONSTANTS
    OrgIds, UserIds, Clients,
    Logins,             \* users.email
    Emails,             \* organizations.org_email, and what a DTO carries
    Lower,              \* Lower[e]: e in lower case
    Nothing,
    MaxDeaths           \* bound: handlers that die between two awaits

ASSUME TenancyAssumption ==
    /\ MaxDeaths \in Nat
    /\ Lower \in [Emails -> Emails]
    /\ \A e \in Emails : Lower[Lower[e]] = Lower[e]
    /\ Nothing \notin OrgIds \cup UserIds \cup Logins \cup Emails

VARIABLES
    org,          \* organizations, by id; Nothing before the row exists
    user,         \* users, by id
    entity,       \* organization:*:<id>, the cached findOne
    list,         \* organizations:list:*, the cached findAll
    at, local,    \* per request: its next await and its variables
    deaths,       \* handlers that died
    registered,   \* history: organizations that were registered with an owner
    overlapped    \* history: two requests have been in progress at the same time

tables == <<org, user, registered>>
cache == <<entity, list>>
tenancyVars == <<tables, cache, at, local, deaths, overlapped>>

OrgRow == [email : Emails, deleted : BOOLEAN, owner : UserIds \cup {Nothing}]
UserRow == [login : Logins, org : OrgIds \cup {Nothing}]
\* What findOne returns: the row and the ids of its users.
Copy == [email : Emails, deleted : BOOLEAN, members : SUBSET UserIds]

\* What findAll returns.
List == [items : SUBSET OrgIds]

ASSUME NothingAssumption == Nothing \notin OrgRow \cup UserRow \cup Copy \cup List

Operations == {"idle", "register", "createUser", "create", "findOne", "update", "remove", "findAll"}
Awaits == {"idle", "checkOrgEmail", "insertOrganization", "insertOwner", "commit", "insertUser",
           "load", "fill", "ensureUnique", "save", "clearEntity", "clearList", "loadList", "fillList"}
Local == [op : Operations, org : OrgIds \cup {Nothing}, user : UserIds \cup {Nothing},
          login : Logins \cup {Nothing}, email : Emails \cup {Nothing}, entity : Copy \cup {Nothing},
          list : List \cup {Nothing}]
NoLocal == [op |-> "idle", org |-> Nothing, user |-> Nothing, login |-> Nothing, email |-> Nothing,
            entity |-> Nothing, list |-> Nothing]

TenancyOK ==
    /\ org \in [OrgIds -> OrgRow \cup {Nothing}]
    /\ user \in [UserIds -> UserRow \cup {Nothing}]
    /\ entity \in [OrgIds -> Copy \cup {Nothing}]
    /\ list \in List \cup {Nothing}
    /\ at \in [Clients -> Awaits]
    /\ local \in [Clients -> Local]
    /\ deaths \in 0 .. MaxDeaths
    /\ registered \subseteq OrgIds
    /\ overlapped \in BOOLEAN

InitTenancy ==
    /\ org = [o \in OrgIds |-> Nothing]
    /\ user = [u \in UserIds |-> Nothing]
    /\ entity = [o \in OrgIds |-> Nothing]
    /\ list = Nothing
    /\ at = [r \in Clients |-> "idle"]
    /\ local = [r \in Clients |-> NoLocal]
    /\ deaths = 0
    /\ registered = {}
    /\ overlapped = FALSE

\* Another request is in progress.
Overlaps(r) == \E q \in Clients \ {r} : at[q] # "idle"
Advance(r, label) ==
    /\ at' = [at EXCEPT ![r] = label]
    /\ overlapped' = (overlapped \/ (label # "idle" /\ Overlaps(r)))
End(r) == Advance(r, "idle") /\ local' = [local EXCEPT ![r] = NoLocal]
Start(r, label, l) ==
    /\ at[r] = "idle"
    /\ Advance(r, label)
    /\ local' = [local EXCEPT ![r] = l]
    /\ UNCHANGED <<tables, cache, deaths>>
Continue(r, label) == Advance(r, label) /\ UNCHANGED local

Live(o) == org[o] # Nothing /\ ~org[o].deleted
Members(o) == {u \in UserIds : user[u] # Nothing /\ user[u].org = o}
CopyOf(o) == [email |-> org[o].email, deleted |-> org[o].deleted, members |-> Members(o)]

\* A generated uuid belongs to no row and to no other request.
NewOrg(o) == org[o] = Nothing /\ \A q \in Clients : local[q].org # o
NewUser(u) == user[u] = Nothing /\ \A q \in Clients : local[q].user # u

LoginTaken(login) == \E u \in UserIds : user[u] # Nothing /\ user[u].login = login
\* An uncommitted row in the unique index: an equal insert waits for its end.
LoginReserved(login) ==
    \E q \in Clients : local[q].op = "register" /\ at[q] \in {"clearList", "commit"}
                        /\ local[q].login = login

-----------------------------------------------------------------------------
(* registerOrganization                                                    *)

BeginRegister(r, o, u, login, email) ==
    /\ NewOrg(o) /\ NewUser(u)
    /\ ~LoginTaken(login)
    /\ Start(r, "checkOrgEmail", [NoLocal EXCEPT !.op = "register", !.org = o, !.user = u,
                                                 !.login = login, !.email = email])

\* existsBy compares letter by letter and leaves out soft-deleted rows.
CheckOrgEmail(r) ==
    /\ at[r] = "checkOrgEmail"
    /\ \A o \in OrgIds : Live(o) => org[o].email # local[r].email
    /\ Continue(r, "insertOrganization")
    /\ UNCHANGED <<tables, cache, deaths>>

OrganizationOf(r, owner) == [email |-> local[r].email, deleted |-> FALSE, owner |-> owner]

InsertOutsideTransaction(r) ==
    /\ at[r] = "insertOrganization"
    /\ org' = [org EXCEPT ![local[r].org] = OrganizationOf(r, Nothing)]
    /\ registered' = registered \cup {local[r].org}
    /\ Continue(r, "insertOwner")
    /\ UNCHANGED <<user, cache, deaths>>

\* manager.save(organization): nobody else sees the row.
InsertOrganization(r) ==
    /\ at[r] = "insertOrganization"
    /\ Continue(r, "insertOwner")
    /\ UNCHANGED <<tables, cache, deaths>>

\* manager.save(user), and the link from the organization to its owner.
InsertOwner(r) ==
    /\ at[r] = "insertOwner"
    /\ ~LoginReserved(local[r].login) /\ ~LoginTaken(local[r].login)
    /\ Continue(r, "clearList")
    /\ UNCHANGED <<tables, cache, deaths>>

Commit(r) ==
    /\ at[r] = "commit"
    /\ org' = [org EXCEPT ![local[r].org] = OrganizationOf(r, local[r].user)]
    /\ user' = [user EXCEPT ![local[r].user] = [login |-> local[r].login, org |-> local[r].org]]
    /\ registered' = registered \cup {local[r].org}
    /\ End(r)
    /\ UNCHANGED <<cache, deaths>>

-----------------------------------------------------------------------------
(* UsersService.createUser                                                 *)

BeginCreateUser(r, u, login, o) ==
    /\ NewUser(u) /\ org[o] # Nothing
    /\ ~LoginTaken(login)
    /\ Start(r, "insertUser", [NoLocal EXCEPT !.op = "createUser", !.org = o, !.user = u, !.login = login])

InsertUser(r) ==
    /\ at[r] = "insertUser"
    /\ ~LoginReserved(local[r].login) /\ ~LoginTaken(local[r].login)
    /\ user' = [user EXCEPT ![local[r].user] = [login |-> local[r].login, org |-> local[r].org]]
    /\ End(r)
    /\ UNCHANGED <<org, registered, cache, deaths>>

-----------------------------------------------------------------------------
(* OrganizationService                                                     *)

BeginCreate(r, o, email) ==
    /\ NewOrg(o)
    /\ Start(r, "ensureUnique", [NoLocal EXCEPT !.op = "create", !.org = o, !.email = Lower[email]])

\* if (dto.orgEmail): an update that leaves the e-mail alone asks nothing.
MustBeUnique(l) == l.op = "update" /\ l.email # Nothing

\* findOne returns the copy, update and remove go on with it.
Proceed(r, l) ==
    \/ l.op = "findOne" /\ End(r)
    \/ /\ l.op # "findOne"
       /\ Advance(r, IF MustBeUnique(l) THEN "ensureUnique" ELSE "save")
       /\ local' = [local EXCEPT ![r] = l]

\* The DTO of an update may carry an e-mail; it arrives in lower case.
Lookup(r, op, o, email) ==
    /\ at[r] = "idle"
    /\ LET l == [NoLocal EXCEPT !.op = op, !.org = o,
                                !.email = IF email = Nothing THEN Nothing ELSE Lower[email]]
       IN  \/ entity[o] = Nothing /\ Advance(r, "load") /\ local' = [local EXCEPT ![r] = l]
           \/ entity[o] # Nothing /\ Proceed(r, [l EXCEPT !.entity = entity[o]])
    /\ UNCHANGED <<tables, cache, deaths>>

Load(r) ==
    /\ at[r] = "load" /\ Live(local[r].org)
    /\ local' = [local EXCEPT ![r].entity = CopyOf(local[r].org)]
    /\ Advance(r, "fill")
    /\ UNCHANGED <<tables, cache, deaths>>

Fill(r) ==
    /\ at[r] = "fill"
    /\ entity' = [entity EXCEPT ![local[r].org] = local[r].entity]
    /\ Proceed(r, local[r])
    /\ UNCHANGED <<tables, list, deaths>>

\* LOWER(org_email) = LOWER(:orgEmail)
SameEmail(a, b) == Lower[a] = Lower[b]

EnsureUnique(r) ==
    /\ at[r] = "ensureUnique"
    /\ \A o \in OrgIds \ {local[r].org} : Live(o) => ~SameEmail(org[o].email, local[r].email)
    /\ Continue(r, "save")
    /\ UNCHANGED <<tables, cache, deaths>>

SaveNew(r) ==
    /\ at[r] = "save" /\ local[r].op = "create"
    /\ org' = [org EXCEPT ![local[r].org] = OrganizationOf(r, Nothing)]
    /\ Continue(r, "clearList")
    /\ UNCHANGED <<user, registered, cache, deaths>>

\* Where a save with these members leaves a user.
Regroup(o, members) ==
    user' = [u \in UserIds |->
        IF user[u] = Nothing THEN Nothing
        ELSE IF u \in members THEN [user[u] EXCEPT !.org = o]
        ELSE IF user[u].org = o THEN [user[u] EXCEPT !.org = Nothing]
        ELSE user[u]]

SavedEmail(l) == IF l.email = Nothing THEN l.entity.email ELSE l.email

\* The owner is loaded and saved too, but never changes.
SaveEntity(r) ==
    LET l == local[r]
    IN  /\ at[r] = "save" /\ l.op \in {"update", "remove"}
        /\ org' = [org EXCEPT
              ![l.org].email = SavedEmail(l),
              ![l.org].deleted = IF l.op = "remove" THEN TRUE ELSE l.entity.deleted]
        /\ Regroup(l.org, l.entity.members)
        /\ Continue(r, "clearEntity")
        /\ UNCHANGED <<registered, cache, deaths>>

ClearEntity(r) ==
    /\ at[r] = "clearEntity"
    /\ entity' = [entity EXCEPT ![local[r].org] = Nothing]
    /\ Continue(r, "clearList")
    /\ UNCHANGED <<tables, list, deaths>>

KeepList == UNCHANGED list
DelList == list' = Nothing

\* delByPattern('organizations:list:*'), before the COMMIT of a registration.
ClearList(r) ==
    /\ at[r] = "clearList"
    /\ DelList
    /\ IF local[r].op = "register" THEN Continue(r, "commit") ELSE End(r)
    /\ UNCHANGED <<tables, entity, deaths>>

-----------------------------------------------------------------------------
(* findAll, and what the environment does                                  *)

BeginFindAll(r) ==
    /\ list = Nothing
    /\ Start(r, "loadList", [NoLocal EXCEPT !.op = "findAll"])

LoadList(r) ==
    /\ at[r] = "loadList"
    /\ local' = [local EXCEPT ![r].list = [items |-> {o \in OrgIds : Live(o)}]]
    /\ Advance(r, "fillList")
    /\ UNCHANGED <<tables, cache, deaths>>

FillList(r) ==
    /\ at[r] = "fillList"
    /\ list' = local[r].list
    /\ End(r)
    /\ UNCHANGED <<tables, entity, deaths>>

Expire ==
    /\ \/ list # Nothing /\ list' = Nothing /\ UNCHANGED entity
       \/ \E o \in OrgIds : /\ entity[o] # Nothing
                            /\ entity' = [entity EXCEPT ![o] = Nothing] /\ UNCHANGED list
    /\ UNCHANGED <<tables, at, local, deaths, overlapped>>

\* A check or the unique index refuses; an open transaction is rolled back.
Refuse(r) ==
    /\ at[r] \in {"checkOrgEmail", "insertOrganization", "insertOwner", "insertUser",
                  "load", "ensureUnique"}
    /\ End(r)
    /\ UNCHANGED <<tables, cache, deaths>>

\* The process dies or an awaited call throws; the same rollback.
Dies(r) ==
    /\ at[r] # "idle" /\ deaths < MaxDeaths
    /\ deaths' = deaths + 1
    /\ End(r)
    /\ UNCHANGED <<tables, cache>>

Register(r) ==
    \/ \E o \in OrgIds, u \in UserIds, login \in Logins, email \in Emails :
          BeginRegister(r, o, u, login, email)
    \/ CheckOrgEmail(r) \/ InsertOrganization(r) \/ InsertOwner(r) \/ Commit(r)

CreateUser(r) ==
    \/ \E u \in UserIds, login \in Logins, o \in OrgIds : BeginCreateUser(r, u, login, o)
    \/ InsertUser(r)

Organize(r) ==
    \/ \E o \in OrgIds, email \in Emails : BeginCreate(r, o, email)
    \/ \E o \in OrgIds :
          \/ \E op \in {"findOne", "remove"} : Lookup(r, op, o, Nothing)
          \/ \E email \in Emails \cup {Nothing} : Lookup(r, "update", o, email)
    \/ Load(r) \/ Fill(r) \/ EnsureUnique(r) \/ SaveNew(r) \/ SaveEntity(r)
    \/ ClearEntity(r) \/ ClearList(r)
    \/ BeginFindAll(r) \/ LoadList(r) \/ FillList(r)

NextTenancy ==
    \/ Expire
    \/ \E r \in Clients : Register(r) \/ CreateUser(r) \/ Organize(r) \/ Refuse(r) \/ Dies(r)

SpecTenancy == InitTenancy /\ [][NextTenancy]_tenancyVars

-----------------------------------------------------------------------------
(* Properties                                                              *)

\* A registered organization always has an owner, who is one of its users: a
\* registration that loses the race for an e-mail, or fails anywhere, leaves no
\* organization behind, and no later save takes the owner out of it.
OwnersBelong ==
    \A o \in registered :
        /\ org[o] # Nothing
        /\ org[o].owner # Nothing
        /\ user[org[o].owner] # Nothing /\ user[org[o].owner].org = o

\* "... so the new org (and owner) shows up": a cached list has every
\* organization that was registered, unless a findAll has overlapped with the
\* registration, or a dead handler has left a stale copy that was saved since.
NewOrgShowsUp ==
    ~overlapped /\ deaths = 0 /\ list # Nothing => {o \in registered : Live(o)} \subseteq list.items
=============================================================================
