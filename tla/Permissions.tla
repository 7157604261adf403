---------------------------- MODULE Permissions ----------------------------
(***************************************************************************)
(* Roles and what they grant: RbacService, which administers the tables    *)
(* modules, permissions, module_permissions (which permissions a module    *)
(* offers), role_permissions (which of those a role holds) and roles, and  *)
(* PermissionsGuard, which reads them for every guarded request.           *)
(*                                                                         *)
(* No handler uses a transaction: to assign or grant is to check, to       *)
(* delete all, to insert all and to clear the cache, with an await between *)
(* any two.  rbac:* caches modules and menus and is cleared after writes;  *)
(* perm:roles:* caches what the guard read and only ever expires.  An item *)
(* stands for its unique key or name, which does not change here; of a row *)
(* in a soft-deleted table what matters is its is_active flag.             *)
(***************************************************************************)
EXTENDS Integers, FiniteSets

CONSTANTS
    Modules, Permissions, Roles,
    Missing,        \* items that are yet to be created
    Requests,
    None,
    MaxWrites,      \* bound: administrative requests begun
    MaxAborts       \* bound: handlers that die between two awaits

Items == Modules \cup Permissions \cup Roles
Pairs == Modules \X Permissions
\* A row of module_permissions: ids are new with every batch that is inserted.
ModulePermission == (0 .. MaxWrites) \X Pairs
KeySets == [granted : SUBSET Permissions]
Menus == [shown : SUBSET Pairs]

ASSUME ConstantsAssumption ==
    /\ Modules \cap Permissions = {} /\ Modules \cap Roles = {} /\ Permissions \cap Roles = {}
    /\ Missing \subseteq Items
    /\ None \notin Items \cup KeySets \cup Menus
    /\ MaxWrites \in Nat /\ MaxAborts \in Nat

VARIABLES
    known,              \* modules, permissions and roles that have a row
    active,             \* modules, permissions and roles whose row is active
    module_permissions, role_permissions,
    batch,              \* the ids of the next inserted rows
    rbacModules,        \* rbac:modules:<id>: modules cached, as active
    rbacMenu,           \* rbac:user:<id>:permissions, of a user with that role
    permRoles,          \* perm:roles:<role>: the guard's key sets
    pc, local,
    writes, aborts,
    asked,              \* history: what a role was last asked to hold
    pastKeys,           \* history: pastKeys[role], every key set it has granted
    overlapped          \* history: two requests have been in progress at the same time

tables == <<known, active, module_permissions, role_permissions, batch, asked, pastKeys>>
caches == <<rbacModules, rbacMenu, permRoles>>
vars == <<tables, caches, pc, local, writes, aborts, overlapped>>

Operations == {"create", "save", "assign", "grant", "guard", "menu", "getModule"}
Labels == {"idle", "findKey", "create", "load", "fill", "check", "save", "wipe", "insert",
           "clear", "query", "modules", "rows", "grants", "store"}

\* The item of the path, the pairs or flag of the DTO, and what was read.
Local == [op : Operations, item : Items \cup {None}, pairs : SUBSET Pairs, flag : BOOLEAN,
          rows : SUBSET ModulePermission, modules : SUBSET Modules]
NoLocal == [op |-> "getModule", item |-> None, pairs |-> {}, flag |-> TRUE,
            rows |-> {}, modules |-> {}]

TypeOK ==
    /\ active \subseteq known /\ known \subseteq Items
    /\ module_permissions \subseteq ModulePermission
    /\ role_permissions \subseteq Roles \X module_permissions
    /\ batch \in 1 .. MaxWrites + 1
    /\ rbacModules \subseteq Modules
    /\ rbacMenu \in [Roles -> Menus \cup {None}]
    /\ permRoles \in [Roles -> KeySets \cup {None}]
    /\ pc \in [Requests -> Labels]
    /\ local \in [Requests -> Local]
    /\ writes \in 0 .. MaxWrites /\ aborts \in 0 .. MaxAborts
    /\ asked \in [Roles -> SUBSET Pairs]
    /\ pastKeys \in [Roles -> SUBSET KeySets]
    /\ overlapped \in BOOLEAN

GrantedUnlessDropped(role) ==
    [granted |-> {p \in Permissions : \E rp \in role_permissions : rp[1] = role /\ rp[2][2][2] = p}]
\* The guard's one query: role, role_permissions, module_permissions and the
\* active permissions joined; whether the role or module is active is not asked.
Granted(role) ==
    [granted |-> {p \in Permissions \cap active :
                     \E rp \in role_permissions : rp[1] = role /\ rp[2][2][2] = p}]

\* The pairs a role holds, and their active permissions.
Holds(role) == {rp[2][2] : rp \in {x \in role_permissions : x[1] = role}}
HeldKeys(role) == [granted |-> {pair[2] : pair \in Holds(role)} \cap active]

Init ==
    /\ known = Items \ Missing /\ active = known
    /\ module_permissions = {0} \X {pair \in Pairs : {pair[1], pair[2]} \subseteq known}
    /\ role_permissions \in SUBSET ((Roles \cap known) \X module_permissions)
    /\ batch = 1
    /\ rbacModules = {}
    /\ rbacMenu = [r \in Roles |-> None]
    /\ permRoles = [r \in Roles |-> None]
    /\ pc = [q \in Requests |-> "idle"]
    /\ local = [q \in Requests |-> NoLocal]
    /\ writes = 0 /\ aborts = 0
    /\ asked = [r \in Roles |-> Holds(r)]
    /\ pastKeys = [r \in Roles |-> {HeldKeys(r)}]
    /\ overlapped = FALSE

\* Another request is in progress.
Overlaps(q) == \E p \in Requests \ {q} : pc[p] # "idle"
Goto(q, label) ==
    /\ pc' = [pc EXCEPT ![q] = label]
    /\ overlapped' = (overlapped \/ (label # "idle" /\ Overlaps(q)))
Finish(q) == Goto(q, "idle") /\ local' = [local EXCEPT ![q] = NoLocal]
At(q, label) == pc[q] = label
\* After a write to the tables nothing that was read is needed any more.
Written(q) == Goto(q, "clear") /\ local' = [local EXCEPT ![q] = NoLocal]
Begin(q, label, op, i, pairs, flag) ==
    /\ pc[q] = "idle"
    /\ Goto(q, label)
    /\ local' = [local EXCEPT ![q] = [NoLocal EXCEPT !.op = op, !.item = i,
                                                      !.pairs = pairs, !.flag = flag]]
    /\ IF op \in {"guard", "menu", "getModule"} THEN UNCHANGED writes
       ELSE writes < MaxWrites /\ writes' = writes + 1
    /\ UNCHANGED <<tables, caches, aborts>>
\* After a step that changed the tables: the key sets roles grant from now on.
RecordKeys ==
    pastKeys' = [r \in Roles |-> pastKeys[r] \cup {HeldKeys(r)'}]

-----------------------------------------------------------------------------
(* Modules, permissions and roles: create, update and delete               *)

OnNew(q, i, flag) == Begin(q, "findKey", "create", i, {}, flag)

\* The look-up of the key, and the unique index in case it was too early.
FindKey(q) ==
    /\ At(q, "findKey")
    /\ IF local[q].item \in known THEN Finish(q) ELSE Goto(q, "create") /\ UNCHANGED local
    /\ UNCHANGED <<tables, caches, writes, aborts>>

CreateItem(q) ==
    /\ At(q, "create") /\ local[q].item \notin known
    /\ known' = known \cup {local[q].item}
    /\ active' = IF local[q].flag THEN active \cup {local[q].item} ELSE active
    /\ Written(q)
    /\ UNCHANGED <<module_permissions, role_permissions, batch, asked>> /\ RecordKeys
    /\ UNCHANGED <<caches, writes, aborts>>

\* What an operation on a module does once it has the module.
AfterModule(op) ==
    CASE op = "assign" -> "check" [] op = "getModule" -> "idle" [] OTHER -> "save"

\* getModuleById reads through rbac:modules:<id>.
OnModule(q, op, m, pairs, flag) ==
    /\ op \in {"save", "assign", "getModule"}
    /\ op # "save" => flag
    /\ op = "getModule" => m \notin rbacModules
    /\ \A pair \in pairs : pair[1] = m
    /\ op = "assign" <=> pairs # {}
    /\ Begin(q, IF m \in rbacModules THEN AfterModule(op) ELSE "load", op, m, pairs, flag)

LoadModule(q) ==
    /\ At(q, "load")
    /\ IF local[q].item \in active THEN Goto(q, "fill") /\ UNCHANGED local ELSE Finish(q)
    /\ UNCHANGED <<tables, caches, writes, aborts>>

FillModule(q) ==
    /\ At(q, "fill")
    /\ rbacModules' = rbacModules \cup {local[q].item}
    /\ IF local[q].op = "getModule" THEN Finish(q)
       ELSE Goto(q, AfterModule(local[q].op)) /\ UNCHANGED local
    /\ UNCHANGED <<tables, rbacMenu, permRoles, writes, aborts>>

\* getPermissionById wants it active, getRoleById does not.
OnPermission(q, p, flag) == p \in active /\ Begin(q, "save", "save", p, {}, flag)
OnRole(q, r, flag) == r \in known /\ Begin(q, "save", "save", r, {}, flag)

\* An update saves the entity it loaded: the flag is the DTO's, or that of the
\* loaded row.  A deletion writes FALSE, and nothing else that matters here.
SaveItem(q) ==
    /\ At(q, "save")
    /\ active' = IF local[q].flag
                 THEN active \cup {local[q].item} ELSE active \ {local[q].item}
    /\ Written(q)
    /\ UNCHANGED <<known, module_permissions, role_permissions, batch, asked>> /\ RecordKeys
    /\ UNCHANGED <<caches, writes, aborts>>

\* clearRbacCache: DEL of rbac:*.
ClearModules == rbacModules' = {} /\ UNCHANGED rbacMenu
Clear == rbacModules' = {} /\ rbacMenu' = [r \in Roles |-> None]

ClearRbacCache(q) ==
    /\ At(q, "clear")
    /\ Clear
    /\ Finish(q)
    /\ UNCHANGED <<tables, permRoles, writes, aborts>>

-----------------------------------------------------------------------------
(* assignModulePermissions and updateRolePermissions                       *)

OnRoleGrants(q, r, pairs) == r \in known /\ Begin(q, "check", "grant", r, pairs, TRUE)

RowsOf(pairs) == {mp \in module_permissions : mp[2] \in pairs}

\* All permissions are active; all pairs are assigned to their modules.
Check(q) ==
    LET l == local[q]
    IN  /\ At(q, "check")
        /\ \/ /\ l.op = "assign" /\ \A pair \in l.pairs : pair[2] \in active
              /\ UNCHANGED local
           \/ /\ l.op = "grant" /\ \A pair \in l.pairs : RowsOf({pair}) # {}
              /\ local' = [local EXCEPT ![q].rows = RowsOf(l.pairs)]
        /\ Goto(q, "wipe")
        /\ UNCHANGED <<tables, caches, writes, aborts>>

\* ON DELETE CASCADE: role_permissions lose the rows whose module permission goes.
Cascade(mps) == {rp \in role_permissions : rp[2] \notin mps}

WipesNothing(r) == role_permissions
WithoutRole(r) == {rp \in role_permissions : rp[1] # r}

Wipe(q) ==
    LET l == local[q]
        mps == {mp \in module_permissions : mp[2][1] = l.item}
    IN  /\ At(q, "wipe")
        /\ \/ /\ l.op = "assign"
              /\ module_permissions' = module_permissions \ mps
              /\ role_permissions' = Cascade(mps)
              /\ asked' = [r \in Roles |-> {pair \in asked[r] : pair[1] # l.item}]
           \/ /\ l.op = "grant"
              /\ role_permissions' = WithoutRole(l.item)
              /\ asked' = [asked EXCEPT ![l.item] = l.pairs]
              /\ UNCHANGED module_permissions
        /\ Goto(q, "insert")
        /\ UNCHANGED <<known, active, batch>> /\ RecordKeys
        /\ UNCHANGED <<caches, local, writes, aborts>>

\* The unique indexes and foreign keys: an INSERT that meets a pair that is
\* there already, or a row that is gone, throws.
Insert(q) ==
    LET l == local[q]
        new == IF l.op = "assign" THEN {batch} \X l.pairs ELSE {l.item} \X l.rows
    IN  /\ At(q, "insert")
        /\ \/ /\ l.op = "assign" /\ RowsOf(l.pairs) = {}
              /\ module_permissions' = module_permissions \cup new
              /\ batch' = batch + 1
              /\ UNCHANGED role_permissions
           \/ /\ l.op = "grant" /\ l.rows \subseteq module_permissions
              /\ new \cap role_permissions = {}
              /\ role_permissions' = role_permissions \cup new
              /\ UNCHANGED <<module_permissions, batch>>
        /\ Written(q)
        /\ UNCHANGED <<known, active, asked>> /\ RecordKeys
        /\ UNCHANGED <<caches, writes, aborts>>

\* A check or an INSERT fails.
Refuse(q) ==
    LET l == local[q]
    IN  /\ \/ At(q, "create") /\ l.item \in known
           \/ /\ At(q, "check")
              /\ \E pair \in l.pairs : IF l.op = "assign" THEN pair[2] \notin active
                                       ELSE RowsOf({pair}) = {}
           \/ /\ At(q, "insert")
              /\ IF l.op = "assign" THEN RowsOf(l.pairs) # {}
                 ELSE \/ ~(l.rows \subseteq module_permissions)
                      \/ ({l.item} \X l.rows) \cap role_permissions # {}
        /\ Finish(q)
        /\ UNCHANGED <<tables, caches, writes, aborts>>

-----------------------------------------------------------------------------
(* PermissionsGuard and getMyPermissions                                   *)

Guard(q, r) ==
    /\ r \in known /\ permRoles[r] = None
    /\ Begin(q, "query", "guard", r, {}, TRUE)

\* What the guard read travels as the pairs it came from.
QueryKeys(q) ==
    /\ At(q, "query")
    /\ local' = [local EXCEPT ![q].pairs =
                    Modules \X Granted(local[q].item).granted]
    /\ Goto(q, "store")
    /\ UNCHANGED <<tables, caches, writes, aborts>>

MyPermissions(q, r) ==
    /\ r \in known /\ rbacMenu[r] = None
    /\ Begin(q, "modules", "menu", r, {}, TRUE)

\* getRoleModulesWithPermissions: three queries, one after the other.
QueryModules(q) ==
    /\ At(q, "modules")
    /\ local' = [local EXCEPT ![q].modules = Modules \cap active]
    /\ Goto(q, "rows")
    /\ UNCHANGED <<tables, caches, writes, aborts>>

QueryRows(q) ==
    /\ At(q, "rows")
    /\ local' = [local EXCEPT ![q].rows = module_permissions]
    /\ Goto(q, "grants")
    /\ UNCHANGED <<tables, caches, writes, aborts>>

QueryGrants(q) ==
    /\ At(q, "grants")
    /\ local' = [local EXCEPT ![q].rows = {}, ![q].modules = {}, ![q].pairs =
                    {mp[2] : mp \in {x \in local[q].rows :
                        x[2][1] \in local[q].modules /\ <<local[q].item, x>> \in role_permissions}}]
    /\ Goto(q, "store")
    /\ UNCHANGED <<tables, caches, writes, aborts>>

Store(q) ==
    LET l == local[q]
    IN  /\ At(q, "store")
        /\ \/ /\ l.op = "guard"
              /\ permRoles' = [permRoles EXCEPT ![l.item] = [granted |-> {pair[2] : pair \in l.pairs}]]
              /\ UNCHANGED rbacMenu
           \/ /\ l.op = "menu"
              /\ rbacMenu' = [rbacMenu EXCEPT ![l.item] = [shown |-> l.pairs]]
              /\ UNCHANGED permRoles
        /\ Finish(q)
        /\ UNCHANGED <<tables, rbacModules, writes, aborts>>

-----------------------------------------------------------------------------
(* Time and faults                                                         *)

\* Each key lives 300 seconds.
KeysExpire(r) ==
    permRoles[r] # None /\ permRoles' = [permRoles EXCEPT ![r] = None] /\ UNCHANGED <<rbacMenu, rbacModules>>
MenuExpires(r) ==
    rbacMenu[r] # None /\ rbacMenu' = [rbacMenu EXCEPT ![r] = None] /\ UNCHANGED <<permRoles, rbacModules>>
ModuleExpires(m) ==
    m \in rbacModules /\ rbacModules' = rbacModules \ {m} /\ UNCHANGED <<permRoles, rbacMenu>>

ExpireKeys(r) == KeysExpire(r) /\ UNCHANGED <<tables, pc, local, writes, aborts, overlapped>>
ExpireOther ==
    /\ (\E r \in Roles : MenuExpires(r)) \/ \E m \in Modules : ModuleExpires(m)
    /\ UNCHANGED <<tables, pc, local, writes, aborts, overlapped>>

\* The process dies, or Redis or PostgreSQL refuses the next command.
Abort(q) ==
    /\ ~At(q, "idle") /\ aborts < MaxAborts
    /\ aborts' = aborts + 1
    /\ Finish(q)
    /\ UNCHANGED <<tables, caches, writes>>

Arrive(q) ==
    \/ \E i \in Missing, flag \in BOOLEAN : OnNew(q, i, flag)
    \/ \E m \in Modules, op \in {"save", "getModule"}, flag \in BOOLEAN :
          OnModule(q, op, m, {}, flag)
    \/ \E m \in Modules, pairs \in SUBSET Pairs : OnModule(q, "assign", m, pairs, TRUE)
    \/ \E flag \in BOOLEAN :
          \/ \E p \in Permissions : OnPermission(q, p, flag)
          \/ \E r \in Roles : OnRole(q, r, flag)
    \/ \E r \in Roles : \/ \E pairs \in SUBSET Pairs : OnRoleGrants(q, r, pairs)
                        \/ Guard(q, r)
                        \/ MyPermissions(q, r)

Continue(q) ==
    \/ FindKey(q) \/ CreateItem(q) \/ LoadModule(q) \/ FillModule(q) \/ SaveItem(q) \/ ClearRbacCache(q)
    \/ Check(q) \/ Wipe(q) \/ Insert(q) \/ Refuse(q)
    \/ QueryKeys(q) \/ QueryModules(q) \/ QueryRows(q) \/ QueryGrants(q) \/ Store(q)

Next ==
    \/ \E q \in Requests : (At(q, "idle") /\ Arrive(q)) \/ Continue(q) \/ Abort(q)
    \/ \E r \in Roles : ExpireKeys(r)
    \/ ExpireOther

Spec == Init /\ [][Next]_vars

-----------------------------------------------------------------------------
(* Properties                                                              *)

\* The guard decides on a set of keys that the role granted at one moment: it
\* never combines two states of the tables, and no role gains a key by a grant
\* of a permission that is not active.
GuardKeysWereGranted ==
    \A r \in Roles : permRoles[r] # None => permRoles[r] \in pastKeys[r]

\* As long as requests have not overlapped and none has died, a role holds
\* exactly what it was last asked to hold, less what a reassignment of a module
\* has taken from every role.
GrantsAsAsked ==
    ~overlapped /\ aborts = 0 /\ (\A q \in Requests : At(q, "idle"))
        => \A r \in Roles : Holds(r) = asked[r]

\* What the menu shows when nobody changes the tables meanwhile.
Menu(role) == [shown |-> {pair \in Holds(role) : pair[1] \in active}]

\* Every write clears what it has made stale: as long as requests have not
\* overlapped and none has died, a cached menu shows what the role holds, and a
\* module that is cached as active is active.
MenusAreCurrent ==
    ~overlapped /\ aborts = 0 /\ (\A q \in Requests : At(q, "idle"))
        => /\ \A r \in Roles : rbacMenu[r] \in {None, Menu(r)}
           /\ rbacModules \subseteq active
=============================================================================
