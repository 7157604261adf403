------------------------- MODULE PermissionsProofs -------------------------
(***************************************************************************)
(* The guard of Permissions decides on key sets that roles did grant, for  *)
(* any number of overlapping and dying requests.  What a request holds     *)
(* between its awaits must be known for that: Fits says it.  For requests  *)
(* that do not overlap, roles hold what they were asked to hold and cached *)
(* menus show it: Told says what is true at each await.  The types need a  *)
(* count: every assignment in progress has a batch of ids left for it.     *)
(***************************************************************************)
EXTENDS Permissions, FiniteSetTheorems, TLAPS

\* A row of module_permissions, whatever its batch, and what a request holds.
AnyRow == Int \X Pairs
Flags == BOOLEAN
Held == [op : Operations, item : Items \cup {None}, pairs : SUBSET Pairs, flag : Flags,
         rows : SUBSET AnyRow, modules : SUBSET Modules]

TablesShape ==
    /\ module_permissions \subseteq AnyRow
    /\ role_permissions \subseteq Roles \X AnyRow
    /\ batch \in Int
    /\ DOMAIN pastKeys = Roles

Shape ==
    /\ TablesShape
    /\ permRoles \in [Roles -> KeySets \cup {None}]
    /\ pc \in [Requests -> Labels]
    /\ local \in [Requests -> Held]

KeysOf(l) == [granted |-> {pair[2] : pair \in l.pairs}]

\* What is known of a request that stands at a label: requests for a role have
\* one, and a guard past its query holds keys that the role has granted.
Fits(label, l) ==
    /\ label # "idle" /\ l.op \in {"grant", "guard", "menu"} => l.item \in Roles
    /\ label = "query" => l.op = "guard"
    /\ label \in {"modules", "rows", "grants"} => l.op = "menu"
    /\ label = "store" /\ l.op = "guard" => KeysOf(l) \in pastKeys[l.item]

Recorded == \A r \in Roles : HeldKeys(r) \in pastKeys[r]

GuardInv ==
    /\ Shape
    /\ Recorded
    /\ \A q \in Requests : Fits(pc[q], local[q])
    /\ GuardKeysWereGranted

-----------------------------------------------------------------------------
(* Lemmas                                                                  *)

LEMMA NoLocalHeld == NoLocal \in Held
<1>1. TRUE \in Flags
  BY Zenon DEF Flags
<1> QED
  BY <1>1 DEF NoLocal, Held, Operations

\* The guard's query finds the active permissions of the pairs the role holds.
LEMMA GrantedIsHeld ==
  ASSUME TablesShape, NEW r \in Roles
  PROVE  Granted(r) = HeldKeys(r)
<1>1. ASSUME NEW rp \in role_permissions
      PROVE  rp[2][2][2] \in Permissions
  BY <1>1 DEF TablesShape, AnyRow, Pairs
<1>2. Granted(r).granted = HeldKeys(r).granted
  BY <1>1 DEF Granted, HeldKeys, Holds
<1> QED
  BY <1>2 DEF Granted, HeldKeys

\* Carrying keys as the pairs of all modules with them loses nothing, because
\* a key is only held through a module.
LEMMA KeysTravel ==
  ASSUME TablesShape, NEW r \in Roles, NEW l,
         l.pairs = Modules \X Granted(r).granted
  PROVE  KeysOf(l) = HeldKeys(r)
<1>1. ASSUME NEW p \in Granted(r).granted
      PROVE  \E m \in Modules : TRUE
  BY <1>1 DEF Granted, TablesShape, AnyRow, Pairs
<1>2. ASSUME NEW p \in Granted(r).granted
      PROVE  p \in {pair[2] : pair \in l.pairs}
  <2>1. PICK m \in Modules : TRUE
    BY <1>1, <1>2
  <2>2. <<m, p>> \in l.pairs /\ <<m, p>>[2] = p
    BY <1>2
  <2> QED
    BY <2>2
<1>3. {pair[2] : pair \in l.pairs} \subseteq Granted(r).granted
  OBVIOUS
<1>4. {pair[2] : pair \in l.pairs} = Granted(r).granted
  BY <1>2, <1>3
<1> QED
  BY <1>4, GrantedIsHeld DEF KeysOf, Granted, HeldKeys

\* One request moves on, key sets are only added, and the guard's cache stays.
LEMMA Moves ==
  ASSUME GuardInv, TablesShape', Recorded', permRoles' = permRoles,
         \A r \in Roles : pastKeys[r] \subseteq pastKeys'[r],
         NEW q \in Requests, NEW label \in Labels, NEW l \in Held,
         pc' = [pc EXCEPT ![q] = label], local' = [local EXCEPT ![q] = l],
         Fits(label, l)
  PROVE  GuardInv'
<1>1. Shape'
  BY DEF GuardInv, Shape
<1>2. ASSUME NEW x \in Requests
      PROVE  Fits(pc[x], local[x])'
  <2>1. CASE x = q
    <3>1. pc'[x] = label /\ local'[x] = l
      BY <2>1 DEF GuardInv, Shape
    <3> QED
      BY <3>1 DEF Fits, KeysOf, Held
  <2>2. CASE x # q
    <3>1. pc'[x] = pc[x] /\ local'[x] = local[x]
      BY <2>2 DEF GuardInv, Shape
    <3> QED
      BY <3>1, <1>2 DEF GuardInv, Fits, KeysOf, Shape
  <2> QED
    BY <2>1, <2>2
<1>3. GuardKeysWereGranted'
  BY DEF GuardInv, GuardKeysWereGranted
<1> QED
  BY <1>1, <1>2, <1>3 DEF GuardInv

\* A step that leaves the tables alone grants what was granted.
LEMMA TablesStay ==
  ASSUME GuardInv, UNCHANGED tables
  PROVE  TablesShape' /\ Recorded' /\ \A r \in Roles : pastKeys[r] \subseteq pastKeys'[r]
BY DEF GuardInv, Shape, TablesShape, Recorded, HeldKeys, Holds, tables

\* RecordKeys adds what the tables grant after the step.
LEMMA KeysRecorded ==
  ASSUME GuardInv, RecordKeys
  PROVE  /\ Recorded' /\ DOMAIN pastKeys' = Roles
         /\ \A r \in Roles : pastKeys[r] \subseteq pastKeys'[r]
BY DEF RecordKeys, Recorded

LEMMA LocalStays ==
  ASSUME GuardInv, NEW q \in Requests, NEW label \in Labels, Goto(q, label), UNCHANGED local
  PROVE  /\ pc' = [pc EXCEPT ![q] = label]
         /\ local' = [local EXCEPT ![q] = local[q]] /\ local[q] \in Held
BY DEF GuardInv, Shape, Goto

\* A request that ends, or gives up, holds nothing.
LEMMA Ends ==
  ASSUME GuardInv, NEW q \in Requests, Finish(q), UNCHANGED <<tables, permRoles>>
  PROVE  GuardInv'
<1>1. pc' = [pc EXCEPT ![q] = "idle"] /\ local' = [local EXCEPT ![q] = NoLocal]
  BY DEF Finish, Goto
<1>2. Fits("idle", NoLocal)
  BY DEF Fits
<1> QED
  BY <1>1, <1>2, NoLocalHeld, TablesStay, Moves DEF Labels

\* A request that has written to the tables goes on to clear the cache.
LEMMA Writes ==
  ASSUME GuardInv, NEW q \in Requests, Written(q), TablesShape', Recorded', permRoles' = permRoles,
         \A r \in Roles : pastKeys[r] \subseteq pastKeys'[r]
  PROVE  GuardInv'
<1>1. pc' = [pc EXCEPT ![q] = "clear"] /\ local' = [local EXCEPT ![q] = NoLocal]
  BY DEF Written, Goto
<1>2. Fits("clear", NoLocal)
  BY DEF Fits, NoLocal
<1> QED
  BY <1>1, <1>2, NoLocalHeld, Moves DEF Labels

-----------------------------------------------------------------------------
(* Requests that arrive                                                    *)

LEMMA Begins ==
  ASSUME GuardInv, NEW q \in Requests, NEW label \in Labels, NEW op \in Operations,
         NEW i \in Items \cup {None}, NEW pairs \in SUBSET Pairs, NEW flag \in Flags,
         Begin(q, label, op, i, pairs, flag),
         op \in {"grant", "guard", "menu"} => i \in Roles,
         label = "query" => op = "guard",
         label \in {"modules", "rows", "grants"} => op = "menu",
         label # "store"
  PROVE  GuardInv'
<1> DEFINE l == [NoLocal EXCEPT !.op = op, !.item = i, !.pairs = pairs, !.flag = flag]
<1>1. l \in Held /\ l.op = op /\ l.item = i
  BY NoLocalHeld DEF Held
<1>2. Fits(label, l)
  BY <1>1 DEF Fits
<1>3. pc' = [pc EXCEPT ![q] = label] /\ local' = [local EXCEPT ![q] = l]
  BY DEF Begin, Goto
<1>4. UNCHANGED tables /\ permRoles' = permRoles
  BY DEF Begin, caches
<1> HIDE DEF l
<1> QED
  BY <1>1, <1>2, <1>3, <1>4, TablesStay, Moves

LEMMA AfterModuleIsALabel ==
  ASSUME NEW op
  PROVE  AfterModule(op) \in {"check", "idle", "save"}
BY DEF AfterModule

LEMMA Arrivals ==
  ASSUME GuardInv, NEW q \in Requests, Arrive(q)
  PROVE  GuardInv'
<1>f. TRUE \in Flags /\ \A flag \in BOOLEAN : flag \in Flags
  BY Zenon DEF Flags
<1>1. ASSUME NEW m \in Modules, NEW op \in Operations \ {"grant", "guard", "menu"},
             NEW pairs \in SUBSET Pairs, NEW flag \in Flags, OnModule(q, op, m, pairs, flag)
      PROVE  GuardInv'
  <2>1. PICK label \in {"load", "check", "idle", "save"} : Begin(q, label, op, m, pairs, flag)
    BY <1>1, AfterModuleIsALabel DEF OnModule
  <2> QED
    BY <1>1, <2>1, Begins DEF Labels, Items
<1>2. ASSUME NEW p \in Permissions, NEW flag \in Flags, OnPermission(q, p, flag)
      PROVE  GuardInv'
  BY <1>2, Begins DEF OnPermission, Labels, Items, Operations
<1>3. ASSUME NEW r \in Roles, NEW flag \in Flags, OnRole(q, r, flag)
      PROVE  GuardInv'
  BY <1>3, Begins DEF OnRole, Labels, Items, Operations
<1>4. ASSUME NEW r \in Roles, NEW pairs \in SUBSET Pairs, OnRoleGrants(q, r, pairs)
      PROVE  GuardInv'
  BY <1>4, <1>f, Begins DEF OnRoleGrants, Labels, Items, Operations
<1>5. ASSUME NEW r \in Roles, Guard(q, r) \/ MyPermissions(q, r)
      PROVE  GuardInv'
  BY <1>5, <1>f, Begins DEF Guard, MyPermissions, Labels, Items, Operations
<1>6. {} \in SUBSET Pairs /\ {"save", "getModule", "assign"} \subseteq
          Operations \ {"grant", "guard", "menu"}
  BY DEF Operations
<1>7. ASSUME NEW i \in Missing, NEW flag \in Flags, OnNew(q, i, flag)
      PROVE  GuardInv'
  <2>1. i \in Items \cup {None} /\ {} \in SUBSET Pairs
    BY ConstantsAssumption
  <2> QED
    BY <1>7, <2>1, Begins DEF OnNew, Labels, Operations
<1> QED
  BY <1>1, <1>2, <1>3, <1>4, <1>5, <1>6, <1>7, <1>f, Zenon DEF Arrive

-----------------------------------------------------------------------------
(* Requests that go on                                                     *)

LEMMA ItemSteps ==
  ASSUME GuardInv, NEW q \in Requests,
         \/ FindKey(q) \/ CreateItem(q)
         \/ LoadModule(q) \/ FillModule(q) \/ SaveItem(q) \/ ClearRbacCache(q)
  PROVE  GuardInv'
<1>h. local[q] \in Held
  BY DEF GuardInv, Shape
<1>1. CASE LoadModule(q)
  <2>1. CASE Goto(q, "fill") /\ UNCHANGED local
    <3>1. Fits("fill", local[q])
      BY <1>1 DEF LoadModule, At, GuardInv, Fits
    <3> QED
      BY <1>1, <2>1, <3>1, LocalStays, TablesStay, Moves DEF LoadModule, caches, Labels
  <2> QED
    BY <1>1, <2>1, Ends DEF LoadModule, caches
<1>2. CASE FillModule(q)
  <2>1. CASE Goto(q, AfterModule(local[q].op)) /\ UNCHANGED local
    <3>1. PICK label \in {"check", "idle", "save"} : label = AfterModule(local[q].op)
      BY AfterModuleIsALabel
    <3>2. Fits(label, local[q])
      BY <1>2 DEF FillModule, At, GuardInv, Fits
    <3> QED
      BY <1>2, <2>1, <3>1, <3>2, LocalStays, TablesStay, Moves DEF FillModule, Labels
  <2> QED
    BY <1>2, <2>1, Ends DEF FillModule
<1>3. CASE SaveItem(q)
  <2>1. TablesShape'
    BY <1>3, KeysRecorded DEF SaveItem, GuardInv, Shape, TablesShape
  <2> QED
    BY <1>3, <2>1, Writes, KeysRecorded DEF SaveItem, caches
<1>4. CASE ClearRbacCache(q)
  BY <1>4, Ends DEF ClearRbacCache
<1>5. CASE FindKey(q)
  <2>1. CASE Goto(q, "create") /\ UNCHANGED local
    <3>1. Fits("create", local[q])
      BY <1>5 DEF FindKey, At, GuardInv, Fits
    <3> QED
      BY <1>5, <2>1, <3>1, LocalStays, TablesStay, Moves DEF FindKey, caches, Labels
  <2> QED
    BY <1>5, <2>1, Ends DEF FindKey, caches
<1>6. CASE CreateItem(q)
  <2>1. TablesShape'
    BY <1>6, KeysRecorded DEF CreateItem, GuardInv, Shape, TablesShape
  <2> QED
    BY <1>6, <2>1, Writes, KeysRecorded DEF CreateItem, caches
<1> QED
  BY <1>1, <1>2, <1>3, <1>4, <1>5, <1>6

LEMMA GrantSteps ==
  ASSUME GuardInv, NEW q \in Requests,
         Check(q) \/ Wipe(q) \/ Insert(q) \/ Refuse(q)
  PROVE  GuardInv'
<1>h. local[q] \in Held /\ Fits(pc[q], local[q])
  BY DEF GuardInv, Shape
<1>1. CASE Check(q)
  <2>1. PICK l \in Held : /\ local' = [local EXCEPT ![q] = l]
                          /\ l.op = local[q].op /\ l.item = local[q].item
    <3>1. CASE UNCHANGED local
      BY <1>h, <3>1 DEF GuardInv, Shape
    <3>2. CASE local' = [local EXCEPT ![q].rows = RowsOf(local[q].pairs)]
      <4> DEFINE l == [local[q] EXCEPT !.rows = RowsOf(local[q].pairs)]
      <4>1. RowsOf(local[q].pairs) \subseteq AnyRow
        BY DEF RowsOf, GuardInv, Shape, TablesShape
      <4>2. l \in Held /\ l.op = local[q].op /\ l.item = local[q].item
        BY <1>h, <4>1 DEF Held
      <4> QED
        BY <3>2, <4>2
    <3> QED
      BY <1>1, <3>1, <3>2 DEF Check
  <2>2. Fits("wipe", l)
    BY <1>1, <1>h, <2>1 DEF Check, At, Fits
  <2> QED
    BY <1>1, <2>1, <2>2, TablesStay, Moves DEF Check, Goto, caches, Labels
<1>2. CASE Wipe(q)
  <2>1. Fits("insert", local[q])
    BY <1>2, <1>h DEF Wipe, At, Fits
  <2>2. TablesShape'
    BY <1>2, KeysRecorded DEF Wipe, Cascade, WithoutRole, GuardInv, Shape, TablesShape
  <2> QED
    BY <1>2, <2>1, <2>2, LocalStays, KeysRecorded, Moves DEF Wipe, caches, Labels
<1>3. CASE Insert(q)
  <2>2. ASSUME local[q].op = "grant"
        PROVE  local[q].item \in Roles
    BY <1>3, <1>h, <2>2 DEF Insert, At, Fits
  <2>3. TablesShape'
    <3>1. {batch} \X local[q].pairs \subseteq AnyRow
      BY <1>h DEF Held, AnyRow, GuardInv, Shape, TablesShape
    <3>2. local[q].rows \subseteq AnyRow
      BY <1>h DEF Held
    <3>3. CASE /\ local[q].op = "assign" /\ batch' = batch + 1
               /\ module_permissions' = module_permissions \cup ({batch} \X local[q].pairs)
               /\ UNCHANGED role_permissions
      BY <1>3, <3>1, <3>3, KeysRecorded DEF Insert, GuardInv, Shape, TablesShape
    <3>4. CASE /\ local[q].op = "grant" /\ UNCHANGED <<module_permissions, batch>>
               /\ role_permissions' = role_permissions \cup ({local[q].item} \X local[q].rows)
      BY <1>3, <2>2, <3>2, <3>4, KeysRecorded DEF Insert, GuardInv, Shape, TablesShape
    <3> QED
      BY <1>3, <3>3, <3>4 DEF Insert
  <2> QED
    BY <1>3, <2>3, Writes, KeysRecorded DEF Insert, caches
<1>4. CASE Refuse(q)
  BY <1>4, Ends DEF Refuse, caches
<1> QED
  BY <1>1, <1>2, <1>3, <1>4

LEMMA QuerySteps ==
  ASSUME GuardInv, NEW q \in Requests,
         QueryKeys(q) \/ QueryModules(q) \/ QueryRows(q) \/ QueryGrants(q)
  PROVE  GuardInv'
<1>h. local[q] \in Held /\ Fits(pc[q], local[q]) /\ TablesShape
  BY DEF GuardInv, Shape
<1>1. CASE QueryKeys(q)
  <2> DEFINE l == [local[q] EXCEPT !.pairs = Modules \X Granted(local[q].item).granted]
  <2>1. local[q].op = "guard" /\ local[q].item \in Roles
    BY <1>1, <1>h DEF QueryKeys, At, Fits
  <2>2. Granted(local[q].item).granted \subseteq Permissions
    BY DEF Granted
  <2>3. l \in Held /\ l.op = "guard" /\ l.item = local[q].item
        /\ l.pairs = Modules \X Granted(local[q].item).granted
    BY <1>h, <2>1, <2>2 DEF Held, Pairs
  <2>4. local' = [local EXCEPT ![q] = l]
    BY <1>1 DEF QueryKeys
  <2> HIDE DEF l
  <2>5. KeysOf(l) \in pastKeys[l.item]
    BY <1>h, <2>1, <2>3, KeysTravel DEF GuardInv, Recorded
  <2>6. Fits("store", l)
    BY <2>1, <2>3, <2>5 DEF Fits
  <2> QED
    BY <1>1, <2>3, <2>4, <2>6, TablesStay, Moves DEF QueryKeys, Goto, caches, Labels
<1>2. CASE QueryModules(q)
  <2> DEFINE l == [local[q] EXCEPT !.modules = Modules \cap active]
  <2>1. l \in Held /\ l.op = local[q].op /\ l.item = local[q].item
    BY <1>h DEF Held
  <2>2. local' = [local EXCEPT ![q] = l]
    BY <1>2 DEF QueryModules
  <2> HIDE DEF l
  <2>3. Fits("rows", l)
    BY <1>2, <1>h, <2>1 DEF QueryModules, At, Fits
  <2> QED
    BY <1>2, <2>1, <2>2, <2>3, TablesStay, Moves DEF QueryModules, Goto, caches, Labels
<1>3. CASE QueryRows(q)
  <2> DEFINE l == [local[q] EXCEPT !.rows = module_permissions]
  <2>1. l \in Held /\ l.op = local[q].op /\ l.item = local[q].item
    BY <1>h DEF Held, TablesShape
  <2>2. local' = [local EXCEPT ![q] = l]
    BY <1>3 DEF QueryRows
  <2> HIDE DEF l
  <2>3. Fits("grants", l)
    BY <1>3, <1>h, <2>1 DEF QueryRows, At, Fits
  <2> QED
    BY <1>3, <2>1, <2>2, <2>3, TablesStay, Moves DEF QueryRows, Goto, caches, Labels
<1>4. CASE QueryGrants(q)
  <2> DEFINE shown == {mp[2] : mp \in {x \in local[q].rows :
                x[2][1] \in local[q].modules /\ <<local[q].item, x>> \in role_permissions}}
             l == [local[q] EXCEPT !.rows = {}, !.modules = {}, !.pairs = shown]
  <2>1. shown \subseteq Pairs
    BY <1>h DEF Held, AnyRow
  <2>2. local' = [local EXCEPT ![q] = l]
    BY <1>4 DEF QueryGrants
  <2> HIDE DEF shown
  <2>3. l \in Held /\ l.op = local[q].op /\ l.item = local[q].item
    BY <1>h, <2>1 DEF Held
  <2> HIDE DEF l
  <2>4. Fits("store", l)
    BY <1>4, <1>h, <2>3 DEF QueryGrants, At, Fits
  <2> QED
    BY <1>4, <2>2, <2>3, <2>4, TablesStay, Moves DEF QueryGrants, Goto, caches, Labels
<1> QED
  BY <1>1, <1>2, <1>3, <1>4

-----------------------------------------------------------------------------
(* The guard's cache changes                                               *)

LEMMA CacheSteps ==
  ASSUME GuardInv,
         \/ \E q \in Requests : Store(q)
         \/ \E r \in Roles : ExpireKeys(r)
         \/ ExpireOther
         \/ UNCHANGED vars
  PROVE  GuardInv'
<1>t. UNCHANGED tables
  BY DEF Store, ExpireKeys, ExpireOther, vars
<1>1. ASSUME NEW q \in Requests, Store(q)
      PROVE  GuardInv'
  <2>h. local[q] \in Held /\ Fits("store", local[q])
    BY <1>1 DEF Store, At, GuardInv, Shape
  <2>1. CASE /\ local[q].op = "guard"
             /\ permRoles' = [permRoles EXCEPT ![local[q].item] = KeysOf(local[q])]
    <3>1. KeysOf(local[q]) \in KeySets /\ local[q].item \in Roles
      BY <2>h, <2>1 DEF Held, Pairs, KeysOf, KeySets, Fits
    <3>2. permRoles' \in [Roles -> KeySets \cup {None}] /\ GuardKeysWereGranted'
      BY <1>t, <2>h, <2>1, <3>1 DEF GuardInv, Shape, GuardKeysWereGranted, Fits, tables
    <3>3. pc' = [pc EXCEPT ![q] = "idle"] /\ local' = [local EXCEPT ![q] = NoLocal]
      BY <1>1 DEF Store, Finish, Goto
    <3>4. \A x \in Requests : Fits(pc[x], local[x])'
      BY <1>t, <3>3 DEF GuardInv, Shape, Fits, KeysOf, tables
    <3>5. pc' \in [Requests -> Labels] /\ local' \in [Requests -> Held]
      BY <3>3, NoLocalHeld DEF GuardInv, Shape, Labels
    <3> QED
      BY <1>t, <3>2, <3>4, <3>5, TablesStay DEF GuardInv, Shape
  <2>2. CASE UNCHANGED permRoles
    BY <1>1, <1>t, <2>2, Ends DEF Store
  <2> QED
    BY <1>1, <2>1, <2>2 DEF Store, KeysOf
<1>2. ASSUME UNCHANGED <<pc, local>>,
             \/ UNCHANGED permRoles
             \/ \E r \in Roles : permRoles' = [permRoles EXCEPT ![r] = None]
      PROVE  GuardInv'
  <2>1. permRoles' \in [Roles -> KeySets \cup {None}] /\ GuardKeysWereGranted'
    BY <1>t, <1>2 DEF GuardInv, Shape, GuardKeysWereGranted, tables
  <2>2. \A x \in Requests : Fits(pc[x], local[x])'
    BY <1>t, <1>2 DEF GuardInv, Fits, KeysOf, tables
  <2> QED
    BY <1>t, <1>2, <2>1, <2>2, TablesStay DEF GuardInv, Shape
<1> QED
  BY <1>1, <1>2 DEF ExpireKeys, KeysExpire, ExpireOther, MenuExpires, ModuleExpires, vars, caches

-----------------------------------------------------------------------------
LEMMA GuardInvInit == Init => GuardInv
<1> SUFFICES ASSUME Init PROVE GuardInv
  OBVIOUS
<1>1. Shape
  BY NoLocalHeld DEF Init, Shape, TablesShape, AnyRow, Labels
<1>2. Recorded
  BY DEF Init, Recorded
<1>3. \A q \in Requests : Fits(pc[q], local[q])
  BY DEF Init, Fits
<1>4. GuardKeysWereGranted
  BY DEF Init, GuardKeysWereGranted
<1> QED
  BY <1>1, <1>2, <1>3, <1>4 DEF GuardInv

LEMMA GuardInvNext == GuardInv /\ [Next]_vars => GuardInv'
<1> SUFFICES ASSUME GuardInv, [Next]_vars PROVE GuardInv'
  OBVIOUS
<1>1. ASSUME NEW q \in Requests, Abort(q)
      PROVE  GuardInv'
  BY <1>1, Ends DEF Abort, caches
<1>2. ASSUME NEW q \in Requests, Continue(q)
      PROVE  GuardInv'
  BY <1>2, ItemSteps, GrantSteps, QuerySteps, CacheSteps DEF Continue
<1>3. ASSUME NEW q \in Requests, Arrive(q)
      PROVE  GuardInv'
  BY <1>3, Arrivals
<1> QED
  BY <1>1, <1>2, <1>3, CacheSteps DEF Next

\* However many requests overlap, and wherever they die, the guard never
\* decides on a set of keys that the role did not grant at some one moment.
THEOREM GuardDecidesOnGrants == Spec => []GuardKeysWereGranted
<1>1. GuardInv => GuardKeysWereGranted
  BY DEF GuardInv
<1> QED
  BY GuardInvInit, GuardInvNext, <1>1, PTL DEF Spec

-----------------------------------------------------------------------------
(***************************************************************************)
(* Requests that do not overlap, as long as none has died.                 *)
(***************************************************************************)

\* ON DELETE CASCADE keeps the foreign key of role_permissions, whatever overlaps.
TablesFit ==
    /\ \A rp \in role_permissions : rp[2] \in module_permissions
    /\ DOMAIN asked = Roles /\ DOMAIN rbacMenu = Roles

Current ==
    /\ \A r \in Roles : rbacMenu[r] \in {None, Menu(r)}
    /\ rbacModules \subseteq active

Settled == Current /\ \A r \in Roles : Holds(r) = asked[r]

\* What is true when the only request stands at a label with local state l: the
\* cache is behind the tables between its first write and its clearing, and the
\* role of a grant is without rows between the DELETE and the INSERT.
Told(label, l) ==
    /\ label \notin {"insert", "clear"} => Current
    /\ \A r \in Roles : \/ Holds(r) = asked[r]
                        \/ label = "insert" /\ l.op = "grant" /\ r = l.item
    /\ label \in {"load", "fill"} => l.op \in {"save", "assign", "getModule"}
    /\ label = "fill" => l.item \in active
    /\ label \in {"check", "wipe", "insert"} => l.op \in {"assign", "grant"}
    /\ label \in {"load", "fill", "check", "wipe", "insert"} /\ l.op = "assign"
          => \A pair \in l.pairs : pair[1] = l.item
    /\ label = "insert" /\ l.op = "assign" => \A mp \in module_permissions : mp[2][1] # l.item
    /\ label \in {"wipe", "insert"} /\ l.op = "grant"
          => l.rows = RowsOf(l.pairs) /\ \A pair \in l.pairs : RowsOf({pair}) # {}
    /\ label = "insert" /\ l.op = "grant" => asked[l.item] = l.pairs /\ Holds(l.item) = {}
    /\ label \in {"rows", "grants"} => l.modules = Modules \cap active
    /\ label = "grants" => l.rows = module_permissions
    /\ label = "store" /\ l.op = "menu" => [shown |-> l.pairs] = Menu(l.item)

OneAtATime == \A p, q \in Requests : p = q \/ pc[p] = "idle" \/ pc[q] = "idle"

CalmInv ==
    /\ aborts \in Nat
    /\ TablesFit
    /\ ~overlapped /\ aborts = 0 =>
          /\ OneAtATime
          /\ \A q \in Requests : pc[q] # "idle" => Told(pc[q], local[q])
          /\ (\A q \in Requests : pc[q] = "idle") => Settled

\* What the request that takes the next step finds, if nothing has overlapped.
Finds(q) ==
    /\ ~overlapped /\ aborts = 0
    /\ pc[q] = "idle" => Settled
    /\ pc[q] # "idle" => Told(pc[q], local[q])

LEMMA GoesAlone ==
  ASSUME NEW q \in Requests, NEW label, Goto(q, label), ~overlapped'
  PROVE  ~overlapped /\ (label = "idle" \/ \A p \in Requests \ {q} : pc[p] = "idle")
BY Zenon DEF Goto, Overlaps

\* The step of a request, judged by what it leaves at its next label.
LEMMA Goes ==
  ASSUME GuardInv, CalmInv, NEW q \in Requests, NEW label \in Labels, NEW l,
         Goto(q, label), local' = [local EXCEPT ![q] = l], aborts' = aborts, TablesFit',
         pc[q] # "idle" \/ label # "idle",
         Finds(q) => Told(label, l)'
  PROVE  CalmInv'
<1> SUFFICES ASSUME ~overlapped', aborts' = 0
             PROVE  /\ OneAtATime'
                    /\ \A p \in Requests : pc'[p] # "idle" => Told(pc[p], local[p])'
                    /\ (\A p \in Requests : pc'[p] = "idle") => Settled'
  BY DEF CalmInv
<1>1. ~overlapped /\ (label = "idle" \/ \A p \in Requests \ {q} : pc[p] = "idle")
  BY GoesAlone
<1>2. \A p \in Requests \ {q} : pc[p] = "idle"
  BY <1>1 DEF CalmInv, OneAtATime
<1>3. Finds(q)
  BY <1>1, <1>2 DEF CalmInv, Finds
<1>4. Told(label, l)'
  BY <1>3
<1>5. /\ \A p \in Requests \ {q} : pc'[p] = "idle"
      /\ pc'[q] = label /\ local'[q] = l
  BY <1>2 DEF Goto, GuardInv, Shape
<1>6. OneAtATime'
  BY <1>5 DEF OneAtATime
<1>7. ASSUME NEW p \in Requests, pc'[p] # "idle" PROVE Told(pc[p], local[p])'
  <2>1. p = q
    BY <1>5, <1>7
  <2> QED
    BY <1>4, <1>5, <2>1 DEF Told, RowsOf
<1>8. (\A p \in Requests : pc'[p] = "idle") => Settled'
  BY <1>4, <1>5 DEF Told, Settled
<1> QED
  BY <1>6, <1>7, <1>8

\* As long as tables and the cleared cache stay, so does what is true of them.
LEMMA StaysTold ==
  ASSUME UNCHANGED <<tables, rbacMenu, rbacModules>>
  PROVE  /\ TablesFit' <=> TablesFit
         /\ Settled' <=> Settled
         /\ Current' <=> Current
         /\ \A r : Menu(r)' = Menu(r)
         /\ \A label, l : Told(label, l)' <=> Told(label, l)
BY DEF tables, TablesFit, Settled, Current, Told, Menu, Holds, RowsOf

\* An operation starts from settled tables.
LEMMA BeginsCalm ==
  ASSUME GuardInv, CalmInv, NEW q \in Requests, NEW label \in Labels, NEW op, NEW i,
         NEW pairs, NEW flag \in Flags, Begin(q, label, op, i, pairs, flag),
         label \notin {"idle", "fill", "wipe", "insert", "rows", "grants", "store"},
         label = "load" => op \in {"save", "assign", "getModule"},
         label = "check" => op \in {"assign", "grant"},
         op = "assign" => \A pair \in pairs : pair[1] = i
  PROVE  CalmInv'
<1> DEFINE l == [NoLocal EXCEPT !.op = op, !.item = i, !.pairs = pairs, !.flag = flag]
<1>1. l.op = op /\ l.item = i /\ l.pairs = pairs
  BY DEF NoLocal
<1>2. /\ pc[q] = "idle" /\ Goto(q, label) /\ local' = [local EXCEPT ![q] = l] /\ aborts' = aborts
      /\ UNCHANGED <<tables, rbacMenu, rbacModules>>
  BY DEF Begin, caches
<1> HIDE DEF l
<1>3. Settled => Told(label, l)
  BY <1>1 DEF Settled, Told
<1>4. PICK k : k = l
  OBVIOUS
<1>5. Finds(q) => Told(label, k)'
  BY <1>2, <1>3, <1>4, StaysTold DEF Finds
<1>6. TablesFit'
  BY <1>2, StaysTold DEF CalmInv
<1> QED
  BY <1>2, <1>4, <1>5, <1>6, Goes

LEMMA ArrivesCalm ==
  ASSUME GuardInv, CalmInv, NEW q \in Requests, Arrive(q)
  PROVE  CalmInv'
<1>f. TRUE \in Flags /\ \A flag \in BOOLEAN : flag \in Flags
  BY Zenon DEF Flags
<1>1. ASSUME NEW m \in Modules, NEW op \in {"save", "getModule", "assign"}, NEW pairs \in SUBSET Pairs,
             NEW flag \in Flags, OnModule(q, op, m, pairs, flag)
      PROVE  CalmInv'
  <2>1. PICK label \in {"load", "check", "save"} :
          Begin(q, label, op, m, pairs, flag) /\ (label = "check" => op = "assign")
    BY <1>1 DEF OnModule, AfterModule
  <2>2. \A pair \in pairs : pair[1] = m
    BY <1>1 DEF OnModule
  <2> QED
    BY <2>1, <2>2, BeginsCalm DEF Labels
<1>2. ASSUME NEW p \in Permissions, NEW flag \in Flags, OnPermission(q, p, flag)
      PROVE  CalmInv'
  BY <1>2, BeginsCalm DEF OnPermission, Labels
<1>3. ASSUME NEW r \in Roles, NEW flag \in Flags, OnRole(q, r, flag)
      PROVE  CalmInv'
  BY <1>3, BeginsCalm DEF OnRole, Labels
<1>4. ASSUME NEW r \in Roles, NEW pairs \in SUBSET Pairs, OnRoleGrants(q, r, pairs)
      PROVE  CalmInv'
  <2>1. PICK flag \in Flags : Begin(q, "check", "grant", r, pairs, flag)
    BY <1>4, <1>f DEF OnRoleGrants
  <2> QED
    BY <2>1, BeginsCalm DEF Labels
<1>5. ASSUME NEW r \in Roles, Guard(q, r) \/ MyPermissions(q, r)
      PROVE  CalmInv'
  <2>1. PICK flag \in Flags : \/ Begin(q, "query", "guard", r, {}, flag)
                              \/ Begin(q, "modules", "menu", r, {}, flag)
    BY <1>5, <1>f DEF Guard, MyPermissions
  <2> QED
    BY <2>1, BeginsCalm DEF Labels
<1>6. ASSUME NEW i \in Missing, NEW flag \in Flags, OnNew(q, i, flag)
      PROVE  CalmInv'
  BY <1>6, BeginsCalm DEF OnNew, Labels
<1>7. {} \in SUBSET Pairs
  OBVIOUS
<1> QED
  BY <1>1, <1>2, <1>3, <1>4, <1>5, <1>6, <1>7, <1>f, Zenon DEF Arrive

\* Steps that leave the tables and the cache that is cleared alone.
LEMMA GoesQuietly ==
  ASSUME GuardInv, CalmInv, NEW q \in Requests, pc[q] # "idle", NEW label \in Labels, NEW l,
         Goto(q, label), local' = [local EXCEPT ![q] = l], aborts' = aborts,
         UNCHANGED <<tables, rbacMenu, rbacModules>>,
         Told(pc[q], local[q]) => Told(label, l)
  PROVE  CalmInv'
<1>1. Finds(q) => Told(label, l)'
  BY StaysTold DEF Finds
<1>2. TablesFit'
  BY StaysTold DEF CalmInv
<1> QED
  BY <1>1, <1>2, Goes

LEMMA FinishesAs ==
  ASSUME NEW q \in Requests, Finish(q)
  PROVE  Goto(q, "idle") /\ local' = [local EXCEPT ![q] = NoLocal] /\ "idle" \in Labels
BY DEF Finish, Labels

LEMMA KeepsLocal ==
  ASSUME GuardInv, NEW q \in Requests, UNCHANGED local
  PROVE  local' = [local EXCEPT ![q] = local[q]]
BY DEF GuardInv, Shape

LEMMA ItemsCalm ==
  ASSUME GuardInv, CalmInv, NEW q \in Requests,
         \/ FindKey(q) \/ CreateItem(q)
         \/ LoadModule(q) \/ FillModule(q) \/ SaveItem(q) \/ ClearRbacCache(q)
  PROVE  CalmInv'
<1>k. UNCHANGED local => \E l : l = local[q] /\ local' = [local EXCEPT ![q] = l]
  BY KeepsLocal
<1>1. CASE FindKey(q)
  <2>1. CASE Finish(q)
    <3>1. Told(pc[q], local[q]) => Told("idle", NoLocal)
      BY <1>1 DEF FindKey, At, Told
    <3> QED
      BY <1>1, <2>1, <3>1, FinishesAs, GoesQuietly DEF FindKey, At, caches
  <2>2. CASE Goto(q, "create") /\ UNCHANGED local
    <3>1. PICK l : l = local[q] /\ local' = [local EXCEPT ![q] = l]
      BY <1>k, <2>2
    <3>2. Told(pc[q], local[q]) => Told("create", l)
      BY <1>1, <3>1 DEF FindKey, At, Told
    <3> QED
      BY <1>1, <2>2, <3>1, <3>2, GoesQuietly DEF FindKey, At, caches, Labels
  <2> QED
    BY <1>1, <2>1, <2>2 DEF FindKey
<1>2. CASE LoadModule(q)
  <2>1. CASE Finish(q)
    <3>1. Told(pc[q], local[q]) => Told("idle", NoLocal)
      BY <1>2 DEF LoadModule, At, Told
    <3> QED
      BY <1>2, <2>1, <3>1, FinishesAs, GoesQuietly DEF LoadModule, At, caches
  <2>2. CASE local[q].item \in active /\ Goto(q, "fill") /\ UNCHANGED local
    <3>1. PICK l : l = local[q] /\ local' = [local EXCEPT ![q] = l]
      BY <1>k, <2>2
    <3>2. Told(pc[q], local[q]) => Told("fill", l)
      BY <1>2, <2>2, <3>1 DEF LoadModule, At, Told
    <3> QED
      BY <1>2, <2>2, <3>1, <3>2, GoesQuietly DEF LoadModule, At, caches, Labels
  <2> QED
    BY <1>2, <2>1, <2>2 DEF LoadModule
<1>3. CASE FillModule(q)
  <2>1. /\ pc[q] = "fill" /\ rbacModules' = rbacModules \cup {local[q].item} /\ aborts' = aborts
        /\ UNCHANGED <<tables, rbacMenu>>
    BY <1>3 DEF FillModule, At
  <2>2. TablesFit'
    BY <2>1 DEF tables, TablesFit, CalmInv
  <2>3. Told("fill", local[q]) => Current' /\ \A r \in Roles : (Holds(r) = asked[r])'
    BY <2>1 DEF Told, Current, Menu, Holds, tables
  <2>4. CASE Finish(q)
    <3>1. Finds(q) => Told("idle", NoLocal)'
      BY <2>1, <2>3 DEF Finds, Told
    <3> QED
      BY <2>1, <2>2, <2>4, <3>1, FinishesAs, Goes
  <2>5. CASE local[q].op # "getModule" /\ Goto(q, AfterModule(local[q].op)) /\ UNCHANGED local
    <3>1. PICK l : l = local[q] /\ local' = [local EXCEPT ![q] = l]
      BY <1>k, <2>5
    <3>2. CASE l.op = "assign"
      <4>1. AfterModule(local[q].op) = "check"
        BY <3>1, <3>2 DEF AfterModule
      <4>2. Finds(q) => Told("check", l)'
        BY <2>1, <2>3, <3>1, <3>2 DEF Finds, Told
      <4>3. Goto(q, "check")
        BY <2>5, <4>1
      <4> QED
        BY <2>1, <2>2, <3>1, <4>2, <4>3, Goes DEF Labels
    <3>3. CASE l.op # "assign"
      <4>1. AfterModule(local[q].op) = "save"
        BY <2>5, <3>1, <3>3 DEF AfterModule
      <4>2. Finds(q) => Told("save", l)'
        BY <2>1, <2>3, <3>1 DEF Finds, Told
      <4>3. Goto(q, "save")
        BY <2>5, <4>1
      <4> QED
        BY <2>1, <2>2, <3>1, <4>2, <4>3, Goes DEF Labels
    <3> QED
      BY <3>2, <3>3
  <2> QED
    BY <1>3, <2>4, <2>5 DEF FillModule
<1>4. CASE SaveItem(q) \/ CreateItem(q)
  <2>1. /\ pc[q] \in {"save", "create"} /\ aborts' = aborts
        /\ Goto(q, "clear") /\ local' = [local EXCEPT ![q] = NoLocal]
        /\ UNCHANGED <<module_permissions, role_permissions, asked, rbacMenu>>
    BY <1>4 DEF SaveItem, CreateItem, Written, At, caches
  <2>2. TablesFit'
    BY <2>1 DEF TablesFit, CalmInv
  <2>3. Finds(q) => Told("clear", NoLocal)'
    BY <2>1 DEF Finds, Told, Holds
  <2> QED
    BY <2>1, <2>2, <2>3, Goes DEF Labels
<1>5. CASE ClearRbacCache(q)
  <2>1. pc[q] = "clear" /\ aborts' = aborts /\ Finish(q) /\ UNCHANGED tables /\ Clear
    BY <1>5 DEF ClearRbacCache, At
  <2>2. TablesFit'
    BY <2>1 DEF tables, TablesFit, CalmInv, Clear
  <2>3. Current'
    BY <2>1 DEF Clear, Current
  <2>4. Finds(q) => Told("idle", NoLocal)'
    BY <2>1, <2>3 DEF Finds, Told, Holds, tables
  <2> QED
    BY <2>1, <2>2, <2>4, FinishesAs, Goes
<1> QED
  BY <1>1, <1>2, <1>3, <1>4, <1>5

\* The DELETE of an assignment takes the module's pairs from every role, that of
\* a grant the role's: nobody holds anything else than before.
LEMMA WipeCalm ==
  ASSUME GuardInv, CalmInv, NEW q \in Requests, Wipe(q)
  PROVE  CalmInv'
<1>1. /\ pc[q] = "wipe" /\ Goto(q, "insert") /\ aborts' = aborts /\ UNCHANGED <<local, rbacMenu>>
  BY DEF Wipe, At, caches
<1>2. PICK l : l = local[q] /\ local' = [local EXCEPT ![q] = l]
  BY <1>1, KeepsLocal
<1>3. CASE l.op = "assign"
  <2> DEFINE mps == {mp \in module_permissions : mp[2][1] = l.item}
  <2>1. /\ module_permissions' = module_permissions \ mps
        /\ role_permissions' = Cascade(mps)
        /\ asked' = [r \in Roles |-> {pair \in asked[r] : pair[1] # l.item}]
    BY <1>2, <1>3 DEF Wipe
  <2>2. TablesFit'
    BY <1>1, <2>1 DEF CalmInv, TablesFit, Cascade
  <2>3. ASSUME NEW r \in Roles, Holds(r) = asked[r]
        PROVE  Holds(r)' = asked'[r]
    <3>1. Holds(r)' = {pair \in Holds(r) : pair[1] # l.item}
      <4>1. ASSUME NEW rp \in role_permissions
            PROVE  rp \in role_permissions' <=> rp[2][2][1] # l.item
        BY <2>1, <4>1 DEF CalmInv, TablesFit, Cascade
      <4>2. role_permissions' \subseteq role_permissions
        BY <2>1 DEF Cascade
      <4> QED
        BY <4>1, <4>2 DEF Holds
    <3> QED
      BY <2>1, <2>3, <3>1
  <2>4. \A mp \in module_permissions' : mp[2][1] # l.item
    BY <2>1
  <2>5. Told("wipe", l) => Told("insert", l)'
    BY <1>3, <2>3, <2>4 DEF Told
  <2>6. Finds(q) => Told("insert", l)'
    BY <1>1, <1>2, <2>5 DEF Finds
  <2> QED
    BY <1>1, <1>2, <2>2, <2>6, Goes DEF Labels
<1>4. CASE l.op = "grant"
  <2>1. /\ role_permissions' = WithoutRole(l.item) /\ module_permissions' = module_permissions
        /\ asked' = [asked EXCEPT ![l.item] = l.pairs]
    BY <1>2, <1>4 DEF Wipe
  <2>2. TablesFit'
    BY <1>1, <2>1 DEF CalmInv, TablesFit, WithoutRole
  <2>3. l.item \in Roles
    BY <1>1, <1>2, <1>4 DEF GuardInv, Fits
  <2>4. Holds(l.item)' = {}
    BY <2>1 DEF Holds, WithoutRole
  <2>5. ASSUME NEW r \in Roles, r # l.item PROVE Holds(r)' = Holds(r)
    BY <2>1, <2>5 DEF Holds, WithoutRole
  <2>6. asked'[l.item] = l.pairs /\ \A r \in Roles : r # l.item => asked'[r] = asked[r]
    BY <2>1, <2>3 DEF CalmInv, TablesFit
  <2>7. RowsOf(l.pairs)' = RowsOf(l.pairs) /\ \A pair : RowsOf({pair})' = RowsOf({pair})
    BY <2>1 DEF RowsOf
  <2>8. Told("wipe", l) => Told("insert", l)'
    <3> SUFFICES ASSUME Told("wipe", l) PROVE Told("insert", l)'
      OBVIOUS
    <3>1. l.rows = RowsOf(l.pairs)' /\ \A pair \in l.pairs : RowsOf({pair})' # {}
      BY <1>4, <2>7 DEF Told
    <3>2. \A r \in Roles : r # l.item => Holds(r)' = asked'[r]
      BY <2>5, <2>6 DEF Told
    <3> QED
      BY <1>4, <2>4, <2>6, <3>1, <3>2 DEF Told
  <2>9. Finds(q) => Told("insert", l)'
    BY <1>1, <1>2, <2>8 DEF Finds
  <2> QED
    BY <1>1, <1>2, <2>2, <2>9, Goes DEF Labels
<1> QED
  BY <1>2, <1>3, <1>4 DEF Wipe

\* The INSERT of a grant gives the role the pairs that were checked, each by a row
\* that is still there; that of an assignment gives nobody anything.
LEMMA InsertCalm ==
  ASSUME GuardInv, CalmInv, NEW q \in Requests, Insert(q)
  PROVE  CalmInv'
<1>1. /\ pc[q] = "insert" /\ Goto(q, "clear") /\ local' = [local EXCEPT ![q] = NoLocal]
      /\ aborts' = aborts /\ UNCHANGED <<asked, rbacMenu>>
  BY DEF Insert, At, Written, caches
<1>2. PICK l : l = local[q]
  OBVIOUS
<1>3. CASE l.op = "assign" /\ module_permissions \subseteq module_permissions' /\ UNCHANGED role_permissions
  <2>1. TablesFit'
    BY <1>1, <1>3 DEF CalmInv, TablesFit
  <2>2. Told("insert", l) => Told("clear", NoLocal)'
    BY <1>1, <1>3 DEF Told, Holds
  <2>3. Finds(q) => Told("clear", NoLocal)'
    BY <1>1, <1>2, <2>2 DEF Finds
  <2> QED
    BY <1>1, <2>1, <2>3, Goes DEF Labels
<1>4. CASE /\ l.op = "grant" /\ l.rows \subseteq module_permissions
           /\ role_permissions' = role_permissions \cup ({l.item} \X l.rows)
           /\ UNCHANGED module_permissions
  <2>1. TablesFit'
    BY <1>1, <1>4 DEF CalmInv, TablesFit
  <2>2. ASSUME NEW r, r # l.item PROVE Holds(r)' = Holds(r)
    BY <1>4, <2>2 DEF Holds
  <2>3. ASSUME Told("insert", l) PROVE Holds(l.item)' = asked'[l.item]
    <3>1. l.rows = RowsOf(l.pairs) /\ (\A pair \in l.pairs : RowsOf({pair}) # {})
          /\ asked[l.item] = l.pairs /\ Holds(l.item) = {}
      BY <1>4, <2>3 DEF Told
    <3>2. Holds(l.item)' = {mp[2] : mp \in l.rows}
      <4>1. \A rp \in role_permissions : rp[1] # l.item
        BY <3>1 DEF Holds
      <4>2. {rp \in role_permissions' : rp[1] = l.item} = {l.item} \X l.rows
        BY <1>4, <4>1
      <4>3. Holds(l.item)' = {rp[2][2] : rp \in {l.item} \X l.rows}
        BY <4>2 DEF Holds
      <4>4. ASSUME NEW mp \in l.rows PROVE mp[2] \in Holds(l.item)'
        <5>1. <<l.item, mp>> \in {l.item} \X l.rows
          OBVIOUS
        <5> QED
          BY <4>3, <5>1
      <4> QED
        BY <4>3, <4>4
    <3>3. ASSUME NEW pair \in l.pairs PROVE \E mp \in l.rows : mp[2] = pair
      BY <3>1, <3>3 DEF RowsOf
    <3>4. \A mp \in l.rows : mp[2] \in l.pairs
      BY <3>1 DEF RowsOf
    <3>5. {mp[2] : mp \in l.rows} = l.pairs
      BY <3>3, <3>4
    <3> QED
      BY <1>1, <3>1, <3>2, <3>5
  <2>4. Told("insert", l) => Told("clear", NoLocal)'
    <3> SUFFICES ASSUME Told("insert", l) PROVE Told("clear", NoLocal)'
      OBVIOUS
    <3>1. \A r \in Roles : Holds(r)' = asked'[r]
      BY <1>1, <2>2, <2>3 DEF Told
    <3> QED
      BY <3>1 DEF Told
  <2>5. Finds(q) => Told("clear", NoLocal)'
    BY <1>1, <1>2, <2>4 DEF Finds
  <2> QED
    BY <1>1, <2>1, <2>5, Goes DEF Labels
<1> QED
  BY <1>2, <1>3, <1>4 DEF Insert

LEMMA CheckCalm ==
  ASSUME GuardInv, CalmInv, NEW q \in Requests, Check(q)
  PROVE  CalmInv'
<1>1. /\ pc[q] = "check" /\ Goto(q, "wipe") /\ aborts' = aborts
      /\ UNCHANGED <<tables, rbacMenu, rbacModules>>
  BY DEF Check, At, caches
<1>h. local[q] \in Held
  BY DEF GuardInv, Shape
<1>2. CASE local[q].op = "assign" /\ UNCHANGED local
  <2>1. PICK l : l = local[q] /\ local' = [local EXCEPT ![q] = l]
    BY <1>2, KeepsLocal
  <2>2. Told("check", local[q]) => Told("wipe", l)
    BY <1>2, <2>1 DEF Told
  <2> QED
    BY <1>1, <2>1, <2>2, GoesQuietly DEF Labels
<1>3. CASE /\ local[q].op = "grant" /\ \A pair \in local[q].pairs : RowsOf({pair}) # {}
           /\ local' = [local EXCEPT ![q].rows = RowsOf(local[q].pairs)]
  <2>1. PICK l : l = [local[q] EXCEPT !.rows = RowsOf(local[q].pairs)]
    OBVIOUS
  <2>2. /\ l.rows = RowsOf(local[q].pairs) /\ l.pairs = local[q].pairs /\ l.op = "grant"
        /\ local' = [local EXCEPT ![q] = l]
    BY <1>h, <1>3, <2>1 DEF Held
  <2>3. Told("check", local[q]) => Told("wipe", l)
    BY <1>3, <2>2 DEF Told
  <2> QED
    BY <1>1, <2>2, <2>3, GoesQuietly DEF Labels
<1> QED
  BY <1>2, <1>3 DEF Check

\* Nothing is refused after the tables have changed.
LEMMA RefuseCalm ==
  ASSUME GuardInv, CalmInv, NEW q \in Requests, Refuse(q)
  PROVE  CalmInv'
<1>1. /\ Finish(q) /\ aborts' = aborts /\ UNCHANGED <<tables, rbacMenu, rbacModules>>
  BY DEF Refuse, caches
<1>2. pc[q] \in {"create", "check", "insert"}
  BY DEF Refuse, At
<1>3. CASE pc[q] # "insert"
  <2>1. Told(pc[q], local[q]) => Told("idle", NoLocal)
    BY <1>2, <1>3 DEF Told
  <2> QED
    BY <1>1, <1>2, <2>1, FinishesAs, GoesQuietly
<1>4. CASE pc[q] = "insert"
  <2>1. PICK l : l = local[q]
    OBVIOUS
  <2>h. l \in Held
    BY <2>1 DEF GuardInv, Shape
  <2>2. \/ l.op = "assign" /\ RowsOf(l.pairs) # {}
        \/ l.op # "assign" /\ (~(l.rows \subseteq module_permissions)
                                  \/ ({l.item} \X l.rows) \cap role_permissions # {})
    BY <1>4, <2>1 DEF Refuse, At
  <2>4. ~Told("insert", l)
    <3> SUFFICES ASSUME Told("insert", l) PROVE FALSE
      OBVIOUS
    <3>1. CASE l.op = "assign"
      <4>1. /\ \A pair \in l.pairs : pair[1] = l.item
            /\ \A mp \in module_permissions : mp[2][1] # l.item
        BY <3>1 DEF Told
      <4> QED
        BY <2>2, <3>1, <4>1 DEF RowsOf
    <3>2. CASE l.op = "grant"
      <4>1. l.rows = RowsOf(l.pairs) /\ Holds(l.item) = {}
        BY <3>2 DEF Told
      <4>2. \A rp \in role_permissions : rp[1] # l.item
        BY <4>1 DEF Holds
      <4> QED
        BY <2>2, <3>2, <4>1, <4>2 DEF RowsOf
    <3> QED
      BY <3>1, <3>2 DEF Told
  <2>5. Told(pc[q], local[q]) => Told("idle", NoLocal)
    BY <1>4, <2>1, <2>4
  <2> QED
    BY <1>1, <1>2, <2>5, FinishesAs, GoesQuietly
<1> QED
  BY <1>3, <1>4

\* Three queries that nobody disturbs find what the menu is to show.
LEMMA QueriesCalm ==
  ASSUME GuardInv, CalmInv, NEW q \in Requests,
         QueryKeys(q) \/ QueryModules(q) \/ QueryRows(q) \/ QueryGrants(q)
  PROVE  CalmInv'
<1>h. local[q] \in Held /\ Fits(pc[q], local[q]) /\ TablesShape
  BY DEF GuardInv, Shape
<1>q. aborts' = aborts /\ UNCHANGED <<tables, rbacMenu, rbacModules>>
  BY DEF QueryKeys, QueryModules, QueryRows, QueryGrants, caches
<1>1. CASE QueryKeys(q)
  <2>1. PICK l : l = [local[q] EXCEPT !.pairs = Modules \X Granted(local[q].item).granted]
    OBVIOUS
  <2>2. pc[q] = "query" /\ Goto(q, "store") /\ local' = [local EXCEPT ![q] = l] /\ l.op = "guard"
    BY <1>1, <1>h, <2>1 DEF QueryKeys, At, Fits, Held
  <2>3. Told("query", local[q]) => Told("store", l)
    BY <2>2 DEF Told
  <2> QED
    BY <1>q, <2>2, <2>3, GoesQuietly DEF Labels
<1>2. CASE QueryModules(q)
  <2>1. PICK l : l = [local[q] EXCEPT !.modules = Modules \cap active]
    OBVIOUS
  <2>2. /\ pc[q] = "modules" /\ Goto(q, "rows") /\ local' = [local EXCEPT ![q] = l]
        /\ l.modules = Modules \cap active
    BY <1>2, <1>h, <2>1 DEF QueryModules, At, Held
  <2>3. Told("modules", local[q]) => Told("rows", l)
    BY <2>2 DEF Told
  <2> QED
    BY <1>q, <2>2, <2>3, GoesQuietly DEF Labels
<1>3. CASE QueryRows(q)
  <2>1. PICK l : l = [local[q] EXCEPT !.rows = module_permissions]
    OBVIOUS
  <2>2. /\ pc[q] = "rows" /\ Goto(q, "grants") /\ local' = [local EXCEPT ![q] = l]
        /\ l.rows = module_permissions /\ l.modules = local[q].modules
    BY <1>3, <1>h, <2>1 DEF QueryRows, At, Held
  <2>3. Told("rows", local[q]) => Told("grants", l)
    BY <2>2 DEF Told
  <2> QED
    BY <1>q, <2>2, <2>3, GoesQuietly DEF Labels
<1>4. CASE QueryGrants(q)
  <2> DEFINE role == local[q].item
             shown == {mp[2] : mp \in {x \in local[q].rows :
                x[2][1] \in local[q].modules /\ <<role, x>> \in role_permissions}}
  <2>1. PICK l : l = [local[q] EXCEPT !.rows = {}, !.modules = {}, !.pairs = shown]
    OBVIOUS
  <2>2. /\ pc[q] = "grants" /\ Goto(q, "store") /\ local' = [local EXCEPT ![q] = l]
    BY <1>4, <2>1 DEF QueryGrants, At
  <2>3. ASSUME Told("grants", local[q])
        PROVE  shown = {pair \in Holds(role) : pair[1] \in active}
    <3>1. local[q].modules = Modules \cap active /\ local[q].rows = module_permissions
      BY <2>3 DEF Told
    <3>2. ASSUME NEW pair \in shown PROVE pair \in Holds(role) /\ pair[1] \in active
      <4>1. PICK mp \in module_permissions :
              mp[2] = pair /\ mp[2][1] \in active /\ <<role, mp>> \in role_permissions
        BY <3>1, <3>2
      <4> QED
        BY <4>1 DEF Holds
    <3>3. ASSUME NEW pair \in Holds(role), pair[1] \in active PROVE pair \in shown
      <4>1. PICK rp \in role_permissions : rp[1] = role /\ rp[2][2] = pair
        BY <3>3 DEF Holds
      <4>2. rp[2] \in module_permissions /\ rp = <<role, rp[2]>> /\ pair[1] \in Modules
        BY <1>h, <4>1 DEF CalmInv, TablesFit, TablesShape, AnyRow, Pairs
      <4> QED
        BY <3>1, <3>3, <4>1, <4>2
    <3> QED
      BY <3>2, <3>3
  <2> HIDE DEF shown, role
  <2>4. l.pairs = shown /\ l.item = role
    BY <1>h, <2>1 DEF Held, role
  <2>5. Told("grants", local[q]) => Told("store", l)
    BY <2>3, <2>4 DEF Told, Menu
  <2> QED
    BY <1>q, <2>2, <2>5, GoesQuietly DEF Labels
<1> QED
  BY <1>1, <1>2, <1>3, <1>4

LEMMA StoreCalm ==
  ASSUME GuardInv, CalmInv, NEW q \in Requests, Store(q)
  PROVE  CalmInv'
<1>1. pc[q] = "store" /\ Finish(q) /\ aborts' = aborts /\ UNCHANGED <<tables, rbacModules>>
  BY DEF Store, At
<1>2. CASE UNCHANGED rbacMenu
  <2>1. Told("store", local[q]) => Told("idle", NoLocal)
    BY DEF Told
  <2> QED
    BY <1>1, <1>2, <2>1, FinishesAs, GoesQuietly
<1>3. CASE /\ local[q].op = "menu"
           /\ rbacMenu' = [rbacMenu EXCEPT ![local[q].item] = [shown |-> local[q].pairs]]
  <2>1. Told("store", local[q]) => Current'
    <3> SUFFICES ASSUME Told("store", local[q]) PROVE Current'
      OBVIOUS
    <3>1. [shown |-> local[q].pairs] = Menu(local[q].item) /\ Current
      BY <1>3 DEF Told
    <3>2. \A r \in Roles : rbacMenu'[r] \in {None, Menu(r)}
      BY <1>3, <3>1 DEF Current
    <3>3. \A r : Menu(r)' = Menu(r)
      BY <1>1 DEF Menu, Holds, tables
    <3> QED
      BY <1>1, <3>1, <3>2, <3>3 DEF Current, tables
  <2>2. Finds(q) => Told("idle", NoLocal)'
    BY <1>1, <2>1 DEF Finds, Told, Holds, tables
  <2>3. TablesFit'
    BY <1>1, <1>3 DEF CalmInv, TablesFit, tables
  <2> QED
    BY <1>1, <2>2, <2>3, FinishesAs, Goes
<1> QED
  BY <1>2, <1>3 DEF Store

\* Keys that expire, and steps that change nothing.
LEMMA ExpiresCalm ==
  ASSUME GuardInv, CalmInv,
         (\E r \in Roles : ExpireKeys(r)) \/ ExpireOther \/ UNCHANGED vars
  PROVE  CalmInv'
<1>0. UNCHANGED <<tables, pc, local, aborts>> /\ (overlapped' <=> overlapped)
  <2>1. ASSUME NEW r \in Roles, ExpireKeys(r)
        PROVE  UNCHANGED <<tables, pc, local, aborts>> /\ overlapped' = overlapped
    BY <2>1 DEF ExpireKeys
  <2>2. ASSUME ExpireOther
        PROVE  UNCHANGED <<tables, pc, local, aborts>> /\ overlapped' = overlapped
    BY <2>2 DEF ExpireOther
  <2>3. ASSUME UNCHANGED vars
        PROVE  UNCHANGED <<tables, pc, local, aborts>> /\ overlapped' = overlapped
    BY <2>3 DEF vars
  <2> QED
    BY <2>1, <2>2, <2>3
<1>1. /\ UNCHANGED <<tables, pc, local, aborts>> /\ (overlapped' <=> overlapped)
      /\ rbacModules' \subseteq rbacModules
      /\ \A r \in Roles : rbacMenu'[r] \in {None, rbacMenu[r]}
  <2>1. DOMAIN rbacMenu = Roles
    BY DEF CalmInv, TablesFit
  <2>2. ASSUME NEW r \in Roles, MenuExpires(r)
        PROVE  rbacModules' = rbacModules /\ \A s \in Roles : rbacMenu'[s] \in {None, rbacMenu[s]}
    BY <2>1, <2>2 DEF MenuExpires
  <2>3. ASSUME \/ \E r \in Roles : KeysExpire(r)
               \/ \E m \in Modules : ModuleExpires(m)
               \/ UNCHANGED vars
        PROVE  rbacModules' \subseteq rbacModules /\ rbacMenu' = rbacMenu
    BY <2>3 DEF KeysExpire, ModuleExpires, vars, caches
  <2> QED
    BY <1>0, <2>2, <2>3 DEF ExpireKeys, ExpireOther
<1>2. Current => Current'
  BY <1>1 DEF Current, Menu, Holds, tables
<1>3. ASSUME NEW q \in Requests, Told(pc[q], local[q]) PROVE Told(pc[q], local[q])'
  BY <1>1, <1>2, <1>3 DEF Told, Holds, RowsOf, Menu, tables
<1>4. Settled => Settled'
  BY <1>1, <1>2 DEF Settled, Holds, tables
<1>5. TablesFit' /\ (OneAtATime => OneAtATime')
  <2>1. DOMAIN rbacMenu' = DOMAIN rbacMenu
    BY DEF ExpireKeys, ExpireOther, KeysExpire, MenuExpires, ModuleExpires, vars, caches
  <2> QED
    BY <1>1, <2>1 DEF CalmInv, TablesFit, OneAtATime, tables
<1> QED
  BY <1>1, <1>3, <1>4, <1>5 DEF CalmInv

LEMMA CalmInit == Init => CalmInv
<1> SUFFICES ASSUME Init PROVE CalmInv
  OBVIOUS
<1>1. TablesFit
  BY DEF Init, TablesFit
<1>2. Settled
  BY DEF Init, Settled, Current
<1> QED
  BY <1>1, <1>2 DEF Init, CalmInv, OneAtATime

LEMMA CalmNext == GuardInv /\ CalmInv /\ [Next]_vars => CalmInv'
<1> SUFFICES ASSUME GuardInv, CalmInv, [Next]_vars PROVE CalmInv'
  OBVIOUS
<1>1. ASSUME NEW q \in Requests, Abort(q)
      PROVE  CalmInv'
  <2>1. aborts' = aborts + 1 /\ UNCHANGED <<tables, rbacMenu>>
    BY <1>1 DEF Abort, caches
  <2> QED
    BY <2>1 DEF CalmInv, TablesFit, tables
<1>2. ASSUME NEW q \in Requests, Continue(q)
      PROVE  CalmInv'
  BY <1>2, ItemsCalm, WipeCalm, InsertCalm, CheckCalm, RefuseCalm, QueriesCalm, StoreCalm
  DEF Continue
<1> QED
  BY <1>1, <1>2, ArrivesCalm, ExpiresCalm DEF Next

\* For any roles, modules and permissions: as long as requests have not overlapped
\* and no handler has died, a role holds exactly the pairs that it was last asked
\* to hold, less those of modules reassigned since.  Between the DELETE and the
\* INSERT of a grant a role holds nothing, and no check or index can stop it there.
THEOREM GrantsKept == Spec => []GrantsAsAsked
<1>1. CalmInv => GrantsAsAsked
  BY DEF CalmInv, Settled, GrantsAsAsked, At
<1> QED
  BY GuardInvInit, GuardInvNext, CalmInit, CalmNext, <1>1, PTL DEF Spec

\* For any roles, modules and permissions: under the same conditions every cached
\* menu is what the role holds of active modules, and modules cached as active
\* are.  The cache is behind only from the first write of a handler to its clearing.
THEOREM MenusCleared == Spec => []MenusAreCurrent
<1>1. CalmInv => MenusAreCurrent
  BY DEF CalmInv, Settled, Current, MenusAreCurrent, At
<1> QED
  BY GuardInvInit, GuardInvNext, CalmInit, CalmNext, <1>1, PTL DEF Spec

-----------------------------------------------------------------------------
(* Types: what is active exists, and there is a batch of ids left for      *)
(* every assignment in progress.                                           *)

\* A request that may yet insert rows of module_permissions.
WillInsert(label, l) == label \in {"load", "fill", "check", "wipe", "insert"} /\ l.op = "assign"
Inserting == {q \in Requests : WillInsert(pc[q], local[q])}

\* Each batch and each request that may need one was counted when it began.
Numbered ==
    /\ writes \in 0 .. MaxWrites /\ aborts \in 0 .. MaxAborts
    /\ batch \in Nat \ {0}
    /\ IsFiniteSet(Inserting)
    /\ batch + Cardinality(Inserting) <= writes + 1

\* A request has an item of the kind and with the row that its await needs.
Sound(label, l) ==
    /\ label \in {"findKey", "create"} => l.item \in Items
    /\ label \in {"load", "fill"} => l.item \in Modules
    /\ label \in {"fill", "save"} => l.item \in known
    /\ l.rows \subseteq ModulePermission

TablesOK ==
    /\ active \subseteq known /\ known \subseteq Items
    /\ module_permissions \subseteq ModulePermission
    /\ asked \in [Roles -> SUBSET Pairs]
    /\ pastKeys \in [Roles -> SUBSET KeySets]
CachesOK ==
    /\ rbacModules \subseteq Modules \cap known
    /\ rbacMenu \in [Roles -> Menus \cup {None}]

TypeInv ==
    /\ TablesOK /\ CachesOK /\ Numbered
    /\ \A q \in Requests : Sound(pc[q], local[q])

HistoryOK == overlapped \in BOOLEAN

LEMMA NoLocalSound ==
  ASSUME NEW label, label \notin {"findKey", "create", "load", "fill", "save"}
  PROVE  Sound(label, NoLocal) /\ ~WillInsert(label, NoLocal)
BY DEF Sound, NoLocal, WillInsert

\* A step by which no request comes to need a batch.
LEMMA NoNewBatch ==
  ASSUME Numbered, Inserting' \subseteq Inserting, batch' = batch,
         writes' \in writes .. MaxWrites, aborts' \in 0 .. MaxAborts
  PROVE  Numbered'
<1>1. IsFiniteSet(Inserting') /\ Cardinality(Inserting') <= Cardinality(Inserting)
  BY FS_Subset DEF Numbered
<1>2. Cardinality(Inserting) \in Nat /\ Cardinality(Inserting') \in Nat
  BY <1>1, FS_CardinalityType DEF Numbered
<1>3. PICK m, n : m = Cardinality(Inserting) /\ n = Cardinality(Inserting')
  OBVIOUS
<1>4. writes' \in 0 .. MaxWrites /\ batch' + n <= writes' + 1
  BY <1>1, <1>2, <1>3, ConstantsAssumption DEF Numbered
<1> QED
  BY <1>1, <1>3, <1>4 DEF Numbered

\* A request that begins is counted and may come to need one.
LEMMA BatchForeseen ==
  ASSUME Numbered, NEW q, Inserting' \subseteq Inserting \cup {q}, batch' = batch,
         writes < MaxWrites, writes' = writes + 1, aborts' = aborts
  PROVE  Numbered'
<1>1. /\ IsFiniteSet(Inserting \cup {q})
      /\ Cardinality(Inserting \cup {q}) <= Cardinality(Inserting) + 1
      /\ Cardinality(Inserting) \in Nat
  BY FS_AddElement, FS_CardinalityType DEF Numbered
<1>2. IsFiniteSet(Inserting') /\ Cardinality(Inserting') <= Cardinality(Inserting \cup {q})
  BY <1>1, FS_Subset
<1>3. Cardinality(Inserting') \in Nat /\ Cardinality(Inserting \cup {q}) \in Nat
  BY <1>1, <1>2, FS_CardinalityType
<1>4. PICK k, m, n : k = Cardinality(Inserting) /\ m = Cardinality(Inserting \cup {q})
                     /\ n = Cardinality(Inserting')
  OBVIOUS
<1>5. writes' \in 0 .. MaxWrites /\ batch' + n <= writes' + 1
  BY <1>1, <1>2, <1>3, <1>4, ConstantsAssumption DEF Numbered
<1> QED
  BY <1>2, <1>4, <1>5 DEF Numbered

\* A request that inserts its batch needs no other, and the batch it took was
\* within the bound.
LEMMA BatchUsed ==
  ASSUME Numbered, NEW q \in Inserting, Inserting' \subseteq Inserting \ {q}, batch' = batch + 1,
         UNCHANGED <<writes, aborts>>
  PROVE  Numbered' /\ batch \in 0 .. MaxWrites
<1>1. /\ IsFiniteSet(Inserting \ {q})
      /\ Cardinality(Inserting \ {q}) = Cardinality(Inserting) - 1
      /\ Cardinality(Inserting) \in Nat
  BY FS_RemoveElement, FS_CardinalityType DEF Numbered
<1>2. IsFiniteSet(Inserting') /\ Cardinality(Inserting') <= Cardinality(Inserting \ {q})
  BY <1>1, FS_Subset
<1>3. Cardinality(Inserting') \in Nat /\ Cardinality(Inserting \ {q}) \in Nat
  BY <1>1, <1>2, FS_CardinalityType
<1>4. PICK k, m, n : k = Cardinality(Inserting) /\ m = Cardinality(Inserting \ {q})
                     /\ n = Cardinality(Inserting')
  OBVIOUS
<1>5. batch' \in Nat \ {0} /\ batch' + n <= writes' + 1 /\ batch \in 0 .. MaxWrites
  BY <1>1, <1>2, <1>3, <1>4, ConstantsAssumption DEF Numbered
<1> QED
  BY <1>2, <1>4, <1>5 DEF Numbered

\* One request moves; it needs a batch afterwards only if it did before.
LEMMA WhoInserts ==
  ASSUME Shape, NEW q \in Requests, NEW label, NEW l,
         pc' = [pc EXCEPT ![q] = label], local' = [local EXCEPT ![q] = l]
  PROVE  /\ Inserting' \subseteq Inserting \cup {q}
         /\ (WillInsert(label, l) => WillInsert(pc[q], local[q])) => Inserting' \subseteq Inserting
         /\ ~WillInsert(label, l) => Inserting' \subseteq Inserting \ {q}
<1>1. ASSUME NEW x \in Requests, x # q
      PROVE  pc'[x] = pc[x] /\ local'[x] = local[x]
  BY <1>1 DEF Shape
<1>2. pc'[q] = label /\ local'[q] = l
  BY DEF Shape
<1>3. ASSUME NEW x \in Inserting'
      PROVE  x \in Requests /\ WillInsert(pc'[x], local'[x])
  BY <1>3 DEF Inserting
<1>4. ASSUME NEW x \in Inserting', x # q
      PROVE  x \in Inserting
  BY <1>1, <1>3, <1>4 DEF Inserting
<1>5. q \in Inserting' => WillInsert(label, l)
  BY <1>2, <1>3
<1>6. WillInsert(pc[q], local[q]) => q \in Inserting
  BY DEF Inserting
<1> HIDE DEF Inserting, WillInsert
<1> QED
  BY <1>4, <1>5, <1>6

\* What a step of a request has to show.
LEMMA TypedMove ==
  ASSUME Shape, TypeInv, NEW q \in Requests, NEW label, NEW l,
         pc' = [pc EXCEPT ![q] = label], local' = [local EXCEPT ![q] = l],
         Sound(label, l)', known \subseteq known', TablesOK', CachesOK', Numbered'
  PROVE  TypeInv'
<1>1. ASSUME NEW x \in Requests
      PROVE  Sound(pc[x], local[x])'
  <2>1. CASE x = q
    <3>1. pc'[x] = label /\ local'[x] = l
      BY <2>1 DEF Shape
    <3> QED
      BY <3>1 DEF Sound
  <2>2. CASE x # q
    <3>1. pc'[x] = pc[x] /\ local'[x] = local[x] /\ Sound(pc[x], local[x])
      BY <2>2 DEF Shape, TypeInv
    <3> QED
      BY <3>1 DEF Sound
  <2> QED
    BY <2>1, <2>2
<1> QED
  BY <1>1 DEF TypeInv

LEMMA TablesSame ==
  ASSUME TypeInv, UNCHANGED tables
  PROVE  /\ TablesOK' /\ known' = known /\ batch' = batch
         /\ UNCHANGED caches => CachesOK'
         /\ UNCHANGED <<writes, aborts>> /\ Inserting' \subseteq Inserting => Numbered'
<1>1. UNCHANGED <<writes, aborts>> =>
        writes' \in writes .. MaxWrites /\ aborts' \in 0 .. MaxAborts
  BY ConstantsAssumption DEF TypeInv, Numbered
<1>2. batch' = batch
  BY DEF tables
<1> QED
  BY <1>1, <1>2, NoNewBatch DEF TypeInv, TablesOK, CachesOK, tables, caches

\* A request that reads, or ends.
LEMMA TypedRead ==
  ASSUME Shape, TypeInv, NEW q \in Requests, NEW label, NEW l,
         pc' = [pc EXCEPT ![q] = label], local' = [local EXCEPT ![q] = l],
         Sound(label, l), WillInsert(label, l) => WillInsert(pc[q], local[q]),
         UNCHANGED <<tables, writes>>, CachesOK', aborts' \in 0 .. MaxAborts
  PROVE  TypeInv'
<1>1. Inserting' \subseteq Inserting
  BY WhoInserts
<1>2. writes' \in writes .. MaxWrites
  BY ConstantsAssumption DEF TypeInv, Numbered
<1>3. TablesOK' /\ known' = known /\ batch' = batch
  BY TablesSame
<1>4. Numbered'
  BY <1>1, <1>2, <1>3, NoNewBatch DEF TypeInv
<1>5. Sound(label, l)'
  BY <1>3 DEF Sound
<1> QED
  BY <1>3, <1>4, <1>5, TypedMove

LEMMA StaysWith ==
  ASSUME Shape, NEW q \in Requests, NEW label, Goto(q, label), UNCHANGED local
  PROVE  pc' = [pc EXCEPT ![q] = label] /\ local' = [local EXCEPT ![q] = local[q]]
BY DEF Shape, Goto

LEMMA TypedEnd ==
  ASSUME Shape, TypeInv, NEW q \in Requests, Finish(q),
         UNCHANGED <<tables, writes>>, CachesOK', aborts' \in 0 .. MaxAborts
  PROVE  TypeInv'
<1>1. pc' = [pc EXCEPT ![q] = "idle"] /\ local' = [local EXCEPT ![q] = NoLocal]
  BY DEF Finish, Goto
<1>2. Sound("idle", NoLocal) /\ ~WillInsert("idle", NoLocal)
  BY NoLocalSound
<1> QED
  BY <1>1, <1>2, TypedRead

\* A request that has written and goes on to clear the cache.
LEMMA TypedWrite ==
  ASSUME Shape, TypeInv, NEW q \in Requests, Written(q), known \subseteq known', TablesOK',
         CachesOK', UNCHANGED <<batch, writes, aborts>>
  PROVE  TypeInv'
<1>1. pc' = [pc EXCEPT ![q] = "clear"] /\ local' = [local EXCEPT ![q] = NoLocal]
  BY DEF Written, Goto
<1>2. Sound("clear", NoLocal) /\ ~WillInsert("clear", NoLocal)
  BY NoLocalSound
<1>3. Inserting' \subseteq Inserting
  BY <1>1, <1>2, WhoInserts
<1>4. writes' \in writes .. MaxWrites /\ aborts' \in 0 .. MaxAborts
  BY ConstantsAssumption DEF TypeInv, Numbered
<1>5. Numbered'
  BY <1>3, <1>4, NoNewBatch DEF TypeInv
<1>6. Sound("clear", NoLocal)'
  BY <1>2 DEF Sound, NoLocal
<1> QED
  BY <1>1, <1>5, <1>6, TypedMove

\* What roles grant is a key set of permissions.
LEMMA KeysTyped ==
  ASSUME Shape, Shape', TypeInv, RecordKeys
  PROVE  pastKeys' \in [Roles -> SUBSET KeySets]
<1>1. ASSUME NEW r \in Roles
      PROVE  HeldKeys(r)' \in KeySets
  <2>1. ASSUME NEW pair \in Holds(r)'
        PROVE  pair[2] \in Permissions
    BY <2>1 DEF Shape, TablesShape, AnyRow, Holds, Pairs
  <2> QED
    BY <2>1 DEF HeldKeys, KeySets
<1>2. ASSUME NEW r \in Roles
      PROVE  pastKeys[r] \cup {HeldKeys(r)'} \in SUBSET KeySets
  BY <1>1 DEF TypeInv, TablesOK
<1> QED
  BY <1>2 DEF RecordKeys

LEMMA TypedBegin ==
  ASSUME Shape, TypeInv, NEW q \in Requests, NEW label, NEW op, NEW i, NEW pairs, NEW flag,
         Begin(q, label, op, i, pairs, flag),
         label \in {"findKey", "create"} => i \in Items,
         label \in {"load", "fill"} => i \in Modules,
         label \in {"fill", "save"} => i \in known
  PROVE  TypeInv'
<1> DEFINE l == [NoLocal EXCEPT !.op = op, !.item = i, !.pairs = pairs, !.flag = flag]
<1>1. l.op = op /\ l.item = i /\ l.rows = {}
  BY DEF NoLocal
<1>2. pc' = [pc EXCEPT ![q] = label] /\ local' = [local EXCEPT ![q] = l]
  BY DEF Begin, Goto
<1>3. UNCHANGED <<tables, caches, aborts>>
  BY DEF Begin
<1>4. op = "assign" => writes < MaxWrites /\ writes' = writes + 1
  BY DEF Begin
<1>5. op # "assign" => writes' \in writes .. MaxWrites
  BY ConstantsAssumption DEF Begin, TypeInv, Numbered
<1> HIDE DEF l
<1>6. TablesOK' /\ CachesOK' /\ known' = known /\ batch' = batch
  BY <1>3, TablesSame
<1>7. Sound(label, l)'
  BY <1>1, <1>6 DEF Sound
<1>8. aborts' = aborts /\ aborts' \in 0 .. MaxAborts
  BY <1>3 DEF TypeInv, Numbered
<1>9. Numbered'
  <2>1. CASE op = "assign"
    <3>1. Inserting' \subseteq Inserting \cup {q}
      BY <1>2, WhoInserts
    <3> QED
      BY <2>1, <3>1, <1>4, <1>6, <1>8, BatchForeseen DEF TypeInv
  <2>2. CASE op # "assign"
    <3>1. ~WillInsert(label, l)
      BY <2>2, <1>1 DEF WillInsert
    <3>2. Inserting' \subseteq Inserting
      BY <1>2, <3>1, WhoInserts
    <3> QED
      BY <2>2, <3>2, <1>5, <1>6, <1>8, NoNewBatch DEF TypeInv
  <2> QED
    BY <2>1, <2>2
<1> QED
  BY <1>2, <1>6, <1>7, <1>9, TypedMove

LEMMA TypedArrivals ==
  ASSUME Shape, TypeInv, NEW q \in Requests, Arrive(q)
  PROVE  TypeInv'
<1>1. ASSUME NEW m \in Modules, NEW op, NEW pairs, NEW flag, OnModule(q, op, m, pairs, flag)
      PROVE  TypeInv'
  <2>1. CASE m \in rbacModules
    <3>1. m \in known
      BY <2>1 DEF TypeInv, CachesOK
    <3>2. PICK label \in {"check", "idle", "save"} : Begin(q, label, op, m, pairs, flag)
      BY <1>1, <2>1, AfterModuleIsALabel DEF OnModule
    <3> QED
      BY <3>1, <3>2, TypedBegin
  <2>2. CASE m \notin rbacModules
    <3>1. Begin(q, "load", op, m, pairs, flag)
      BY <1>1, <2>2 DEF OnModule
    <3> QED
      BY <3>1, TypedBegin
  <2> QED
    BY <2>1, <2>2
<1>2. ASSUME NEW p, NEW flag, OnPermission(q, p, flag)
      PROVE  TypeInv'
  <2>1. p \in known
    BY <1>2 DEF OnPermission, TypeInv, TablesOK
  <2> QED
    BY <1>2, <2>1, TypedBegin DEF OnPermission
<1>3. ASSUME NEW r, NEW flag, OnRole(q, r, flag)
      PROVE  TypeInv'
  BY <1>3, TypedBegin DEF OnRole
<1>4. ASSUME NEW r, NEW pairs, OnRoleGrants(q, r, pairs)
      PROVE  TypeInv'
  BY <1>4, TypedBegin DEF OnRoleGrants
<1>5. ASSUME NEW r, Guard(q, r) \/ MyPermissions(q, r)
      PROVE  TypeInv'
  BY <1>5, TypedBegin DEF Guard, MyPermissions
<1>6. ASSUME NEW i \in Missing, NEW flag, OnNew(q, i, flag)
      PROVE  TypeInv'
  BY <1>6, ConstantsAssumption, TypedBegin DEF OnNew
<1> QED
  BY <1>1, <1>2, <1>3, <1>4, <1>5, <1>6, Zenon DEF Arrive

LEMMA TypedItems ==
  ASSUME Shape, Shape', TypeInv, NEW q \in Requests,
         \/ FindKey(q) \/ CreateItem(q)
         \/ LoadModule(q) \/ FillModule(q) \/ SaveItem(q) \/ ClearRbacCache(q)
  PROVE  TypeInv'
<1>s. Sound(pc[q], local[q]) /\ aborts \in 0 .. MaxAborts
  BY DEF TypeInv, Numbered
<1>1. CASE FindKey(q)
  <2>0. UNCHANGED <<tables, caches, writes, aborts>> /\ CachesOK' /\ aborts' \in 0 .. MaxAborts
    BY <1>1, <1>s, TablesSame DEF FindKey
  <2>1. CASE Finish(q)
    BY <2>0, <2>1, TypedEnd
  <2>2. CASE Goto(q, "create") /\ UNCHANGED local
    <3>1. Sound("create", local[q]) /\ ~WillInsert("create", local[q])
      BY <1>1, <1>s DEF FindKey, At, Sound, WillInsert
    <3> QED
      BY <2>0, <2>2, <3>1, StaysWith, TypedRead
  <2> QED
    BY <1>1, <2>1, <2>2 DEF FindKey
<1>2. CASE CreateItem(q)
  <2>1. local[q].item \in Items
    BY <1>2, <1>s DEF CreateItem, At, Sound
  <2>2. known \subseteq known' /\ active' \subseteq known' /\ known' \subseteq Items
    BY <1>2, <2>1 DEF CreateItem, TypeInv, TablesOK
  <2>3. pastKeys' \in [Roles -> SUBSET KeySets]
    BY <1>2, KeysTyped DEF CreateItem
  <2>4. TablesOK'
    BY <1>2, <2>2, <2>3 DEF CreateItem, TypeInv, TablesOK
  <2>5. CachesOK'
    BY <1>2, <2>2 DEF CreateItem, TypeInv, CachesOK, caches
  <2> QED
    BY <1>2, <2>2, <2>4, <2>5, TypedWrite DEF CreateItem
<1>3. CASE LoadModule(q)
  <2>0. UNCHANGED <<tables, caches, writes, aborts>> /\ CachesOK' /\ aborts' \in 0 .. MaxAborts
    BY <1>3, <1>s, TablesSame DEF LoadModule
  <2>1. CASE Finish(q)
    BY <2>0, <2>1, TypedEnd
  <2>2. CASE local[q].item \in active /\ Goto(q, "fill") /\ UNCHANGED local
    <3>1. pc[q] = "load" /\ local[q].item \in known
      BY <1>3, <2>2 DEF LoadModule, At, TypeInv, TablesOK
    <3>2. Sound("fill", local[q])
      BY <3>1, <1>s DEF Sound
    <3>3. WillInsert("fill", local[q]) => WillInsert(pc[q], local[q])
      BY <3>1 DEF WillInsert
    <3> QED
      BY <2>0, <2>2, <3>2, <3>3, StaysWith, TypedRead
  <2> QED
    BY <1>3, <2>1, <2>2 DEF LoadModule
<1>4. CASE FillModule(q)
  <2>1. pc[q] = "fill" /\ local[q].item \in Modules \cap known
    BY <1>4, <1>s DEF FillModule, At, Sound
  <2>2. UNCHANGED <<tables, writes, aborts>> /\ CachesOK' /\ aborts' \in 0 .. MaxAborts
    BY <1>4, <1>s, <2>1 DEF FillModule, TypeInv, CachesOK, tables
  <2>3. CASE Finish(q)
    BY <2>2, <2>3, TypedEnd
  <2>4. CASE ~Finish(q)
    <3>1. PICK label \in {"check", "idle", "save"} :
             Goto(q, label) /\ UNCHANGED local /\ label = AfterModule(local[q].op)
      BY <1>4, <2>4, AfterModuleIsALabel DEF FillModule
    <3>2. Sound(label, local[q])
      BY <2>1, <1>s DEF Sound
    <3>3. WillInsert(label, local[q]) => WillInsert(pc[q], local[q])
      BY <2>1 DEF WillInsert
    <3> QED
      BY <2>2, <3>1, <3>2, <3>3, StaysWith, TypedRead
  <2> QED
    BY <2>3, <2>4
<1>5. CASE SaveItem(q)
  <2>1. local[q].item \in known
    BY <1>5, <1>s DEF SaveItem, At, Sound
  <2>2. known' = known /\ active' \subseteq known
    BY <1>5, <2>1 DEF SaveItem, TypeInv, TablesOK
  <2>3. pastKeys' \in [Roles -> SUBSET KeySets]
    BY <1>5, KeysTyped DEF SaveItem
  <2>4. TablesOK'
    BY <1>5, <2>2, <2>3 DEF SaveItem, TypeInv, TablesOK
  <2>5. CachesOK'
    BY <1>5, <2>2 DEF SaveItem, TypeInv, CachesOK, caches
  <2> QED
    BY <1>5, <2>2, <2>4, <2>5, TypedWrite DEF SaveItem
<1>6. CASE ClearRbacCache(q)
  <2>1. UNCHANGED <<tables, writes, aborts>> /\ Finish(q)
    BY <1>6 DEF ClearRbacCache
  <2>2. CachesOK'
    BY <1>6 DEF ClearRbacCache, Clear, CachesOK
  <2> QED
    BY <1>s, <2>1, <2>2, TypedEnd
<1> QED
  BY <1>1, <1>2, <1>3, <1>4, <1>5, <1>6

LEMMA TypedGrants ==
  ASSUME Shape, Shape', TypeInv, NEW q \in Requests, Fits(pc[q], local[q]),
         Check(q) \/ Wipe(q) \/ Insert(q) \/ Refuse(q)
  PROVE  TypeInv'
<1>s. Sound(pc[q], local[q]) /\ aborts \in 0 .. MaxAborts
  BY DEF TypeInv, Numbered
<1>h. local[q] \in Held
  BY DEF Shape
<1>1. CASE Check(q)
  <2>0. /\ UNCHANGED <<tables, caches, writes, aborts>> /\ CachesOK' /\ aborts' \in 0 .. MaxAborts
        /\ pc[q] = "check" /\ pc' = [pc EXCEPT ![q] = "wipe"]
    BY <1>1, <1>s, TablesSame DEF Check, At, Goto
  <2>1. PICK l : /\ local' = [local EXCEPT ![q] = l] /\ l.op = local[q].op
                 /\ l.rows \subseteq ModulePermission
    <3>1. CASE UNCHANGED local
      BY <3>1, <1>s DEF Shape, Sound
    <3>2. CASE local' = [local EXCEPT ![q].rows = RowsOf(local[q].pairs)]
      <4> DEFINE l == [local[q] EXCEPT !.rows = RowsOf(local[q].pairs)]
      <4>1. l.op = local[q].op /\ l.rows = RowsOf(local[q].pairs)
        BY <1>h DEF Held
      <4>2. local' = [local EXCEPT ![q] = l]
        BY <3>2
      <4>3. RowsOf(local[q].pairs) \subseteq ModulePermission
        BY DEF RowsOf, TypeInv, TablesOK
      <4> QED
        BY <4>1, <4>2, <4>3
    <3> QED
      BY <1>1, <3>1, <3>2 DEF Check
  <2>2. Sound("wipe", l) /\ (WillInsert("wipe", l) => WillInsert(pc[q], local[q]))
    BY <2>0, <2>1 DEF Sound, WillInsert
  <2> QED
    BY <2>0, <2>1, <2>2, TypedRead
<1>2. CASE Wipe(q)
  <2>0. pc[q] = "wipe" /\ UNCHANGED <<known, active, batch, caches, writes, aborts>>
    BY <1>2 DEF Wipe, At
  <2>1. module_permissions' \subseteq ModulePermission
    BY <1>2 DEF Wipe, TypeInv, TablesOK
  <2>2. asked' \in [Roles -> SUBSET Pairs]
    <3>1. CASE asked' = [r \in Roles |-> {pair \in asked[r] : pair[1] # local[q].item}]
      BY <3>1 DEF TypeInv, TablesOK
    <3>2. CASE local[q].op = "grant" /\ asked' = [asked EXCEPT ![local[q].item] = local[q].pairs]
      <4>1. local[q].item \in Roles /\ local[q].pairs \in SUBSET Pairs
        BY <1>h, <2>0, <3>2 DEF Held, Fits
      <4> QED
        BY <3>2, <4>1 DEF TypeInv, TablesOK
    <3> QED
      BY <1>2, <3>1, <3>2 DEF Wipe
  <2>3. pastKeys' \in [Roles -> SUBSET KeySets]
    BY <1>2, KeysTyped DEF Wipe
  <2>4. TablesOK' /\ CachesOK'
    BY <2>0, <2>1, <2>2, <2>3 DEF TypeInv, TablesOK, CachesOK, caches
  <2>5. PICK l : /\ l = local[q] /\ pc' = [pc EXCEPT ![q] = "insert"]
                 /\ local' = [local EXCEPT ![q] = l]
    BY <1>2, StaysWith DEF Wipe
  <2>6. Sound("insert", l)' /\ (WillInsert("insert", l) => WillInsert(pc[q], local[q]))
    BY <1>s, <2>0, <2>5 DEF Sound, WillInsert
  <2>7. Inserting' \subseteq Inserting
    BY <2>5, <2>6, WhoInserts
  <2>8. writes' \in writes .. MaxWrites /\ aborts' \in 0 .. MaxAborts
    BY <2>0, ConstantsAssumption DEF TypeInv, Numbered
  <2>9. Numbered'
    BY <2>0, <2>7, <2>8, NoNewBatch DEF TypeInv
  <2> QED
    BY <2>0, <2>4, <2>5, <2>6, <2>9, TypedMove
<1>3. CASE Insert(q)
  <2>0. /\ pc[q] = "insert" /\ UNCHANGED <<known, active, asked, caches, writes, aborts>>
        /\ Written(q)
    BY <1>3 DEF Insert, At
  <2>1. pastKeys' \in [Roles -> SUBSET KeySets]
    BY <1>3, KeysTyped DEF Insert
  <2>2. CachesOK'
    BY <2>0 DEF TypeInv, CachesOK, caches
  <2>3. CASE /\ local[q].op = "assign" /\ batch' = batch + 1
             /\ module_permissions' = module_permissions \cup {batch} \X local[q].pairs
    <3>1. pc' = [pc EXCEPT ![q] = "clear"] /\ local' = [local EXCEPT ![q] = NoLocal]
      BY <2>0 DEF Written, Goto
    <3>2. Sound("clear", NoLocal)' /\ ~WillInsert("clear", NoLocal)
      BY DEF Sound, WillInsert, NoLocal
    <3>3. q \in Inserting
      BY <2>0, <2>3 DEF Inserting, WillInsert
    <3>4. Inserting' \subseteq Inserting \ {q}
      BY <3>1, <3>2, WhoInserts
    <3>5. Numbered' /\ batch \in 0 .. MaxWrites
      BY <2>0, <2>3, <3>3, <3>4, BatchUsed DEF TypeInv
    <3>6. {batch} \X local[q].pairs \subseteq ModulePermission
      BY <1>h, <3>5 DEF Held, ModulePermission
    <3>7. TablesOK'
      BY <2>0, <2>1, <2>3, <3>6 DEF TypeInv, TablesOK
    <3> QED
      BY <2>0, <2>2, <3>1, <3>2, <3>5, <3>7, TypedMove
  <2>4. CASE UNCHANGED <<module_permissions, batch>>
    <3>1. TablesOK'
      BY <2>0, <2>1, <2>4 DEF TypeInv, TablesOK
    <3> QED
      BY <2>0, <2>2, <2>4, <3>1, TypedWrite
  <2> QED
    BY <1>3, <2>3, <2>4 DEF Insert
<1>4. CASE Refuse(q)
  <2>1. UNCHANGED <<tables, caches, writes, aborts>> /\ Finish(q)
    BY <1>4 DEF Refuse
  <2> QED
    BY <1>s, <2>1, TablesSame, TypedEnd
<1> QED
  BY <1>1, <1>2, <1>3, <1>4

LEMMA TypedQueries ==
  ASSUME Shape, Shape', TypeInv, NEW q \in Requests, Fits(pc[q], local[q]),
         QueryKeys(q) \/ QueryModules(q) \/ QueryRows(q) \/ QueryGrants(q) \/ Store(q)
  PROVE  TypeInv'
<1>s. Sound(pc[q], local[q]) /\ aborts \in 0 .. MaxAborts
  BY DEF TypeInv, Numbered
<1>h. local[q] \in Held
  BY DEF Shape
<1>r. module_permissions \subseteq ModulePermission
  BY DEF TypeInv, TablesOK
<1>1. CASE ~Store(q)
  <2>0. UNCHANGED <<tables, caches, writes, aborts>> /\ CachesOK' /\ aborts' \in 0 .. MaxAborts
    BY <1>1, <1>s, TablesSame DEF QueryKeys, QueryModules, QueryRows, QueryGrants
  <2>1. PICK label \in {"store", "rows", "grants"} : Goto(q, label)
    BY <1>1 DEF QueryKeys, QueryModules, QueryRows, QueryGrants
  <2>2. PICK l : local' = [local EXCEPT ![q] = l] /\ l.rows \subseteq ModulePermission
    <3>1. \A keys : [local[q] EXCEPT !.pairs = keys].rows \subseteq ModulePermission
      BY <1>h, <1>s DEF Held, Sound
    <3>2. \A ms : [local[q] EXCEPT !.modules = ms].rows \subseteq ModulePermission
      BY <1>h, <1>s DEF Held, Sound
    <3>3. \A mps : mps \subseteq ModulePermission =>
                     [local[q] EXCEPT !.rows = mps].rows \subseteq ModulePermission
      BY <1>h DEF Held
    <3>4. \A pairs : [local[q] EXCEPT !.rows = {}, !.modules = {}, !.pairs = pairs].rows
                         \subseteq ModulePermission
      BY <1>h DEF Held
    <3>5. CASE QueryKeys(q)
      BY <3>1, <3>5 DEF QueryKeys
    <3>6. CASE QueryModules(q)
      BY <3>2, <3>6 DEF QueryModules
    <3>7. CASE QueryRows(q)
      BY <1>r, <3>3, <3>7 DEF QueryRows
    <3>8. CASE QueryGrants(q)
      BY <3>4, <3>8 DEF QueryGrants
    <3> QED
      BY <1>1, <3>5, <3>6, <3>7, <3>8
  <2>3. Sound(label, l) /\ ~WillInsert(label, l)
    BY <2>2 DEF Sound, WillInsert
  <2>4. pc' = [pc EXCEPT ![q] = label]
    BY <2>1 DEF Goto
  <2> QED
    BY <2>0, <2>2, <2>3, <2>4, TypedRead
<1>2. CASE Store(q)
  <2>1. UNCHANGED <<tables, rbacModules, writes, aborts>> /\ Finish(q) /\ pc[q] = "store"
    BY <1>2 DEF Store, At
  <2>2. rbacMenu' \in [Roles -> Menus \cup {None}]
    <3>1. [shown |-> local[q].pairs] \in Menus
      BY <1>h DEF Held, Menus
    <3> QED
      BY <1>2, <3>1 DEF Store, TypeInv, CachesOK
  <2>3. CachesOK'
    BY <2>1, <2>2 DEF TypeInv, CachesOK, tables
  <2> QED
    BY <1>s, <2>1, <2>3, TypedEnd
<1> QED
  BY <1>1, <1>2

\* What expires leaves a cache of the same type.
LEMMA TypedExpiry ==
  ASSUME Shape, TypeInv, ExpireOther \/ \E r \in Roles : ExpireKeys(r)
  PROVE  TypeInv'
<1>1. UNCHANGED <<tables, pc, local, writes, aborts>> /\ Inserting' = Inserting
  BY DEF ExpireOther, ExpireKeys, Inserting
<1>2. CachesOK'
  <2>1. UNCHANGED known
    BY <1>1 DEF tables
  <2>2. rbacModules' \subseteq rbacModules
    BY DEF ExpireOther, ExpireKeys, KeysExpire, MenuExpires, ModuleExpires
  <2>3. rbacMenu' = rbacMenu \/ \E r \in Roles : rbacMenu' = [rbacMenu EXCEPT ![r] = None]
    BY DEF ExpireOther, ExpireKeys, KeysExpire, MenuExpires, ModuleExpires
  <2> QED
    BY <2>1, <2>2, <2>3 DEF TypeInv, CachesOK
<1>3. TablesOK' /\ Numbered' /\ known' = known
  BY <1>1, TablesSame
<1>4. \A x \in Requests : Sound(pc[x], local[x])'
  BY <1>1, <1>3 DEF TypeInv, Sound
<1> QED
  BY <1>2, <1>3, <1>4 DEF TypeInv

LEMMA TypedInit == Init => TypeInv
<1> SUFFICES ASSUME Init PROVE TypeInv
  OBVIOUS
<1>1. \A q \in Requests : pc[q] = "idle" /\ local[q] = NoLocal
  BY DEF Init
<1>2. Sound("idle", NoLocal) /\ ~WillInsert("idle", NoLocal)
  BY NoLocalSound
<1>3. Inserting = {}
  BY <1>1, <1>2 DEF Inserting
<1>4. Numbered
  <2>1. Cardinality({}) = 0 /\ IsFiniteSet({})
    BY FS_EmptySet
  <2> QED
    BY <1>3, <2>1, ConstantsAssumption DEF Init, Numbered
<1>5. module_permissions \subseteq ModulePermission
  BY ConstantsAssumption DEF Init, ModulePermission
<1>6. \A r \in Roles : Holds(r) \subseteq Pairs
  BY <1>5 DEF Init, Holds, ModulePermission
<1>7. \A r \in Roles : HeldKeys(r) \in KeySets
  BY <1>6 DEF HeldKeys, KeySets, Pairs
<1>8. TablesOK
  BY <1>5, <1>6, <1>7 DEF Init, TablesOK
<1>9. CachesOK
  BY DEF Init, CachesOK
<1> QED
  BY <1>1, <1>2, <1>4, <1>8, <1>9 DEF TypeInv

LEMMA TypedNext == GuardInv /\ TypeInv /\ [Next]_vars => TypeInv'
<1> SUFFICES ASSUME GuardInv, TypeInv, [Next]_vars PROVE TypeInv'
  OBVIOUS
<1>0. Shape /\ Shape' /\ \A q \in Requests : Fits(pc[q], local[q])
  BY GuardInvNext DEF GuardInv
<1>1. CASE UNCHANGED vars
  BY <1>1 DEF vars, tables, caches, TypeInv, TablesOK, CachesOK, Numbered, Inserting, Sound
<1>2. ASSUME NEW q \in Requests, Arrive(q)
      PROVE  TypeInv'
  BY <1>0, <1>2, TypedArrivals
<1>3. ASSUME NEW q \in Requests, Continue(q)
      PROVE  TypeInv'
  BY <1>0, <1>3, TypedItems, TypedGrants, TypedQueries DEF Continue
<1>4. ASSUME NEW q \in Requests, Abort(q)
      PROVE  TypeInv'
  <2>1. UNCHANGED <<tables, caches, writes>> /\ Finish(q) /\ aborts' \in 0 .. MaxAborts
    BY <1>4, ConstantsAssumption DEF Abort, TypeInv, Numbered
  <2> QED
    BY <1>0, <2>1, TablesSame, TypedEnd
<1> QED
  BY <1>0, <1>1, <1>2, <1>3, <1>4, TypedExpiry DEF Next

\* Only a request that moves can find that it overlaps another.
LEMMA GoesOrStays ==
  ASSUME [Next]_vars
  PROVE  overlapped' = overlapped \/ \E q \in Requests : \E label : Goto(q, label)
<1>1. ASSUME NEW q \in Requests, NEW label, NEW op, NEW i, NEW pairs, NEW flag,
             Begin(q, label, op, i, pairs, flag)
      PROVE  \E x : Goto(q, x)
  BY <1>1 DEF Begin
<1>2. ASSUME NEW q \in Requests, Arrive(q)
      PROVE  \E x : Goto(q, x)
  <2>1. ASSUME NEW op, NEW m, NEW pairs, NEW flag, OnModule(q, op, m, pairs, flag)
        PROVE  \E x : Goto(q, x)
    BY <2>1, <1>1, Zenon DEF OnModule
  <2>2. ASSUME NEW i, NEW flag, \/ OnNew(q, i, flag) \/ OnPermission(q, i, flag)
                              \/ OnRole(q, i, flag)
        PROVE  \E x : Goto(q, x)
    BY <2>2, <1>1, Zenon DEF OnNew, OnPermission, OnRole
  <2>3. ASSUME NEW r, NEW pairs, \/ OnRoleGrants(q, r, pairs) \/ Guard(q, r)
                               \/ MyPermissions(q, r)
        PROVE  \E x : Goto(q, x)
    BY <2>3, <1>1, Zenon DEF OnRoleGrants, Guard, MyPermissions
  <2> QED
    BY <1>2, <2>1, <2>2, <2>3, Zenon DEF Arrive
<1>3. ASSUME NEW q \in Requests, Continue(q) \/ Abort(q)
      PROVE  \E x : Goto(q, x)
  <2>1. CASE \/ FindKey(q) \/ CreateItem(q) \/ LoadModule(q) \/ FillModule(q) \/ SaveItem(q)
             \/ ClearRbacCache(q) \/ Abort(q)
    BY <2>1 DEF FindKey, CreateItem, LoadModule, FillModule, SaveItem, ClearRbacCache, Abort,
                Finish, Written
  <2>2. CASE Check(q) \/ Wipe(q) \/ Insert(q) \/ Refuse(q)
    BY <2>2 DEF Check, Wipe, Insert, Refuse, Finish, Written
  <2>3. CASE QueryKeys(q) \/ QueryModules(q) \/ QueryRows(q) \/ QueryGrants(q) \/ Store(q)
    BY <2>3 DEF QueryKeys, QueryModules, QueryRows, QueryGrants, Store, Finish
  <2> QED
    BY <1>3, <2>1, <2>2, <2>3 DEF Continue
<1>4. ASSUME ExpireOther \/ \E r \in Roles : ExpireKeys(r)
      PROVE  overlapped' = overlapped
  BY <1>4 DEF ExpireOther, ExpireKeys
<1>5. CASE UNCHANGED vars
  BY <1>5 DEF vars
<1> QED
  BY <1>2, <1>3, <1>4, <1>5, Zenon DEF Next

\* Whatever overlaps or dies: what is active exists, grants refer to rows of
\* module_permissions that are there, and their ids stay within the bound.
THEOREM TypeCorrect == Spec => []TypeOK
<1>1. Init => HistoryOK
  BY Zenon DEF Init, HistoryOK
<1>2. HistoryOK /\ [Next]_vars => HistoryOK'
  <2>1. ASSUME NEW q, NEW label, Goto(q, label)
        PROVE  overlapped' \in BOOLEAN
    BY <2>1, Zenon DEF Goto
  <2>2. [Next]_vars => overlapped' = overlapped \/ \E q \in Requests : \E label : Goto(q, label)
    BY GoesOrStays
  <2> QED
    BY <2>1, <2>2, Zenon DEF HistoryOK
<1>3. GuardInv /\ CalmInv /\ TypeInv /\ HistoryOK => TypeOK
  <2> SUFFICES ASSUME GuardInv, CalmInv, TypeInv PROVE HistoryOK => TypeOK
    OBVIOUS
  <2>1. role_permissions \subseteq Roles \X module_permissions
    BY DEF GuardInv, Shape, TablesShape, CalmInv, TablesFit
  <2>2. batch \in 1 .. MaxWrites + 1
    <3>1. PICK n \in Nat : n = Cardinality(Inserting)
      BY FS_CardinalityType DEF TypeInv, Numbered
    <3> QED
      BY <3>1, ConstantsAssumption DEF TypeInv, Numbered
  <2>3. local \in [Requests -> Local]
    <3>1. ASSUME NEW q \in Requests
          PROVE  local[q] \in Local
      <4>1. local[q] \in Held /\ local[q].rows \subseteq ModulePermission
        BY DEF GuardInv, Shape, TypeInv, Sound
      <4> QED
        BY <4>1 DEF Held, Local, Flags
    <3> QED
      BY <3>1 DEF GuardInv, Shape
  <2>4. /\ active \subseteq known /\ known \subseteq Items
        /\ module_permissions \subseteq ModulePermission
        /\ rbacModules \subseteq Modules
        /\ rbacMenu \in [Roles -> Menus \cup {None}]
        /\ permRoles \in [Roles -> KeySets \cup {None}]
        /\ pc \in [Requests -> Labels]
        /\ writes \in 0 .. MaxWrites /\ aborts \in 0 .. MaxAborts
        /\ asked \in [Roles -> SUBSET Pairs]
        /\ pastKeys \in [Roles -> SUBSET KeySets]
    BY DEF GuardInv, Shape, TypeInv, TablesOK, CachesOK, Numbered
  <2> QED
    BY <2>1, <2>2, <2>3, <2>4, Zenon DEF TypeOK, HistoryOK
<1> QED
  BY <1>1, <1>2, <1>3, GuardInvInit, GuardInvNext, CalmInit, CalmNext, TypedInit, TypedNext, PTL
     DEF Spec
=============================================================================
