----------------------------- MODULE WorkItems -----------------------------
(***************************************************************************)
(* The hierarchy of work: projects, their features, the features' tasks,   *)
(* the tasks' subtasks, and issues attached to any of them, created,       *)
(* updated, moved and soft-deleted by concurrent requests of any tenant.   *)
(*                                                                         *)
(* Every row carries its organization and copies of the ids above it: its  *)
(* place, one id per depth.  Each handler is check-then-save with an await *)
(* between any two checks and no transaction; each action is the code      *)
(* between two awaits.  The entity an update starts from is what findOne   *)
(* returns: with StaleReads, any version the row has had (the promise      *)
(* LaggingCopies, which EntityCache implements), else the row itself.      *)
(***************************************************************************)
EXTENDS Integers, FiniteSets, FiniteSetsExt

CONSTANTS
    Projects, Features, Tasks, SubTasks, Issues,   \* the ids of each table
    Organizations, Titles, Requests,
    None,
    StaleReads,
    MaxOperations          \* bound: operations begun

Kinds == <<Projects, Features, Tasks, SubTasks, Issues>>
Items == UNION {Kinds[k] : k \in 1 .. 5}
Level(i) == CHOOSE k \in 1 .. 5 : i \in Kinds[k]

ASSUME ItemsAssumption ==
    /\ \A j, k \in 1 .. 5 : j # k => Kinds[j] \cap Kinds[k] = {}
    /\ None \notin Items
    /\ MaxOperations \in Nat
    /\ StaleReads \in BOOLEAN

\* projectId, featureId, taskId and subTaskId of a row.
Depths == 1 .. 4
Place == {p \in [Depths -> Items \cup {None}] : \A d \in Depths : p[d] \in Kinds[d] \cup {None}}
Nowhere == [d \in Depths |-> None]

Row == [org : Organizations, place : Place, title : Titles, deleted : BOOLEAN]

VARIABLES
    item,          \* item[i]: the row with id i, or None
    past,          \* history: every version of it that was saved
    pc, local,     \* per request: its next await and what it prepares
    begun

vars == <<item, past, pc, local, begun>>

Labels == {"idle", "project", "parent", "title", "save"}
\* What a request saves and where it looks for the parent.
Local == [item : Items, row : Row, sought : Place, moves : BOOLEAN, checkTitle : BOOLEAN]

ASSUME NoneAssumption == None \notin Row \cup Organizations \cup Local

TypeOK ==
    /\ item \in [Items -> Row \cup {None}]
    /\ past \in [Items -> SUBSET Row]
    /\ pc \in [Requests -> Labels]
    /\ local \in [Requests -> Local \cup {None}]
    /\ begun \in 0 .. MaxOperations

Init ==
    /\ item = [i \in Items |-> None]
    /\ past = [i \in Items |-> {}]
    /\ pc = [r \in Requests |-> "idle"]
    /\ local = [r \in Requests |-> None]
    /\ begun = 0

Goto(r, label) == pc' = [pc EXCEPT ![r] = label]
Finish(r) == Goto(r, "idle") /\ local' = [local EXCEPT ![r] = None]
Start(r, label, l) ==
    /\ pc[r] = "idle" /\ begun < MaxOperations
    /\ begun' = begun + 1
    /\ Goto(r, label)
    /\ local' = [local EXCEPT ![r] = l]
    /\ UNCHANGED <<item, past>>

-----------------------------------------------------------------------------
(* Places                                                                  *)

\* The id an item hangs on: the deepest one its place names.
Deepest(place) == place[Max({d \in Depths : place[d] # None})]
Parent(place) == IF place = Nowhere THEN None ELSE Deepest(place)
AtNextColumn(p) == [Nowhere EXCEPT ![Level(p) + 1] = p]
At(p) == [Nowhere EXCEPT ![Level(p)] = p]

\* The ids a child of p copies: those of p's row, and p.
Under(p, row) == [row.place EXCEPT ![Level(p)] = p]

\* The ids a DTO may carry: the parent's, or for an issue any of them.
Given(i) == {w \in Place : i \in Issues \/ \A d \in Depths : w[d] # None => d = Level(i) - 1}

\* A DTO's ids, completed from the row: the parent is checked also when it stays.
Sought(i, given, place) ==
    IF i \in Issues THEN [d \in Depths |-> IF given[d] # None THEN given[d] ELSE place[d]]
    ELSE IF given # Nowhere THEN given
    ELSE IF place # Nowhere THEN At(Deepest(place)) ELSE Nowhere

LiveAnywhere(p, org) == p \in Items /\ item[p] # None /\ ~item[p].deleted
LiveOrDeleted(p, org) == p \in Items /\ item[p] # None /\ item[p].org = org
\* The WHERE clause of ensureProject, ensureFeature, ensureTask, resolveHierarchy.
Live(p, org) == p \in Items /\ item[p] # None /\ item[p].org = org /\ ~item[p].deleted

\* What findOne may return for i, and for projects the row (loaded directly).
Copies(i) ==
    {e \in (IF StaleReads /\ i \notin Projects THEN past[i] ELSE {item[i]}) : e # None /\ ~e.deleted}

\* A request of an organization finds its rows; without one (SUPER_ADMIN), all.
Visible(e, ctx) == ctx \in {None, e.org}

-----------------------------------------------------------------------------
(* The handlers                                                            *)

FirstCheck(i) ==
    IF i \in Projects THEN "save" ELSE IF i \in Issues THEN "project" ELSE "parent"

\* create: the id is a fresh uuid; every kind but a project names its parent.
BeginCreate(r, i, org, given, title) ==
    /\ item[i] = None /\ \A q \in Requests : local[q] # None => local[q].item # i
    /\ i \notin Projects => given # Nowhere
    /\ i \in Issues => given[1] # None
    /\ Start(r, FirstCheck(i),
             [item |-> i, sought |-> given, moves |-> TRUE, checkTitle |-> i \notin Issues,
              row |-> [org |-> org, place |-> Nowhere, title |-> title, deleted |-> FALSE]])

TitleChanged(i, e, sought, title) == i \notin Issues /\ title # e.title
\* A title is checked when it or the parent changes.
MustCheckTitle(i, e, sought, title) ==
    i \notin Issues /\ (title # e.title \/ Parent(sought) # Parent(e.place))

BeginUpdate(r, i, ctx, given, title) ==
    \E e \in Copies(i) :
        LET sought == Sought(i, given, e.place)
        IN  /\ Visible(e, ctx)
            /\ Start(r, IF i \in Issues /\ given = Nowhere THEN "save" ELSE FirstCheck(i),
                     [item |-> i, sought |-> sought, moves |-> given # Nowhere,
                      checkTitle |-> MustCheckTitle(i, e, sought, title),
                      row |-> [e EXCEPT !.title = title]])

BeginRemove(r, i, ctx) ==
    \E e \in Copies(i) :
        /\ Visible(e, ctx)
        /\ Start(r, "save", [item |-> i, sought |-> Nowhere, moves |-> FALSE, checkTitle |-> FALSE,
                             row |-> [e EXCEPT !.deleted = TRUE]])

SettleParentOnly(r, p) ==
    local' = [local EXCEPT ![r].row.place =
        IF @ # Nowhere /\ local[r].moves THEN [@ EXCEPT ![Level(p)] = p] ELSE Under(p, item[p])]

\* The place the row will be saved with, once its parent p is found.
Settle(r, p) ==
    local' = [local EXCEPT ![r].row.place = IF local[r].moves THEN Under(p, item[p]) ELSE @]

\* resolveHierarchy of an issue: the project first, then the deepest id given.
EnsureProject(r) ==
    LET p == local[r].sought[1]
    IN  /\ pc[r] = "project"
        /\ Live(p, local[r].row.org)
        /\ \/ Deepest(local[r].sought) = p /\ Settle(r, p) /\ Goto(r, "save")
           \/ Deepest(local[r].sought) # p /\ Goto(r, "parent") /\ UNCHANGED local
        /\ UNCHANGED <<item, past, begun>>

\* The parent is live, of the organization, and where the given ids say it is.
EnsureParent(r) ==
    LET p == Deepest(local[r].sought)
    IN  /\ pc[r] = "parent"
        /\ Live(p, local[r].row.org)
        /\ \A d \in Depths : local[r].sought[d] \in {None, Under(p, item[p])[d]}
        /\ Settle(r, p)
        /\ Goto(r, IF local[r].checkTitle THEN "title" ELSE "save")
        /\ UNCHANGED <<item, past, begun>>

Siblings(i, parent, title, org) ==
    {j \in Items \ {i} : /\ Level(j) = Level(i)
                         /\ Live(j, org)
                         /\ item[j].title = title
                         /\ Parent(item[j].place) = parent}

CheckTitle(r) ==
    /\ pc[r] = "title"
    /\ Siblings(local[r].item, Parent(local[r].sought), local[r].row.title, local[r].row.org) = {}
    /\ Goto(r, "save")
    /\ UNCHANGED <<item, past, local, begun>>

Save(r) ==
    /\ pc[r] = "save"
    /\ item' = [item EXCEPT ![local[r].item] = local[r].row]
    /\ past' = [past EXCEPT ![local[r].item] = @ \cup {local[r].row}]
    /\ Finish(r)
    /\ UNCHANGED begun

\* findOne and findAll leave the rows alone; EntityCache has what they cache.
Read(r) == pc[r] = "idle" /\ UNCHANGED vars

\* A check fails (or any await throws): 400 or 404, and nothing is saved.
Refuse(r) ==
    /\ pc[r] # "idle"
    /\ Finish(r)
    /\ UNCHANGED <<item, past, begun>>

Next ==
    \E r \in Requests :
        \/ \E i \in Items :
            \/ \E given \in Given(i), title \in Titles :
                \/ \E org \in Organizations : BeginCreate(r, i, org, given, title)
                \/ \E ctx \in Organizations \cup {None} : BeginUpdate(r, i, ctx, given, title)
            \/ \E ctx \in Organizations \cup {None} : BeginRemove(r, i, ctx)
        \/ EnsureProject(r) \/ EnsureParent(r) \/ CheckTitle(r) \/ Save(r)
        \/ Read(r) \/ Refuse(r)

Spec == Init /\ [][Next]_vars

-----------------------------------------------------------------------------
(* Properties                                                              *)

Exists(i) == item[i] # None
Alive(i) == Exists(i) /\ ~item[i].deleted

\* Tenant isolation: whatever a row refers to is a row of its own organization.
TenantIsolation ==
    \A i \in Items : Exists(i) =>
        \A d \in Depths : item[i].place[d] # None =>
            Exists(item[i].place[d]) /\ item[item[i].place[d]].org = item[i].org

\* The ids a row copies were true together: no race mixes the project of one
\* parent with the feature or the task of another.
PlaceWasTrue ==
    \A i \in Items \ Projects : Exists(i) =>
        \E p \in Items : \E v \in past[p] : item[i].place = Under(p, v)

\* No two live features of a project, tasks of a feature or subtasks of a task
\* share a title, also when they move: for requests that do not overlap.
UniqueTitles ==
    \A i \in Items \ (Projects \cup Issues) : Alive(i) =>
        Siblings(i, Parent(item[i].place), item[i].title, item[i].org) = {}

\* Nothing is created, edited or moved under a deleted parent, and an issue is
\* attached nowhere in a deleted project: for requests that do not overlap.
SavedUnderLiveParent ==
    [][\A i \in Items \ Projects :
           LET new == item'[i]
           IN  new # item[i] /\ ~new.deleted =>
                   \/ /\ Alive(Deepest(new.place))
                      /\ i \in Issues => Alive(new.place[1])
                   \/ i \in Issues /\ Exists(i) /\ new.place = item[i].place]_vars
=============================================================================
