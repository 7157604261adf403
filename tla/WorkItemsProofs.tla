-------------------------- MODULE WorkItemsProofs --------------------------
(***************************************************************************)
(* Tenant isolation of the work hierarchy, and that the ids a row copies   *)
(* were true together, for any tables, organizations and requests, and     *)
(* however stale the entities are that the updates start from.             *)
(* Unique titles and live parents, for requests that do not overlap.       *)
(***************************************************************************)
EXTENDS WorkItems, TLAPS

-----------------------------------------------------------------------------
(* Places                                                                  *)

LEMMA LevelType ==
  ASSUME NEW i \in Items
  PROVE  Level(i) \in 1 .. 5 /\ i \in Kinds[Level(i)]
  BY DEF Items, Level

LEMMA NoneIsNoRecord ==
  ASSUME NEW l \in Local
  PROVE  l # None
  BY NoneAssumption

LEMMA NowhereType == Nowhere \in Place
  BY DEF Nowhere, Place, Depths

\* Writing an id into the column of its kind keeps a place a place.
LEMMA PlaceExcept ==
  ASSUME NEW place \in Place, NEW p \in Items
  PROVE  /\ [place EXCEPT ![Level(p)] = p] \in Place
         /\ \A d \in Depths : [place EXCEPT ![Level(p)] = p][d] \in {place[d], p}
  BY LevelType DEF Place, Depths

LEMMA DeepestType ==
  ASSUME NEW place \in Place, place # Nowhere
  PROVE  Deepest(place) \in Items
  <1> DEFINE S == {d \in Depths : place[d] # None}
  <1>1. \E d \in Depths : place[d] # None
    BY DEF Place, Nowhere
  <1>2. \E m \in S : \A d \in S : m >= d
    <2>1. CASE 4 \in S  BY <2>1 DEF Depths
    <2>2. CASE 4 \notin S /\ 3 \in S  BY <2>2 DEF Depths
    <2>3. CASE 4 \notin S /\ 3 \notin S /\ 2 \in S  BY <2>3 DEF Depths
    <2>4. CASE 4 \notin S /\ 3 \notin S /\ 2 \notin S  BY <1>1, <2>4 DEF Depths
    <2> QED  BY <2>1, <2>2, <2>3, <2>4
  <1>3. Max(S) \in S
    BY <1>2 DEF Max
  <1> QED  BY <1>3 DEF Deepest, Place

LEMMA SoughtType ==
  ASSUME NEW i \in Items, NEW given \in Place, NEW place \in Place
  PROVE  Sought(i, given, place) \in Place
  <1>1. [d \in Depths |-> IF given[d] # None THEN given[d] ELSE place[d]] \in Place
    BY DEF Place
  <1>2. ASSUME place # Nowhere PROVE At(Deepest(place)) \in Place
    BY <1>2, DeepestType, NowhereType, PlaceExcept DEF At
  <1> QED  BY <1>1, <1>2, NowhereType DEF Sought

-----------------------------------------------------------------------------
(* Rows and what a request prepares                                        *)

LEMMA RowFields ==
  ASSUME NEW e \in Row
  PROVE  e.org \in Organizations /\ e.place \in Place /\ e.title \in Titles
  BY DEF Row

LEMMA RowMade ==
  ASSUME NEW org \in Organizations, NEW title \in Titles
  PROVE  [org |-> org, place |-> Nowhere, title |-> title, deleted |-> FALSE] \in Row
  BY NowhereType DEF Row

LEMMA RowRetitled ==
  ASSUME NEW e \in Row, NEW title \in Titles
  PROVE  /\ [e EXCEPT !.title = title] \in Row
         /\ [e EXCEPT !.title = title].org = e.org
         /\ [e EXCEPT !.title = title].place = e.place
  BY DEF Row

LEMMA RowRemoved ==
  ASSUME NEW e \in Row
  PROVE  /\ [e EXCEPT !.deleted = TRUE] \in Row
         /\ [e EXCEPT !.deleted = TRUE].org = e.org
         /\ [e EXCEPT !.deleted = TRUE].place = e.place
  BY DEF Row

LEMMA LocalMade ==
  ASSUME NEW i \in Items, NEW e \in Row, NEW s \in Place, NEW m \in BOOLEAN, NEW c \in BOOLEAN
  PROVE  [item |-> i, sought |-> s, moves |-> m, checkTitle |-> c, row |-> e] \in Local
  BY Zenon DEF Local

LEMMA LocalFields ==
  ASSUME NEW l \in Local
  PROVE  l.item \in Items /\ l.row \in Row /\ l.sought \in Place
  BY DEF Local

LEMMA LocalMoved ==
  ASSUME NEW l \in Local, NEW place \in Place
  PROVE  /\ [l EXCEPT !.row.place = place] \in Local
         /\ [l EXCEPT !.row.place = place].item = l.item
         /\ [l EXCEPT !.row.place = place].moves = l.moves
         /\ [l EXCEPT !.row.place = place].row.org = l.row.org
         /\ [l EXCEPT !.row.place = place].row.place = place
  BY DEF Local, Row

-----------------------------------------------------------------------------
(* The invariant                                                           *)

\* Every id of a place is a row of the organization.
Owned(place, org) ==
    \A d \in Depths : place[d] # None => Exists(place[d]) /\ item[place[d]].org = org

\* The place was copied from a version of its parent.
WasTrue(place) == \E p \in Items : \E v \in past[p] : place = Under(p, v)

\* The rows: saved versions are of the row's organization, which owns what they name.
RowsInv ==
    /\ \A i \in Items : Exists(i) => item[i] \in past[i]
    /\ \A i \in Items : \A v \in past[i] :
          Exists(i) /\ v.org = item[i].org /\ Owned(v.place, v.org)

\* What a request r prepares is of the organization of the row it will replace,
\* and two requests never prepare a row that does not exist yet under one id.
PreparedInv(r) ==
    local[r] # None =>
        /\ Owned(local[r].row.place, local[r].row.org)
        /\ Exists(local[r].item) => item[local[r].item].org = local[r].row.org
        /\ ~Exists(local[r].item) =>
              \A q \in Requests \ {r} : local[q] # None => local[q].item # local[r].item

LabelsInv == \A r \in Requests : pc[r] # "idle" => local[r] # None

WorkInv == TypeOK /\ RowsInv /\ LabelsInv /\ \A r \in Requests : PreparedInv(r)

LEMMA WorkInvIsolates == WorkInv => TenantIsolation
  <1> SUFFICES ASSUME WorkInv, NEW i \in Items, Exists(i), NEW d \in Depths, item[i].place[d] # None
               PROVE  Exists(item[i].place[d]) /\ item[item[i].place[d]].org = item[i].org
    BY DEF TenantIsolation
  <1>1. item[i] \in past[i]
    BY DEF WorkInv, RowsInv
  <1> QED  BY <1>1 DEF WorkInv, RowsInv, Owned

LEMMA InitWork == Init => WorkInv
  BY ItemsAssumption DEF Init, WorkInv, TypeOK, Labels, RowsInv, LabelsInv, PreparedInv, Exists

\* A request that ends drops what it prepared; the rows are as before.
LEMMA FinishWork ==
  ASSUME WorkInv, NEW r \in Requests, Finish(r), UNCHANGED <<item, past, begun>>
  PROVE  WorkInv'
  <1>1. TypeOK'
    BY DEF WorkInv, TypeOK, Finish, Goto, Labels
  <1>2. RowsInv'
    BY DEF WorkInv, RowsInv, Owned, Exists
  <1>3. LabelsInv'
    BY DEF WorkInv, LabelsInv, Finish, Goto, TypeOK
  <1>4. ASSUME NEW q \in Requests PROVE PreparedInv(q)'
    BY <1>4 DEF WorkInv, TypeOK, PreparedInv, Owned, Exists, Finish, Goto
  <1> QED  BY <1>1, <1>2, <1>3, <1>4 DEF WorkInv

\* An operation begins with a row of an existing organization whose place it
\* owns, for a row of that organization, or for a new id.
LEMMA StartWork ==
  ASSUME WorkInv, NEW r \in Requests, NEW label \in Labels \ {"idle"},
         NEW i \in Items, NEW e \in Row, NEW s \in Place, NEW m \in BOOLEAN, NEW c \in BOOLEAN,
         Start(r, label, [item |-> i, sought |-> s, moves |-> m, checkTitle |-> c, row |-> e]),
         Owned(e.place, e.org),
         Exists(i) => item[i].org = e.org,
         ~Exists(i) => \A q \in Requests : local[q] # None => local[q].item # i
  PROVE  WorkInv'
  <1> DEFINE l == [item |-> i, sought |-> s, moves |-> m, checkTitle |-> c, row |-> e]
  <1>1. l \in Local /\ l.item = i /\ l.row = e /\ l # None
    <2>1. l \in Local /\ l.item = i /\ l.row = e
      BY LocalMade
    <2>2. i # None
      BY ItemsAssumption
    <2> QED  BY <2>1, NoneIsNoRecord
  <1> HIDE DEF l
  <1>2. /\ begun' = begun + 1 /\ begun < MaxOperations /\ pc[r] = "idle"
        /\ pc' = [pc EXCEPT ![r] = label] /\ local' = [local EXCEPT ![r] = l]
        /\ UNCHANGED <<item, past>>
    BY DEF Start, Goto, l
  <1>3. TypeOK'
    BY <1>1, <1>2, ItemsAssumption DEF WorkInv, TypeOK
  <1>4. RowsInv'
    BY <1>2 DEF WorkInv, RowsInv, Owned, Exists
  <1>5. LabelsInv'
    BY <1>1, <1>2 DEF WorkInv, LabelsInv, TypeOK
  <1>6. ASSUME NEW q \in Requests PROVE PreparedInv(q)'
    BY <1>1, <1>2, <1>6 DEF WorkInv, TypeOK, PreparedInv, Owned, Exists
  <1> QED  BY <1>3, <1>4, <1>5, <1>6 DEF WorkInv

-----------------------------------------------------------------------------
(* The steps                                                               *)

\* Copies are rows of the organization, and what they name is too.
LEMMA CopyFacts ==
  ASSUME WorkInv, NEW i \in Items, NEW e \in Copies(i)
  PROVE  e \in past[i] /\ e \in Row /\ Exists(i) /\ item[i].org = e.org /\ Owned(e.place, e.org)
  <1>1. e \in past[i]
    BY DEF Copies, WorkInv, RowsInv, Exists
  <1> QED  BY <1>1 DEF WorkInv, RowsInv, TypeOK

LEMMA CreateWork ==
  ASSUME WorkInv, NEW r \in Requests, NEW i \in Items, NEW org \in Organizations,
         NEW given \in Given(i), NEW title \in Titles, BeginCreate(r, i, org, given, title)
  PROVE  WorkInv'
  <1> DEFINE e == [org |-> org, place |-> Nowhere, title |-> title, deleted |-> FALSE]
  <1>1. e \in Row /\ e.place = Nowhere /\ e.org = org
    BY RowMade
  <1>2. Owned(e.place, e.org)
    BY <1>1 DEF Owned, Nowhere
  <1>3. FirstCheck(i) \in Labels \ {"idle"} /\ given \in Place /\ (i \notin Issues) \in BOOLEAN
    BY DEF FirstCheck, Labels, Given
  <1>4. ~Exists(i) /\ \A q \in Requests : local[q] # None => local[q].item # i
    BY DEF BeginCreate, Exists
  <1>5. Start(r, FirstCheck(i), [item |-> i, sought |-> given, moves |-> TRUE,
                                 checkTitle |-> i \notin Issues, row |-> e])
    BY DEF BeginCreate
  <1> HIDE DEF e
  <1> QED  BY <1>1, <1>2, <1>3, <1>4, <1>5, StartWork

LEMMA UpdateWork ==
  ASSUME WorkInv, NEW r \in Requests, NEW i \in Items, NEW ctx,
         NEW given \in Given(i), NEW title \in Titles, BeginUpdate(r, i, ctx, given, title)
  PROVE  WorkInv'
  <1>1. PICK e \in Copies(i) :
          Start(r, IF i \in Issues /\ given = Nowhere THEN "save" ELSE FirstCheck(i),
                [item |-> i, sought |-> Sought(i, given, e.place), moves |-> given # Nowhere,
                 checkTitle |-> MustCheckTitle(i, e, Sought(i, given, e.place), title),
                 row |-> [e EXCEPT !.title = title]])
    BY DEF BeginUpdate
  <1>2. e \in Row /\ Exists(i) /\ item[i].org = e.org /\ Owned(e.place, e.org)
    BY CopyFacts
  <1> DEFINE n == [e EXCEPT !.title = title]
             s == Sought(i, given, e.place)
             m == given # Nowhere
             c == MustCheckTitle(i, e, s, title)
             label == IF i \in Issues /\ given = Nowhere THEN "save" ELSE FirstCheck(i)
  <1>3. n \in Row /\ n.org = e.org /\ n.place = e.place
    BY <1>2, RowRetitled
  <1>4. s \in Place
    BY <1>2, RowFields, SoughtType DEF Given
  <1>5. m \in BOOLEAN /\ c \in BOOLEAN
    BY DEF MustCheckTitle
  <1>6. label \in Labels \ {"idle"}
    BY DEF FirstCheck, Labels
  <1>7. Start(r, label, [item |-> i, sought |-> s, moves |-> m, checkTitle |-> c, row |-> n])
    BY <1>1
  <1> HIDE DEF n, s, m, c, label
  <1> QED  BY <1>2, <1>3, <1>4, <1>5, <1>6, <1>7, StartWork

LEMMA RemoveWork ==
  ASSUME WorkInv, NEW r \in Requests, NEW i \in Items, NEW ctx, BeginRemove(r, i, ctx)
  PROVE  WorkInv'
  <1>1. PICK e \in Copies(i) :
          Start(r, "save", [item |-> i, sought |-> Nowhere, moves |-> FALSE, checkTitle |-> FALSE,
                            row |-> [e EXCEPT !.deleted = TRUE]])
    BY DEF BeginRemove
  <1>2. e \in Row /\ Exists(i) /\ item[i].org = e.org /\ Owned(e.place, e.org)
    BY CopyFacts
  <1> DEFINE n == [e EXCEPT !.deleted = TRUE]
  <1>3. n \in Row /\ n.org = e.org /\ n.place = e.place
    BY <1>2, RowRemoved
  <1>4. Start(r, "save", [item |-> i, sought |-> Nowhere, moves |-> FALSE, checkTitle |-> FALSE,
                          row |-> n])
    BY <1>1
  <1>5. "save" \in Labels \ {"idle"}
    BY DEF Labels
  <1> HIDE DEF n
  <1> QED  BY <1>2, <1>3, <1>4, <1>5, NowhereType, StartWork

\* A parent of the organization gives its child a place the organization owns.
LEMMA SettleWork ==
  ASSUME WorkInv, NEW r \in Requests, NEW p, NEW label \in Labels,
         pc[r] # "idle", Live(p, local[r].row.org), Settle(r, p), Goto(r, label),
         UNCHANGED <<item, past, begun>>
  PROVE  WorkInv'
  <1> DEFINE place == IF local[r].moves THEN Under(p, item[p]) ELSE local[r].row.place
             l == [local[r] EXCEPT !.row.place = place]
  <1>1. local[r] # None /\ local[r] \in Local
    BY DEF WorkInv, LabelsInv, TypeOK
  <1>2. p \in Items /\ Exists(p) /\ item[p].org = local[r].row.org
    BY DEF Live, Exists
  <1>3. item[p] \in Row /\ Owned(item[p].place, item[p].org)
    BY <1>2 DEF WorkInv, RowsInv, TypeOK
  <1>4. Under(p, item[p]) \in Place /\ Owned(Under(p, item[p]), local[r].row.org)
    <2>1. item[p].place \in Place
      BY <1>3, RowFields
    <2> QED  BY <1>2, <1>3, <2>1, PlaceExcept DEF Under, Owned
  <1>5. place \in Place /\ Owned(place, local[r].row.org)
    BY <1>1, <1>4, LocalFields, RowFields DEF WorkInv, PreparedInv
  <1> HIDE DEF place
  <1>6. /\ l \in Local /\ l.item = local[r].item /\ l.row.org = local[r].row.org
        /\ l.row.place = place
    BY <1>1, <1>5, LocalMoved
  <1>7. local' = [local EXCEPT ![r] = l]
    BY DEF Settle, place
  <1> HIDE DEF l
  <1>8. TypeOK'
    BY <1>6, <1>7 DEF WorkInv, TypeOK, Goto
  <1>9. RowsInv'
    BY DEF WorkInv, RowsInv, Owned, Exists
  <1>10. LabelsInv'
    BY <1>1, <1>6, <1>7, NoneIsNoRecord DEF WorkInv, LabelsInv, TypeOK, Goto
  <1>11. ASSUME NEW q \in Requests PROVE PreparedInv(q)'
    BY <1>1, <1>5, <1>6, <1>7, <1>11 DEF WorkInv, TypeOK, PreparedInv, Owned, Exists
  <1> QED  BY <1>8, <1>9, <1>10, <1>11 DEF WorkInv

\* A check that only lets the request go on.
LEMMA GotoWork ==
  ASSUME WorkInv, NEW r \in Requests, NEW label \in Labels, pc[r] # "idle", Goto(r, label),
         UNCHANGED <<item, past, local, begun>>
  PROVE  WorkInv'
  <1>1. TypeOK'
    BY DEF WorkInv, TypeOK, Goto
  <1>2. RowsInv' /\ \A q \in Requests : PreparedInv(q)'
    BY DEF WorkInv, RowsInv, PreparedInv, Owned, Exists
  <1>3. LabelsInv'
    BY DEF WorkInv, LabelsInv, TypeOK, Goto
  <1> QED  BY <1>1, <1>2, <1>3 DEF WorkInv

\* A save changes the organization of no row, so what was owned stays owned.
LEMMA SaveWork ==
  ASSUME WorkInv, NEW r \in Requests, Save(r)
  PROVE  WorkInv'
  <1>a. local[r] # None /\ local[r].item \in Items /\ local[r].row \in Row
    BY LocalFields DEF WorkInv, LabelsInv, TypeOK, Save
  <1>b. PICK i \in Items, n \in Row : i = local[r].item /\ n = local[r].row
    BY <1>a
  <1>1. local[r] # None /\ i \in Items /\ n \in Row /\ n # None
    BY <1>a, NoneAssumption
  <1>2. /\ Owned(n.place, n.org)
        /\ Exists(i) => item[i].org = n.org
        /\ ~Exists(i) => \A q \in Requests \ {r} : local[q] # None => local[q].item # i
    BY <1>1, <1>b DEF WorkInv, PreparedInv
  <1>3. /\ item' = [item EXCEPT ![i] = n] /\ past' = [past EXCEPT ![i] = past[i] \cup {n}]
        /\ local' = [local EXCEPT ![r] = None] /\ pc' = [pc EXCEPT ![r] = "idle"]
        /\ begun' = begun
    BY <1>b DEF Save, Finish, Goto
  <1>4. \A j \in Items : Exists(j) => Exists(j)' /\ item'[j].org = item[j].org
    BY <1>1, <1>2, <1>3 DEF WorkInv, TypeOK, Exists
  <1>5. ASSUME NEW place \in Place, NEW org, Owned(place, org) PROVE Owned(place, org)'
    BY <1>4, <1>5 DEF Owned, Place
  <1>6. TypeOK'
    BY <1>1, <1>3 DEF WorkInv, TypeOK, Labels
  <1>7. RowsInv'
    <2>1. ASSUME NEW j \in Items, Exists(j)' PROVE (item[j] \in past[j])'
      BY <1>1, <1>3, <2>1 DEF WorkInv, RowsInv, TypeOK, Exists
    <2>2. ASSUME NEW j \in Items, NEW v \in past'[j]
          PROVE  Exists(j)' /\ v.org = item'[j].org /\ Owned(v.place, v.org)'
      <3>1. CASE v \in past[j]
        <4>1. v.org = item[j].org /\ Exists(j) /\ Owned(v.place, v.org) /\ v \in Row
          BY <3>1 DEF WorkInv, RowsInv, TypeOK
        <4> QED  BY <1>4, <1>5, <4>1, RowFields
      <3>2. CASE v \notin past[j]
        <4>1. j = i /\ v = n
          BY <1>3, <2>2, <3>2 DEF WorkInv, TypeOK
        <4>2. Owned(n.place, n.org)'
          BY <1>1, <1>2, <1>5, RowFields
        <4> QED  BY <1>1, <1>3, <4>1, <4>2 DEF WorkInv, TypeOK, Exists
      <3> QED  BY <3>1, <3>2
    <2> QED  BY <2>1, <2>2 DEF RowsInv
  <1>8. LabelsInv'
    BY <1>3 DEF WorkInv, LabelsInv, TypeOK
  <1>9. ASSUME NEW q \in Requests PROVE PreparedInv(q)'
    <2> SUFFICES ASSUME local'[q] # None PROVE PreparedInv(q)'
      BY DEF PreparedInv
    <2>1. q # r /\ local'[q] = local[q] /\ local[q] \in Local
      BY <1>3, <1>9 DEF WorkInv, TypeOK
    <2>2. local[q].row.place \in Place /\ local[q].item \in Items
      BY <2>1, LocalFields, RowFields
    <2>3. Owned(local[q].row.place, local[q].row.org)'
      BY <1>5, <2>1, <2>2 DEF WorkInv, PreparedInv
    <2>4. Exists(local[q].item)' => item'[local[q].item].org = local[q].row.org
      <3>1. CASE Exists(local[q].item)
        BY <1>4, <2>1, <2>2, <3>1 DEF WorkInv, PreparedInv
      <3>2. CASE ~Exists(local[q].item) /\ local[q].item # i
        BY <1>3, <3>2 DEF Exists
      <3>3. CASE ~Exists(local[q].item) /\ local[q].item = i
        BY <1>2, <2>1, <3>3
      <3> QED  BY <3>1, <3>2, <3>3
    <2>5. ~Exists(local[q].item)' => \A s \in Requests \ {q} : local'[s] # None => local'[s].item # local[q].item
      BY <1>3, <1>4, <2>1, <2>2 DEF WorkInv, PreparedInv, TypeOK
    <2> QED  BY <2>1, <2>3, <2>4, <2>5 DEF PreparedInv
  <1> QED  BY <1>6, <1>7, <1>8, <1>9 DEF WorkInv

LEMMA NextWork == WorkInv /\ [Next]_vars => WorkInv'
  <1> SUFFICES ASSUME WorkInv, [Next]_vars PROVE WorkInv'
    OBVIOUS
  <1>1. ASSUME NEW r \in Requests, EnsureProject(r) PROVE WorkInv'
    BY <1>1, SettleWork, GotoWork DEF EnsureProject, Labels
  <1>2. ASSUME NEW r \in Requests, EnsureParent(r) PROVE WorkInv'
    BY <1>2, SettleWork DEF EnsureParent, Labels
  <1>3. ASSUME NEW r \in Requests, CheckTitle(r) PROVE WorkInv'
    BY <1>3, GotoWork DEF CheckTitle, Labels
  <1>4. ASSUME NEW r \in Requests, Refuse(r) PROVE WorkInv'
    BY <1>4, FinishWork DEF Refuse
  <1>5. CASE UNCHANGED vars
    BY <1>5 DEF vars, WorkInv, TypeOK, RowsInv, LabelsInv, PreparedInv, Owned, Exists
  <1> QED  BY <1>1, <1>2, <1>3, <1>4, <1>5, CreateWork, UpdateWork, RemoveWork, SaveWork
      DEF Next, Read

\* Rows, places and prepared rows have their declared shape.
THEOREM TypeCorrect == Spec => []TypeOK
  <1>1. WorkInv => TypeOK
    BY DEF WorkInv
  <1> QED  BY InitWork, NextWork, <1>1, PTL DEF Spec

\* No interleaving of the handlers of any tenants, and no stale entity, makes a
\* row of one organization refer to a row of another.
THEOREM Isolation == Spec => []TenantIsolation
  BY InitWork, NextWork, WorkInvIsolates, PTL DEF Spec

-----------------------------------------------------------------------------
(* Places that were true                                                   *)

\* Saved places were true, and so is a prepared one once the parent is checked
\* or when the request does not move its item.
TruthInv ==
    /\ \A i \in Items \ Projects : \A v \in past[i] : WasTrue(v.place)
    /\ \A r \in Requests :
          /\ local[r] # None
          /\ local[r].item \notin Projects
          /\ pc[r] \in {"title", "save"} \/ ~local[r].moves
          => WasTrue(local[r].row.place)

LEMMA InitTruth == Init => TruthInv
  BY DEF Init, TruthInv

\* Steps that keep the versions keep what was true of them.
LEMMA StartTruth ==
  ASSUME WorkInv, TruthInv, NEW r \in Requests, NEW label,
         NEW i \in Items, NEW e \in Row, NEW s \in Place, NEW m \in BOOLEAN, NEW c \in BOOLEAN,
         Start(r, label, [item |-> i, sought |-> s, moves |-> m, checkTitle |-> c, row |-> e]),
         i \notin Projects /\ (label \in {"title", "save"} \/ ~m) => WasTrue(e.place)
  PROVE  TruthInv'
  <1>1. /\ pc' = [pc EXCEPT ![r] = label] /\ UNCHANGED <<item, past>>
        /\ local' = [local EXCEPT ![r] =
              [item |-> i, sought |-> s, moves |-> m, checkTitle |-> c, row |-> e]]
    BY DEF Start, Goto
  <1>2. \A j \in Items \ Projects : \A v \in past'[j] : WasTrue(v.place)'
    BY <1>1 DEF TruthInv, WasTrue
  <1>3. ASSUME NEW q \in Requests, local'[q] # None, local'[q].item \notin Projects,
               pc'[q] \in {"title", "save"} \/ ~local'[q].moves
        PROVE  WasTrue(local[q].row.place)'
    BY <1>1, <1>3 DEF TruthInv, WasTrue, WorkInv, TypeOK
  <1> QED  BY <1>2, <1>3 DEF TruthInv

LEMMA BeginTruth ==
  ASSUME WorkInv, TruthInv, NEW r \in Requests, NEW i \in Items
  PROVE  /\ \A org \in Organizations, given \in Given(i), title \in Titles :
               BeginCreate(r, i, org, given, title) => TruthInv'
         /\ \A ctx \in Organizations \cup {None}, given \in Given(i), title \in Titles :
               BeginUpdate(r, i, ctx, given, title) => TruthInv'
         /\ \A ctx \in Organizations \cup {None} : BeginRemove(r, i, ctx) => TruthInv'
  <1>c. ASSUME NEW e \in Copies(i), i \notin Projects PROVE WasTrue(e.place)
    BY <1>c, CopyFacts DEF TruthInv
  <1>f. i \notin Projects => FirstCheck(i) \notin {"title", "save"}
    BY DEF FirstCheck
  <1>1. ASSUME NEW org \in Organizations, NEW given \in Given(i), NEW title \in Titles,
               BeginCreate(r, i, org, given, title)
        PROVE  TruthInv'
    <2> DEFINE e == [org |-> org, place |-> Nowhere, title |-> title, deleted |-> FALSE]
    <2>1. e \in Row
      BY RowMade
    <2>2. Start(r, FirstCheck(i), [item |-> i, sought |-> given, moves |-> TRUE,
                                   checkTitle |-> i \notin Issues, row |-> e])
      BY <1>1 DEF BeginCreate
    <2>3. given \in Place /\ (i \notin Issues) \in BOOLEAN
      BY DEF Given
    <2> HIDE DEF e
    <2> QED  BY <1>f, <2>1, <2>2, <2>3, StartTruth
  <1>2. ASSUME NEW ctx \in Organizations \cup {None}, NEW given \in Given(i), NEW title \in Titles,
               BeginUpdate(r, i, ctx, given, title)
        PROVE  TruthInv'
    <2>1. PICK e \in Copies(i) :
            Start(r, IF i \in Issues /\ given = Nowhere THEN "save" ELSE FirstCheck(i),
                  [item |-> i, sought |-> Sought(i, given, e.place), moves |-> given # Nowhere,
                   checkTitle |-> MustCheckTitle(i, e, Sought(i, given, e.place), title),
                   row |-> [e EXCEPT !.title = title]])
      BY <1>2 DEF BeginUpdate
    <2> DEFINE n == [e EXCEPT !.title = title]
               s == Sought(i, given, e.place)
               m == given # Nowhere
               c == MustCheckTitle(i, e, s, title)
               label == IF i \in Issues /\ given = Nowhere THEN "save" ELSE FirstCheck(i)
    <2>2. n \in Row /\ n.place = e.place
      BY CopyFacts, RowRetitled
    <2>3. s \in Place
      BY CopyFacts, RowFields, SoughtType DEF Given
    <2>4. m \in BOOLEAN /\ c \in BOOLEAN
      BY DEF MustCheckTitle
    <2>5. i \notin Projects => WasTrue(n.place)
      BY <1>c, <2>2
    <2>6. Start(r, label, [item |-> i, sought |-> s, moves |-> m, checkTitle |-> c, row |-> n])
      BY <2>1
    <2> HIDE DEF n, s, m, c, label
    <2> QED  BY <2>2, <2>3, <2>4, <2>5, <2>6, StartTruth
  <1>3. ASSUME NEW ctx \in Organizations \cup {None}, BeginRemove(r, i, ctx) PROVE TruthInv'
    <2>1. PICK e \in Copies(i) :
            Start(r, "save", [item |-> i, sought |-> Nowhere, moves |-> FALSE, checkTitle |-> FALSE,
                              row |-> [e EXCEPT !.deleted = TRUE]])
      BY <1>3 DEF BeginRemove
    <2> DEFINE n == [e EXCEPT !.deleted = TRUE]
    <2>2. n \in Row /\ n.place = e.place
      BY CopyFacts, RowRemoved
    <2>3. i \notin Projects => WasTrue(n.place)
      BY <1>c, <2>2
    <2>4. Start(r, "save", [item |-> i, sought |-> Nowhere, moves |-> FALSE, checkTitle |-> FALSE,
                            row |-> n])
      BY <2>1
    <2> HIDE DEF n
    <2> QED  BY <2>2, <2>3, <2>4, NowhereType, StartTruth
  <1> QED  BY <1>1, <1>2, <1>3

\* Settling writes the place a child of the parent's row has.
LEMMA SettleTruth ==
  ASSUME WorkInv, TruthInv, NEW r \in Requests, NEW p, NEW label,
         pc[r] # "idle", Live(p, local[r].row.org), Settle(r, p), Goto(r, label),
         UNCHANGED <<item, past>>
  PROVE  TruthInv'
  <1>1. local[r] # None /\ local[r] \in Local
    BY DEF WorkInv, LabelsInv, TypeOK
  <1>2. p \in Items /\ item[p] \in past[p] /\ item[p] \in Row
    BY DEF Live, Exists, WorkInv, RowsInv, TypeOK
  <1>3. WasTrue(Under(p, item[p]))
    BY <1>2 DEF WasTrue
  <1>4. PICK place \in Place :
          place = IF local[r].moves THEN Under(p, item[p]) ELSE local[r].row.place
    BY <1>1, <1>2, LocalFields, RowFields, PlaceExcept DEF Under
  <1>5. PICK l \in Local :
          /\ l.item = local[r].item /\ l.row.place = place
          /\ local' = [local EXCEPT ![r] = l]
    BY <1>1, <1>4, LocalMoved DEF Settle
  <1>6. local[r].item \notin Projects => WasTrue(place)
    BY <1>1, <1>3, <1>4 DEF TruthInv
  <1>7. ASSUME NEW place2, WasTrue(place2) PROVE WasTrue(place2)'
    BY <1>7 DEF WasTrue
  <1>8. \A j \in Items \ Projects : \A v \in past'[j] : WasTrue(v.place)'
    BY <1>7 DEF TruthInv
  <1>9. ASSUME NEW q \in Requests, local'[q] # None, local'[q].item \notin Projects,
               pc'[q] \in {"title", "save"} \/ ~local'[q].moves
        PROVE  WasTrue(local[q].row.place)'
    <2>1. CASE q = r
      <3>1. local'[q].row.place = place /\ WasTrue(place)
        BY <1>5, <1>6, <1>9, <2>1 DEF WorkInv, TypeOK
      <3> QED  BY <1>2, <3>1 DEF WasTrue
    <2>2. CASE q # r
      <3>1. local'[q] = local[q] /\ pc'[q] = pc[q]
        BY <1>5, <2>2 DEF Goto, WorkInv, TypeOK
      <3> QED  BY <1>9, <3>1 DEF TruthInv, WasTrue
    <2> QED  BY <2>1, <2>2
  <1> QED  BY <1>8, <1>9 DEF TruthInv

LEMMA SaveTruth ==
  ASSUME WorkInv, TruthInv, NEW r \in Requests, Save(r)
  PROVE  TruthInv'
  <1>1. local[r] # None /\ local[r].item \in Items /\ local[r].row \in Row
    BY LocalFields DEF WorkInv, LabelsInv, TypeOK, Save
  <1>2. PICK i \in Items, n \in Row : i = local[r].item /\ n = local[r].row
    BY <1>1
  <1>3. i \notin Projects => WasTrue(n.place)
    BY <1>1, <1>2 DEF TruthInv, Save
  <1>4. /\ past' = [past EXCEPT ![i] = past[i] \cup {n}]
        /\ local' = [local EXCEPT ![r] = None] /\ pc' = [pc EXCEPT ![r] = "idle"]
    BY <1>2 DEF Save, Finish, Goto
  <1>5. \A j \in Items : past[j] \subseteq past'[j] /\ past'[j] \subseteq past[j] \cup (IF j = i THEN {n} ELSE {})
    BY <1>4 DEF WorkInv, TypeOK
  <1>6. ASSUME NEW place, WasTrue(place) PROVE WasTrue(place)'
    BY <1>5, <1>6 DEF WasTrue
  <1>7. \A j \in Items \ Projects : \A v \in past'[j] : WasTrue(v.place)'
    BY <1>3, <1>5, <1>6 DEF TruthInv
  <1>8. ASSUME NEW q \in Requests, local'[q] # None, local'[q].item \notin Projects,
               pc'[q] \in {"title", "save"} \/ ~local'[q].moves
        PROVE  WasTrue(local[q].row.place)'
    <2>1. q # r /\ local'[q] = local[q] /\ pc'[q] = pc[q]
      BY <1>4, <1>8 DEF WorkInv, TypeOK
    <2>2. WasTrue(local[q].row.place)
      BY <1>8, <2>1 DEF TruthInv
    <2> QED  BY <1>5, <2>1, <2>2 DEF WasTrue
  <1> QED  BY <1>7, <1>8 DEF TruthInv

\* Steps that prepare nothing new: the versions stay, and a request that goes on
\* to its save had its parent checked before.
LEMMA QuietTruth ==
  ASSUME WorkInv, TruthInv, UNCHANGED past,
         \A q \in Requests : \/ local'[q] = None
                             \/ /\ local'[q] = local[q]
                                /\ \/ pc'[q] = pc[q] \/ pc'[q] \in {"project", "parent"}
                                   \/ pc[q] = "title"
  PROVE  TruthInv'
  BY DEF TruthInv, WasTrue

LEMMA NextTruth == WorkInv /\ TruthInv /\ [Next]_vars => TruthInv'
  <1> SUFFICES ASSUME WorkInv, TruthInv, [Next]_vars PROVE TruthInv'
    OBVIOUS
  <1>1. ASSUME NEW r \in Requests, EnsureProject(r) PROVE TruthInv'
    <2> DEFINE p == local[r].sought[1]
    <2>1. CASE Settle(r, p) /\ Goto(r, "save")
      BY <1>1, <2>1, SettleTruth DEF EnsureProject
    <2>2. CASE Goto(r, "parent") /\ UNCHANGED local
      <3>1. UNCHANGED past
        BY <1>1 DEF EnsureProject
      <3>2. \A q \in Requests : local'[q] = local[q] /\ (pc'[q] = pc[q] \/ pc'[q] = "parent")
        BY <2>2 DEF Goto, WorkInv, TypeOK
      <3> QED  BY <3>1, <3>2, QuietTruth
    <2> QED  BY <1>1, <2>1, <2>2 DEF EnsureProject
  <1>2. ASSUME NEW r \in Requests, EnsureParent(r) PROVE TruthInv'
    BY <1>2, SettleTruth DEF EnsureParent
  <1>3. ASSUME NEW r \in Requests, CheckTitle(r) PROVE TruthInv'
    <2>1. UNCHANGED past
      BY <1>3 DEF CheckTitle
    <2>2. \A q \in Requests : local'[q] = local[q] /\ (pc'[q] = pc[q] \/ pc[q] = "title")
      BY <1>3 DEF CheckTitle, Goto, WorkInv, TypeOK
    <2> QED  BY <2>1, <2>2, QuietTruth
  <1>4. ASSUME NEW r \in Requests, Refuse(r) PROVE TruthInv'
    <2>1. UNCHANGED past
      BY <1>4 DEF Refuse
    <2>2. \A q \in Requests : local'[q] = None \/ (local'[q] = local[q] /\ pc'[q] = pc[q])
      BY <1>4 DEF Refuse, Finish, Goto, WorkInv, TypeOK
    <2> QED  BY <2>1, <2>2, QuietTruth
  <1>5. CASE UNCHANGED vars
    <2>1. UNCHANGED past /\ \A q \in Requests : local'[q] = local[q] /\ pc'[q] = pc[q]
      BY <1>5 DEF vars
    <2> QED  BY <2>1, QuietTruth
  <1>6. ASSUME NEW r \in Requests, NEW i \in Items, NEW given \in Given(i), NEW title \in Titles,
               NEW org \in Organizations, BeginCreate(r, i, org, given, title)
        PROVE  TruthInv'
    BY <1>6, BeginTruth
  <1>7. ASSUME NEW r \in Requests, NEW i \in Items, NEW given \in Given(i), NEW title \in Titles,
               NEW ctx \in Organizations \cup {None}, BeginUpdate(r, i, ctx, given, title)
        PROVE  TruthInv'
    BY <1>7, BeginTruth
  <1>8. ASSUME NEW r \in Requests, NEW i \in Items, NEW ctx \in Organizations \cup {None},
               BeginRemove(r, i, ctx)
        PROVE  TruthInv'
    BY <1>8, BeginTruth
  <1> QED  BY <1>1, <1>2, <1>3, <1>4, <1>5, <1>6, <1>7, <1>8, SaveTruth DEF Next, Read

\* The ids a row copies from its parent were true together, whatever moved,
\* raced or was stale: no row mixes the ids of two places.
THEOREM PlacesWereTrue == Spec => []PlaceWasTrue
  <1>1. WorkInv /\ TruthInv => PlaceWasTrue
    <2> SUFFICES ASSUME WorkInv, TruthInv, NEW i \in Items \ Projects, Exists(i)
                 PROVE  WasTrue(item[i].place)
      BY DEF PlaceWasTrue, WasTrue
    <2> QED  BY DEF WorkInv, RowsInv, TruthInv
  <1> QED  BY InitWork, NextWork, InitTruth, NextTruth, <1>1, PTL DEF Spec

-----------------------------------------------------------------------------
(***************************************************************************)
(* A client that sends one request at a time, to services that load their  *)
(* entities from the database.                                             *)
(***************************************************************************)

\* The place of a row: no id below its kind, and the one just above it.  An
\* issue hangs anywhere.
Placed(i, place) ==
    \/ i \in Issues
    \/ /\ \A d \in Depths : place[d] # None => d < Level(i)
       /\ i \notin Projects => place[Level(i) - 1] # None

Titled(i) == i \notin Projects \cup Issues

\* What is sought for a feature, task or subtask i: one id, of the kind above,
\* and that of the row if it does not move.
SeeksParent(i, l) ==
    /\ l.sought # Nowhere
    /\ \A d \in Depths : l.sought[d] # None => d = Level(i) - 1
    /\ ~l.moves => /\ Exists(i) /\ l.row.place = item[i].place
                   /\ Parent(l.sought) = Parent(item[i].place)
    /\ ~l.checkTitle => /\ Exists(i) /\ l.row.title = item[i].title
                        /\ Parent(l.sought) = Parent(item[i].place)

UnderLiveParent(i, l) == Placed(i, l.row.place) /\ Alive(Deepest(l.row.place))

\* What is ready to be saved: in its place, and unless it is a removal, with a
\* title of its own under a live parent.
Ready(i, l) ==
    /\ Placed(i, l.row.place)
    /\ ~l.row.deleted /\ Titled(i) =>
          /\ UnderLiveParent(i, l)
          /\ Siblings(i, Parent(l.row.place), l.row.title, l.row.org) = {}
    /\ ~l.row.deleted /\ i \in Issues =>
          \/ Exists(i) /\ l.row.place = item[i].place
          \/ Alive(Deepest(l.row.place)) /\ Alive(l.row.place[1])

\* How far the request with local state l has come at a label.
Stage(label, i, l) ==
    /\ Exists(i) => ~item[i].deleted
    /\ label = "project" => i \in Issues /\ l.moves /\ ~l.checkTitle
    /\ label = "parent" =>
          \/ /\ i \in Issues /\ l.moves /\ ~l.checkTitle
             /\ l.sought[1] \in Items /\ Alive(l.sought[1])
          \/ Titled(i) /\ SeeksParent(i, l)
    /\ label = "title" =>
          Titled(i) /\ UnderLiveParent(i, l) /\ Parent(l.sought) = Parent(l.row.place)
    /\ label = "save" => Ready(i, l)

AloneInv(one) ==
    /\ \A i \in Items : Exists(i) => Placed(i, item[i].place)
    /\ UniqueTitles
    /\ pc[one] # "idle" => Stage(pc[one], local[one].item, local[one])

LEMMA LevelOf ==
  ASSUME NEW k \in 1 .. 5, NEW i \in Kinds[k]
  PROVE  i \in Items /\ Level(i) = k
  <1>1. i \in Items
    BY DEF Items
  <1> QED
    BY <1>1, LevelType, ItemsAssumption

LEMMA KindsOf ==
  /\ \A i \in Projects : i \in Items /\ Level(i) = 1
  /\ \A i \in Issues : i \in Items /\ Level(i) = 5
  /\ \A i \in Items : i \notin Projects => Level(i) # 1
  /\ \A i \in Items : i \notin Issues => Level(i) # 5
  <1>1. Kinds[1] = Projects /\ Kinds[5] = Issues
    BY DEF Kinds
  <1> QED
    BY <1>1, LevelOf, LevelType

\* The deepest id of a place, known by its depth.
LEMMA DeepestAt ==
  ASSUME NEW place \in Place, NEW m \in Depths, place[m] # None,
         \A d \in Depths : place[d] # None => d <= m
  PROVE  Deepest(place) = place[m] /\ place # Nowhere /\ Parent(place) = place[m]
  <1> DEFINE S == {d \in Depths : place[d] # None}
  <1>1. m \in S /\ \A d \in S : d \in Int /\ m >= d
    BY DEF Depths
  <1>2. Max(S) = m
    <2> HIDE DEF S
    <2>1. \E x \in S : \A y \in S : x >= y
      BY <1>1
    <2>2. Max(S) \in S /\ \A y \in S : Max(S) >= y
      BY <2>1 DEF Max
    <2>3. Max(S) \in Int /\ Max(S) >= m /\ m >= Max(S) /\ m \in Int
      BY <1>1, <2>2
    <2> QED
      BY <2>3
  <1>3. place # Nowhere
    BY DEF Nowhere
  <1> QED
    BY <1>2, <1>3 DEF Deepest, Parent

\* An id of a place is of the kind of its depth.
LEMMA IdAtDepth ==
  ASSUME NEW place \in Place, NEW d \in Depths, place[d] # None
  PROVE  place[d] \in Items /\ Level(place[d]) = d /\ place[d] \notin Issues
  <1>1. place[d] \in Kinds[d] /\ d \in 1 .. 5
    BY DEF Place, Depths
  <1>2. place[d] \in Items /\ Level(place[d]) = d
    BY <1>1, LevelOf
  <1> QED
    BY <1>2, KindsOf DEF Depths

\* The deepest id stands at the depth of its kind, and none below it.
LEMMA DeepestIs ==
  ASSUME NEW place \in Place, place # Nowhere
  PROVE  /\ Deepest(place) \in Items /\ Deepest(place) \notin Issues
         /\ Level(Deepest(place)) \in Depths
         /\ place[Level(Deepest(place))] = Deepest(place)
         /\ \A d \in Depths : place[d] # None => d <= Level(Deepest(place))
  <1> DEFINE S == {d \in Depths : place[d] # None}
  <1>1. \E d \in Depths : place[d] # None
    BY DEF Place, Nowhere
  <1>2. PICK m \in S : \A d \in S : d <= m
    <2>1. CASE 4 \in S  BY <2>1 DEF Depths
    <2>2. CASE 4 \notin S /\ 3 \in S  BY <2>2 DEF Depths
    <2>3. CASE 4 \notin S /\ 3 \notin S /\ 2 \in S  BY <2>3 DEF Depths
    <2>4. CASE 4 \notin S /\ 3 \notin S /\ 2 \notin S  BY <1>1, <2>4 DEF Depths
    <2> QED  BY <2>1, <2>2, <2>3, <2>4
  <1>3. Deepest(place) = place[m]
    BY <1>2, DeepestAt
  <1>4. Level(place[m]) = m /\ place[m] \in Items /\ place[m] \notin Issues
    BY <1>2, IdAtDepth
  <1> QED
    BY <1>2, <1>3, <1>4

\* A child of p hangs on p.
LEMMA UnderHangs ==
  ASSUME NEW p \in Items, p \notin Issues, NEW row \in Row, Placed(p, row.place)
  PROVE  /\ Under(p, row) \in Place /\ Under(p, row)[Level(p)] = p /\ Level(p) \in Depths
         /\ Deepest(Under(p, row)) = p /\ Parent(Under(p, row)) = p
         /\ \A d \in Depths : Under(p, row)[d] # None => d <= Level(p)
  <1>1. row.place \in Place
    BY RowFields
  <1>2. Level(p) \in Depths
    BY LevelType, KindsOf DEF Depths
  <1>3. Under(p, row) \in Place
    BY <1>1, PlaceExcept DEF Under
  <1>4. Under(p, row)[Level(p)] = p /\ p # None
    BY <1>1, <1>2, ItemsAssumption DEF Under, Place
  <1>5. \A d \in Depths : Under(p, row)[d] # None => d <= Level(p)
    BY <1>1, <1>2 DEF Under, Place, Placed, Depths
  <1> QED
    BY <1>2, <1>3, <1>4, <1>5, DeepestAt

\* The deepest id of what is sought, when only one id is.
LEMMA OneSought ==
  ASSUME NEW s \in Place, NEW i \in Items, Titled(i), s # Nowhere,
         \A d \in Depths : s[d] # None => d = Level(i) - 1
  PROVE  Deepest(s) \in Items /\ Deepest(s) \notin Issues
         /\ Level(Deepest(s)) = Level(i) - 1 /\ Parent(s) = Deepest(s)
  <1>1. /\ Deepest(s) \in Items /\ Deepest(s) \notin Issues
        /\ Level(Deepest(s)) \in Depths /\ s[Level(Deepest(s))] = Deepest(s)
    BY DeepestIs
  <1>2. Deepest(s) # None
    BY <1>1, ItemsAssumption
  <1> QED
    BY <1>1, <1>2 DEF Parent

\* Two items of a table have siblings alike, so a title that is nobody else's
\* where it is saved leaves all titles unique.
LEMMA SavedTitle ==
  ASSUME WorkInv, UniqueTitles, NEW i \in Items, NEW n \in Row,
         item' = [item EXCEPT ![i] = n],
         ~n.deleted /\ Titled(i) => Siblings(i, Parent(n.place), n.title, n.org) = {}
  PROVE  UniqueTitles'
  <1> SUFFICES ASSUME NEW j \in Items \ (Projects \cup Issues), Alive(j)',
                      NEW k \in Siblings(j, Parent(item[j].place), item[j].title, item[j].org)'
               PROVE  FALSE
    BY DEF UniqueTitles
  <1>1. /\ k \in Items /\ k # j /\ Level(k) = Level(j)
        /\ item'[k] # None /\ ~item'[k].deleted
        /\ item'[k].org = item'[j].org /\ item'[k].title = item'[j].title
        /\ Parent(item'[k].place) = Parent(item'[j].place)
    BY DEF Siblings, Live
  <1>2. item'[j] # None /\ ~item'[j].deleted
    BY DEF Alive, Exists
  <1>3. \A m \in Items : item'[m] = IF m = i THEN n ELSE item[m]
    BY DEF WorkInv, TypeOK
  <1>4. Titled(j) /\ Titled(k)
    BY <1>1, KindsOf DEF Titled
  <1>5. CASE j = i
    <2>1. k \in Siblings(i, Parent(n.place), n.title, n.org)
      BY <1>1, <1>3, <1>5 DEF Siblings, Live
    <2> QED  BY <1>2, <1>3, <1>4, <1>5, <2>1
  <1>6. CASE k = i
    <2>1. j \in Siblings(i, Parent(n.place), n.title, n.org)
      BY <1>1, <1>2, <1>3, <1>6 DEF Siblings, Live
    <2> QED  BY <1>1, <1>3, <1>4, <1>6, <2>1
  <1>7. CASE j # i /\ k # i
    <2>1. k \in Siblings(j, Parent(item[j].place), item[j].title, item[j].org)
      BY <1>1, <1>3, <1>7 DEF Siblings, Live
    <2>2. Alive(j)
      BY <1>2, <1>3, <1>7 DEF Alive, Exists
    <2> QED  BY <2>1, <2>2 DEF UniqueTitles
  <1> QED  BY <1>5, <1>6, <1>7

\* Steps that leave the rows alone move only the request.
LEMMA RowsKept ==
  ASSUME NEW one \in Requests, AloneInv(one), WorkInv, item' = item,
         pc'[one] # "idle" => Stage(pc'[one], local'[one].item, local'[one])
  PROVE  AloneInv(one)'
  <1>1. (\A i \in Items : Exists(i) => Placed(i, item[i].place))'
    BY DEF AloneInv, Exists
  <1>2. UniqueTitles'
    BY DEF AloneInv, UniqueTitles, Alive, Exists, Siblings, Live
  <1>3. pc'[one] # "idle" => Stage(pc[one], local[one].item, local[one])'
    BY DEF Stage, SeeksParent, UnderLiveParent, Ready, Alive, Exists, Siblings, Live
  <1> QED  BY <1>1, <1>2, <1>3 DEF AloneInv

LEMMA SaveAlone ==
  ASSUME NEW one \in Requests, AloneInv(one), WorkInv, Save(one)
  PROVE  AloneInv(one)'
  <1>1. local[one] # None /\ local[one].item \in Items /\ local[one].row \in Row
    BY LocalFields DEF WorkInv, LabelsInv, TypeOK, Save
  <1>2. PICK i \in Items, n \in Row : i = local[one].item /\ n = local[one].row
    BY <1>1
  <1>3. /\ item' = [item EXCEPT ![i] = n] /\ pc' = [pc EXCEPT ![one] = "idle"]
    BY <1>2 DEF Save, Finish, Goto
  <1>4. Ready(i, local[one])
    BY <1>2 DEF AloneInv, Stage, Save
  <1>5. Placed(i, n.place) /\ (~n.deleted /\ Titled(i) =>
                                  Siblings(i, Parent(n.place), n.title, n.org) = {})
    BY <1>2, <1>4 DEF Ready
  <1>6. UniqueTitles'
    BY <1>3, <1>5, SavedTitle DEF AloneInv
  <1>7. \A j \in Items : Exists(j)' => Placed(j, item'[j].place)
    BY <1>3, <1>5 DEF AloneInv, WorkInv, TypeOK, Exists
  <1>8. pc'[one] = "idle"
    BY <1>3 DEF WorkInv, TypeOK
  <1> QED  BY <1>6, <1>7, <1>8 DEF AloneInv

\* A request begins with local state l at a label, or goes on with it.
LEMMA Reaches ==
  ASSUME NEW one \in Requests, AloneInv(one), WorkInv, NEW label, NEW l,
         item' = item, pc' = [pc EXCEPT ![one] = label], local' = [local EXCEPT ![one] = l],
         Stage(label, l.item, l)
  PROVE  AloneInv(one)'
  <1>1. pc'[one] = label /\ local'[one] = l
    BY DEF WorkInv, TypeOK
  <1> QED  BY <1>1, RowsKept

LEMMA CreateAlone ==
  ASSUME NEW one \in Requests, AloneInv(one), WorkInv, NEW i \in Items, NEW org \in Organizations,
         NEW given \in Given(i), NEW title \in Titles, BeginCreate(one, i, org, given, title)
  PROVE  AloneInv(one)'
  <1> DEFINE e == [org |-> org, place |-> Nowhere, title |-> title, deleted |-> FALSE]
             l == [item |-> i, sought |-> given, moves |-> TRUE, checkTitle |-> i \notin Issues, row |-> e]
  <1>1. /\ item' = item /\ pc' = [pc EXCEPT ![one] = FirstCheck(i)]
        /\ local' = [local EXCEPT ![one] = l]
    BY DEF BeginCreate, Start, Goto
  <1>2. l.item = i /\ l.sought = given /\ l.moves /\ (l.checkTitle <=> i \notin Issues)
        /\ l.row.place = Nowhere
    OBVIOUS
  <1>3. ~Exists(i) /\ (i \notin Projects => given # Nowhere)
    BY DEF BeginCreate, Exists
  <1> HIDE DEF e, l
  <1>4. Stage(FirstCheck(i), i, l)
    <2>1. CASE i \in Projects
      <3>1. Placed(i, Nowhere)
        BY <2>1 DEF Placed, Nowhere
      <3>2. FirstCheck(i) = "save" /\ i \notin Issues /\ ~Titled(i)
        BY <2>1, KindsOf DEF FirstCheck, Titled
      <3> QED  BY <1>2, <1>3, <3>1, <3>2 DEF Stage, Ready
    <2>2. CASE i \in Issues
      BY <1>2, <1>3, <2>2, KindsOf DEF Stage, FirstCheck
    <2>3. CASE Titled(i)
      <3>1. \A d \in Depths : given[d] # None => d = Level(i) - 1
        BY <2>3 DEF Given, Titled
      <3> QED  BY <1>2, <1>3, <2>3, <3>1 DEF Stage, FirstCheck, SeeksParent, Titled
    <2> QED  BY <2>1, <2>2, <2>3 DEF Titled
  <1> QED  BY <1>1, <1>2, <1>4, Reaches

\* The parent of a feature, task or subtask is the id just above its kind.
LEMMA HangsAbove ==
  ASSUME NEW i \in Items, Titled(i), NEW place \in Place, Placed(i, place)
  PROVE  /\ place # Nowhere /\ Parent(place) = Deepest(place)
         /\ Deepest(place) \in Items /\ Level(Deepest(place)) = Level(i) - 1
  <1>1. Level(i) - 1 \in Depths
    BY LevelType, KindsOf DEF Titled, Depths
  <1>2. place[Level(i) - 1] # None /\ \A d \in Depths : place[d] # None => d <= Level(i) - 1
    BY LevelType DEF Placed, Titled, Depths
  <1> QED  BY <1>1, <1>2, DeepestAt, IdAtDepth

LEMMA UpdateAlone ==
  ASSUME ~StaleReads, NEW one \in Requests, AloneInv(one), WorkInv, NEW i \in Items, NEW ctx,
         NEW given \in Given(i), NEW title \in Titles, BeginUpdate(one, i, ctx, given, title)
  PROVE  AloneInv(one)'
  <1>1. PICK e \in Copies(i) :
          Start(one, IF i \in Issues /\ given = Nowhere THEN "save" ELSE FirstCheck(i),
                [item |-> i, sought |-> Sought(i, given, e.place), moves |-> given # Nowhere,
                 checkTitle |-> MustCheckTitle(i, e, Sought(i, given, e.place), title),
                 row |-> [e EXCEPT !.title = title]])
    BY DEF BeginUpdate
  <1>2. e = item[i] /\ e \in Row /\ ~e.deleted /\ Exists(i) /\ e.place \in Place
    BY CopyFacts, RowFields DEF Copies
  <1> DEFINE n == [e EXCEPT !.title = title]
             s == Sought(i, given, e.place)
             l == [item |-> i, sought |-> s, moves |-> given # Nowhere,
                   checkTitle |-> MustCheckTitle(i, e, s, title), row |-> n]
             label == IF i \in Issues /\ given = Nowhere THEN "save" ELSE FirstCheck(i)
  <1>3. n.place = e.place /\ n.title = title
    BY <1>2 DEF Row
  <1>4. item' = item /\ pc' = [pc EXCEPT ![one] = label] /\ local' = [local EXCEPT ![one] = l]
    BY <1>1 DEF Start, Goto
  <1>5. /\ l.item = i /\ l.sought = s /\ (l.moves <=> given # Nowhere)
        /\ (l.checkTitle <=> MustCheckTitle(i, e, s, title)) /\ l.row = n
    OBVIOUS
  <1>6. Placed(i, e.place)
    BY <1>2 DEF AloneInv
  <1> HIDE DEF n, l
  <1>7. Stage(label, i, l)
    <2>1. CASE i \in Projects
      <3>1. label = "save" /\ i \notin Issues /\ ~Titled(i)
        BY <2>1, KindsOf DEF FirstCheck, Titled
      <3> QED  BY <1>2, <1>3, <1>5, <1>6, <3>1 DEF Stage, Ready
    <2>2. CASE i \in Issues /\ given = Nowhere
      BY <1>2, <1>3, <1>5, <1>6, <2>2 DEF Stage, Ready, Titled
    <2>3. CASE i \in Issues /\ given # Nowhere
      BY <1>2, <1>5, <2>3, KindsOf DEF Stage, FirstCheck, MustCheckTitle
    <2>4. CASE Titled(i)
      <3>1. ~l.checkTitle => title = e.title /\ Parent(s) = Parent(e.place)
        BY <1>5, <2>4 DEF MustCheckTitle, Titled
      <3>2. label = "parent"
        BY <2>4 DEF FirstCheck, Titled
      <3>3. CASE given # Nowhere
        <4>1. s = given
          BY <2>4, <3>3 DEF Sought, Titled
        <4>2. \A d \in Depths : given[d] # None => d = Level(i) - 1
          BY <2>4 DEF Given, Titled
        <4> QED  BY <1>2, <1>3, <1>5, <2>4, <3>1, <3>2, <3>3, <4>1, <4>2 DEF Stage, SeeksParent
      <3>4. CASE given = Nowhere
        <4> DEFINE p == Deepest(e.place)
        <4>1. /\ e.place # Nowhere /\ Parent(e.place) = p
              /\ p \in Items /\ Level(p) = Level(i) - 1
          BY <1>2, <1>6, <2>4, HangsAbove
        <4>2. s = At(p)
          BY <2>4, <3>4, <4>1 DEF Sought, Titled
        <4> HIDE DEF s, p
        <4>3. Level(p) \in Depths /\ p # None
          BY <2>4, <4>1, LevelType, KindsOf, ItemsAssumption DEF Titled, Depths
        <4>4. At(p) \in Place /\ At(p)[Level(p)] = p
              /\ \A d \in Depths : At(p)[d] # None => d = Level(p)
          BY <4>1, <4>3, NowhereType, PlaceExcept DEF At, Nowhere
        <4>5. At(p) # Nowhere /\ Parent(At(p)) = p
          BY <4>3, <4>4, DeepestAt DEF Depths
        <4> QED
          BY <1>2, <1>3, <1>5, <2>4, <3>1, <3>2, <4>1, <4>2, <4>4, <4>5 DEF Stage, SeeksParent
      <3> QED  BY <3>3, <3>4
    <2> QED  BY <2>1, <2>2, <2>3, <2>4 DEF Titled
  <1> HIDE DEF label
  <1> QED  BY <1>4, <1>5, <1>7, Reaches

LEMMA RemoveAlone ==
  ASSUME ~StaleReads, NEW one \in Requests, AloneInv(one), WorkInv, NEW i \in Items, NEW ctx,
         BeginRemove(one, i, ctx)
  PROVE  AloneInv(one)'
  <1>1. PICK e \in Copies(i) :
          Start(one, "save", [item |-> i, sought |-> Nowhere, moves |-> FALSE,
                              checkTitle |-> FALSE, row |-> [e EXCEPT !.deleted = TRUE]])
    BY DEF BeginRemove
  <1>2. e = item[i] /\ e \in Row /\ ~e.deleted /\ Exists(i)
    BY CopyFacts DEF Copies
  <1> DEFINE n == [e EXCEPT !.deleted = TRUE]
             l == [item |-> i, sought |-> Nowhere, moves |-> FALSE, checkTitle |-> FALSE, row |-> n]
  <1>3. n.place = e.place /\ n.deleted
    BY <1>2 DEF Row
  <1>4. item' = item /\ pc' = [pc EXCEPT ![one] = "save"] /\ local' = [local EXCEPT ![one] = l]
    BY <1>1 DEF Start, Goto
  <1>5. l.item = i /\ l.row = n
    OBVIOUS
  <1>6. Placed(i, e.place)
    BY <1>2 DEF AloneInv
  <1> HIDE DEF n, l
  <1>7. Stage("save", i, l)
    BY <1>2, <1>3, <1>5, <1>6 DEF Stage, Ready
  <1> QED  BY <1>4, <1>5, <1>7, Reaches

\* What a request holds after Settle: its place, the rest as before.
LEMMA SettledLocal ==
  ASSUME WorkInv, NEW one \in Requests, local[one] # None, NEW p \in Items, p \notin Issues,
         Exists(p), Placed(p, item[p].place), Settle(one, p)
  PROVE  \E l \in Local :
           /\ local' = [local EXCEPT ![one] = l]
           /\ l.item = local[one].item /\ l.sought = local[one].sought
           /\ l.moves = local[one].moves /\ l.checkTitle = local[one].checkTitle
           /\ l.row.org = local[one].row.org /\ l.row.title = local[one].row.title
           /\ l.row.deleted = local[one].row.deleted
           /\ local[one].moves => l.row.place = Under(p, item[p])
           /\ ~local[one].moves => l.row.place = local[one].row.place
  <1>1. local[one] \in Local /\ item[p] \in Row
    BY DEF WorkInv, TypeOK, Exists
  <1>2. Under(p, item[p]) \in Place
    BY <1>1, UnderHangs
  <1>3. PICK place \in Place :
          place = IF local[one].moves THEN Under(p, item[p]) ELSE local[one].row.place
    BY <1>1, <1>2, LocalFields, RowFields
  <1> DEFINE l == [local[one] EXCEPT !.row.place = place]
  <1>4. /\ l \in Local /\ l.item = local[one].item /\ l.moves = local[one].moves
        /\ l.row.org = local[one].row.org /\ l.row.place = place
    BY <1>1, LocalMoved
  <1>5. /\ l.sought = local[one].sought /\ l.checkTitle = local[one].checkTitle
        /\ l.row.title = local[one].row.title /\ l.row.deleted = local[one].row.deleted
    BY <1>1 DEF Local, Row
  <1>6. local' = [local EXCEPT ![one] = l]
    BY <1>3 DEF Settle
  <1> HIDE DEF l
  <1> QED  BY <1>3, <1>4, <1>5, <1>6

LEMMA ProjectAlone ==
  ASSUME NEW one \in Requests, AloneInv(one), WorkInv, EnsureProject(one)
  PROVE  AloneInv(one)'
  <1> DEFINE p == local[one].sought[1]
             i == local[one].item
  <1>1. local[one] # None /\ local[one] \in Local
    BY DEF WorkInv, LabelsInv, TypeOK, EnsureProject
  <1>2. i \in Items /\ local[one].sought \in Place
    BY <1>1, LocalFields
  <1>3. p \in Items /\ Exists(p) /\ Alive(p)
    BY DEF EnsureProject, Live, Alive, Exists
  <1>4. p \notin Issues /\ Level(p) = 1
    BY <1>2, <1>3, IdAtDepth, ItemsAssumption DEF Depths
  <1>5. Stage("project", i, local[one])
    BY DEF AloneInv, EnsureProject
  <1>6. i \in Issues /\ local[one].moves /\ ~local[one].checkTitle /\ (Exists(i) => ~item[i].deleted)
    BY <1>5 DEF Stage
  <1>7. CASE Deepest(local[one].sought) = p /\ Settle(one, p) /\ Goto(one, "save")
    <2>1. item[p] \in Row /\ Placed(p, item[p].place)
      BY <1>3 DEF AloneInv, WorkInv, TypeOK, Exists
    <2>2. Deepest(Under(p, item[p])) = p /\ Under(p, item[p])[1] = p
      BY <1>3, <1>4, <2>1, UnderHangs
    <2>3. PICK l \in Local :
            /\ local' = [local EXCEPT ![one] = l] /\ l.item = i
            /\ l.row.place = Under(p, item[p])
      BY <1>1, <1>3, <1>4, <1>6, <1>7, <2>1, SettledLocal
    <2>4. Stage("save", i, l)
      BY <1>3, <1>6, <2>2, <2>3 DEF Stage, Ready, Placed, Titled
    <2>5. item' = item /\ pc' = [pc EXCEPT ![one] = "save"]
      BY <1>7 DEF EnsureProject, Goto
    <2> QED  BY <2>3, <2>4, <2>5, Reaches
  <1>8. CASE Goto(one, "parent") /\ UNCHANGED local
    <2>1. Stage("parent", i, local[one])
      BY <1>3, <1>6 DEF Stage
    <2>2. /\ item' = item /\ pc' = [pc EXCEPT ![one] = "parent"]
          /\ local' = [local EXCEPT ![one] = local[one]]
      BY <1>8 DEF EnsureProject, Goto, WorkInv, TypeOK
    <2> QED  BY <2>1, <2>2, Reaches
  <1> QED  BY <1>7, <1>8 DEF EnsureProject

LEMMA ParentAlone ==
  ASSUME NEW one \in Requests, AloneInv(one), WorkInv, EnsureParent(one)
  PROVE  AloneInv(one)'
  <1> DEFINE s == local[one].sought
             p == Deepest(s)
             i == local[one].item
             label == IF local[one].checkTitle THEN "title" ELSE "save"
  <1>1. local[one] # None /\ local[one] \in Local
    BY DEF WorkInv, LabelsInv, TypeOK, EnsureParent
  <1>2. i \in Items /\ s \in Place /\ local[one].row \in Row
    BY <1>1, LocalFields
  <1>3. p \in Items /\ Exists(p) /\ Alive(p)
    BY DEF EnsureParent, Live, Alive, Exists
  <1>4. Stage("parent", i, local[one])
    BY DEF AloneInv, EnsureParent
  <1>5. Exists(i) => ~item[i].deleted
    BY <1>4 DEF Stage
  <1>6. item[p] \in Row /\ Placed(p, item[p].place)
    BY <1>3 DEF AloneInv, WorkInv, TypeOK, Exists
  <1>7. item' = item /\ pc' = [pc EXCEPT ![one] = label] /\ Settle(one, p)
    BY DEF EnsureParent, Goto
  <1>8. CASE /\ i \in Issues /\ local[one].moves /\ ~local[one].checkTitle
             /\ s[1] \in Items /\ Alive(s[1])
    <2>1. s # Nowhere /\ s[1] # None
      BY <1>8, ItemsAssumption DEF Nowhere, Depths
    <2>2. p \notin Issues
      BY <1>2, <2>1, DeepestIs
    <2>3. Deepest(Under(p, item[p])) = p
      BY <1>3, <1>6, <2>2, UnderHangs
    <2>4. Under(p, item[p])[1] = s[1]
      BY <2>1 DEF EnsureParent, Depths
    <2>5. PICK l \in Local :
            /\ local' = [local EXCEPT ![one] = l] /\ l.item = i
            /\ l.row.place = Under(p, item[p])
      BY <1>1, <1>3, <1>6, <1>7, <1>8, <2>2, SettledLocal
    <2>6. Stage("save", i, l)
      BY <1>3, <1>5, <1>8, <2>3, <2>4, <2>5 DEF Stage, Ready, Placed, Titled
    <2>7. label = "save"
      BY <1>8
    <2> HIDE DEF label
    <2> QED  BY <1>7, <2>5, <2>6, <2>7, Reaches
  <1>9. CASE Titled(i) /\ SeeksParent(i, local[one])
    <2>1. /\ p \notin Issues /\ Level(p) = Level(i) - 1 /\ Parent(s) = p
      BY <1>2, <1>9, OneSought DEF SeeksParent
    <2>2. PICK l \in Local :
            /\ local' = [local EXCEPT ![one] = l]
            /\ l.item = i /\ l.sought = s
            /\ l.moves = local[one].moves /\ l.checkTitle = local[one].checkTitle
            /\ l.row.org = local[one].row.org /\ l.row.title = local[one].row.title
            /\ local[one].moves => l.row.place = Under(p, item[p])
            /\ ~local[one].moves => l.row.place = local[one].row.place
      BY <1>1, <1>3, <1>6, <1>7, <2>1, SettledLocal
    <2> HIDE DEF s, p, i
    <2>3. Placed(i, l.row.place) /\ Deepest(l.row.place) = p /\ Parent(l.row.place) = p
      <3>1. CASE local[one].moves
        <4>1. /\ Under(p, item[p])[Level(p)] = p /\ p # None
              /\ Deepest(Under(p, item[p])) = p /\ Parent(Under(p, item[p])) = p
              /\ \A d \in Depths : Under(p, item[p])[d] # None => d <= Level(p)
          BY <1>3, <1>6, <2>1, UnderHangs, ItemsAssumption
        <4>2. Placed(i, Under(p, item[p]))
          BY <1>2, <2>1, <4>1, LevelType DEF Placed, Depths
        <4> QED  BY <2>2, <3>1, <4>1, <4>2
      <3>2. CASE ~local[one].moves
        <4>1. Exists(i) /\ l.row.place = item[i].place /\ p = Parent(item[i].place)
          BY <1>9, <2>1, <2>2, <3>2 DEF SeeksParent, s
        <4>2. item[i].place \in Place /\ Placed(i, item[i].place)
          BY <1>2, <4>1, RowFields DEF AloneInv, WorkInv, TypeOK, Exists
        <4> QED  BY <1>2, <1>9, <4>1, <4>2, HangsAbove
      <3> QED  BY <3>1, <3>2
    <2>4. CASE l.checkTitle
      <3>1. Stage("title", i, l)
        BY <1>3, <1>5, <1>9, <2>1, <2>2, <2>3 DEF Stage, UnderLiveParent
      <3>2. label = "title"
        BY <2>2, <2>4
      <3> HIDE DEF label
      <3> QED  BY <1>7, <2>2, <3>1, <3>2, Reaches
    <2>5. CASE ~l.checkTitle
      <3>1. Exists(i) /\ l.row.title = item[i].title /\ p = Parent(item[i].place)
        BY <1>9, <2>1, <2>2, <2>5 DEF SeeksParent, s
      <3>2. l.row.org = item[i].org
        BY <1>1, <2>2, <3>1 DEF WorkInv, PreparedInv, i
      <3>3. i \notin Projects \cup Issues /\ Alive(i)
        BY <1>5, <1>9, <3>1 DEF Titled, Alive
      <3>4. Siblings(i, p, l.row.title, l.row.org) = {}
        BY <1>2, <3>1, <3>2, <3>3 DEF AloneInv, UniqueTitles
      <3>5. Stage("save", i, l)
        BY <1>3, <1>5, <2>3, <3>3, <3>4 DEF Stage, Ready, UnderLiveParent
      <3>6. label = "save"
        BY <2>2, <2>5
      <3> HIDE DEF label
      <3> QED  BY <1>7, <2>2, <3>5, <3>6, Reaches
    <2> QED  BY <2>4, <2>5
  <1> QED  BY <1>4, <1>8, <1>9 DEF Stage

LEMMA TitleAlone ==
  ASSUME NEW one \in Requests, AloneInv(one), WorkInv, CheckTitle(one)
  PROVE  AloneInv(one)'
  <1> DEFINE i == local[one].item
  <1>1. Stage("title", i, local[one])
    BY DEF AloneInv, CheckTitle
  <1>2. Stage("save", i, local[one])
    BY <1>1 DEF Stage, CheckTitle, Ready, UnderLiveParent, Titled
  <1>3. /\ item' = item /\ pc' = [pc EXCEPT ![one] = "save"]
        /\ local' = [local EXCEPT ![one] = local[one]]
    BY DEF CheckTitle, Goto, WorkInv, TypeOK
  <1> QED  BY <1>2, <1>3, Reaches

LEMMA NextAlone ==
  ASSUME NEW one, Requests = {one}, ~StaleReads, WorkInv, AloneInv(one), [Next]_vars
  PROVE  AloneInv(one)'
  <1>1. CASE Refuse(one)
    <2>1. item' = item /\ pc'[one] = "idle"
      BY <1>1 DEF Refuse, Finish, Goto, WorkInv, TypeOK
    <2> QED  BY <2>1, RowsKept
  <1>2. CASE UNCHANGED vars
    <2>1. item' = item /\ pc' = pc /\ local' = local
      BY <1>2 DEF vars
    <2> QED  BY <2>1, RowsKept DEF AloneInv
  <1> QED
    BY <1>1, <1>2, CreateAlone, UpdateAlone, RemoveAlone, ProjectAlone, ParentAlone, TitleAlone, SaveAlone
    DEF Next, Read

LEMMA AlwaysAlone ==
  ASSUME NEW one, Requests = {one}, ~StaleReads
  PROVE  Spec => [](WorkInv /\ AloneInv(one))
  <1>1. Init => AloneInv(one)
    BY DEF Init, AloneInv, UniqueTitles, Alive, Exists
  <1>2. WorkInv /\ AloneInv(one) /\ [Next]_vars => AloneInv(one)'
    BY NextAlone
  <1> QED  BY InitWork, NextWork, <1>1, <1>2, PTL DEF Spec

\* For any number of items: requests one at a time leave no two live features of
\* a project, tasks of a feature or subtasks of a task with one title.  An update
\* that changes neither title nor parent skips the check, and need not make it.
THEOREM TitlesUnique ==
  ASSUME NEW one, Requests = {one}, ~StaleReads
  PROVE  Spec => []UniqueTitles
  <1>1. AloneInv(one) => UniqueTitles
    BY DEF AloneInv
  <1> QED  BY AlwaysAlone, <1>1, PTL

\* For any number of items: requests one at a time save a feature, task or subtask
\* only under a parent that is not deleted, and attach an issue only to a live
\* item of a live project.  The parent is checked some awaits before the save, by
\* an id that for an update may come from the row.
THEOREM ParentsLive ==
  ASSUME NEW one, Requests = {one}, ~StaleReads
  PROVE  Spec => SavedUnderLiveParent
  <1>1. WorkInv /\ AloneInv(one) /\ [Next]_vars =>
          [\A i \in Items \ Projects :
              LET new == item'[i]
              IN  new # item[i] /\ ~new.deleted =>
                      \/ /\ Alive(Deepest(new.place))
                         /\ i \in Issues => Alive(new.place[1])
                      \/ i \in Issues /\ Exists(i) /\ new.place = item[i].place]_vars
    <2> SUFFICES ASSUME WorkInv, AloneInv(one), [Next]_vars,
                        NEW i \in Items \ Projects, item'[i] # item[i], ~item'[i].deleted
                 PROVE  \/ /\ Alive(Deepest(item'[i].place))
                           /\ i \in Issues => Alive(item'[i].place[1])
                        \/ i \in Issues /\ Exists(i) /\ item'[i].place = item[i].place
      OBVIOUS
    <2>1. Save(one)
      BY DEF Next, Read, vars, BeginCreate, BeginUpdate, BeginRemove, Start, EnsureProject,
             EnsureParent, CheckTitle, Refuse
    <2>2. i = local[one].item /\ item'[i] = local[one].row
      BY <2>1 DEF Save, WorkInv, TypeOK
    <2>3. Ready(i, local[one])
      BY <2>1, <2>2 DEF AloneInv, Stage, Save
    <2> QED  BY <2>2, <2>3, KindsOf DEF Ready, UnderLiveParent, Titled
  <1> QED  BY AlwaysAlone, <1>1, PTL DEF Spec, SavedUnderLiveParent
=============================================================================
