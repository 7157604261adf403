---------------------------- MODULE StaffProofs ----------------------------
(***************************************************************************)
(* Teams follow their departments and staff stays at home, for any number  *)
(* of overlapping requests and however old the copies they start from.     *)
(* The reason is that a department never changes its organization, not     *)
(* even when a stale copy of it is saved; what a request has found out     *)
(* about a department therefore stays true.                                *)
(* The teams a request chooses are teams of the department it leaves the   *)
(* user in, for requests that do not overlap.                              *)
(***************************************************************************)
EXTENDS Staff, TLAPS

Flags == BOOLEAN

\* Old copies of a department have its organization, those of a team that of
\* their department.
Copied ==
    /\ \A d \in Departments : past[d] \subseteq Department
          /\ \A v \in past[d] : Settled(d, v.org)
    /\ \A t \in Teams : past[t] \subseteq Team
          /\ \A v \in past[t] : v.department \in Departments /\ Settled(v.department, v.org)

\* The row exists; of teams it need not be known.
Existing(i) ==
    \/ i \in Departments /\ department[i] # None
    \/ i \in Users /\ user[i] # None
    \/ i \in Projects /\ project[i] # None

\* What is known of the entity a request carries.
Sound(l) ==
    /\ l.id \in Departments =>
          /\ l.entity \in Department /\ l.department = None /\ l.teams = {} /\ l.members = {}
          /\ department[l.id] # None => l.entity.org = department[l.id].org
    /\ l.id \in Teams =>
          /\ l.entity \in Team /\ l.teams = {} /\ l.members = {}
          /\ l.department = None => Settled(l.entity.department, l.entity.org)
    /\ l.id \in Users =>
          /\ l.entity \in User /\ l.members = {}
          /\ l.bare => l.id \in switched /\ user[l.id] # None
          /\ user[l.id] # None /\ l.id \notin switched => l.entity.org = user[l.id].org
          /\ l.entity.department # None /\ l.id \notin switched =>
                Settled(l.entity.department, l.entity.org)
    /\ l.id \in Projects =>
          /\ l.entity \in Project
          /\ l.bare => project[l.id] # None
          /\ project[l.id] # None => l.entity.org = project[l.id].org
          /\ l.entity.department # None => Settled(l.entity.department, l.entity.org)
          /\ \A u \in l.entity.members : Belongs(u, l.entity.org)

\* What is known of a request that stands at a label.
Fits(label, l) ==
    /\ label = "department" <=> l.department # None
    /\ label = "teams" => l.teams # {}
    /\ label = "members" => l.members # {}
    /\ Sound(l)

\* Only one request creates a row.
Unique ==
    \A p, q \in Requests :
        p # q /\ local[p] # None /\ local[q] # None /\ local[p].id = local[q].id
            /\ local[p].id \notin Teams => Existing(local[p].id)

Labels == {"department", "name", "teams", "members", "save"}

Shape ==
    /\ department \in [Departments -> Department \cup {None}]
    /\ team \in [Teams -> Team \cup {None}]
    /\ user \in [Users -> User \cup {None}]
    /\ project \in [Projects -> Project \cup {None}]
    /\ past \in [Departments \cup Teams -> SUBSET (Department \cup Team)]
    /\ pc \in [Requests -> Labels \cup {"idle"}]
    /\ local \in [Requests -> Local \cup {None}]
    /\ switched \subseteq Users

StaffInv ==
    /\ Shape /\ Copied /\ Unique
    /\ \A q \in Requests : (pc[q] # "idle" => local[q] # None)
                           /\ (local[q] # None => Fits(pc[q], local[q]))
    /\ TeamFollowsDepartment /\ StaffAtHome

-----------------------------------------------------------------------------
(* Lemmas                                                                  *)

\* The records, with their truth values set aside.
LEMMA Shapes ==
    /\ Department = [org : Organizations, name : Names, deleted : Flags]
    /\ Team = [org : Organizations, department : Departments, name : Names, deleted : Flags]
    /\ Project = [org : Organizations, department : Departments \cup {None},
                  teams : SUBSET Teams, members : SUBSET Users, deleted : Flags]
    /\ Local = [id : Ids, ctx : Organizations \cup {None}, entity : Entity,
                department : Departments \cup {None}, name : Names \cup {None},
                given : Flags, teams : SUBSET Teams, members : SUBSET Users, bare : Flags]
BY DEF Department, Team, Project, Local, Flags

LEMMA TrueIsAFlag == TRUE \in Flags /\ FALSE \in Flags
BY Zenon DEF Flags

LEMMA NoneIsNothing ==
    /\ None \notin Department /\ None \notin Team /\ None \notin User /\ None \notin Project
    /\ None \notin Ids /\ None \notin Organizations /\ None \notin Local
    /\ None \notin Departments
BY ConstantsAssumption DEF Entity, Ids

LEMMA IdsApart ==
    /\ \A i \in Departments : i \in Ids /\ i \notin Teams /\ i \notin Users /\ i \notin Projects
    /\ \A i \in Teams : i \in Ids /\ i \notin Departments /\ i \notin Users /\ i \notin Projects
    /\ \A i \in Users : i \in Ids /\ i \notin Departments /\ i \notin Teams /\ i \notin Projects
    /\ \A i \in Projects : i \in Ids /\ i \notin Departments /\ i \notin Teams /\ i \notin Users
BY ConstantsAssumption DEF Ids

\* While the rows stay, more users who switch take nothing away.
LEMMA SoundStays ==
  ASSUME UNCHANGED rows, switched \subseteq switched', NEW l, Sound(l)
  PROVE  Sound(l)'
BY DEF Sound, Settled, Belongs, rows

LEMMA InvariantsStay ==
  ASSUME StaffInv, UNCHANGED rows, switched \subseteq switched'
  PROVE  Copied' /\ TeamFollowsDepartment' /\ StaffAtHome'
<1>1. Copied' /\ TeamFollowsDepartment'
  BY DEF StaffInv, Copied, Settled, TeamFollowsDepartment, rows
<1>2. StaffAtHome'
  BY DEF StaffInv, StaffAtHome, Settled, Belongs, rows
<1> QED
  BY <1>1, <1>2

\* One request moves on, and the rows stay.
LEMMA Moves ==
  ASSUME StaffInv, UNCHANGED rows, switched \subseteq switched', switched' \subseteq Users,
         NEW q \in Requests, NEW label \in Labels, NEW l \in Local,
         pc' = [pc EXCEPT ![q] = label], local' = [local EXCEPT ![q] = l],
         Fits(label, l)',
         \A p \in Requests \ {q} :
            local[p] # None /\ local[p].id = l.id /\ l.id \notin Teams => Existing(l.id)
  PROVE  StaffInv'
<1>1. Shape'
  BY DEF StaffInv, Shape, rows
<1>2. \A i : Existing(i)' <=> Existing(i)
  BY DEF Existing, rows
<1>3. Unique'
  BY <1>2, NoneIsNothing DEF StaffInv, Shape, Unique
<1>4. ASSUME NEW x \in Requests
      PROVE  (pc'[x] # "idle" => local'[x] # None) /\ (local'[x] # None => Fits(pc[x], local[x])')
  <2>1. CASE x = q
    <3>1. pc'[x] = label /\ local'[x] = l
      BY <2>1 DEF StaffInv, Shape
    <3> QED
      BY <3>1, NoneIsNothing
  <2>2. CASE x # q
    <3>1. pc'[x] = pc[x] /\ local'[x] = local[x]
      BY <2>2 DEF StaffInv, Shape
    <3>2. PICK m, at : m = local[x] /\ at = pc[x]
      OBVIOUS
    <3>3. m # None => Fits(at, m)
      BY <3>2 DEF StaffInv
    <3>4. m # None => Fits(at, m)'
      BY <3>3, SoundStays DEF Fits
    <3> QED
      BY <3>1, <3>2, <3>4 DEF StaffInv
  <2> QED
    BY <2>1, <2>2
<1> QED
  BY <1>1, <1>3, <1>4, InvariantsStay DEF StaffInv

LEMMA Ends ==
  ASSUME StaffInv, UNCHANGED <<rows, switched>>, NEW q \in Requests, Finish(q)
  PROVE  StaffInv'
<1>1. pc' = [pc EXCEPT ![q] = "idle"] /\ local' = [local EXCEPT ![q] = None]
  BY DEF Finish, Goto
<1>2. Shape'
  BY <1>1 DEF StaffInv, Shape, rows
<1>3. Copied' /\ TeamFollowsDepartment' /\ StaffAtHome'
  BY InvariantsStay
<1>4. Unique'
  BY <1>1 DEF StaffInv, Shape, Unique, Existing, rows
<1>5. ASSUME NEW x \in Requests
      PROVE  (pc'[x] # "idle" => local'[x] # None) /\ (local'[x] # None => Fits(pc[x], local[x])')
  <2>1. CASE x = q
    BY <1>1, <2>1 DEF StaffInv, Shape
  <2>2. CASE x # q
    <3>1. pc'[x] = pc[x] /\ local'[x] = local[x]
      BY <1>1, <2>2 DEF StaffInv, Shape
    <3>2. PICK m, at : m = local[x] /\ at = pc[x]
      OBVIOUS
    <3>3. m # None => Fits(at, m)
      BY <3>2 DEF StaffInv
    <3>4. m # None => Fits(at, m)'
      BY <3>3, SoundStays DEF Fits
    <3> QED
      BY <3>1, <3>2, <3>4 DEF StaffInv
  <2> QED
    BY <2>1, <2>2
<1> QED
  BY <1>2, <1>3, <1>4, <1>5 DEF StaffInv

LEMMA DepartmentCopies ==
  ASSUME StaffInv, NEW d \in Departments, NEW ctx, NEW e \in Copies(d, department[d], ctx)
  PROVE  e \in Department /\ Settled(d, e.org) /\ (ctx # None => e.org = ctx)
BY DEF Copies, StaffInv, Shape, Copied, Settled

LEMMA TeamCopies ==
  ASSUME StaffInv, NEW t \in Teams, NEW ctx, NEW e \in Copies(t, team[t], ctx)
  PROVE  /\ e \in Team /\ e.department \in Departments
         /\ Settled(e.department, e.org) /\ (ctx # None => e.org = ctx)
<1>1. \A v \in Team : v.department \in Departments
  BY Shapes
<1> QED
  BY <1>1 DEF Copies, StaffInv, Shape, Copied, Settled, TeamFollowsDepartment

-----------------------------------------------------------------------------
(* Requests that arrive                                                    *)

LEMMA FollowingIsALabel ==
  ASSUME NEW l
  PROVE  /\ Following(l) \in Labels
         /\ Following(l) = "department" <=> l.department # None
         /\ Following(l) = "teams" => l.teams # {}
         /\ Following(l) = "members" => l.members # {}
BY DEF Following, Labels

\* A request starts with an entity that is sound.
LEMMA Begins ==
  ASSUME StaffInv, NEW q \in Requests, NEW l \in Local, Begin(q, l),
         Sound(l)',
         l.id \in Teams \/ Existing(l.id) \/ \A p \in Requests : local[p] # None => local[p].id # l.id
  PROVE  StaffInv'
<1>1. pc' = [pc EXCEPT ![q] = Following(l)] /\ local' = [local EXCEPT ![q] = l] /\ UNCHANGED rows
  BY DEF Begin, Goto
<1>2. switched \subseteq switched' /\ switched' \subseteq Users
  BY DEF Begin, Switches, StaffInv, Shape
<1>3. Fits(Following(l), l)'
  BY FollowingIsALabel DEF Fits
<1>4. Following(l) \in Labels
  BY FollowingIsALabel
<1>5. \A p \in Requests \ {q} :
         local[p] # None /\ local[p].id = l.id /\ l.id \notin Teams => Existing(l.id)
  OBVIOUS
<1> QED
  BY <1>1, <1>2, <1>3, <1>4, <1>5, Moves

\* One that switches nobody.
LEMMA BeginsPlainly ==
  ASSUME StaffInv, NEW q \in Requests, NEW l \in Local, Begin(q, l), Sound(l),
         l.id \in Teams \/ Existing(l.id) \/ \A p \in Requests : local[p] # None => local[p].id # l.id
  PROVE  StaffInv'
<1>1. UNCHANGED rows /\ switched \subseteq switched'
  BY DEF Begin
<1> QED
  BY <1>1, SoundStays, Begins

LEMMA DepartmentRequests ==
  ASSUME StaffInv, NEW q \in Requests, NEW d \in Departments, NEW ctx \in Contexts,
         \/ \E name \in Names : CreateDepartment(q, d, ctx, name)
         \/ \E name \in Names \cup {None} : UpdateDepartment(q, d, ctx, name)
         \/ RemoveDepartment(q, d, ctx)
  PROVE  StaffInv'
<1>c. ctx \in Organizations \cup {None} /\ d \in Ids /\ Department \subseteq Entity
  BY ConstantsAssumption DEF Ids, Entity
<1>b. ASSUME NEW l \in Local, NEW e \in Department, l.id = d, l.entity = e,
             l.department = None, l.teams = {}, l.members = {},
             department[d] # None => e.org = department[d].org,
             department[d] = None => \A p \in Requests : local[p] # None => local[p].id # d,
             Begin(q, l)
      PROVE  StaffInv'
  <2>1. Sound(l)
    BY <1>b, IdsApart DEF Sound
  <2>2. Existing(l.id) \/ \A p \in Requests : local[p] # None => local[p].id # l.id
    BY <1>b DEF Existing
  <2> QED
    BY <1>b, <2>1, <2>2, BeginsPlainly
<1>1. ASSUME NEW name \in Names, CreateDepartment(q, d, ctx, name)
      PROVE  StaffInv'
  <2> DEFINE e == [org |-> ctx, name |-> name, deleted |-> FALSE]
             l == [Plain(d, e) EXCEPT !.name = name]
  <2>1. e \in Department
    BY <1>1, <1>c, Shapes, TrueIsAFlag DEF CreateDepartment
  <2>2. Begin(q, l) /\ department[d] = None
        /\ \A p \in Requests : local[p] # None => local[p].id # d
    BY <1>1 DEF CreateDepartment, Fresh
  <2> HIDE DEF e
  <2>3. /\ l \in Local /\ l.id = d /\ l.entity = e /\ l.department = None
        /\ l.teams = {} /\ l.members = {}
    BY <1>c, <2>1, Shapes, TrueIsAFlag DEF Plain
  <2> HIDE DEF l
  <2> QED
    BY <1>b, <2>1, <2>2, <2>3
<1>2. ASSUME NEW e0 \in Copies(d, department[d], ctx), NEW e \in Department, e.org = e0.org,
             NEW l \in Local, l.id = d, l.entity = e,
             l.department = None, l.teams = {}, l.members = {}, Begin(q, l)
      PROVE  StaffInv'
  <2>1. Settled(d, e.org)
    BY <1>2, DepartmentCopies
  <2> QED
    BY <1>b, <1>2, <2>1 DEF Settled
<1>3. ASSUME NEW name \in Names \cup {None}, UpdateDepartment(q, d, ctx, name)
      PROVE  StaffInv'
  <2>1. PICK e0 \in Copies(d, department[d], ctx) :
               Begin(q, [Plain(d, [e0 EXCEPT !.name = IF name = None THEN @ ELSE name])
                          EXCEPT !.name = IF name # e0.name THEN name ELSE None])
    BY <1>3 DEF UpdateDepartment
  <2> DEFINE e == [e0 EXCEPT !.name = IF name = None THEN @ ELSE name]
             n == IF name # e0.name THEN name ELSE None
             l == [Plain(d, e) EXCEPT !.name = n]
  <2>0. e0 \in Department
    BY DepartmentCopies
  <2>2. e \in Department /\ e.org = e0.org /\ n \in Names \cup {None}
    BY <2>0, Shapes
  <2>3. Begin(q, l)
    BY <2>1
  <2> HIDE DEF e, n
  <2>4. /\ l \in Local /\ l.id = d /\ l.entity = e /\ l.department = None
        /\ l.teams = {} /\ l.members = {}
    BY <1>c, <2>2, Shapes, TrueIsAFlag DEF Plain
  <2> HIDE DEF l
  <2> QED
    BY <1>2, <2>2, <2>3, <2>4
<1>4. ASSUME RemoveDepartment(q, d, ctx)
      PROVE  StaffInv'
  <2>1. PICK e0 \in Copies(d, department[d], ctx) :
               Begin(q, Plain(d, [e0 EXCEPT !.deleted = TRUE]))
    BY <1>4 DEF RemoveDepartment
  <2> DEFINE e == [e0 EXCEPT !.deleted = TRUE]
             l == Plain(d, e)
  <2>0. e0 \in Department
    BY DepartmentCopies
  <2>2. e \in Department /\ e.org = e0.org
    BY <2>0, Shapes, TrueIsAFlag
  <2>3. Begin(q, l)
    BY <2>1
  <2> HIDE DEF e
  <2>4. /\ l \in Local /\ l.id = d /\ l.entity = e /\ l.department = None
        /\ l.teams = {} /\ l.members = {}
    BY <1>c, <2>2, Shapes, TrueIsAFlag DEF Plain
  <2> HIDE DEF l
  <2> QED
    BY <1>2, <2>2, <2>3, <2>4
<1> QED
  BY <1>1, <1>3, <1>4

LEMMA TeamRequests ==
  ASSUME StaffInv, NEW q \in Requests, NEW t \in Teams, NEW ctx \in Contexts,
         \/ \E d \in Departments, name \in Names : CreateTeam(q, t, ctx, d, name)
         \/ \E d \in Departments \cup {None}, name \in Names \cup {None} :
               UpdateTeam(q, t, ctx, d, name)
         \/ RemoveTeam(q, t, ctx)
  PROVE  StaffInv'
<1>c. ctx \in Organizations \cup {None} /\ t \in Ids /\ Team \subseteq Entity
  BY ConstantsAssumption DEF Ids, Entity
<1>b. ASSUME NEW l \in Local, NEW e \in Team, l.id = t, l.entity = e,
             l.teams = {}, l.members = {},
             l.department = None => Settled(e.department, e.org),
             Begin(q, l)
      PROVE  StaffInv'
  <2>1. Sound(l)
    BY <1>b, IdsApart DEF Sound
  <2> QED
    BY <1>b, <2>1, BeginsPlainly
<1>1. ASSUME NEW d \in Departments, NEW name \in Names, CreateTeam(q, t, ctx, d, name)
      PROVE  StaffInv'
  <2>1. PICK org \in Organizations :
               Begin(q, [Plain(t, [org |-> org, department |-> d, name |-> name, deleted |-> FALSE])
                          EXCEPT !.ctx = ctx, !.department = d, !.name = name])
    BY <1>1 DEF CreateTeam
  <2> DEFINE e == [org |-> org, department |-> d, name |-> name, deleted |-> FALSE]
             l == [Plain(t, e) EXCEPT !.ctx = ctx, !.department = d, !.name = name]
  <2>2. e \in Team
    BY Shapes, TrueIsAFlag
  <2>3. Begin(q, l)
    BY <2>1
  <2> HIDE DEF e
  <2>4. /\ l \in Local /\ l.id = t /\ l.entity = e /\ l.department = d
        /\ l.teams = {} /\ l.members = {}
    BY <1>c, <2>2, Shapes, TrueIsAFlag DEF Plain
  <2> HIDE DEF l
  <2> QED
    BY <1>b, <2>2, <2>3, <2>4, NoneIsNothing
<1>2. ASSUME NEW d \in Departments \cup {None}, NEW name \in Names \cup {None},
             UpdateTeam(q, t, ctx, d, name)
      PROVE  StaffInv'
  <2>1. PICK e0 \in Copies(t, team[t], ctx) :
               Begin(q, [Plain(t, [e0 EXCEPT !.name = IF name = None THEN @ ELSE name,
                                             !.org = IF ctx = None THEN @ ELSE ctx])
                          EXCEPT !.ctx = ctx,
                                 !.department = IF d = e0.department THEN None ELSE d,
                                 !.name = name])
    BY <1>2 DEF UpdateTeam
  <2> DEFINE e == [e0 EXCEPT !.name = IF name = None THEN @ ELSE name,
                             !.org = IF ctx = None THEN @ ELSE ctx]
             n == IF d = e0.department THEN None ELSE d
             l == [Plain(t, e) EXCEPT !.ctx = ctx, !.department = n, !.name = name]
  <2>0. e0 \in Team /\ (ctx # None => e0.org = ctx)
    BY TeamCopies
  <2>2. e \in Team /\ e.org = e0.org /\ e.department = e0.department
    BY <1>c, <2>0, Shapes
  <2>3. Settled(e.department, e.org)
    BY <2>2, TeamCopies
  <2>4. Begin(q, l)
    BY <2>1
  <2>5. n \in Departments \cup {None}
    OBVIOUS
  <2> HIDE DEF e, n
  <2>6. /\ l \in Local /\ l.id = t /\ l.entity = e
        /\ l.teams = {} /\ l.members = {}
    BY <1>c, <2>2, <2>5, Shapes, TrueIsAFlag DEF Plain
  <2> HIDE DEF l
  <2> QED
    BY <1>b, <2>2, <2>3, <2>4, <2>6
<1>3. ASSUME RemoveTeam(q, t, ctx)
      PROVE  StaffInv'
  <2>1. PICK e0 \in Copies(t, team[t], ctx) :
               Begin(q, Plain(t, [e0 EXCEPT !.deleted = TRUE]))
    BY <1>3 DEF RemoveTeam
  <2> DEFINE e == [e0 EXCEPT !.deleted = TRUE]
             l == Plain(t, e)
  <2>0. e0 \in Team
    BY TeamCopies
  <2>2. e \in Team /\ e.org = e0.org /\ e.department = e0.department
    BY <2>0, Shapes, TrueIsAFlag
  <2>3. Settled(e.department, e.org)
    BY <2>2, TeamCopies
  <2>4. Begin(q, l)
    BY <2>1
  <2> HIDE DEF e
  <2>5. /\ l \in Local /\ l.id = t /\ l.entity = e
        /\ l.teams = {} /\ l.members = {}
    BY <1>c, <2>2, Shapes, TrueIsAFlag DEF Plain
  <2> HIDE DEF l
  <2> QED
    BY <1>b, <2>2, <2>3, <2>4, <2>5
<1> QED
  BY <1>1, <1>2, <1>3

LEMMA UserRequests ==
  ASSUME StaffInv, NEW q \in Requests, NEW u \in Users, NEW ctx \in Contexts,
         NEW d \in Departments \cup {None}, NEW teams \in SUBSET Teams,
         \/ CreateUser(q, u, ctx, d, teams)
         \/ \E leaves, given \in BOOLEAN : UpdateUser(q, u, ctx, d, leaves, given, teams)
  PROVE  StaffInv'
<1>c. ctx \in Organizations \cup {None} /\ u \in Ids /\ User \subseteq Entity
  BY ConstantsAssumption DEF Ids, Entity
<1>b. ASSUME NEW e \in User, NEW given \in Flags,
             user[u] # None /\ u \notin switched => e.org = user[u].org,
             e.department # None /\ u \notin switched => Settled(e.department, e.org),
             user[u] = None => \A p \in Requests : local[p] # None => local[p].id # u,
             Begin(q, [Plain(u, e) EXCEPT !.department = d, !.given = given, !.teams = teams])
      PROVE  StaffInv'
  <2> DEFINE l == [Plain(u, e) EXCEPT !.department = d, !.given = given, !.teams = teams]
  <2>1. l \in Local /\ l.id = u /\ l.entity = e /\ l.members = {} /\ ~l.bare
    BY <1>b, <1>c, Shapes, TrueIsAFlag DEF Plain
  <2>2. Begin(q, l)
    BY <1>b
  <2> HIDE DEF l
  <2>3. Sound(l)
    BY <1>b, <2>1, IdsApart DEF Sound
  <2>4. Existing(l.id) \/ \A p \in Requests : local[p] # None => local[p].id # l.id
    BY <1>b, <2>1 DEF Existing
  <2> QED
    BY <2>1, <2>2, <2>3, <2>4, BeginsPlainly
<1>1. CASE CreateUser(q, u, ctx, d, teams)
  <2> DEFINE e == [org |-> ctx, department |-> None, teams |-> {}]
  <2>1. e \in User /\ e.department = None
    BY <1>1, <1>c DEF CreateUser, User
  <2>2. /\ Begin(q, [Plain(u, e) EXCEPT !.department = d, !.given = TRUE, !.teams = teams])
        /\ Fresh(u, user[u])
    BY <1>1 DEF CreateUser
  <2> HIDE DEF e
  <2> QED
    BY <1>b, <2>1, <2>2, TrueIsAFlag DEF Fresh
<1>2. ASSUME NEW leaves \in BOOLEAN, NEW given \in BOOLEAN,
             UpdateUser(q, u, ctx, d, leaves, given, teams)
      PROVE  StaffInv'
  <2>0. PICK row : row = user[u]
    OBVIOUS
  <2> DEFINE e == [row EXCEPT !.department = IF leaves THEN None ELSE @,
                              !.teams = IF given THEN {} ELSE @]
  <2>1. /\ row \in User /\ user[u] # None
        /\ row.department # None /\ u \notin switched => Settled(row.department, row.org)
    BY <1>2, <2>0 DEF UpdateUser, StaffInv, Shape, StaffAtHome
  <2>2. e \in User /\ e.org = row.org /\ e.department \in {None, row.department}
    BY <2>1 DEF User
  <2>3. Begin(q, [Plain(u, e) EXCEPT !.department = d, !.given = given, !.teams = teams])
    BY <1>2, <2>0, Zenon DEF UpdateUser
  <2>4. given \in Flags
    BY <1>2, Zenon DEF Flags
  <2> HIDE DEF e
  <2>5. e.department # None /\ u \notin switched => Settled(e.department, e.org)
    BY <2>1, <2>2
  <2> QED
    BY <1>b, <2>0, <2>1, <2>2, <2>3, <2>4, <2>5, Zenon
<1> QED
  BY <1>1, <1>2

LEMMA Switching ==
  ASSUME StaffInv, NEW q \in Requests, NEW u \in Users, NEW org \in Organizations,
         SwitchOrganization(q, u, org)
  PROVE  StaffInv'
<1>0. PICK row : row = user[u]
  OBVIOUS
<1> DEFINE e == [row EXCEPT !.org = org]
           l == [Plain(u, e) EXCEPT !.bare = TRUE]
<1>1. row \in User /\ user[u] # None
  BY <1>0 DEF SwitchOrganization, StaffInv, Shape
<1>2. e \in User
  BY <1>1 DEF User
<1>3. Begin(q, l)
  BY <1>0 DEF SwitchOrganization
<1> HIDE DEF e
<1>4. l \in Local /\ l.id = u /\ l.entity = e /\ l.members = {} /\ l.bare
  BY <1>2, IdsApart, Shapes, TrueIsAFlag DEF Plain, Entity
<1> HIDE DEF l
<1>5. l.id \in switched' /\ UNCHANGED rows
  BY <1>3, <1>4 DEF Begin, Switches
<1>6. Sound(l)'
  BY <1>1, <1>2, <1>4, <1>5, IdsApart DEF Sound, rows
<1>7. Existing(l.id)
  BY <1>1, <1>4 DEF Existing
<1> QED
  BY <1>3, <1>4, <1>6, <1>7, Begins

LEMMA ProjectRequests ==
  ASSUME StaffInv, NEW q \in Requests, NEW p \in Projects, NEW ctx \in Contexts,
         \/ \E d \in Departments \cup {None}, teams \in SUBSET Teams, members \in SUBSET Users :
               \/ CreateProject(q, p, ctx, d, teams, members)
               \/ \E leaves, given, asked \in BOOLEAN :
                     UpdateProject(q, p, ctx, d, leaves, given, teams, asked, members)
         \/ RemoveProject(q, p, ctx)
  PROVE  StaffInv'
<1>c. ctx \in Organizations \cup {None} /\ p \in Ids /\ Project \subseteq Entity
  BY ConstantsAssumption DEF Ids, Entity
<1>b. ASSUME NEW l \in Local, NEW e \in Project, l.id = p, l.entity = e,
             l.bare => project[p] # None,
             project[p] # None => e.org = project[p].org,
             e.department # None => Settled(e.department, e.org),
             \A u \in e.members : Belongs(u, e.org),
             project[p] = None => \A r \in Requests : local[r] # None => local[r].id # p,
             Begin(q, l)
      PROVE  StaffInv'
  <2>1. Sound(l)
    BY <1>b, IdsApart DEF Sound
  <2>2. Existing(l.id) \/ \A r \in Requests : local[r] # None => local[r].id # l.id
    BY <1>b DEF Existing
  <2> QED
    BY <1>b, <2>1, <2>2, BeginsPlainly
<1>r. ASSUME Loadable(p, ctx)
      PROVE  /\ project[p] \in Project /\ project[p] # None
             /\ project[p].department # None => Settled(project[p].department, project[p].org)
             /\ \A u \in project[p].members : Belongs(u, project[p].org)
  BY <1>r DEF Loadable, StaffInv, Shape, StaffAtHome
<1>1. ASSUME NEW d \in Departments \cup {None}, NEW teams \in SUBSET Teams,
             NEW members \in SUBSET Users, CreateProject(q, p, ctx, d, teams, members)
      PROVE  StaffInv'
  <2> DEFINE e == [org |-> ctx, department |-> None, teams |-> {}, members |-> {},
                   deleted |-> FALSE]
             l == [Plain(p, e) EXCEPT !.department = d, !.teams = teams, !.members = members]
  <2>1. e \in Project /\ e.department = None /\ e.members = {}
    BY <1>1, <1>c, Shapes, TrueIsAFlag DEF CreateProject
  <2>2. Begin(q, l) /\ project[p] = None
        /\ \A r \in Requests : local[r] # None => local[r].id # p
    BY <1>1 DEF CreateProject, Fresh
  <2> HIDE DEF e
  <2>3. l \in Local /\ l.id = p /\ l.entity = e /\ ~l.bare
    BY <1>c, <2>1, Shapes, TrueIsAFlag DEF Plain
  <2> HIDE DEF l
  <2> QED
    BY <1>b, <2>1, <2>2, <2>3
<1>2. ASSUME NEW d \in Departments \cup {None}, NEW teams \in SUBSET Teams,
             NEW members \in SUBSET Users,
             NEW leaves \in BOOLEAN, NEW given \in BOOLEAN, NEW asked \in BOOLEAN,
             UpdateProject(q, p, ctx, d, leaves, given, teams, asked, members)
      PROVE  StaffInv'
  <2>0. PICK row : row = project[p]
    OBVIOUS
  <2> DEFINE e == [row EXCEPT !.department = IF leaves THEN None ELSE @,
                              !.teams = IF given THEN {} ELSE @,
                              !.members = IF asked THEN {} ELSE @]
             l == [Plain(p, e) EXCEPT !.department = d, !.teams = teams, !.members = members]
  <2>1. /\ row \in Project /\ project[p] # None
        /\ row.department # None => Settled(row.department, row.org)
        /\ \A u \in row.members : Belongs(u, row.org)
    BY <1>2, <1>r, <2>0 DEF UpdateProject
  <2>2. /\ e \in Project /\ e.org = row.org /\ e.department \in {None, row.department}
        /\ e.members \subseteq row.members
    BY <2>1, Shapes
  <2>3. Begin(q, l)
    BY <1>2, <2>0, Zenon DEF UpdateProject
  <2> HIDE DEF e
  <2>4. l \in Local /\ l.id = p /\ l.entity = e /\ ~l.bare
    BY <1>c, <2>2, Shapes, TrueIsAFlag DEF Plain
  <2> HIDE DEF l
  <2> QED
    BY <1>b, <2>0, <2>1, <2>2, <2>3, <2>4
<1>3. ASSUME RemoveProject(q, p, ctx)
      PROVE  StaffInv'
  <2>0. PICK row : row = project[p]
    OBVIOUS
  <2> DEFINE e == [row EXCEPT !.deleted = TRUE]
             l == [Plain(p, e) EXCEPT !.bare = TRUE]
  <2>1. /\ row \in Project /\ project[p] # None
        /\ row.department # None => Settled(row.department, row.org)
        /\ \A u \in row.members : Belongs(u, row.org)
    BY <1>3, <1>r, <2>0 DEF RemoveProject
  <2>2. /\ e \in Project /\ e.org = row.org /\ e.department = row.department
        /\ e.members = row.members
    BY <2>1, Shapes, TrueIsAFlag
  <2>3. Begin(q, l)
    BY <1>3, <2>0 DEF RemoveProject
  <2> HIDE DEF e
  <2>4. l \in Local /\ l.id = p /\ l.entity = e
    BY <1>c, <2>2, Shapes, TrueIsAFlag DEF Plain
  <2> HIDE DEF l
  <2> QED
    BY <1>b, <2>0, <2>1, <2>2, <2>3, <2>4
<1> QED
  BY <1>1, <1>2, <1>3

-----------------------------------------------------------------------------
(* The look-ups and the end of a request                                   *)

LEMMA UniqueHere ==
  ASSUME StaffInv, NEW q \in Requests, NEW l, l.id = local[q].id, local[q] # None
  PROVE  \A p \in Requests \ {q} :
            local[p] # None /\ local[p].id = l.id /\ l.id \notin Teams => Existing(l.id)
BY DEF StaffInv, Unique

\* What is known of a request in progress.
LEMMA InProgress ==
  ASSUME StaffInv, NEW q \in Requests, pc[q] # "idle"
  PROVE  local[q] # None /\ local[q] \in Local /\ local[q].id \in Ids /\ Fits(pc[q], local[q])
<1>1. \A l \in Local : l.id \in Ids
  BY Shapes
<1> QED
  BY <1>1 DEF StaffInv, Shape

\* A look-up leaves a sound entity for the one that follows.
LEMMA LooksUp ==
  ASSUME StaffInv, NEW q \in Requests, local[q] # None, UNCHANGED <<rows, switched>>,
         NEW label \in Labels, NEW next \in Local, next.id = local[q].id,
         pc' = [pc EXCEPT ![q] = label], local' = [local EXCEPT ![q] = next],
         Fits(label, next)
  PROVE  StaffInv'
<1>1. UNCHANGED rows /\ switched' = switched /\ switched' \subseteq Users
  BY DEF StaffInv, Shape
<1>2. Fits(label, next)'
  BY <1>1, SoundStays DEF Fits
<1>3. \A p \in Requests \ {q} :
         local[p] # None /\ local[p].id = next.id /\ next.id \notin Teams => Existing(next.id)
  BY UniqueHere
<1> QED
  BY <1>1, <1>2, <1>3, Moves

LEMMA FindsDepartment ==
  ASSUME StaffInv, NEW q \in Requests, FindDepartment(q)
  PROVE  StaffInv'
<1>1. PICK l, row : l = local[q] /\ row = department[l.department]
  OBVIOUS
<1> DEFINE e == IF l.id \in Teams THEN [l.entity EXCEPT !.department = l.department,
                                         !.org = IF l.ctx = None THEN row.org ELSE l.ctx]
                ELSE [l.entity EXCEPT !.department = l.department]
           next == [l EXCEPT !.department = None, !.entity = e]
<1>2. l \in Local /\ l.id \in Ids /\ Fits("department", l) /\ local[q] # None
  BY <1>1, InProgress DEF FindDepartment
<1>3. l.department \in Departments /\ l.id \notin Departments
  BY <1>2, NoneIsNothing, Shapes DEF Fits, Sound
<1>4. /\ LiveDepartment(l.department, IF l.id \in Teams THEN l.ctx ELSE l.entity.org)
      /\ pc' = [pc EXCEPT ![q] = Following(next)] /\ UNCHANGED <<rows, switched>>
      /\ local' = [local EXCEPT ![q] = next]
  BY <1>1 DEF FindDepartment, Goto, MovedTo
<1>5. row \in Department /\ row # None /\ l.ctx \in Organizations \cup {None}
  BY <1>1, <1>2, <1>3, <1>4, Shapes DEF LiveDepartment, StaffInv, Shape
<1>6. ASSUME l.id \in Teams
      PROVE  e \in Team /\ Settled(e.department, e.org)
  <2>1. l.entity \in Team
    BY <1>2, <1>6 DEF Fits, Sound
  <2>2. row.org \in Organizations
    BY <1>5, Shapes
  <2>3. l.ctx # None => row.org = l.ctx
    BY <1>1, <1>4, <1>6 DEF LiveDepartment
  <2>4. e = [l.entity EXCEPT !.department = l.department, !.org = row.org]
    BY <1>6, <2>3
  <2> HIDE DEF e
  <2>5. e \in Team /\ e.department = l.department /\ e.org = row.org
    BY <1>3, <2>1, <2>2, <2>4, Shapes
  <2> QED
    BY <1>1, <1>5, <2>5 DEF Settled
<1>7. ASSUME l.id \in Users
      PROVE  e \in User /\ Settled(e.department, e.org) /\ e.org = l.entity.org
  <2>1. l.entity \in User
    BY <1>2, <1>7 DEF Fits, Sound
  <2>2. e = [l.entity EXCEPT !.department = l.department]
    BY <1>7, IdsApart
  <2> HIDE DEF e
  <2>3. e \in User /\ e.department = l.department /\ e.org = l.entity.org
        /\ e.org \in Organizations
    BY <1>3, <2>1, <2>2 DEF User
  <2>4. row.org = e.org
    BY <1>1, <1>4, <1>7, <2>3, NoneIsNothing, IdsApart DEF LiveDepartment
  <2> QED
    BY <1>1, <1>5, <2>3, <2>4 DEF Settled
<1>8. ASSUME l.id \in Projects
      PROVE  /\ e \in Project /\ Settled(e.department, e.org) /\ e.org = l.entity.org
             /\ e.members = l.entity.members
  <2>1. l.entity \in Project
    BY <1>2, <1>8 DEF Fits, Sound
  <2>2. e = [l.entity EXCEPT !.department = l.department]
    BY <1>8, IdsApart
  <2> HIDE DEF e
  <2>3. e \in Project /\ e.department = l.department /\ e.org = l.entity.org
        /\ e.org \in Organizations /\ e.members = l.entity.members
    BY <1>3, <2>1, <2>2, Shapes
  <2>4. row.org = e.org
    BY <1>1, <1>4, <1>8, <2>3, NoneIsNothing, IdsApart DEF LiveDepartment
  <2> QED
    BY <1>1, <1>5, <2>3, <2>4 DEF Settled
<1>9. e \in Entity
  BY <1>2, <1>3, <1>6, <1>7, <1>8 DEF Ids, Entity
<1> HIDE DEF e
<1>10. next \in Local /\ next.id = l.id /\ next.department = None /\ next.entity = e
       /\ next.teams = l.teams /\ next.members = l.members /\ next.bare = l.bare
  BY <1>2, <1>9, Shapes
<1> HIDE DEF next
<1>11. Sound(l)
  BY <1>2 DEF Fits
<1>12. Sound(next)
  <2>1. CASE l.id \in Teams
    BY <1>6, <1>10, <1>11, <2>1, IdsApart DEF Sound
  <2>2. CASE l.id \in Users
    BY <1>7, <1>10, <1>11, <2>2, IdsApart DEF Sound
  <2>3. CASE l.id \in Projects
    BY <1>8, <1>10, <1>11, <2>3, IdsApart DEF Sound
  <2> QED
    BY <1>2, <1>3, <2>1, <2>2, <2>3 DEF Ids
<1>13. Fits(Following(next), next) /\ Following(next) \in Labels
  BY <1>12, FollowingIsALabel DEF Fits
<1> QED
  BY <1>1, <1>2, <1>4, <1>10, <1>13, LooksUp

LEMMA ChecksName ==
  ASSUME StaffInv, NEW q \in Requests, CheckName(q)
  PROVE  StaffInv'
<1>1. PICK l : l = local[q]
  OBVIOUS
<1> DEFINE next == [l EXCEPT !.name = None]
<1>2. l \in Local /\ Fits("name", l) /\ local[q] # None
  BY <1>1, InProgress DEF CheckName
<1>3. /\ pc' = [pc EXCEPT ![q] = Following(next)] /\ UNCHANGED <<rows, switched>>
      /\ local' = [local EXCEPT ![q] = next]
  BY <1>1 DEF CheckName, Goto
<1>4. next \in Local /\ next.id = l.id /\ next.department = l.department
      /\ next.entity = l.entity /\ next.teams = l.teams /\ next.members = l.members
      /\ next.bare = l.bare
  BY <1>2, Shapes
<1> HIDE DEF next
<1>5. Sound(next)
  BY <1>2, <1>4 DEF Fits, Sound
<1>6. Fits(Following(next), next) /\ Following(next) \in Labels
  BY <1>5, FollowingIsALabel DEF Fits
<1> QED
  BY <1>1, <1>2, <1>3, <1>4, <1>6, LooksUp

LEMMA FindsTeams ==
  ASSUME StaffInv, NEW q \in Requests, FindTeams(q)
  PROVE  StaffInv'
<1>1. PICK l : l = local[q]
  OBVIOUS
<1> DEFINE e == [l.entity EXCEPT !.teams = l.teams]
           next == [l EXCEPT !.teams = {}, !.entity = e]
<1>2. l \in Local /\ l.id \in Ids /\ Fits("teams", l) /\ local[q] # None
  BY <1>1, InProgress DEF FindTeams
<1>3. /\ pc' = [pc EXCEPT ![q] = Following(next)] /\ UNCHANGED <<rows, switched>>
      /\ local' = [local EXCEPT ![q] = next]
  BY <1>1 DEF FindTeams, Goto
<1>4. l.id \in Users \cup Projects /\ l.department = None /\ l.teams \in SUBSET Teams
  BY <1>2, Shapes DEF Fits, Sound, Ids
<1>5. ASSUME l.id \in Users
      PROVE  e \in User /\ e.department = l.entity.department /\ e.org = l.entity.org
  <2>1. l.entity \in User
    BY <1>2, <1>5 DEF Fits, Sound
  <2> QED
    BY <1>4, <2>1 DEF User
<1>6. ASSUME l.id \in Projects
      PROVE  e \in Project /\ e.department = l.entity.department /\ e.org = l.entity.org
             /\ e.members = l.entity.members
  <2>1. l.entity \in Project
    BY <1>2, <1>6 DEF Fits, Sound
  <2> QED
    BY <1>4, <2>1, Shapes
<1>7. e \in Entity
  BY <1>4, <1>5, <1>6 DEF Entity
<1> HIDE DEF e
<1>8. next \in Local /\ next.id = l.id /\ next.department = None /\ next.entity = e
      /\ next.teams = {} /\ next.members = l.members /\ next.bare = l.bare
  BY <1>2, <1>4, <1>7, Shapes
<1> HIDE DEF next
<1>9. Sound(l)
  BY <1>2 DEF Fits
<1>10. Sound(next)
  <2>1. CASE l.id \in Users
    BY <1>5, <1>8, <1>9, <2>1, IdsApart DEF Sound
  <2>2. CASE l.id \in Projects
    BY <1>6, <1>8, <1>9, <2>2, IdsApart DEF Sound
  <2> QED
    BY <1>4, <2>1, <2>2
<1>11. Fits(Following(next), next) /\ Following(next) \in Labels
  BY <1>10, FollowingIsALabel DEF Fits
<1> QED
  BY <1>1, <1>2, <1>3, <1>8, <1>11, LooksUp

LEMMA FindsMembers ==
  ASSUME StaffInv, NEW q \in Requests, FindMembers(q)
  PROVE  StaffInv'
<1>1. PICK l : l = local[q]
  OBVIOUS
<1> DEFINE e == [l.entity EXCEPT !.members = l.members]
           next == [l EXCEPT !.members = {}, !.entity = e]
<1>2. l \in Local /\ l.id \in Ids /\ Fits("members", l) /\ local[q] # None
  BY <1>1, InProgress DEF FindMembers
<1>3. /\ pc' = [pc EXCEPT ![q] = "save"] /\ UNCHANGED <<rows, switched>>
      /\ local' = [local EXCEPT ![q] = next] /\ Colleagues(l.members, l.entity.org)
  BY <1>1 DEF FindMembers, Goto
<1>4. l.id \in Projects /\ l.department = None /\ l.members \in SUBSET Users
  BY <1>2, Shapes DEF Fits, Sound, Ids
<1>5. l.entity \in Project /\ Sound(l)
  BY <1>2, <1>4 DEF Fits, Sound
<1>6. e \in Project /\ e.department = l.entity.department /\ e.org = l.entity.org
      /\ e.members = l.members
  BY <1>4, <1>5, Shapes
<1> HIDE DEF e
<1>7. next \in Local /\ next.id = l.id /\ next.department = None /\ next.entity = e
      /\ next.bare = l.bare
  BY <1>2, <1>4, <1>6, Shapes DEF Entity
<1> HIDE DEF next
<1>8. Sound(next)
  BY <1>3, <1>4, <1>5, <1>6, <1>7, IdsApart DEF Sound, Colleagues, Belongs
<1>9. Fits("save", next) /\ "save" \in Labels
  BY <1>7, <1>8 DEF Fits, Labels
<1> QED
  BY <1>1, <1>2, <1>3, <1>7, <1>9, LooksUp

\* What is known of the other requests survives a save that leaves the
\* organizations of departments, projects and staff alone.
LEMMA Saves ==
  ASSUME StaffInv, NEW q \in Requests, Finish(q), Shape', Copied',
         TeamFollowsDepartment', StaffAtHome', switched' = switched,
         \A d \in Departments : department[d] # None =>
            department'[d] # None /\ department'[d].org = department[d].org,
         \A u \in Users : user[u] # None =>
            user'[u] # None /\ (u \notin switched => user'[u].org = user[u].org),
         \A p \in Projects : project[p] # None =>
            project'[p] # None /\ project'[p].org = project[p].org,
         \A i \in Ids : Existing(i)' => Existing(i) \/ i = local[q].id,
         local[q] # None
  PROVE  StaffInv'
<1>1. pc' = [pc EXCEPT ![q] = "idle"] /\ local' = [local EXCEPT ![q] = None]
  BY DEF Finish, Goto
<1>0. \A i : Existing(i) => Existing(i)'
  BY DEF Existing
<1>2. Unique'
  BY <1>0, <1>1 DEF StaffInv, Shape, Unique
<1>3. ASSUME NEW x \in Requests
      PROVE  (pc'[x] # "idle" => local'[x] # None) /\ (local'[x] # None => Fits(pc[x], local[x])')
  <2>1. CASE x = q
    BY <1>1, <2>1 DEF StaffInv, Shape
  <2>2. CASE x # q /\ local[x] # None
    <3>1. pc'[x] = pc[x] /\ local'[x] = local[x] /\ Fits(pc[x], local[x])
      BY <1>1, <2>2 DEF StaffInv, Shape
    <3>2. PICK l, at : l = local[x] /\ at = pc[x]
      OBVIOUS
    <3>s. Sound(l) /\ l.id \in Ids
      BY <3>1, <3>2, <2>2, Shapes DEF Fits, StaffInv, Shape
    <3>3. Existing(l.id)' /\ l.id \notin Teams => Existing(l.id)
      BY <2>2, <3>2, <3>s DEF StaffInv, Unique
    <3>4. ASSUME NEW d \in Departments, NEW org, Settled(d, org)
          PROVE  Settled(d, org)'
      BY <3>4 DEF Settled
    <3>5. ASSUME NEW u \in Users, NEW org, Belongs(u, org)
          PROVE  Belongs(u, org)'
      BY <3>5 DEF Belongs
    <3>6. Sound(l)'
      <4>1. CASE l.id \in Departments
        BY <3>s, <3>3, <4>1, IdsApart DEF Sound, Existing
      <4>2. CASE l.id \in Teams
        <5>1. l.entity \in Team /\ l.entity.department \in Departments
          BY <3>s, <4>2, Shapes DEF Sound
        <5> QED
          BY <3>s, <3>4, <4>2, <5>1, IdsApart DEF Sound
      <4>3. CASE l.id \in Users
        <5>1. l.entity \in User /\ (l.entity.department # None => l.entity.department \in Departments)
          BY <3>s, <4>3 DEF Sound, User
        <5>2. user'[l.id] # None => user[l.id] # None
          BY <3>3, <4>3, IdsApart DEF Existing
        <5> QED
          BY <3>s, <3>4, <4>3, <5>1, <5>2, IdsApart DEF Sound
      <4>4. CASE l.id \in Projects
        <5>0. l.entity \in Project
          BY <3>s, <4>4 DEF Sound
        <5>1. /\ l.entity.department # None => l.entity.department \in Departments
              /\ l.entity.members \subseteq Users
          BY <5>0, Shapes
        <5>2. project'[l.id] # None => project[l.id] # None
          BY <3>3, <4>4, IdsApart DEF Existing
        <5>3. \A u \in l.entity.members : Belongs(u, l.entity.org)'
          BY <3>s, <3>5, <4>4, <5>1 DEF Sound
        <5> QED
          BY <3>s, <3>4, <4>4, <5>1, <5>2, <5>3, IdsApart DEF Sound
      <4> QED
        BY <3>s, <4>1, <4>2, <4>3, <4>4 DEF Ids
    <3>7. Fits(at, l)'
      BY <3>1, <3>2, <3>6 DEF Fits
    <3> QED
      BY <2>2, <3>1, <3>2, <3>7
  <2>3. CASE x # q /\ local[x] = None
    BY <1>1, <2>3 DEF StaffInv, Shape
  <2> QED
    BY <2>1, <2>2, <2>3
<1> QED
  BY <1>2, <1>3 DEF StaffInv

LEMMA SavesRow ==
  ASSUME StaffInv, NEW q \in Requests, Save(q)
  PROVE  StaffInv'
<1>1. PICK l, i, e : l = local[q] /\ i = l.id /\ e = l.entity
  OBVIOUS
<1>2. local[q] # None /\ l \in Local /\ i \in Ids /\ Sound(l) /\ l.department = None
  BY <1>1, InProgress DEF Save, Fits
<1>3. /\ pc' = [pc EXCEPT ![q] = "idle"] /\ local' = [local EXCEPT ![q] = None]
      /\ Finish(q) /\ switched' = switched
  BY DEF Save, Finish, Goto
<1>4. /\ pc' \in [Requests -> Labels \cup {"idle"}]
      /\ local' \in [Requests -> Local \cup {None}]
      /\ switched' \subseteq Users
  BY <1>3 DEF StaffInv, Shape
<1>5. past' \in {past, [past EXCEPT ![i] = @ \cup {e}]}
      /\ (i \in Users \cup Projects => past' = past)
  BY <1>1, IdsApart DEF Save
<1>6. CASE i \in Departments
  <2>1. department' = [department EXCEPT ![i] = e] /\ UNCHANGED <<team, user, project>>
    BY <1>1, <1>6, IdsApart DEF Save
  <2>2. e \in Department /\ (department[i] # None => e.org = department[i].org)
    BY <1>1, <1>2, <1>6 DEF Sound
  <2>t. past' \in [Departments \cup Teams -> SUBSET (Department \cup Team)]
    BY <1>5, <2>2 DEF StaffInv, Shape
  <2>3. Shape'
    BY <1>4, <2>1, <2>2, <2>t DEF StaffInv, Shape
  <2>4. \A d \in Departments : department[d] # None =>
           department'[d] # None /\ department'[d].org = department[d].org
    BY <2>1, <2>2, NoneIsNothing DEF StaffInv, Shape
  <2>5. \A d \in Departments : \A org : Settled(d, org) => Settled(d, org)'
    BY <2>4 DEF Settled
  <2>6. Settled(i, e.org)'
    BY <1>6, <2>1, <2>2, NoneIsNothing DEF Settled, StaffInv, Shape
  <2>7. Copied'
    BY <1>5, <1>6, <2>2, <2>5, <2>6, IdsApart DEF StaffInv, Shape, Copied
  <2>8. TeamFollowsDepartment'
    <3>1. \A v \in Team : v.department \in Departments
      BY Shapes
    <3> QED
      BY <2>1, <2>4, <3>1 DEF StaffInv, Shape, TeamFollowsDepartment
  <2>9. StaffAtHome'
    <3>1. \A v \in User : v.department # None => v.department \in Departments
      BY DEF User
    <3>2. \A v \in Project : v.department # None => v.department \in Departments
      BY Shapes
    <3>3. \A u \in Users \ switched : user'[u] # None /\ user'[u].department # None =>
             Settled(user[u].department, user[u].org)'
      BY <2>1, <2>5, <3>1 DEF StaffInv, Shape, StaffAtHome
    <3>4. \A p \in Projects : project'[p] # None =>
             /\ project'[p].department # None => Settled(project[p].department, project[p].org)'
             /\ \A u \in project'[p].members : Belongs(u, project[p].org)'
      BY <1>3, <2>1, <2>5, <3>2 DEF StaffInv, Shape, StaffAtHome, Belongs
    <3> QED
      BY <1>3, <3>3, <3>4 DEF StaffAtHome
  <2>10. \A x \in Ids : Existing(x)' => Existing(x) \/ x = i
    BY <2>1 DEF Existing, StaffInv, Shape
  <2> QED
    BY <1>1, <1>2, <1>3, <2>1, <2>3, <2>4, <2>7, <2>8, <2>9, <2>10, Saves
<1>7. CASE i \in Teams
  <2>1. team' = [team EXCEPT ![i] = e] /\ UNCHANGED <<department, user, project>>
    BY <1>1, <1>7, IdsApart DEF Save
  <2>2. e \in Team /\ Settled(e.department, e.org) /\ e.department \in Departments
    BY <1>1, <1>2, <1>7, Shapes DEF Sound
  <2>t. past' \in [Departments \cup Teams -> SUBSET (Department \cup Team)]
    BY <1>5, <2>2 DEF StaffInv, Shape
  <2>3. Shape'
    BY <1>4, <2>1, <2>2, <2>t DEF StaffInv, Shape
  <2>4. \A d, org : Settled(d, org) => Settled(d, org)'
    BY <2>1 DEF Settled
  <2>5. Copied'
    BY <1>5, <1>7, <2>2, <2>4, IdsApart DEF StaffInv, Shape, Copied
  <2>6. TeamFollowsDepartment'
    BY <2>1, <2>2 DEF StaffInv, Shape, TeamFollowsDepartment, Settled
  <2>7. StaffAtHome'
    BY <1>3, <2>1 DEF StaffInv, StaffAtHome, Settled, Belongs
  <2>8. \A x \in Ids : Existing(x)' => Existing(x) \/ x = i
    BY <2>1 DEF Existing
  <2> QED
    BY <1>1, <1>2, <1>3, <2>1, <2>3, <2>5, <2>6, <2>7, <2>8, Saves
<1>8. CASE i \in Users
  <2> DEFINE n == Stored(user[i], l)
  <2>1. user' = [user EXCEPT ![i] = n] /\ UNCHANGED <<department, team, project>>
    BY <1>1, <1>8, IdsApart DEF Save
  <2>2. /\ n \in User
        /\ i \notin switched /\ n.department # None => Settled(n.department, n.org)
        /\ user[i] # None /\ i \notin switched => n.org = user[i].org
    <3>1. CASE l.bare
      <4>1. i \in switched /\ user[i] \in User /\ e \in User
        BY <1>1, <1>2, <1>8, <3>1 DEF Sound, StaffInv, Shape
      <4> QED
        BY <1>1, <1>8, <3>1, <4>1 DEF Stored, Switches, User
    <3>2. CASE ~l.bare
      BY <1>1, <1>2, <1>8, <3>2 DEF Stored, Sound
    <3> QED
      BY <3>1, <3>2
  <2> HIDE DEF n
  <2>3. Shape'
    BY <1>4, <1>5, <1>8, <2>1, <2>2 DEF StaffInv, Shape
  <2>4. Copied'
    BY <1>5, <1>8, <2>1 DEF StaffInv, Copied, Settled
  <2>5. TeamFollowsDepartment'
    BY <2>1 DEF StaffInv, TeamFollowsDepartment
  <2>6. \A u \in Users : user[u] # None =>
           user'[u] # None /\ (u \notin switched => user'[u].org = user[u].org)
    BY <2>1, <2>2, NoneIsNothing DEF StaffInv, Shape
  <2>7. StaffAtHome'
    <3>1. \A u \in Users \ switched : user'[u] # None /\ user'[u].department # None =>
             Settled(user[u].department, user[u].org)'
      BY <2>1, <2>2 DEF StaffInv, Shape, StaffAtHome, Settled
    <3>2. \A v \in Project : v.members \subseteq Users
      BY Shapes
    <3>3. \A p \in Projects : project'[p] # None =>
             /\ project'[p].department # None => Settled(project[p].department, project[p].org)'
             /\ \A u \in project'[p].members : Belongs(u, project[p].org)'
      BY <1>3, <2>1, <2>6, <3>2 DEF StaffInv, Shape, StaffAtHome, Settled, Belongs
    <3> QED
      BY <1>3, <3>1, <3>3 DEF StaffAtHome
  <2>8. \A x \in Ids : Existing(x)' => Existing(x) \/ x = i
    BY <2>1 DEF Existing, StaffInv, Shape
  <2> QED
    BY <1>1, <1>2, <1>3, <2>1, <2>3, <2>4, <2>5, <2>6, <2>7, <2>8, Saves
<1>9. CASE i \in Projects
  <2> DEFINE n == Stored(project[i], l)
  <2>1. project' = [project EXCEPT ![i] = n] /\ UNCHANGED <<department, team, user>>
    BY <1>1, <1>9, IdsApart DEF Save
  <2>0. /\ e \in Project
        /\ e.department # None => Settled(e.department, e.org)
        /\ \A u \in e.members : Belongs(u, e.org)
        /\ project[i] # None => e.org = project[i].org
        /\ l.bare => project[i] # None
    BY <1>1, <1>2, <1>9 DEF Sound
  <2>2. /\ n \in Project
        /\ n.department # None => Settled(n.department, n.org)
        /\ \A u \in n.members : Belongs(u, n.org)
        /\ project[i] # None => n.org = project[i].org
    <3>1. CASE l.bare
      <4>1. project[i] \in Project /\ \A u \in project[i].members : Belongs(u, project[i].org)
        BY <1>9, <2>0, <3>1 DEF StaffInv, Shape, StaffAtHome
      <4>2. n = [e EXCEPT !.teams = project[i].teams, !.members = project[i].members]
        BY <1>1, <1>9, <3>1, IdsApart DEF Stored, Switches
      <4> HIDE DEF n
      <4>3. n \in Project /\ n.department = e.department /\ n.org = e.org
            /\ n.members = project[i].members
        BY <2>0, <4>1, <4>2, Shapes
      <4> QED
        BY <2>0, <3>1, <4>1, <4>3
    <3>2. CASE ~l.bare
      BY <1>1, <2>0, <3>2 DEF Stored
    <3> QED
      BY <3>1, <3>2
  <2> HIDE DEF n
  <2>3. Shape'
    BY <1>4, <1>5, <1>9, <2>1, <2>2 DEF StaffInv, Shape
  <2>4. Copied'
    BY <1>5, <1>9, <2>1 DEF StaffInv, Copied, Settled
  <2>5. TeamFollowsDepartment'
    BY <2>1 DEF StaffInv, TeamFollowsDepartment
  <2>6. \A p \in Projects : project[p] # None =>
           project'[p] # None /\ project'[p].org = project[p].org
    BY <2>1, <2>2, NoneIsNothing DEF StaffInv, Shape
  <2>7. StaffAtHome'
    BY <1>3, <2>1, <2>2 DEF StaffInv, Shape, StaffAtHome, Settled, Belongs
  <2>8. \A x \in Ids : Existing(x)' => Existing(x) \/ x = i
    BY <2>1 DEF Existing, StaffInv, Shape
  <2> QED
    BY <1>1, <1>2, <1>3, <2>1, <2>3, <2>4, <2>5, <2>6, <2>7, <2>8, Saves
<1> QED
  BY <1>2, <1>6, <1>7, <1>8, <1>9 DEF Ids

-----------------------------------------------------------------------------
(* The theorems                                                            *)

LEMMA StaffStarts == Init => StaffInv
<1> SUFFICES ASSUME Init
             PROVE  StaffInv
  OBVIOUS
<1>1. Shape
  BY ConstantsAssumption DEF Init, Shape
<1>2. Copied
  BY ConstantsAssumption DEF Init, Copied, Settled
<1>3. TeamFollowsDepartment /\ StaffAtHome
  BY DEF Init, TeamFollowsDepartment, StaffAtHome
<1> QED
  BY <1>1, <1>2, <1>3 DEF Init, StaffInv, Unique

LEMMA StaffGoesOn == StaffInv /\ [Next]_vars => StaffInv'
<1>0. ASSUME StaffInv, UNCHANGED vars
      PROVE  StaffInv'
  <2>1. UNCHANGED rows /\ UNCHANGED <<pc, local, switched>>
    BY <1>0 DEF vars
  <2>2. Copied' /\ TeamFollowsDepartment' /\ StaffAtHome'
    BY <1>0, <2>1, InvariantsStay
  <2>3. Shape' /\ Unique'
    BY <1>0, <2>1 DEF StaffInv, Shape, Unique, Existing, rows
  <2>4. \A q \in Requests : (pc'[q] # "idle" => local'[q] # None)
                            /\ (local'[q] # None => Fits(pc[q], local[q])')
    <3>1. ASSUME NEW l, Sound(l)
          PROVE  Sound(l)'
      BY <2>1, <3>1, SoundStays
    <3> QED
      BY <1>0, <2>1, <3>1 DEF StaffInv, Fits
  <2> QED
    BY <2>2, <2>3, <2>4 DEF StaffInv
<1>1. ASSUME StaffInv, NEW q \in Requests, NEW ctx \in Contexts, NEW d \in Departments,
             \/ \E name \in Names : CreateDepartment(q, d, ctx, name)
             \/ \E name \in Names \cup {None} : UpdateDepartment(q, d, ctx, name)
             \/ RemoveDepartment(q, d, ctx)
      PROVE  StaffInv'
  BY <1>1, DepartmentRequests
<1>2. ASSUME StaffInv, NEW q \in Requests, NEW ctx \in Contexts, NEW t \in Teams,
             \/ \E d \in Departments, name \in Names : CreateTeam(q, t, ctx, d, name)
             \/ \E d \in Departments \cup {None}, name \in Names \cup {None} :
                   UpdateTeam(q, t, ctx, d, name)
             \/ RemoveTeam(q, t, ctx)
      PROVE  StaffInv'
  BY <1>2, TeamRequests
<1>3. ASSUME StaffInv, NEW q \in Requests, NEW ctx \in Contexts, NEW u \in Users,
             NEW d \in Departments \cup {None}, NEW teams \in SUBSET Teams,
             \/ CreateUser(q, u, ctx, d, teams)
             \/ \E leaves, given \in BOOLEAN : UpdateUser(q, u, ctx, d, leaves, given, teams)
      PROVE  StaffInv'
  BY <1>3, UserRequests
<1>4. ASSUME StaffInv, NEW q \in Requests, NEW ctx \in Contexts, NEW p \in Projects,
             \/ \E d \in Departments \cup {None}, teams \in SUBSET Teams, members \in SUBSET Users :
                   \/ CreateProject(q, p, ctx, d, teams, members)
                   \/ \E leaves, given, asked \in BOOLEAN :
                         UpdateProject(q, p, ctx, d, leaves, given, teams, asked, members)
             \/ RemoveProject(q, p, ctx)
      PROVE  StaffInv'
  BY <1>4, ProjectRequests
<1>5. ASSUME StaffInv, NEW q \in Requests, NEW u \in Users, NEW org \in Organizations,
             SwitchOrganization(q, u, org)
      PROVE  StaffInv'
  BY <1>5, Switching
<1>6. ASSUME StaffInv, NEW q \in Requests,
             FindDepartment(q) \/ CheckName(q) \/ FindTeams(q) \/ FindMembers(q) \/ Save(q)
      PROVE  StaffInv'
  BY <1>6, FindsDepartment, ChecksName, FindsTeams, FindsMembers, SavesRow
<1>7. ASSUME StaffInv, NEW q \in Requests, Read(q) \/ Refuse(q)
      PROVE  StaffInv'
  BY <1>0, <1>7, Ends DEF Read, Refuse
<1> QED
  BY <1>0, <1>1, <1>2, <1>3, <1>4, <1>5, <1>6, <1>7, Zenon DEF Next, Operation

\* What StaffInv leaves out of TypeOK.
Counted == begun \in 0 .. MaxOperations /\ overlapped \in BOOLEAN

LEMMA GoingOn ==
  ASSUME Counted, NEW q, NEW label, Goto(q, label)
  PROVE  overlapped' \in BOOLEAN
BY DEF Goto, Counted, Overlaps

LEMMA BeginCounts ==
  ASSUME Counted, NEW q, NEW l, Begin(q, l)
  PROVE  Counted'
<1>1. begun' \in 0 .. MaxOperations
  BY ConstantsAssumption DEF Begin, Counted
<1>2. overlapped' \in BOOLEAN
  BY GoingOn DEF Begin
<1> QED
  BY <1>1, <1>2 DEF Counted

LEMMA StepsCount == Counted /\ [Next]_vars => Counted'
<1>0. ASSUME Counted, UNCHANGED vars
      PROVE  Counted'
  BY <1>0 DEF Counted, vars
<1>1. ASSUME Counted, NEW q \in Requests, NEW ctx \in Contexts, NEW d \in Departments,
             \/ \E name \in Names : CreateDepartment(q, d, ctx, name)
             \/ \E name \in Names \cup {None} : UpdateDepartment(q, d, ctx, name)
             \/ RemoveDepartment(q, d, ctx)
      PROVE  Counted'
  BY <1>1, BeginCounts, Zenon DEF CreateDepartment, UpdateDepartment, RemoveDepartment
<1>2. ASSUME Counted, NEW q \in Requests, NEW ctx \in Contexts, NEW t \in Teams,
             \/ \E d \in Departments, name \in Names : CreateTeam(q, t, ctx, d, name)
             \/ \E d \in Departments \cup {None}, name \in Names \cup {None} :
                   UpdateTeam(q, t, ctx, d, name)
             \/ RemoveTeam(q, t, ctx)
      PROVE  Counted'
  BY <1>2, BeginCounts, Zenon DEF CreateTeam, UpdateTeam, RemoveTeam
<1>3. ASSUME Counted, NEW q \in Requests, NEW ctx \in Contexts, NEW u \in Users,
             NEW d \in Departments \cup {None}, NEW teams \in SUBSET Teams,
             \/ CreateUser(q, u, ctx, d, teams)
             \/ \E leaves, given \in BOOLEAN : UpdateUser(q, u, ctx, d, leaves, given, teams)
      PROVE  Counted'
  BY <1>3, BeginCounts, Zenon DEF CreateUser, UpdateUser
<1>4. ASSUME Counted, NEW q \in Requests, NEW ctx \in Contexts, NEW p \in Projects,
             \/ \E d \in Departments \cup {None}, teams \in SUBSET Teams, members \in SUBSET Users :
                   \/ CreateProject(q, p, ctx, d, teams, members)
                   \/ \E leaves, given, asked \in BOOLEAN :
                         UpdateProject(q, p, ctx, d, leaves, given, teams, asked, members)
             \/ RemoveProject(q, p, ctx)
      PROVE  Counted'
  <2>1. ASSUME NEW d, NEW teams, NEW members, CreateProject(q, p, ctx, d, teams, members)
        PROVE  Counted'
    BY <1>4, <2>1, BeginCounts DEF CreateProject
  <2>2. ASSUME NEW d, NEW teams, NEW members, NEW leaves, NEW given, NEW asked,
               UpdateProject(q, p, ctx, d, leaves, given, teams, asked, members)
        PROVE  Counted'
    BY <1>4, <2>2, BeginCounts, Zenon DEF UpdateProject
  <2>3. ASSUME RemoveProject(q, p, ctx)
        PROVE  Counted'
    BY <1>4, <2>3, BeginCounts DEF RemoveProject
  <2> QED
    BY <1>4, <2>1, <2>2, <2>3, Zenon
<1>5. ASSUME Counted, NEW q \in Requests, NEW u \in Users, NEW org \in Organizations,
             SwitchOrganization(q, u, org)
      PROVE  Counted'
  BY <1>5, BeginCounts, Zenon DEF SwitchOrganization
<1>6. ASSUME Counted, NEW q \in Requests,
             \/ FindDepartment(q) \/ CheckName(q) \/ FindTeams(q) \/ FindMembers(q)
             \/ Save(q) \/ Refuse(q)
      PROVE  Counted'
  <2>1. begun' = begun
    BY <1>6, Zenon DEF FindDepartment, CheckName, FindTeams, FindMembers, Save, Refuse
  <2>2. \E label : Goto(q, label)
    BY <1>6, Zenon DEF FindDepartment, CheckName, FindTeams, FindMembers, Save, Refuse, Finish
  <2> QED
    BY <1>6, <2>1, <2>2, GoingOn DEF Counted
<1>7. ASSUME Counted, NEW q \in Requests, Read(q)
      PROVE  Counted'
  BY <1>0, <1>7 DEF Read
<1> QED
  BY <1>0, <1>1, <1>2, <1>3, <1>4, <1>5, <1>6, <1>7, Zenon DEF Next, Operation

\* Every row, copy and request has its type, for any number of them.
THEOREM TypeCorrect == Spec => []TypeOK
<1>1. Init => Counted
  <2>1. 0 \in 0 .. MaxOperations
    BY ConstantsAssumption
  <2> QED
    BY <2>1, Zenon DEF Init, Counted
<1>2. StaffInv /\ Counted => TypeOK
  BY DEF StaffInv, Shape, Counted, TypeOK, Labels
<1> QED
  BY <1>1, <1>2, StepsCount, StaffStarts, StaffGoesOn, PTL DEF Spec

\* Whatever overlaps, and however old the copy an update starts from, a team
\* is saved with the organization of its department.
THEOREM TeamsFollow == Spec => []TeamFollowsDepartment
<1>1. StaffInv => TeamFollowsDepartment
  BY DEF StaffInv
<1> QED
  BY <1>1, StaffStarts, StaffGoesOn, PTL DEF Spec

\* The department of a user or a project, and the members of a project, are
\* of its organization, although they were looked up some awaits before the
\* save; only those who switch their organization leave what they had behind.
THEOREM UsersStayAtHome == Spec => []StaffAtHome
<1>1. StaffInv => StaffAtHome
  BY DEF StaffInv
<1> QED
  BY <1>1, StaffStarts, StaffGoesOn, PTL DEF Spec

-----------------------------------------------------------------------------
(* The teams a request chooses                                             *)

\* Until its department is known a user's request has taken no teams; those it
\* has taken are in the department.
Chosen(l) ==
    l.id \in Users /\ l.given =>
        /\ ~l.bare
        /\ l.department # None => l.entity.teams = {}
        /\ Fit(l.entity.teams, l.entity.department)

\* Nobody moves a team as long as requests follow one another.
InTurn ==
    ~overlapped =>
        /\ \A p, q \in Requests : pc[p] # "idle" /\ pc[q] # "idle" => p = q
        /\ \A q \in Requests : pc[q] # "idle" => Chosen(local[q])

LEMMA GoesAlone ==
  ASSUME NEW q \in Requests, NEW label, Goto(q, label), ~overlapped'
  PROVE  ~overlapped /\ (label = "idle" \/ \A p \in Requests \ {q} : pc[p] = "idle")
BY Zenon DEF Goto, Overlaps

LEMMA ChoiceStays ==
  ASSUME team' = team, NEW l
  PROVE  Chosen(l)' <=> Chosen(l)
BY DEF Chosen, Fit

\* A request moves on while the teams stay.
LEMMA TurnGoes ==
  ASSUME StaffInv, InTurn, NEW q \in Requests, NEW label \in Labels, NEW l,
         Goto(q, label), local' = [local EXCEPT ![q] = l], team' = team,
         (pc[q] # "idle" => Chosen(local[q])) => Chosen(l)
  PROVE  InTurn'
<1> SUFFICES ASSUME ~overlapped'
             PROVE  /\ \A p, r \in Requests : pc'[p] # "idle" /\ pc'[r] # "idle" => p = r
                    /\ \A p \in Requests : pc'[p] # "idle" => Chosen(local[p])'
  BY DEF InTurn
<1>1. ~overlapped /\ \A p \in Requests \ {q} : pc[p] = "idle"
  BY GoesAlone DEF Labels
<1>2. \A p \in Requests \ {q} : pc'[p] = "idle"
  BY <1>1 DEF Goto, StaffInv, Shape
<1>3. Chosen(l)'
  BY <1>1, ChoiceStays DEF InTurn
<1>4. local'[q] = l
  BY DEF StaffInv, Shape
<1>5. Chosen(local[q])'
  BY <1>3, <1>4 DEF Chosen, Fit
<1> QED
  BY <1>2, <1>5

LEMMA TurnEnds ==
  ASSUME StaffInv, InTurn, NEW q \in Requests, pc[q] # "idle", Finish(q)
  PROVE  InTurn'
<1> SUFFICES ASSUME ~overlapped'
             PROVE  \A p \in Requests : pc'[p] = "idle"
  BY DEF InTurn
<1>1. ~overlapped
  BY GoesAlone DEF Finish
<1>2. \A p \in Requests \ {q} : pc[p] = "idle"
  BY <1>1 DEF InTurn
<1> QED
  BY <1>2 DEF Finish, Goto, StaffInv, Shape

LEMMA TurnBegins ==
  ASSUME StaffInv, InTurn, NEW q \in Requests, NEW l, Begin(q, l), Chosen(l)
  PROVE  InTurn'
<1>1. /\ Goto(q, Following(l)) /\ local' = [local EXCEPT ![q] = l] /\ team' = team
  BY DEF Begin, rows
<1> QED
  BY <1>1, FollowingIsALabel, TurnGoes

\* Requests for anything but a user choose no user's teams.
LEMMA OthersChooseNothing ==
  ASSUME NEW l, l.id \notin Users
  PROVE  Chosen(l)
BY DEF Chosen

LEMMA TurnOfOthers ==
  ASSUME StaffInv, InTurn, NEW q \in Requests, NEW ctx,
         \/ \E d \in Departments :
               \/ \E name \in Names : CreateDepartment(q, d, ctx, name)
               \/ \E name \in Names \cup {None} : UpdateDepartment(q, d, ctx, name)
               \/ RemoveDepartment(q, d, ctx)
         \/ \E t \in Teams :
               \/ \E d \in Departments, name \in Names : CreateTeam(q, t, ctx, d, name)
               \/ \E d \in Departments \cup {None}, name \in Names \cup {None} :
                     UpdateTeam(q, t, ctx, d, name)
               \/ RemoveTeam(q, t, ctx)
  PROVE  InTurn'
<1>1. ASSUME NEW i \in Departments \cup Teams, NEW e, NEW l, l.id = i, Begin(q, l)
      PROVE  InTurn'
  BY <1>1, IdsApart, OthersChooseNothing, TurnBegins
<1>2. ASSUME NEW d \in Departments,
             \/ \E name \in Names : CreateDepartment(q, d, ctx, name)
             \/ \E name \in Names \cup {None} : UpdateDepartment(q, d, ctx, name)
             \/ RemoveDepartment(q, d, ctx)
      PROVE  \E l : l.id = d /\ Begin(q, l)
  BY <1>2 DEF CreateDepartment, UpdateDepartment, RemoveDepartment, Plain
<1>3. ASSUME NEW t \in Teams,
             \/ \E d \in Departments, name \in Names : CreateTeam(q, t, ctx, d, name)
             \/ \E d \in Departments \cup {None}, name \in Names \cup {None} :
                   UpdateTeam(q, t, ctx, d, name)
             \/ RemoveTeam(q, t, ctx)
      PROVE  \E l : l.id = t /\ Begin(q, l)
  BY <1>3 DEF CreateTeam, UpdateTeam, RemoveTeam, Plain
<1> QED
  BY <1>1, <1>2, <1>3

LEMMA TurnOfProjects ==
  ASSUME StaffInv, InTurn, NEW q \in Requests, NEW ctx, NEW p \in Projects,
         \/ \E d \in Departments \cup {None}, teams \in SUBSET Teams, members \in SUBSET Users :
               \/ CreateProject(q, p, ctx, d, teams, members)
               \/ \E leaves, given, asked \in BOOLEAN :
                     UpdateProject(q, p, ctx, d, leaves, given, teams, asked, members)
         \/ RemoveProject(q, p, ctx)
  PROVE  InTurn'
<1>1. ASSUME NEW l, l.id = p, Begin(q, l)
      PROVE  InTurn'
  BY <1>1, IdsApart, OthersChooseNothing, TurnBegins
<1>2. ASSUME NEW d, NEW teams, NEW members, CreateProject(q, p, ctx, d, teams, members)
      PROVE  InTurn'
  BY <1>1, <1>2 DEF CreateProject, Plain
<1>3. ASSUME NEW d, NEW teams, NEW members, NEW leaves, NEW given, NEW asked,
             UpdateProject(q, p, ctx, d, leaves, given, teams, asked, members)
      PROVE  InTurn'
  <2>1. PICK e : Begin(q, [Plain(p, e) EXCEPT !.department = d, !.teams = teams, !.members = members])
    BY <1>3, Zenon DEF UpdateProject
  <2> QED
    BY <1>1, <2>1 DEF Plain
<1>4. ASSUME RemoveProject(q, p, ctx)
      PROVE  InTurn'
  BY <1>1, <1>4 DEF RemoveProject, Plain
<1> QED
  BY <1>2, <1>3, <1>4, Zenon

LEMMA TurnOfUsers ==
  ASSUME StaffInv, InTurn, NEW q \in Requests, NEW u \in Users, NEW ctx, NEW d, NEW teams,
         \/ CreateUser(q, u, ctx, d, teams)
         \/ \E leaves, given \in BOOLEAN : UpdateUser(q, u, ctx, d, leaves, given, teams)
         \/ \E org : SwitchOrganization(q, u, org)
  PROVE  InTurn'
<1>b. ASSUME NEW e, NEW given \in Flags, given => e.teams = {},
             Begin(q, [Plain(u, e) EXCEPT !.department = d, !.given = given, !.teams = teams])
      PROVE  InTurn'
  <2>1. PICK l : l = [Plain(u, e) EXCEPT !.department = d, !.given = given, !.teams = teams]
    OBVIOUS
  <2>2. l.given = given /\ ~l.bare /\ l.entity = e
    BY <2>1 DEF Plain
  <2>3. Chosen(l)
    BY <1>b, <2>2 DEF Chosen, Fit
  <2> QED
    BY <1>b, <2>1, <2>3, TurnBegins
<1>1. CASE CreateUser(q, u, ctx, d, teams)
  <2>1. PICK e : e = [org |-> ctx, department |-> None, teams |-> {}]
    OBVIOUS
  <2>2. Begin(q, [Plain(u, e) EXCEPT !.department = d, !.given = TRUE, !.teams = teams])
    BY <1>1, <2>1 DEF CreateUser
  <2>3. e.teams = {}
    BY <2>1
  <2> QED
    BY <1>b, <2>2, <2>3, TrueIsAFlag
<1>2. ASSUME NEW leaves \in BOOLEAN, NEW given \in BOOLEAN,
             UpdateUser(q, u, ctx, d, leaves, given, teams)
      PROVE  InTurn'
  <2>1. PICK e : e = [user[u] EXCEPT !.department = IF leaves THEN None ELSE @,
                                     !.teams = IF given THEN {} ELSE @]
    OBVIOUS
  <2>2. Begin(q, [Plain(u, e) EXCEPT !.department = d, !.given = given, !.teams = teams])
    BY <1>2, <2>1, Zenon DEF UpdateUser
  <2>3. user[u] \in User
    BY <1>2 DEF UpdateUser, StaffInv, Shape
  <2>4. given => e.teams = {}
    BY <2>1, <2>3 DEF User
  <2>5. given \in Flags
    BY <1>2, Zenon DEF Flags
  <2> QED
    BY <1>b, <2>2, <2>4, <2>5, Zenon
<1>3. ASSUME NEW org, SwitchOrganization(q, u, org)
      PROVE  InTurn'
  <2>1. PICK l : l = [Plain(u, [user[u] EXCEPT !.org = org]) EXCEPT !.bare = TRUE]
    OBVIOUS
  <2>2. ~l.given /\ Begin(q, l)
    BY <1>3, <2>1 DEF SwitchOrganization, Plain
  <2> QED
    BY <2>2, TurnBegins DEF Chosen
<1> QED
  BY <1>1, <1>2, <1>3, Zenon

\* The look-ups, in their order.
LEMMA TurnOfLookUps ==
  ASSUME StaffInv, InTurn, NEW q \in Requests,
         FindDepartment(q) \/ CheckName(q) \/ FindTeams(q) \/ FindMembers(q)
  PROVE  InTurn'
<1>0. PICK l : l = local[q]
  OBVIOUS
<1>1. l \in Local /\ l.id \in Ids /\ Fits(pc[q], l) /\ pc[q] # "idle"
  BY <1>0, InProgress DEF FindDepartment, CheckName, FindTeams, FindMembers
<1>g. ASSUME NEW next, NEW label \in Labels, Goto(q, label), local' = [local EXCEPT ![q] = next],
             Chosen(l) => Chosen(next), UNCHANGED rows
      PROVE  InTurn'
  BY <1>0, <1>1, <1>g, TurnGoes DEF rows
<1>u. ASSUME l.id \in Users
      PROVE  l.entity \in User /\ l.id \notin Teams /\ l.members = {}
  BY <1>1, <1>u, IdsApart DEF Fits, Sound
<1>2. CASE FindDepartment(q)
  <2>1. PICK e : e = IF l.id \in Teams THEN MovedTo(l.entity, l.department, l.ctx)
                     ELSE [l.entity EXCEPT !.department = l.department]
    OBVIOUS
  <2>2. PICK next : next = [l EXCEPT !.department = None, !.entity = e]
    OBVIOUS
  <2>3. /\ local' = [local EXCEPT ![q] = next] /\ UNCHANGED rows /\ pc[q] = "department"
        /\ Goto(q, Following(next))
    BY <1>0, <1>2, <2>1, <2>2 DEF FindDepartment
  <2>4. /\ next.id = l.id /\ next.given = l.given /\ next.bare = l.bare
        /\ next.department = None /\ next.entity = e
    BY <1>1, <2>2, Shapes
  <2>5. l.department # None
    BY <1>1, <2>3 DEF Fits
  <2>6. ASSUME l.id \in Users PROVE e.teams = l.entity.teams
    BY <1>u, <2>1, <2>6 DEF User
  <2>7. Chosen(l) => Chosen(next)
    BY <2>4, <2>5, <2>6 DEF Chosen, Fit
  <2> QED
    BY <1>g, <2>3, <2>7, FollowingIsALabel
<1>3. CASE CheckName(q)
  <2>1. PICK next : next = [l EXCEPT !.name = None]
    OBVIOUS
  <2>2. local' = [local EXCEPT ![q] = next] /\ UNCHANGED rows /\ Goto(q, Following(next))
    BY <1>0, <1>3, <2>1 DEF CheckName
  <2>3. /\ next.id = l.id /\ next.given = l.given /\ next.bare = l.bare
        /\ next.department = l.department /\ next.entity = l.entity
    BY <1>1, <2>1, Shapes
  <2>4. Chosen(l) => Chosen(next)
    BY <2>3 DEF Chosen
  <2> QED
    BY <1>g, <2>2, <2>4, FollowingIsALabel
<1>4. CASE FindTeams(q)
  <2>1. PICK e : e = [l.entity EXCEPT !.teams = l.teams]
    OBVIOUS
  <2>2. PICK next : next = [l EXCEPT !.teams = {}, !.entity = e]
    OBVIOUS
  <2>3. /\ local' = [local EXCEPT ![q] = next] /\ UNCHANGED rows /\ pc[q] = "teams"
        /\ Goto(q, Following(next))
        /\ l.id \in Users => Fit(l.teams, l.entity.department)
    BY <1>0, <1>4, <2>1, <2>2 DEF FindTeams
  <2>4. /\ next.id = l.id /\ next.given = l.given /\ next.bare = l.bare
        /\ next.department = l.department /\ next.entity = e
    BY <1>1, <2>2, Shapes
  <2>5. l.department = None
    BY <1>1, <2>3 DEF Fits
  <2>6. ASSUME l.id \in Users PROVE e.teams = l.teams /\ e.department = l.entity.department
    BY <1>u, <2>1, <2>6 DEF User
  <2>7. Chosen(l) => Chosen(next)
    BY <2>3, <2>4, <2>5, <2>6 DEF Chosen
  <2> QED
    BY <1>g, <2>3, <2>7, FollowingIsALabel
<1>5. CASE FindMembers(q)
  <2>1. PICK next : next = [l EXCEPT !.members = {}, !.entity = [@ EXCEPT !.members = l.members]]
    OBVIOUS
  <2>2. local' = [local EXCEPT ![q] = next] /\ UNCHANGED rows /\ Goto(q, "save") /\ pc[q] = "members"
    BY <1>0, <1>5, <2>1 DEF FindMembers
  <2>3. next.id = l.id
    BY <1>1, <2>1, Shapes
  <2>4. l.id \notin Users
    BY <1>1, <1>u, <2>2 DEF Fits
  <2> QED
    BY <1>g, <2>2, <2>3, <2>4, OthersChooseNothing DEF Labels
<1> QED
  BY <1>2, <1>3, <1>4, <1>5

LEMMA TurnsGoOn == StaffInv /\ InTurn /\ [Next]_vars => InTurn'
<1> SUFFICES ASSUME StaffInv, InTurn, [Next]_vars
             PROVE  InTurn'
  OBVIOUS
<1>0. CASE UNCHANGED vars
  BY <1>0 DEF InTurn, Chosen, Fit, vars, rows
<1>1. ASSUME NEW q \in Requests, NEW ctx \in Contexts, Operation(q, ctx)
      PROVE  InTurn'
  BY <1>1, TurnOfOthers, TurnOfUsers, TurnOfProjects, Zenon DEF Operation
<1>2. ASSUME NEW q \in Requests, NEW u \in Users, NEW org \in Organizations,
             SwitchOrganization(q, u, org)
      PROVE  InTurn'
  BY <1>2, TurnOfUsers
<1>3. ASSUME NEW q \in Requests,
             FindDepartment(q) \/ CheckName(q) \/ FindTeams(q) \/ FindMembers(q)
      PROVE  InTurn'
  BY <1>3, TurnOfLookUps
<1>4. ASSUME NEW q \in Requests, Save(q) \/ Refuse(q)
      PROVE  InTurn'
  BY <1>4, TurnEnds DEF Save, Refuse
<1>5. ASSUME NEW q \in Requests, Read(q)
      PROVE  InTurn'
  BY <1>0, <1>5 DEF Read
<1> QED
  BY <1>0, <1>1, <1>2, <1>3, <1>4, <1>5, Zenon DEF Next

\* Only a save changes a user, and it stores what was chosen.
LEMMA OnlySavesChangeUsers ==
  ASSUME StaffInv, [Next]_vars, NEW u \in Users, user'[u] # user[u]
  PROVE  \E q \in Requests : /\ pc[q] = "save" /\ local[q].id = u
                             /\ user'[u] = Stored(user[u], local[q])
<1>1. ASSUME NEW q, NEW l, Begin(q, l) PROVE user' = user
  BY <1>1 DEF Begin, rows
<1>2. ASSUME NEW q \in Requests, NEW ctx \in Contexts, Operation(q, ctx)
      PROVE  \E l : Begin(q, l)
  <2>1. ASSUME NEW d, NEW t, NEW name,
               \/ CreateDepartment(q, d, ctx, name) \/ UpdateDepartment(q, d, ctx, name)
               \/ RemoveDepartment(q, d, ctx) \/ RemoveTeam(q, t, ctx)
               \/ CreateTeam(q, t, ctx, d, name) \/ UpdateTeam(q, t, ctx, d, name)
        PROVE  \E l : Begin(q, l)
    BY <2>1 DEF CreateDepartment, UpdateDepartment, RemoveDepartment, CreateTeam, UpdateTeam,
                RemoveTeam
  <2>2. ASSUME NEW x, NEW d, NEW teams, NEW leaves, NEW given,
               CreateUser(q, x, ctx, d, teams) \/ UpdateUser(q, x, ctx, d, leaves, given, teams)
        PROVE  \E l : Begin(q, l)
    BY <2>2, Zenon DEF CreateUser, UpdateUser
  <2>3. ASSUME NEW p, NEW d, NEW teams, NEW members, NEW leaves, NEW given, NEW asked,
               \/ CreateProject(q, p, ctx, d, teams, members) \/ RemoveProject(q, p, ctx)
               \/ UpdateProject(q, p, ctx, d, leaves, given, teams, asked, members)
        PROVE  \E l : Begin(q, l)
    BY <2>3, Zenon DEF CreateProject, UpdateProject, RemoveProject
  <2> QED
    BY <1>2, <2>1, <2>2, <2>3, Zenon DEF Operation
<1>3. ASSUME NEW q \in Requests, NEW org, NEW x, SwitchOrganization(q, x, org)
      PROVE  \E l : Begin(q, l)
  BY <1>3, Zenon DEF SwitchOrganization
<1>4. ASSUME NEW q \in Requests,
             \/ FindDepartment(q) \/ CheckName(q) \/ FindTeams(q) \/ FindMembers(q)
             \/ Read(q) \/ Refuse(q)
      PROVE  user' = user
  <2>1. UNCHANGED rows
    BY <1>4, Zenon DEF FindDepartment, CheckName, FindTeams, FindMembers, Read, Refuse, vars
  <2> QED
    BY <2>1 DEF rows
<1>5. user' # user
  OBVIOUS
<1>6. PICK q \in Requests : Save(q)
  BY <1>1, <1>2, <1>3, <1>4, <1>5, Zenon DEF Next, vars, rows
<1>7. local[q].id \in Users /\ user' = [user EXCEPT ![local[q].id] = Stored(@, local[q])]
  BY <1>5, <1>6 DEF Save
<1> QED
  BY <1>6, <1>7 DEF Save, StaffInv, Shape

\* A request that gives a user teams leaves the user with teams of the department
\* it leaves the user in, looked up one await after the other, as long as no other
\* request is in progress meanwhile.
THEOREM TeamsAsChosen == Spec => ChosenTeamsFit
<1>1. Init => InTurn
  BY DEF Init, InTurn
<1>2. ASSUME StaffInv, InTurn, [Next]_vars
      PROVE  [~overlapped => \A u \in Users : user'[u] # user[u] =>
                \E q \in Requests :
                   /\ pc[q] = "save" /\ local[q].id = u
                   /\ local[q].given /\ user'[u].department # None =>
                         \A t \in user'[u].teams : team[t].department = user'[u].department]_vars
  <2> SUFFICES ASSUME ~overlapped, NEW u \in Users, user'[u] # user[u]
               PROVE  \E q \in Requests :
                   /\ pc[q] = "save" /\ local[q].id = u
                   /\ local[q].given /\ user'[u].department # None =>
                         \A t \in user'[u].teams : team[t].department = user'[u].department
    OBVIOUS
  <2>1. PICK q \in Requests : pc[q] = "save" /\ local[q].id = u
                              /\ user'[u] = Stored(user[u], local[q])
    BY <1>2, OnlySavesChangeUsers
  <2>2. Chosen(local[q])
    BY <1>2, <2>1 DEF InTurn
  <2>3. ASSUME local[q].given
        PROVE  user'[u] = local[q].entity /\ Fit(local[q].entity.teams, local[q].entity.department)
    BY <2>1, <2>2, <2>3 DEF Chosen, Stored
  <2> QED
    BY <2>1, <2>3 DEF Fit
<1> QED
  BY <1>1, <1>2, StaffStarts, StaffGoesOn, TurnsGoOn, PTL DEF Spec, ChosenTeamsFit
=============================================================================
