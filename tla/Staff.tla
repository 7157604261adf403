------------------------------- MODULE Staff -------------------------------
(***************************************************************************)
(* Departments, their teams, the users who work in them and the projects   *)
(* they staff: DepartmentsService, TeamsService, ProjectsService, the      *)
(* assignments that UsersService makes, and switchOrganization of          *)
(* AuthService.  Each handler looks up what its DTO names, one await after *)
(* the other, and saves one entity; nothing is locked in between.          *)
(*                                                                         *)
(* update and remove of departments and teams start from findOne, which    *)
(* may return any version the row has had (LaggingCopies); those of users  *)
(* and projects start from the row.  A request runs for an organization,   *)
(* or, from a SUPER_ADMIN without one, for all (ctx = None).  E-mails,     *)
(* roles and is_active of users are the subject of Tenancy and Session.    *)
(***************************************************************************)
EXTENDS Integers, FiniteSets

CONSTANTS
    Departments, Teams, Users, Projects,
    Organizations, Names, Requests,
    None,
    Contexts,           \* subset of Organizations \cup {None}
    StaleReads,
    Founded,            \* Founded[d]: the row of department d to begin with
    MaxOperations       \* bound: operations begun

Department == [org : Organizations, name : Names, deleted : BOOLEAN]
Team == [org : Organizations, department : Departments, name : Names, deleted : BOOLEAN]
User == [org : Organizations, department : Departments \cup {None}, teams : SUBSET Teams]
Project == [org : Organizations, department : Departments \cup {None}, teams : SUBSET Teams,
            members : SUBSET Users, deleted : BOOLEAN]
Entity == Department \cup Team \cup User \cup Project
Ids == Departments \cup Teams \cup Users \cup Projects

\* What a request saves, and what its DTO names and remains to be looked up:
\* a department, a name, teams (if given is TRUE) and members.  bare: the
\* handler has loaded the columns of the row and not its relations.  ctx is
\* kept for teams alone: no other handler looks at it after it has loaded.
Local == [id : Ids, ctx : Organizations \cup {None}, entity : Entity,
          department : Departments \cup {None}, name : Names \cup {None},
          given : BOOLEAN, teams : SUBSET Teams, members : SUBSET Users, bare : BOOLEAN]

ASSUME ConstantsAssumption ==
    /\ Contexts \subseteq Organizations \cup {None}
    /\ Departments \cap Teams = {} /\ Departments \cap Users = {} /\ Teams \cap Users = {}
    /\ Projects \cap (Departments \cup Teams \cup Users) = {}
    /\ None \notin Entity \cup Ids \cup Organizations \cup Names \cup Local
    /\ Founded \in [Departments -> Department \cup {None}]
    /\ StaleReads \in BOOLEAN /\ MaxOperations \in Nat

VARIABLES
    department, team, user, project,    \* the rows, None before they exist
    past,                      \* history: past[i], every version of row i
    pc, local, begun,
    overlapped,                \* history: two requests have been in progress at the same time
    switched                   \* history: the users who have begun to switch their organization

rows == <<department, team, user, project, past>>
vars == <<rows, pc, local, begun, overlapped, switched>>

TypeOK ==
    /\ department \in [Departments -> Department \cup {None}]
    /\ team \in [Teams -> Team \cup {None}]
    /\ user \in [Users -> User \cup {None}]
    /\ project \in [Projects -> Project \cup {None}]
    /\ past \in [Departments \cup Teams -> SUBSET (Department \cup Team)]
    /\ pc \in [Requests -> {"idle", "department", "name", "teams", "members", "save"}]
    /\ local \in [Requests -> Local \cup {None}]
    /\ begun \in 0 .. MaxOperations
    /\ overlapped \in BOOLEAN
    /\ switched \subseteq Users

Init ==
    /\ department = Founded
    /\ team = [t \in Teams |-> None]
    /\ user = [u \in Users |-> None]
    /\ project = [p \in Projects |-> None]
    /\ past = [i \in Departments \cup Teams |->
                  IF i \in Departments /\ Founded[i] # None THEN {Founded[i]} ELSE {}]
    /\ pc = [q \in Requests |-> "idle"]
    /\ local = [q \in Requests |-> None]
    /\ begun = 0
    /\ overlapped = FALSE
    /\ switched = {}

\* Another request is in progress.
Overlaps(q) == \E p \in Requests \ {q} : pc[p] # "idle"
Goto(q, label) ==
    /\ pc' = [pc EXCEPT ![q] = label]
    /\ overlapped' = (overlapped \/ (label # "idle" /\ Overlaps(q)))
Finish(q) == Goto(q, "idle") /\ local' = [local EXCEPT ![q] = None]

\* The next await: the look-ups come in the order department, name, teams, members.
Following(l) ==
    IF l.department # None THEN "department" ELSE IF l.name # None THEN "name"
    ELSE IF l.teams # {} THEN "teams" ELSE IF l.members # {} THEN "members" ELSE "save"

\* A request that looks up nothing.
Plain(id, entity) ==
    [id |-> id, ctx |-> None, entity |-> entity, department |-> None, name |-> None,
     given |-> FALSE, teams |-> {}, members |-> {}, bare |-> FALSE]

Switches(l) == l.id \in Users /\ l.bare

Begin(q, l) ==
    /\ pc[q] = "idle" /\ begun < MaxOperations
    /\ begun' = begun + 1
    /\ local' = [local EXCEPT ![q] = l]
    /\ Goto(q, Following(l))
    /\ switched' = IF Switches(l) THEN switched \cup {l.id} ELSE switched
    /\ UNCHANGED rows

\* No row and no request has the id yet.
Fresh(id, row) == row = None /\ \A p \in Requests : local[p] # None => local[p].id # id

\* What findOne(id, ctx) may return.
Copies(i, row, ctx) ==
    {e \in (IF StaleReads THEN past[i] ELSE {row} \ {None}) :
        ~e.deleted /\ (ctx # None => e.org = ctx)}

-----------------------------------------------------------------------------
(* DepartmentsService                                                      *)

\* The first look-up of create is the name; what the name is checked against
\* is the organization of the entity.
CreateDepartment(q, d, ctx, name) ==
    /\ ctx # None /\ Fresh(d, department[d])
    /\ Begin(q, [Plain(d, [org |-> ctx, name |-> name, deleted |-> FALSE])
                   EXCEPT !.name = name])

\* The DTO may carry no name, but a description.
UpdateDepartment(q, d, ctx, name) ==
    \E e \in Copies(d, department[d], ctx) :
        Begin(q, [Plain(d, [e EXCEPT !.name = IF name = None THEN @ ELSE name])
                   EXCEPT !.name = IF name # e.name THEN name ELSE None])

RemoveDepartment(q, d, ctx) ==
    \E e \in Copies(d, department[d], ctx) : Begin(q, Plain(d, [e EXCEPT !.deleted = TRUE]))

-----------------------------------------------------------------------------
(* TeamsService                                                            *)

\* The organization is completed by the look-up of the department.
CreateTeam(q, t, ctx, d, name) ==
    /\ Fresh(t, team[t])
    /\ \E org \in Organizations :
          /\ ctx # None => org = ctx
          /\ Begin(q, [Plain(t, [org |-> org, department |-> d, name |-> name, deleted |-> FALSE])
                         EXCEPT !.ctx = ctx, !.department = d, !.name = name])

\* The DTO may name a department (d), a name, both or neither.
UpdateTeam(q, t, ctx, d, name) ==
    \E e \in Copies(t, team[t], ctx) :
        Begin(q, [Plain(t, [e EXCEPT !.name = IF name = None THEN @ ELSE name,
                                          !.org = IF ctx = None THEN @ ELSE ctx])
                   EXCEPT !.ctx = ctx, !.department = IF d = e.department THEN None ELSE d,
                          !.name = name])

RemoveTeam(q, t, ctx) ==
    \E e \in Copies(t, team[t], ctx) : Begin(q, Plain(t, [e EXCEPT !.deleted = TRUE]))

-----------------------------------------------------------------------------
(* UsersService, and switchOrganization of AuthService                     *)

CreateUser(q, u, ctx, d, teams) ==
    /\ ctx # None /\ Fresh(u, user[u])
    /\ Begin(q, [Plain(u, [org |-> ctx, department |-> None, teams |-> {}])
                   EXCEPT !.department = d, !.given = TRUE, !.teams = teams])

\* leaves: the DTO's departmentId is null.
UpdateUser(q, u, ctx, d, leaves, given, teams) ==
    /\ user[u] # None /\ ctx \in {None, user[u].org}
    /\ leaves => d = None
    /\ ~given => teams = {}
    /\ Begin(q, [Plain(u, [user[u] EXCEPT !.department = IF leaves THEN None ELSE @,
                                               !.teams = IF given THEN {} ELSE @])
                   EXCEPT !.department = d, !.given = given, !.teams = teams])

\* A SUPER_ADMIN takes another organization: department and teams are not loaded.
SwitchOrganization(q, u, org) ==
    /\ user[u] # None
    /\ Begin(q, [Plain(u, [user[u] EXCEPT !.org = org]) EXCEPT !.bare = TRUE])

-----------------------------------------------------------------------------
(* ProjectsService                                                         *)

CreateProject(q, p, ctx, d, teams, members) ==
    /\ ctx # None /\ Fresh(p, project[p])
    /\ Begin(q, [Plain(p, [org |-> ctx, department |-> None, teams |-> {}, members |-> {},
                                deleted |-> FALSE])
                   EXCEPT !.department = d, !.teams = teams, !.members = members])

Loadable(p, ctx) ==
    project[p] # None /\ ~project[p].deleted /\ ctx \in {None, project[p].org}

\* leaves: departmentId is null; given, asked: the DTO has teamIds, memberIds.
UpdateProject(q, p, ctx, d, leaves, given, teams, asked, members) ==
    /\ Loadable(p, ctx)
    /\ leaves => d = None
    /\ ~given => teams = {}
    /\ ~asked => members = {}
    /\ Begin(q, [Plain(p, [project[p] EXCEPT !.department = IF leaves THEN None ELSE @,
                                                  !.teams = IF given THEN {} ELSE @,
                                                  !.members = IF asked THEN {} ELSE @])
                   EXCEPT !.department = d, !.teams = teams, !.members = members])

RemoveProject(q, p, ctx) ==
    /\ Loadable(p, ctx)
    /\ Begin(q, [Plain(p, [project[p] EXCEPT !.deleted = TRUE]) EXCEPT !.bare = TRUE])

-----------------------------------------------------------------------------
(* The look-ups                                                            *)

AnyDepartment(d, org) == department[d] # None /\ ~department[d].deleted
LiveDepartment(d, org) ==
    department[d] # None /\ ~department[d].deleted /\ (org # None => department[d].org = org)

KeepsOrganization(e, d, ctx) == [e EXCEPT !.department = d]
\* A team takes the organization of the request, or else of its department.
MovedTo(e, d, ctx) ==
    [e EXCEPT !.department = d, !.org = IF ctx = None THEN department[d].org ELSE ctx]

\* A team's department is sought in the organization of the request; that of a
\* user or a project in the organization of the entity.
FindDepartment(q) ==
    LET l == local[q]
        next == [l EXCEPT !.department = None,
                          !.entity = IF l.id \in Teams THEN MovedTo(l.entity, l.department, l.ctx)
                                     ELSE [@ EXCEPT !.department = l.department]]
    IN  /\ pc[q] = "department"
        /\ LiveDepartment(l.department, IF l.id \in Teams THEN l.ctx ELSE l.entity.org)
        /\ local' = [local EXCEPT ![q] = next]
        /\ Goto(q, Following(next))
        /\ UNCHANGED <<rows, begun, switched>>

\* Another department of the organization has the name, deleted or not;
\* another live team of the department has it.
Taken(l) ==
    \/ /\ l.id \in Departments
       /\ \E d \in Departments \ {l.id} : department[d] # None
             /\ department[d].name = l.name /\ department[d].org = l.entity.org
    \/ /\ l.id \in Teams
       /\ \E t \in Teams \ {l.id} : team[t] # None /\ ~team[t].deleted
             /\ team[t].name = l.name /\ team[t].org = l.entity.org
             /\ team[t].department = l.entity.department

CheckName(q) ==
    LET next == [local[q] EXCEPT !.name = None]
    IN  /\ pc[q] = "name" /\ ~Taken(local[q])
        /\ local' = [local EXCEPT ![q] = next]
        /\ Goto(q, Following(next))
        /\ UNCHANGED <<rows, begun, switched>>

\* The teams are live and in the organization of the entity ...
LiveTeams(teams, org) == \A t \in teams : team[t] # None /\ ~team[t].deleted /\ team[t].org = org
\* ... and those of a user in the user's department, if there is one.
NeverCompared(teams, d) == TRUE
Fit(teams, d) == d # None => \A t \in teams : team[t].department = d

FindTeams(q) ==
    LET l == local[q]
        next == [l EXCEPT !.teams = {}, !.entity = [@ EXCEPT !.teams = l.teams]]
    IN  /\ pc[q] = "teams"
        /\ LiveTeams(l.teams, l.entity.org)
        /\ l.id \in Users => Fit(l.teams, l.entity.department)
        /\ local' = [local EXCEPT ![q] = next]
        /\ Goto(q, Following(next))
        /\ UNCHANGED <<rows, begun, switched>>

Colleagues(members, org) == \A u \in members : user[u] # None /\ user[u].org = org

FindMembers(q) ==
    LET l == local[q]
        next == [l EXCEPT !.members = {}, !.entity = [@ EXCEPT !.members = l.members]]
    IN  /\ pc[q] = "members"
        /\ Colleagues(l.members, l.entity.org)
        /\ local' = [local EXCEPT ![q] = next]
        /\ Goto(q, "save")
        /\ UNCHANGED <<rows, begun, switched>>

\* What save makes of a row: the relations of a bare entity stay as they are.
Stored(row, l) ==
    IF ~l.bare THEN l.entity
    ELSE IF Switches(l) THEN [row EXCEPT !.org = l.entity.org]
    ELSE [l.entity EXCEPT !.teams = row.teams, !.members = row.members]

Save(q) ==
    LET l == local[q]
        i == l.id
    IN  /\ pc[q] = "save"
        /\ \/ /\ i \in Departments /\ department' = [department EXCEPT ![i] = l.entity]
              /\ UNCHANGED <<team, user, project>>
           \/ /\ i \in Teams /\ team' = [team EXCEPT ![i] = l.entity]
              /\ UNCHANGED <<department, user, project>>
           \/ /\ i \in Users /\ user' = [user EXCEPT ![i] = Stored(@, l)]
              /\ UNCHANGED <<department, team, project>>
           \/ /\ i \in Projects /\ project' = [project EXCEPT ![i] = Stored(@, l)]
              /\ UNCHANGED <<department, team, user>>
        /\ past' = IF StaleReads /\ i \in Departments \cup Teams
                   THEN [past EXCEPT ![i] = @ \cup {l.entity}] ELSE past
        /\ Finish(q)
        /\ UNCHANGED <<begun, switched>>

\* findOne and findAll leave the rows alone.
Read(q) == pc[q] = "idle" /\ UNCHANGED vars

\* A look-up fails, or an awaited call throws.
Refuse(q) ==
    /\ pc[q] # "idle"
    /\ Finish(q)
    /\ UNCHANGED <<rows, begun, switched>>

\* The operations that a request of a context may begin.
Operation(q, ctx) ==
    \/ \E d \in Departments :
          \/ \E name \in Names : CreateDepartment(q, d, ctx, name)
          \/ \E name \in Names \cup {None} : UpdateDepartment(q, d, ctx, name)
          \/ RemoveDepartment(q, d, ctx)
    \/ \E t \in Teams :
          \/ \E d \in Departments, name \in Names : CreateTeam(q, t, ctx, d, name)
          \/ \E d \in Departments \cup {None}, name \in Names \cup {None} :
                UpdateTeam(q, t, ctx, d, name)
          \/ RemoveTeam(q, t, ctx)
    \/ \E u \in Users, d \in Departments \cup {None}, teams \in SUBSET Teams :
          \/ CreateUser(q, u, ctx, d, teams)
          \/ \E leaves, given \in BOOLEAN : UpdateUser(q, u, ctx, d, leaves, given, teams)
    \/ \E p \in Projects, d \in Departments \cup {None},
          teams \in SUBSET Teams, members \in SUBSET Users :
          \/ CreateProject(q, p, ctx, d, teams, members)
          \/ \E leaves, given, asked \in BOOLEAN :
                UpdateProject(q, p, ctx, d, leaves, given, teams, asked, members)
    \/ \E p \in Projects : RemoveProject(q, p, ctx)

\* (What Begin asks of a request comes first, so that TLC enumerates the
\* operations of those alone that may begin one.)
Next ==
    \E q \in Requests :
        \/ pc[q] = "idle" /\ begun < MaxOperations
           /\ \/ \E ctx \in Contexts : Operation(q, ctx)
              \/ \E u \in Users, org \in Organizations : SwitchOrganization(q, u, org)
        \/ FindDepartment(q) \/ CheckName(q) \/ FindTeams(q) \/ FindMembers(q) \/ Save(q)
        \/ Read(q) \/ Refuse(q)

Spec == Init /\ [][Next]_vars

-----------------------------------------------------------------------------
(* Properties                                                              *)

\* A team belongs to the organization of its department, whichever request
\* moved it last and from whichever copy.
TeamFollowsDepartment ==
    \A t \in Teams : team[t] # None =>
        /\ department[team[t].department] # None
        /\ team[t].org = department[team[t].department].org

\* The department is one of the organization.
Settled(d, org) == department[d] # None /\ department[d].org = org
\* The user is one of the organization, or has begun to switch to another.
Belongs(u, org) == u \in switched \/ (user[u] # None /\ user[u].org = org)

\* Users and projects have departments, and projects have members, of their
\* own organization, although these were looked up some awaits before the
\* save; only users who switch their organization are found elsewhere.
StaffAtHome ==
    /\ \A u \in Users \ switched : user[u] # None /\ user[u].department # None =>
          Settled(user[u].department, user[u].org)
    /\ \A p \in Projects : project[p] # None =>
          /\ project[p].department # None => Settled(project[p].department, project[p].org)
          /\ \A u \in project[p].members : Belongs(u, project[p].org)

\* "Some teams do not belong to the selected department": the teams a request
\* gives a user belong to the department the user has from then on, unless
\* another request has moved a team meanwhile.
ChosenTeamsFit ==
    [][~overlapped => \A u \in Users : user'[u] # user[u] =>
          \E q \in Requests : /\ pc[q] = "save" /\ local[q].id = u
                              /\ local[q].given /\ user'[u].department # None =>
                                    \A t \in user'[u].teams : team[t].department = user'[u].department]_vars
=============================================================================
