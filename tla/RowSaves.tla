------------------------------ MODULE RowSaves ------------------------------
(***************************************************************************)
(* The saves of one issue row, as TypeORM performs them.  IssuesService    *)
(* update and remove load an issue, change the loaded entity, with         *)
(* applyResolvedAt keeping resolvedAt in step with status, and save it.    *)
(* save(entity) is two statements: a SELECT of the row, then an UPDATE of  *)
(* the columns in which the entity differs from what was selected.  The    *)
(* other modules take save as one step; here other saves may come between. *)
(* findOne returns the row or a cached copy of any age (EntityCache).      *)
(***************************************************************************)
EXTENDS Integers

CONSTANTS
    Savers,        \* requests
    Titles,
    Unset,         \* a field the DTO leaves out
    MaxSaves       \* bound: updates and removals begun

Statuses == {"OPEN", "IN_PROGRESS", "RESOLVED", "CLOSED", "REOPENED"}
Settled == {"RESOLVED", "CLOSED"}

ASSUME SavesAssumption ==
    /\ Titles # {}
    /\ Unset \notin Titles \cup Statuses
    /\ MaxSaves \in Nat

\* Moments are numbered as handlers prepare a save; 0 is null.
Moments == 0 .. MaxSaves + 1
IssueColumns == {"title", "status", "resolvedAt", "isDeleted"}
Issue == [title : Titles, status : Statuses, resolvedAt : Moments, isDeleted : BOOLEAN]

Consistent(x) == x.status \in Settled <=> x.resolvedAt # 0

VARIABLES
    issue,         \* the row
    stage,         \* stage[s]: the statement of save that s issues next
    entity,        \* entity[s]: what s saves
    differs,       \* differs[s]: the columns the UPDATE of s will write
    begun,
    \* History
    base,          \* base[s]: the copy s loaded
    asked,         \* asked[s]: the columns the DTO of s carries, resolvedAt with status
    outdated,      \* savers whose SELECT found another row than they had loaded
    crossed,       \* savers between whose statements another UPDATE came
    mixed,         \* one of those has issued its UPDATE
    pastIssues,    \* every row there was
    savedIssues    \* every entity passed to save

saves == <<issue, stage, entity, differs, begun, base, asked,
           outdated, crossed, mixed, pastIssues, savedIssues>>

RowsOK ==
    /\ issue \in Issue
    /\ stage \in [Savers -> {"idle", "select", "update"}]
    /\ entity \in [Savers -> Issue]
    /\ differs \in [Savers -> SUBSET IssueColumns]
    /\ begun \in 0 .. MaxSaves
    /\ base \in [Savers -> Issue]
    /\ asked \in [Savers -> SUBSET IssueColumns]
    /\ outdated \subseteq Savers /\ crossed \subseteq Savers
    /\ pastIssues \subseteq Issue
    /\ savedIssues \subseteq Issue

ReopenedKeepsDate(e, now) ==
    [e EXCEPT !.resolvedAt = IF e.status \in Settled THEN IF @ = 0 THEN now ELSE @
                             ELSE IF e.status = "REOPENED" THEN @ ELSE 0]
\* RESOLVED and CLOSED date the issue unless it is dated; the other statuses clear it.
applyResolvedAt(e, now) ==
    [e EXCEPT !.resolvedAt = IF e.status \in Settled THEN IF @ = 0 THEN now ELSE @ ELSE 0]

\* create: the DTO's status or OPEN.
Created(title, status) ==
    applyResolvedAt([title |-> title, status |-> status, resolvedAt |-> 0, isDeleted |-> FALSE], 1)

InitSaves ==
    /\ \E title \in Titles, status \in Statuses : issue = Created(title, status)
    /\ stage = [s \in Savers |-> "idle"]
    /\ entity = [s \in Savers |-> issue]
    /\ differs = [s \in Savers |-> {}]
    /\ begun = 0
    /\ base = entity
    /\ asked = differs
    /\ outdated = {} /\ crossed = {} /\ mixed = FALSE
    /\ pastIssues = {issue} /\ savedIssues = {issue}

\* What findOne may return: the row or, from the cache, a row there was.
Copies == {copy \in pastIssues : ~copy.isDeleted}

ResetUnlessGiven(given, old, default) == IF given = Unset THEN default ELSE given
\* if (updateDto.x !== undefined) issue.x = updateDto.x
Given(given, old, default) == IF given = Unset THEN old ELSE given

\* What update makes of the copy it loaded.
Edited(copy, title, status, now) ==
    applyResolvedAt([copy EXCEPT !.title = Given(title, @, copy.title),
                                 !.status = Given(status, @, "OPEN")], now)

Prepare(s, copy, new, columns) ==
    /\ stage[s] = "idle" /\ begun < MaxSaves
    /\ begun' = begun + 1
    /\ stage' = [stage EXCEPT ![s] = "select"]
    /\ entity' = [entity EXCEPT ![s] = new]
    /\ base' = [base EXCEPT ![s] = copy]
    /\ asked' = [asked EXCEPT ![s] = columns]
    /\ savedIssues' = savedIssues \cup {new}
    /\ UNCHANGED <<issue, differs, outdated, crossed, mixed, pastIssues>>

UpdateIssue(s, copy, title, status) ==
    Prepare(s, copy, Edited(copy, title, status, begun + 2),
            {c \in IssueColumns :
                \/ c = "title" /\ title # Unset
                \/ c = "status" /\ status # Unset
                \/ c = "resolvedAt" /\ (status # Unset \/ ~Consistent(copy))})

RemoveIssue(s, copy) == Prepare(s, copy, [copy EXCEPT !.isDeleted = TRUE], {"isDeleted"})

Differing(a, b) == {c \in IssueColumns : a[c] # b[c]}
Idle(s) == stage' = [stage EXCEPT ![s] = "idle"]

DiffersFromLoaded(s) == Differing(entity[s], base[s])
\* The columns are compared with what the SELECT of save returns.
DiffersFromRow(s) == Differing(entity[s], issue)

\* The SELECT of save; without a difference there is no UPDATE.
SelectRow(s) ==
    /\ stage[s] = "select"
    /\ differs' = [differs EXCEPT ![s] = DiffersFromRow(s)]
    /\ IF DiffersFromRow(s) = {} THEN Idle(s) ELSE stage' = [stage EXCEPT ![s] = "update"]
    /\ outdated' = IF base[s] = issue THEN outdated \ {s} ELSE outdated \cup {s}
    /\ crossed' = crossed \ {s}
    /\ UNCHANGED <<issue, entity, begun, base, asked, mixed, pastIssues, savedIssues>>

\* The given columns of one row, the others of another.
Columnwise(columns, new, old) ==
    [title |-> IF "title" \in columns THEN new.title ELSE old.title,
     status |-> IF "status" \in columns THEN new.status ELSE old.status,
     resolvedAt |-> IF "resolvedAt" \in columns THEN new.resolvedAt ELSE old.resolvedAt,
     isDeleted |-> IF "isDeleted" \in columns THEN new.isDeleted ELSE old.isDeleted]

UpdateRow(s) ==
    /\ stage[s] = "update"
    /\ issue' = Columnwise(differs[s], entity[s], issue)
    /\ Idle(s)
    /\ crossed' = crossed \cup {t \in Savers \ {s} : stage[t] = "update"}
    /\ mixed' = (mixed \/ s \in crossed)
    /\ pastIssues' = pastIssues \cup {issue'}
    /\ UNCHANGED <<entity, differs, begun, base, asked, outdated, savedIssues>>

\* A statement fails, or the process dies.
FailSave(s) ==
    /\ stage[s] # "idle"
    /\ Idle(s)
    /\ UNCHANGED <<issue, entity, differs, begun, base, asked, outdated, crossed, mixed,
                   pastIssues, savedIssues>>

\* findOne and findAll change no row.
ReadIssue(s) == stage[s] = "idle" /\ UNCHANGED saves

NextSave ==
    \E s \in Savers :
        \/ ReadIssue(s)
        \/ \E copy \in Copies :
              \/ \E title \in Titles \cup {Unset}, status \in Statuses \cup {Unset} :
                    UpdateIssue(s, copy, title, status)
              \/ RemoveIssue(s, copy)
        \/ SelectRow(s) \/ UpdateRow(s) \/ FailSave(s)

SpecSaves == InitSaves /\ [][NextSave]_saves

-----------------------------------------------------------------------------
(* Properties                                                              *)

\* An issue carries the date of its resolution exactly while it is RESOLVED or
\* CLOSED, however old the copies are that updates start from.  (Only an UPDATE
\* between the two statements of another save can part the two columns: the one
\* writes status, the other has found resolvedAt equal and leaves it.)
DatedWhileResolved == ~mixed => Consistent(issue)

\* The row is always an entity that was passed to save, whole: why save may be
\* taken as one step as long as no UPDATE comes between its two statements.
RowIsAnEntity == ~mixed => issue \in savedIssues

\* A save changes columns nobody asked it to change (undoing what others wrote,
\* a deletion for instance) only when its SELECT found a row that is not the one
\* its handler had loaded: the lost update of an outdated copy.
\* The second statement alone loses nothing.
LosesOnlyFromOldCopies ==
    [][\A s \in Savers \ outdated :
          stage[s] = "update" /\ issue' # issue /\ stage'[s] = "idle"
              => Differing(issue', issue) \subseteq asked[s]]_saves

-----------------------------------------------------------------------------
(* Why they hold                                                           *)

SavesInv ==
    /\ RowsOK
    /\ ~mixed =>
          /\ issue \in savedIssues
          /\ pastIssues \cup savedIssues \subseteq {x \in Issue : Consistent(x)}
    /\ \A s \in Savers :
          /\ entity[s] \in savedIssues
          /\ stage[s] = "update" /\ s \notin crossed => differs[s] = Differing(entity[s], issue)

LossInv ==
    /\ RowsOK
    /\ \A s \in Savers :
          /\ stage[s] # "idle" => Differing(entity[s], base[s]) \subseteq asked[s]
          /\ stage[s] = "update" /\ s \notin outdated => differs[s] \subseteq asked[s]
=============================================================================
