---------------------------- MODULE SavesProofs ----------------------------
(* One row of an issue.  Its dates: the check of an update holds whenever   *)
(* its entity came from the database.  Its saves: what two statements keep  *)
(* together, for any number of savers and of saves.                         *)
(*                                                                          *)
(* Reports of work logs: what their two statements and their keys in Redis  *)
(* keep together, for any number of logs, queries and requests; and the     *)
(* days they cover, for every calendar (WorkLogPeriod).                     *)
EXTENDS DateWindow, RowSaves, Reports, WorkLogPeriod, WellFoundedInduction, TLAPS

-----------------------------------------------------------------------------
(* Dates                                                                   *)

\* Rows hold dates or null: what a DTO leaves out is never saved.
LEMMA TypeStep == TypeOK /\ [Next]_vars => TypeOK'
  <1> SUFFICES ASSUME TypeOK, [Next]_vars PROVE TypeOK'
    OBVIOUS
  <1> USE DaysAssumption DEF TypeOK, Dates
  <1>1. ASSUME NEW start \in Days \cup {None}, NEW due \in Days \cup {None}, Create(start, due)
        PROVE  TypeOK'
    BY <1>1 DEF Create
  <1>2. ASSUME NEW start \in Days \cup {None, Absent}, NEW due \in Days \cup {None, Absent},
               Update(start, due)
        PROVE  TypeOK'
    <2>1. CASE UNCHANGED row /\ cached' = TRUE
      BY <2>1
    <2>2. CASE /\ row' = [start |-> Assign(start, row.start), due |-> Assign(due, row.due)]
               /\ cached' = FALSE
      <3>1. row # None /\ row.start \in Days \cup {None} /\ row.due \in Days \cup {None}
        BY <1>2 DEF Update
      <3> QED  BY <2>2, <3>1 DEF Assign
    <2> QED  BY <1>2, <2>1, <2>2 DEF Update
  <1>3. CASE FindOne \/ Expire \/ UNCHANGED vars
    BY <1>3 DEF FindOne, Expire, vars
  <1> QED  BY <1>1, <1>2, <1>3 DEF Next

\* The rows and the cache flag have their declared shape.
THEOREM TypeCorrect == Spec => []TypeOK
  <1>1. Init => TypeOK
    BY DEF Init, TypeOK
  <1> QED  BY <1>1, TypeStep, PTL DEF Spec

\* Of two Date objects the check sees the order.
LEMMA DatesCompared ==
  ASSUME NEW start \in Days \cup {None}, NEW due \in Days \cup {None},
         validateDates(DateOf(start), DateOf(due))
  PROVE  start \in Days /\ due \in Days => start <= due
  BY DaysAssumption DEF validateDates, Later, DateOf, Value

\* Without the cached copy, what is saved is what was compared.
LEMMA StepOrdered ==
  TypeOK /\ [Next]_vars
  => (~cached /\ (row # None => Ordered(row)) => (row' # None => Ordered(row')))
  <1> SUFFICES ASSUME TypeOK, [Next]_vars, ~cached, row # None => Ordered(row), row' # None
               PROVE  Ordered(row')
    OBVIOUS
  <1>1. ASSUME NEW start \in Days \cup {None}, NEW due \in Days \cup {None}, Create(start, due)
        PROVE  Ordered(row')
    BY <1>1, DatesCompared DEF Create, Ordered
  <1>2. ASSUME NEW start \in Days \cup {None, Absent}, NEW due \in Days \cup {None, Absent},
               Update(start, due)
        PROVE  Ordered(row')
    <2>1. CASE UNCHANGED row
      BY <2>1
    <2>2. CASE /\ validateDates(Or(start, row.start), Or(due, row.due))
               /\ row' = [start |-> Assign(start, row.start), due |-> Assign(due, row.due)]
      <3>1. row # None /\ row.start \in Days \cup {None} /\ row.due \in Days \cup {None}
        BY <1>2 DEF Update, TypeOK, Dates
      <3>2. PICK a \in Days \cup {None}, b \in Days \cup {None} :
              /\ a = IF start \in Days THEN start ELSE row.start
              /\ b = IF due \in Days THEN due ELSE row.due
        BY <3>1
      <3>3. Or(start, row.start) = DateOf(a) /\ Or(due, row.due) = DateOf(b)
        BY <3>2 DEF Or, Loaded, DateOf
      <3>4. a \in Days /\ b \in Days => a <= b
        BY <2>2, <3>3, DatesCompared
      <3>5. /\ row'.start \in Days => row'.start = a
            /\ row'.due \in Days => row'.due = b
        BY <2>2, <3>2, DaysAssumption DEF Assign
      <3> QED  BY <3>4, <3>5 DEF Ordered
    <2> QED  BY <1>2, <2>1, <2>2 DEF Update
  <1>3. CASE FindOne \/ Expire \/ UNCHANGED vars
    BY <1>3 DEF FindOne, Expire, vars
  <1> QED  BY <1>1, <1>2, <1>3 DEF Next

\* Only an update that starts from the cached entity can save a due date before
\* the start date.
THEOREM OrderedFromDatabase == Spec => OrderedUnlessCached
  <1>1. TypeOK /\ [Next]_vars
        => [~cached /\ (row # None => Ordered(row)) => (row' # None => Ordered(row'))]_vars
    BY StepOrdered
  <1> QED  BY <1>1, TypeCorrect, PTL DEF Spec, OrderedUnlessCached

-----------------------------------------------------------------------------
(* Saves                                                                   *)

\* Whatever the statuses, applyResolvedAt leaves status and date in step.
LEMMA Resolved ==
  ASSUME NEW e \in Issue, NEW now \in Moments \ {0}
  PROVE  applyResolvedAt(e, now) \in Issue /\ Consistent(applyResolvedAt(e, now))
  BY SavesAssumption DEF applyResolvedAt, Issue, Moments, Consistent

\* What an update makes of an issue is a consistent issue, consistent or not before.
LEMMA EditedOK ==
  ASSUME NEW copy \in Issue, NEW now \in Moments \ {0},
         NEW title \in Titles \cup {Unset}, NEW status \in Statuses \cup {Unset}
  PROVE  Edited(copy, title, status, now) \in Issue /\ Consistent(Edited(copy, title, status, now))
  <1> DEFINE e == [copy EXCEPT !.title = Given(title, @, copy.title),
                               !.status = Given(status, @, "OPEN")]
  <1>1. e \in Issue
    BY DEF Issue, Given
  <1>2. Edited(copy, title, status, now) = applyResolvedAt(e, now)
    BY DEF Edited
  <1> HIDE DEF e
  <1> QED  BY <1>1, <1>2, Resolved

\* To write the columns in which a row differs from an entity is to write the entity.
LEMMA DifferingColumns ==
  ASSUME NEW new \in Issue, NEW old \in Issue
  PROVE  Columnwise(Differing(new, old), new, old) = new
  <1>1. /\ "title" \notin Differing(new, old) => new.title = old.title
        /\ "status" \notin Differing(new, old) => new.status = old.status
        /\ "resolvedAt" \notin Differing(new, old) => new.resolvedAt = old.resolvedAt
        /\ "isDeleted" \notin Differing(new, old) => new.isDeleted = old.isDeleted
    BY DEF Differing, IssueColumns
  <1>2. Columnwise(Differing(new, old), new, old) =
          [title |-> new.title, status |-> new.status,
           resolvedAt |-> new.resolvedAt, isDeleted |-> new.isDeleted]
    BY <1>1 DEF Columnwise
  <1> QED  BY <1>2 DEF Issue

\* Whichever columns are written, the row stays a row.
LEMMA ColumnwiseOK ==
  ASSUME NEW new \in Issue, NEW old \in Issue, NEW columns
  PROVE  Columnwise(columns, new, old) \in Issue
  BY DEF Columnwise, Issue

LEMMA InitSavesInv == InitSaves => SavesInv
  <1> SUFFICES ASSUME InitSaves PROVE SavesInv
    OBVIOUS
  <1>1. PICK title \in Titles, status \in Statuses : issue = Created(title, status)
    BY DEF InitSaves
  <1>2. [title |-> title, status |-> status, resolvedAt |-> 0, isDeleted |-> FALSE] \in Issue
    BY SavesAssumption DEF Issue, Moments
  <1>3. 1 \in Moments \ {0}
    BY SavesAssumption DEF Moments
  <1>4. issue \in Issue /\ Consistent(issue)
    BY <1>1, <1>2, <1>3, Resolved DEF Created
  <1>5. RowsOK
    BY <1>4, SavesAssumption DEF InitSaves, RowsOK
  <1> QED  BY <1>4, <1>5 DEF InitSaves, SavesInv

\* Every saver but s stands where it stood, and s is at a new entity.
LEMMA PrepareKeeps ==
  ASSUME SavesInv, NEW s \in Savers, NEW copy \in Copies, NEW new \in Issue,
         NEW columns \in SUBSET IssueColumns,
         ~mixed => Consistent(new), Prepare(s, copy, new, columns)
  PROVE  SavesInv'
  <1>1. RowsOK'
    BY SavesAssumption DEF SavesInv, RowsOK, Prepare, Copies
  <1>2. ~mixed' => /\ issue' \in savedIssues'
                   /\ pastIssues' \cup savedIssues' \subseteq {x \in Issue : Consistent(x)}
    BY DEF SavesInv, Prepare
  <1>3. ASSUME NEW t \in Savers PROVE entity'[t] \in savedIssues'
    BY DEF SavesInv, RowsOK, Prepare
  <1>4. ASSUME NEW t \in Savers, stage'[t] = "update", t \notin crossed'
        PROVE  differs'[t] = Differing(entity'[t], issue')
    <2>1. t # s /\ stage[t] = "update" /\ entity'[t] = entity[t]
      BY <1>4 DEF SavesInv, RowsOK, Prepare
    <2> QED  BY <1>4, <2>1 DEF SavesInv, Prepare
  <1> QED  BY <1>1, <1>2, <1>3, <1>4 DEF SavesInv

LEMMA SelectKeeps ==
  ASSUME SavesInv, NEW s \in Savers, SelectRow(s)
  PROVE  SavesInv'
  <1>1. RowsOK'
    BY DEF SavesInv, RowsOK, SelectRow, Idle, DiffersFromRow, Differing
  <1>2. ASSUME NEW t \in Savers, stage'[t] = "update", t \notin crossed'
        PROVE  differs'[t] = Differing(entity'[t], issue')
    <2>1. CASE t = s
      BY <2>1 DEF SavesInv, RowsOK, SelectRow, DiffersFromRow
    <2>2. CASE t # s
      <3>1. stage[t] = "update" /\ t \notin crossed
        BY <1>2, <2>2 DEF SavesInv, RowsOK, SelectRow, Idle
      <3> QED  BY <2>2, <3>1 DEF SavesInv, RowsOK, SelectRow
    <2> QED  BY <2>1, <2>2
  <1> QED  BY <1>1, <1>2 DEF SavesInv, SelectRow

LEMMA UpdateRowKeeps ==
  ASSUME SavesInv, NEW s \in Savers, UpdateRow(s)
  PROVE  SavesInv'
  <1>1. issue' \in Issue
    BY ColumnwiseOK DEF SavesInv, RowsOK, UpdateRow
  <1>2. RowsOK'
    BY <1>1 DEF SavesInv, RowsOK, UpdateRow, Idle
  <1>3. ASSUME ~mixed' PROVE issue' = entity[s]
    <2>1. s \notin crossed /\ stage[s] = "update"
      BY <1>3 DEF UpdateRow
    <2>2. differs[s] = Differing(entity[s], issue)
      BY <2>1 DEF SavesInv
    <2> QED  BY <2>2, DifferingColumns DEF SavesInv, RowsOK, UpdateRow
  <1>4. ~mixed' => /\ issue' \in savedIssues'
                   /\ pastIssues' \cup savedIssues' \subseteq {x \in Issue : Consistent(x)}
    BY <1>3 DEF SavesInv, UpdateRow
  <1>5. ASSUME NEW t \in Savers PROVE ~(stage'[t] = "update" /\ t \notin crossed')
    BY DEF SavesInv, RowsOK, UpdateRow, Idle
  <1> QED  BY <1>2, <1>4, <1>5 DEF SavesInv, UpdateRow

\* Each statement, each handler that begins and each that fails keeps SavesInv.
LEMMA SavesStep == SavesInv /\ [NextSave]_saves => SavesInv'
  <1> SUFFICES ASSUME SavesInv, [NextSave]_saves PROVE SavesInv'
    OBVIOUS
  <1>1. ASSUME NEW s \in Savers, NEW copy \in Copies,
               NEW title \in Titles \cup {Unset}, NEW status \in Statuses \cup {Unset},
               UpdateIssue(s, copy, title, status)
        PROVE  SavesInv'
    <2> DEFINE new == Edited(copy, title, status, begun + 2)
    <2>1. begun + 2 \in Moments \ {0}
      BY <1>1, SavesAssumption DEF UpdateIssue, Prepare, SavesInv, RowsOK, Moments
    <2>2. copy \in Issue
      BY DEF Copies, SavesInv, RowsOK
    <2>3. new \in Issue /\ Consistent(new)
      BY <2>1, <2>2, EditedOK
    <2> DEFINE columns == {c \in IssueColumns :
                             \/ c = "title" /\ title # Unset
                             \/ c = "status" /\ status # Unset
                             \/ c = "resolvedAt" /\ (status # Unset \/ ~Consistent(copy))}
    <2>4. columns \in SUBSET IssueColumns
      BY DEF IssueColumns
    <2>5. Prepare(s, copy, new, columns)
      BY <1>1 DEF UpdateIssue
    <2> HIDE DEF new, columns
    <2> QED  BY <2>3, <2>4, <2>5, PrepareKeeps
  <1>2. ASSUME NEW s \in Savers, NEW copy \in Copies, RemoveIssue(s, copy)
        PROVE  SavesInv'
    <2> DEFINE new == [copy EXCEPT !.isDeleted = TRUE]
    <2>1. new \in Issue
      BY DEF Copies, SavesInv, RowsOK, Issue
    <2>2. ~mixed => Consistent(new)
      BY DEF Copies, SavesInv, Consistent, Issue
    <2>3. Prepare(s, copy, new, {"isDeleted"})
      BY <1>2 DEF RemoveIssue
    <2> HIDE DEF new
    <2> QED  BY <2>1, <2>2, <2>3, PrepareKeeps DEF IssueColumns
  <1>3. ASSUME NEW s \in Savers, SelectRow(s) \/ UpdateRow(s)
        PROVE  SavesInv'
    BY <1>3, SelectKeeps, UpdateRowKeeps
  <1>4. ASSUME NEW s \in Savers, FailSave(s)
        PROVE  SavesInv'
    BY <1>4 DEF FailSave, Idle, SavesInv, RowsOK
  <1>5. CASE UNCHANGED saves
    BY <1>5 DEF saves, SavesInv, RowsOK
  <1>6. ASSUME NEW s \in Savers, ReadIssue(s) PROVE SavesInv'
    BY <1>5, <1>6 DEF ReadIssue
  <1> QED  BY <1>1, <1>2, <1>3, <1>4, <1>5, <1>6 DEF NextSave

\* Unless saves have come between each other's statements, an issue is dated
\* exactly while it is resolved, however old the copies that updates start from.
THEOREM ResolutionDated == SpecSaves => []DatedWhileResolved
  <1>1. SavesInv => DatedWhileResolved
    BY DEF SavesInv, RowsOK, DatedWhileResolved
  <1> QED  BY <1>1, InitSavesInv, SavesStep, PTL DEF SpecSaves

\* Nor is a row ever put together from two entities: save may be taken as one step.
THEOREM SavedWhole == SpecSaves => []RowIsAnEntity
  <1>1. SavesInv => RowIsAnEntity
    BY DEF SavesInv, RowIsAnEntity
  <1> QED  BY <1>1, InitSavesInv, SavesStep, PTL DEF SpecSaves

-----------------------------------------------------------------------------
(* Lost updates                                                            *)

\* Of a consistent issue that keeps its status, applyResolvedAt keeps the date.
LEMMA EditedColumns ==
  ASSUME NEW copy \in Issue, NEW now \in Moments,
         NEW title \in Titles \cup {Unset}, NEW status \in Statuses \cup {Unset}
  PROVE  Differing(Edited(copy, title, status, now), copy) \subseteq
           {c \in IssueColumns :
              \/ c = "title" /\ title # Unset
              \/ c = "status" /\ status # Unset
              \/ c = "resolvedAt" /\ (status # Unset \/ ~Consistent(copy))}
  <1> DEFINE e == [copy EXCEPT !.title = Given(title, @, copy.title),
                               !.status = Given(status, @, "OPEN")]
             edited == applyResolvedAt(e, now)
  <1>1. /\ title = Unset => e.title = copy.title
        /\ status = Unset => e.status = copy.status
        /\ e.resolvedAt = copy.resolvedAt /\ e.isDeleted = copy.isDeleted
        /\ e \in Issue
    BY DEF Issue, Given
  <1> HIDE DEF e
  <1>2. /\ edited.title = e.title /\ edited.status = e.status /\ edited.isDeleted = e.isDeleted
        /\ status = Unset /\ Consistent(copy) => edited.resolvedAt = copy.resolvedAt
    BY <1>1 DEF applyResolvedAt, Issue, Consistent
  <1>3. Edited(copy, title, status, now) = edited
    BY DEF Edited, e
  <1> HIDE DEF edited
  <1> QED  BY <1>1, <1>2, <1>3 DEF Differing, IssueColumns

\* Each step keeps what savers have in hand within what they were asked for.
LEMMA LossStep == LossInv /\ RowsOK' /\ [NextSave]_saves => LossInv'
  <1> SUFFICES ASSUME LossInv, RowsOK', [NextSave]_saves PROVE LossInv'
    OBVIOUS
  <1>1. ASSUME NEW s \in Savers, NEW copy \in Copies, NEW new \in Issue, NEW columns,
               Differing(new, copy) \subseteq columns, Prepare(s, copy, new, columns)
        PROVE  LossInv'
    BY <1>1 DEF LossInv, RowsOK, Prepare
  <1>2. ASSUME NEW s \in Savers, NEW copy \in Copies,
               NEW title \in Titles \cup {Unset}, NEW status \in Statuses \cup {Unset},
               UpdateIssue(s, copy, title, status)
        PROVE  LossInv'
    <2> DEFINE new == Edited(copy, title, status, begun + 2)
               columns == {c \in IssueColumns :
                             \/ c = "title" /\ title # Unset
                             \/ c = "status" /\ status # Unset
                             \/ c = "resolvedAt" /\ (status # Unset \/ ~Consistent(copy))}
    <2>1. begun + 2 \in Moments \ {0} /\ copy \in Issue
      BY <1>2, SavesAssumption DEF UpdateIssue, Prepare, LossInv, RowsOK, Moments, Copies
    <2>2. new \in Issue /\ Differing(new, copy) \subseteq columns
      BY <2>1, EditedOK, EditedColumns
    <2>3. Prepare(s, copy, new, columns)
      BY <1>2 DEF UpdateIssue
    <2> HIDE DEF new, columns
    <2> QED  BY <1>1, <2>2, <2>3
  <1>3. ASSUME NEW s \in Savers, NEW copy \in Copies, RemoveIssue(s, copy)
        PROVE  LossInv'
    <2> DEFINE new == [copy EXCEPT !.isDeleted = TRUE]
    <2>1. new \in Issue /\ Differing(new, copy) \subseteq {"isDeleted"}
      BY DEF Copies, LossInv, RowsOK, Issue, Differing, IssueColumns
    <2>2. Prepare(s, copy, new, {"isDeleted"})
      BY <1>3 DEF RemoveIssue
    <2> HIDE DEF new
    <2> QED  BY <1>1, <2>1, <2>2
  <1>4. ASSUME NEW s \in Savers, SelectRow(s) PROVE LossInv'
    <2>1. stage[s] # "idle"
      BY <1>4 DEF SelectRow
    <2>2. s \notin outdated' => DiffersFromRow(s) \subseteq asked[s]
      BY <1>4, <2>1 DEF SelectRow, LossInv, DiffersFromRow
    <2>3. ASSUME NEW t \in Savers, stage'[t] = "update", t \notin outdated'
          PROVE  differs'[t] \subseteq asked'[t]
      <3>1. CASE t = s
        BY <1>4, <2>2, <2>3, <3>1 DEF SelectRow, LossInv, RowsOK
      <3>2. CASE t # s
        <4>1. stage[t] = "update" /\ t \notin outdated
          BY <1>4, <2>3, <3>2 DEF SelectRow, Idle, LossInv, RowsOK
        <4> QED  BY <1>4, <3>2, <4>1 DEF SelectRow, LossInv, RowsOK
      <3> QED  BY <3>1, <3>2
    <2>4. ASSUME NEW t \in Savers, stage'[t] # "idle"
          PROVE  Differing(entity'[t], base'[t]) \subseteq asked'[t]
      <3>1. stage[t] # "idle"
        BY <1>4, <2>1, <2>4 DEF SelectRow, Idle, LossInv, RowsOK
      <3> QED  BY <1>4, <3>1 DEF SelectRow, LossInv
    <2> QED  BY <2>3, <2>4 DEF LossInv
  <1>5. ASSUME NEW s \in Savers, UpdateRow(s) \/ FailSave(s) PROVE LossInv'
    BY <1>5 DEF UpdateRow, FailSave, Idle, LossInv, RowsOK
  <1>6. CASE UNCHANGED saves
    BY <1>6 DEF saves, LossInv
  <1>7. ASSUME NEW s \in Savers, ReadIssue(s) PROVE LossInv'
    BY <1>6, <1>7 DEF ReadIssue
  <1> QED  BY <1>2, <1>3, <1>4, <1>5, <1>6, <1>7 DEF NextSave

\* The only step that changes the row is an UPDATE, of the columns found different.
LEMMA StepLosesNothing ==
  ASSUME LossInv, [NextSave]_saves, NEW s \in Savers \ outdated,
         stage[s] = "update", issue' # issue, stage'[s] = "idle"
  PROVE  Differing(issue', issue) \subseteq asked[s]
  <1>1. ASSUME NEW t \in Savers, UpdateRow(t) PROVE t = s
    BY <1>1 DEF UpdateRow, Idle, LossInv, RowsOK
  <1>2. ASSUME UpdateRow(s)
        PROVE  Differing(issue', issue) \subseteq differs[s]
    BY <1>2 DEF UpdateRow, Columnwise, Differing, IssueColumns
  <1>3. ASSUME NEW t \in Savers, NEW copy \in Copies,
               NEW title \in Titles \cup {Unset}, NEW status \in Statuses \cup {Unset},
               UpdateIssue(t, copy, title, status) \/ RemoveIssue(t, copy)
        PROVE  UNCHANGED issue
    BY <1>3 DEF UpdateIssue, RemoveIssue, Prepare
  <1>4. ASSUME NEW t \in Savers, SelectRow(t) \/ FailSave(t) \/ ReadIssue(t)
        PROVE  UNCHANGED issue
    BY <1>4 DEF SelectRow, FailSave, ReadIssue, saves
  <1>5. ASSUME NEW t \in Savers, NEW copy \in Copies, RemoveIssue(t, copy)
        PROVE  UNCHANGED issue
    BY <1>5 DEF RemoveIssue, Prepare
  <1>6. UpdateRow(s)
    BY <1>1, <1>3, <1>4, <1>5 DEF NextSave, saves
  <1> QED  BY <1>2, <1>6 DEF LossInv

\* However saves overlap, a save changes what nobody asked it to change only when
\* its SELECT found a row other than the one its handler had loaded.
THEOREM LossNeedsOldCopy == SpecSaves => LosesOnlyFromOldCopies
  <1>1. InitSaves => LossInv
    BY InitSavesInv DEF SavesInv, LossInv, InitSaves
  <1>2. SavesInv => RowsOK
    BY DEF SavesInv
  <1>3. LossInv /\ [NextSave]_saves
        => [\A s \in Savers \ outdated :
              stage[s] = "update" /\ issue' # issue /\ stage'[s] = "idle"
                => Differing(issue', issue) \subseteq asked[s]]_saves
    BY StepLosesNothing
  <1> QED
    BY <1>1, <1>2, <1>3, InitSavesInv, SavesStep, LossStep, PTL
       DEF SpecSaves, LosesOnlyFromOldCopies

-----------------------------------------------------------------------------
(* Reports: figures and the logs beneath them                              *)

\* What a request at await a works on; half is what it would read now as well.
Working(a, j) ==
    /\ a \in {"idle", "first", "second", "fill", "save", "clear"}
    /\ a \in {"first", "second", "fill"} => <<j.ctx, j.query>> \in Keys
    /\ a = "second" =>
          /\ j.since \in 0 .. stored
          /\ j.since = stored =>
                /\ j.query.kind = "report" => j.half.figure = Figure(j.ctx, j.query)
                /\ j.query.kind # "report" => j.half.items = Items(j.ctx, j.query)
    /\ a = "fill" => j.answer.torn \/ j.answer.figure = FigureOf(j.query.kind, j.answer.items)

TotalsInv ==
    /\ stored \in Nat
    /\ answers = [key \in Keys |-> answers[key]]
    /\ at = [r \in Calls |-> at[r]] /\ job = [r \in Calls |-> job[r]]
    /\ TotalsAddUp
    /\ \A r \in Calls : Working(at[r], job[r])

\* The requests that do not move, while what is stored stays or grows.
LEMMA OthersWork ==
  ASSUME TotalsInv, NEW r \in Calls, NEW label, NEW j,
         at' = [at EXCEPT ![r] = label], job' = [job EXCEPT ![r] = j],
         \/ log' = log /\ stored' = stored
         \/ stored' = stored + 1,
         Working(label, j)'
  PROVE  /\ \A q \in Calls : Working(at[q], job[q])'
         /\ at' = [q \in Calls |-> at'[q]] /\ job' = [q \in Calls |-> job'[q]]
  <1>1. at'[r] = label /\ job'[r] = j
    BY DEF TotalsInv
  <1>2. \A q \in Calls \ {r} : at'[q] = at[q] /\ job'[q] = job[q]
    BY DEF TotalsInv
  <1>3. at' = [q \in Calls |-> at'[q]] /\ job' = [q \in Calls |-> job'[q]]
    BY DEF TotalsInv
  <1>4. ASSUME NEW a, NEW k, Working(a, k) PROVE Working(a, k)'
    <2>1. CASE log' = log /\ stored' = stored
      BY <1>4, <2>1 DEF Working, Figure, Items, Matching
    <2>2. CASE stored' = stored + 1
      BY <1>4, <2>2 DEF Working, TotalsInv
    <2> QED
      BY <2>1, <2>2
  <1>5. \A q \in Calls : Working(at[q], job[q])
    BY DEF TotalsInv
  <1>6. \A q \in Calls \ {r} : Working(at[q], job[q])'
    BY <1>2, <1>4, <1>5
  <1> QED
    BY <1>1, <1>3, <1>6

LEMMA TotalsInit == InitAnswers => TotalsInv
  BY ReportsAssumption DEF InitAnswers, TotalsInv, TotalsAddUp, Working

LEMMA TotalsStep == TotalsInv /\ [NextAnswer]_answerVars => TotalsInv'
  <1> SUFFICES ASSUME TotalsInv, [NextAnswer]_answerVars PROVE TotalsInv'
    OBVIOUS
  <1>a. stored \in Nat /\ TotalsAddUp
    BY DEF TotalsInv
  <1>b. /\ answers = [key \in Keys |-> answers[key]]
        /\ at = [q \in Calls |-> at[q]] /\ job = [q \in Calls |-> job[q]]
        /\ \A q \in Calls : Working(at[q], job[q])
    BY DEF TotalsInv
  <1>1. ASSUME NEW key \in Keys, Lapse(key) PROVE TotalsInv'
    <2>1. /\ answers' = [answers EXCEPT ![key] = Missing]
          /\ UNCHANGED <<log, at, job, stored>>
      BY <1>1 DEF Lapse
    <2>2. TotalsAddUp'
      BY <1>a, <1>b, <2>1 DEF TotalsAddUp
    <2>3. \A q \in Calls : Working(at[q], job[q])'
      BY <1>b, <2>1 DEF Working, Figure, Items, Matching
    <2> QED
      BY <1>a, <1>b, <2>1, <2>2, <2>3 DEF TotalsInv
  \* The steps that touch neither answers nor logs.
  <1>2. ASSUME NEW r \in Calls, NEW label, NEW j, Go(r, label), Remember(r, j),
               UNCHANGED <<log, answers, stored>>, Working(label, j)
        PROVE  TotalsInv'
    <2>1. Working(label, j)' /\ TotalsAddUp'
      BY <1>2, <1>a DEF Working, Figure, Items, Matching, TotalsAddUp
    <2> QED
      BY <1>2, <1>a, <1>b, <2>1, OthersWork DEF Go, Remember, TotalsInv
  <1>3. ASSUME NEW r \in Calls, NEW key \in Keys, Ask(r, key[1], key[2]) PROVE TotalsInv'
    <2> DEFINE j == [ctx |-> key[1], query |-> key[2]]
    <2>1. key = <<key[1], key[2]>>
      BY DEF Keys
    <2>2. Working("first", j)
      BY <2>1 DEF Working
    <2> QED
      BY <1>2, <1>3, <2>2 DEF Ask
  <1>4. ASSUME NEW r \in Calls, First(r) PROVE TotalsInv'
    <2> DEFINE ctx == job[r].ctx
               q == job[r].query
               half == IF q.kind = "report" THEN [figure |-> Figure(ctx, q), items |-> Nothing]
                       ELSE [figure |-> 0, items |-> Items(ctx, q)]
               j == [ctx |-> ctx, query |-> q, since |-> stored, half |-> half]
    <2>1. Working(at[r], job[r]) /\ at[r] = "first"
      BY <1>b, <1>4 DEF First
    <2>2. Working("second", j)
      BY <1>a, <2>1 DEF Working
    <2>3. Go(r, "second") /\ Remember(r, j) /\ UNCHANGED <<log, answers, stored>>
      BY <1>4 DEF First
    <2> QED
      BY <1>2, <2>2, <2>3
  <1>5. ASSUME NEW r \in Calls, Second(r) PROVE TotalsInv'
    <2> DEFINE ctx == job[r].ctx
               q == job[r].query
               half == job[r].half
               ans == [figure |-> IF q.kind = "report" THEN half.figure ELSE Figure(ctx, q),
                       items |-> IF q.kind = "report" THEN Items(ctx, q) ELSE half.items,
                       torn |-> job[r].since # stored]
               j == [ctx |-> ctx, query |-> q, answer |-> ans]
    <2>1. Working(at[r], job[r]) /\ at[r] = "second"
      BY <1>b, <1>5 DEF Second
    <2>2. ans.torn \/ ans.figure = FigureOf(q.kind, ans.items)
      BY <2>1 DEF Working, Figure
    <2>3. <<ctx, q>> \in Keys
      BY <2>1 DEF Working
    <2>4. Go(r, "fill") /\ Remember(r, j) /\ UNCHANGED <<log, answers, stored>>
      BY <1>5 DEF Second
    <2>5. Working("fill", j)
      BY <2>2, <2>3 DEF Working
    <2> QED
      BY <1>2, <2>4, <2>5
  <1>6. ASSUME NEW r \in Calls, Fill(r) PROVE TotalsInv'
    <2> DEFINE key == <<job[r].ctx, job[r].query>>
    <2>1. Working(at[r], job[r]) /\ at[r] = "fill"
      BY <1>b, <1>6 DEF Fill
    <2>2. /\ answers' = [answers EXCEPT ![key] = job[r].answer]
          /\ at' = [at EXCEPT ![r] = "idle"] /\ job' = [job EXCEPT ![r] = Missing]
          /\ UNCHANGED <<log, stored>>
      BY <1>6 DEF Fill, Done, Go, Remember
    <2>3. key \in Keys /\ key[2] = job[r].query
      BY <2>1 DEF Working
    <2>4. job[r].answer.torn \/ job[r].answer.figure = FigureOf(key[2].kind, job[r].answer.items)
      BY <2>1, <2>3 DEF Working
    <2>5. TotalsAddUp'
      BY <1>a, <1>b, <2>2, <2>3, <2>4 DEF TotalsAddUp
    <2>6. Working("idle", Missing)'
      BY DEF Working
    <2> QED
      BY <1>a, <1>b, <2>2, <2>5, <2>6, OthersWork DEF TotalsInv
  <1>7. ASSUME NEW r \in Calls, NEW ctx \in Contexts, NEW l \in Logs, NEW new, Write(r, l, new)
        PROVE  TotalsInv'
    <2>1. Working("save", [log |-> l, row |-> new])
      BY DEF Working
    <2> QED
      BY <1>2, <1>7, <2>1 DEF Write
  <1>c. \A k : Working("clear", k)' /\ Working("idle", k)'
    BY DEF Working
  <1>d. ASSUME NEW r \in Calls, NEW label \in {"clear", "idle"}, NEW k, at' = [at EXCEPT ![r] = label],
               job' = [job EXCEPT ![r] = k], (log' = log /\ stored' = stored) \/ stored' = stored + 1
        PROVE  /\ \A q \in Calls : Working(at[q], job[q])'
               /\ at' = [q \in Calls |-> at'[q]] /\ job' = [q \in Calls |-> job'[q]]
    <2>1. Working(label, k)'
      BY <1>c
    <2> QED
      BY <1>d, <2>1, OthersWork
  <1>8. ASSUME NEW r \in Calls, SaveLog(r) PROVE TotalsInv'
    <2> DEFINE j == [log |-> job[r].log, left |-> 4]
    <2>1. /\ stored' = stored + 1 /\ UNCHANGED answers
          /\ at' = [at EXCEPT ![r] = "clear"] /\ job' = [job EXCEPT ![r] = j]
      BY <1>8 DEF SaveLog, Go, Remember
    <2>3. TotalsAddUp'
      BY <1>a, <2>1 DEF TotalsAddUp
    <2> HIDE DEF j
    <2>4. /\ \A q \in Calls : Working(at[q], job[q])'
          /\ at' = [q \in Calls |-> at'[q]] /\ job' = [q \in Calls |-> job'[q]]
      BY <2>1, <1>d
    <2> QED
      BY <1>a, <1>b, <2>1, <2>3, <2>4 DEF TotalsInv
  <1>9. ASSUME NEW r \in Calls, Clear(r) PROVE TotalsInv'
    <2> DEFINE doomed == Patterns(OrgOf[job[r].log])[job[r].left]
               j == [log |-> job[r].log, left |-> job[r].left - 1]
    <2>1. /\ answers' = [key \in Keys |-> IF key \in doomed THEN Missing ELSE answers[key]]
          /\ UNCHANGED <<log, stored>>
      BY <1>9 DEF Clear
    <2> HIDE DEF doomed
    <2>2. TotalsAddUp' /\ answers' = [key \in Keys |-> answers'[key]]
      BY <1>a, <2>1 DEF TotalsAddUp
    <2>3. \/ at' = [at EXCEPT ![r] = "idle"] /\ job' = [job EXCEPT ![r] = Missing]
          \/ at' = [at EXCEPT ![r] = "clear"] /\ job' = [job EXCEPT ![r] = j]
      BY <1>9 DEF Clear, Done, Go, Remember
    <2> HIDE DEF j
    <2>5. /\ \A q \in Calls : Working(at[q], job[q])'
          /\ at' = [q \in Calls |-> at'[q]] /\ job' = [q \in Calls |-> job'[q]]
      BY <2>1, <2>3, <1>d
    <2> QED
      BY <1>a, <2>1, <2>2, <2>5 DEF TotalsInv
  <1>10. ASSUME NEW r \in Calls, Stop(r) PROVE TotalsInv'
    <2>1. /\ at' = [at EXCEPT ![r] = "idle"] /\ job' = [job EXCEPT ![r] = Missing]
          /\ UNCHANGED <<log, answers, stored>>
      BY <1>10 DEF Stop, Remember
    <2>2. Working("idle", Missing)' /\ TotalsAddUp'
      BY <1>a, <2>1 DEF Working, TotalsAddUp
    <2> QED
      BY <1>a, <1>b, <2>1, <2>2, OthersWork DEF TotalsInv
  <1>11. CASE UNCHANGED answerVars
    <2>1. TotalsAddUp' /\ \A q \in Calls : Working(at[q], job[q])'
      BY <1>a, <1>b, <1>11 DEF answerVars, Working, Figure, Items, Matching, TotalsAddUp
    <2> QED
      BY <1>a, <1>b, <1>11, <2>1 DEF answerVars, TotalsInv
  <1>12. ASSUME NEW r \in Calls, NEW ctx \in Contexts, NEW l \in Logs, NEW new \in LogRow,
                Add(r, ctx, l, new) \/ Change(r, ctx, l, new)
         PROVE  TotalsInv'
    BY <1>7, <1>12 DEF Add, Change
  <1>13. ASSUME NEW r \in Calls, NEW ctx \in Contexts, NEW l \in Logs, Withdraw(r, ctx, l)
         PROVE  TotalsInv'
    BY <1>7, <1>13 DEF Withdraw
  <1> QED
    BY <1>13, <1>1, <1>3, <1>4, <1>5, <1>6, <1>8, <1>9, <1>10, <1>11, <1>12 DEF NextAnswer

\* For any number of work logs, queries and overlapping requests: the total that
\* a cached report or list shows is that of the rows it shows, unless a save came
\* between the two statements that fetch them.
THEOREM FiguresFit == SpecAnswers => []TotalsAddUp
  <1>1. TotalsInv => TotalsAddUp
    BY DEF TotalsInv
  <1> QED
    BY TotalsInit, TotalsStep, <1>1, PTL DEF SpecAnswers

-----------------------------------------------------------------------------
CurrentAt(key) ==
    answers[key] # Missing =>
        /\ answers[key].items = Items(key[1], key[2])
        /\ answers[key].figure = Figure(key[1], key[2])

\* The keys that a write has yet to delete.
ToClear(j) == {key \in Keys : \E i \in 1 .. j.left : key \in Patterns(OrgOf[j.log])[i]}

\* What a lone request works on agrees with the database.
Prepared(a, j) ==
    /\ a \in {"first", "second", "fill"} => <<j.ctx, j.query>> \in Keys
    /\ a = "second" /\ j.query.kind = "report" => j.half.figure = Figure(j.ctx, j.query)
    /\ a = "second" /\ j.query.kind # "report" => j.half.items = Items(j.ctx, j.query)
    /\ a = "fill" => /\ j.answer.items = Items(j.ctx, j.query)
                     /\ j.answer.figure = Figure(j.ctx, j.query)
    /\ a \in {"save", "clear"} => j.log \in Logs
    /\ a = "clear" => j.left \in 1 .. 4

\* One request at a time; an answer is current or about to be deleted.
Quiet ==
    /\ \A r, q \in Calls : r # q => at[r] = "idle" \/ at[q] = "idle"
    /\ \A r \in Calls : Prepared(at[r], job[r])
    /\ \A key \in Keys : CurrentAt(key) \/ \E r \in Calls : at[r] = "clear" /\ key \in ToClear(job[r])

AnswerShape ==
    /\ log = [l \in Logs |-> log[l]]
    /\ answers = [key \in Keys |-> answers[key]]
    /\ at = [r \in Calls |-> at[r]] /\ job = [r \in Calls |-> job[r]]

CurrentInv == AnswerShape /\ (~disturbed => Quiet)

\* A step of a request that leaves them undisturbed finds the others idle.
LEMMA GoesAlone ==
  ASSUME NEW r \in Calls, NEW label, Go(r, label), ~disturbed'
  PROVE  /\ ~disturbed
         /\ label = "idle" \/ \A q \in Calls \ {r} : at[q] = "idle"
         /\ at' = [at EXCEPT ![r] = label]
  BY Zenon DEF Go, Together

\* The answers that a save does not touch.
LEMMA SavesElsewhere ==
  ASSUME AnswerShape, NEW l \in Logs, NEW new, log' = [log EXCEPT ![l] = new],
         NEW ctx, NEW q, ctx # Missing, ctx # OrgOf[l]
  PROVE  Items(ctx, q)' = Items(ctx, q)
  <1>1. \A x \in Logs \ {l} : log'[x] = log[x]
    BY DEF AnswerShape
  <1>2. Matching(ctx, q)' = Matching(ctx, q) /\ l \notin Matching(ctx, q)
    BY <1>1 DEF Matching
  <1>3. \A x \in Matching(ctx, q) : log'[x] = log[x]
    BY <1>1, <1>2 DEF Matching
  <1> QED
    BY <1>2, <1>3 DEF Items

\* The four patterns are all that an answer about the log may have.
LEMMA FourPatterns ==
  ASSUME NEW org, NEW key \in Keys
  PROVE  (\E i \in 1 .. 4 : key \in Patterns(org)[i]) <=> key[1] \in {Missing, org}
  <1>1. key[2].kind \in {"list", "report"}
    BY ReportsAssumption DEF Keys, Query
  <1>2. /\ Patterns(org)[1] = AnswersOf("report", Missing) /\ Patterns(org)[2] = AnswersOf("report", org)
        /\ Patterns(org)[3] = AnswersOf("list", Missing) /\ Patterns(org)[4] = AnswersOf("list", org)
    BY DEF Patterns
  <1>3. 1 \in 1 .. 4 /\ 2 \in 1 .. 4 /\ 3 \in 1 .. 4 /\ 4 \in 1 .. 4
    OBVIOUS
  <1>4. \A i \in 1 .. 4 : i = 1 \/ i = 2 \/ i = 3 \/ i = 4
    OBVIOUS
  <1> QED
    BY <1>1, <1>2, <1>3, <1>4 DEF AnswersOf

LEMMA CurrentInit == InitAnswers => CurrentInv
  <1> SUFFICES ASSUME InitAnswers PROVE CurrentInv
    OBVIOUS
  <1>1. AnswerShape
    BY ReportsAssumption DEF InitAnswers, AnswerShape
  <1>2. Quiet
    BY DEF InitAnswers, Quiet, Prepared, CurrentAt
  <1> QED
    BY <1>1, <1>2 DEF CurrentInv

\* A request moves while the database and the answers stay.
LEMMA MovesQuietly ==
  ASSUME CurrentInv, NEW r \in Calls, NEW label, NEW j, Go(r, label), Remember(r, j),
         UNCHANGED <<log, answers>>, at[r] # "clear", at[r] # "idle" \/ label # "idle",
         label # "clear", ~disturbed' => Prepared(label, j)
  PROVE  CurrentInv'
  <1>1. AnswerShape'
    BY DEF CurrentInv, AnswerShape, Go, Remember
  <1>2. ASSUME ~disturbed' PROVE Quiet'
    <2>1. Quiet /\ AnswerShape
      BY <1>2, GoesAlone DEF CurrentInv
    <2>2. \A q \in Calls \ {r} : at[q] = "idle"
      BY <1>2, <2>1, GoesAlone DEF Quiet
    <2>3. at'[r] = label /\ job'[r] = j /\ \A q \in Calls \ {r} : at'[q] = at[q] /\ job'[q] = job[q]
      BY <2>1, <1>2, GoesAlone DEF AnswerShape, Remember
    <2>4. ASSUME NEW a, NEW k, Prepared(a, k) PROVE Prepared(a, k)'
      BY <2>4 DEF Prepared, Figure, Items, Matching
    <2>5. Prepared(label, j)
      BY <1>2
    <2>6. \A q \in Calls : Prepared(at[q], job[q])'
      BY <2>1, <2>3, <2>4, <2>5 DEF Quiet
    <2>7. ASSUME NEW key \in Keys PROVE CurrentAt(key)'
      <3>1. CurrentAt(key)
        BY <2>1, <2>2 DEF Quiet
      <3> QED
        BY <3>1 DEF CurrentAt, Figure, Items, Matching
    <2> QED
      BY <2>2, <2>3, <2>6, <2>7 DEF Quiet
  <1> QED
    BY <1>1, <1>2 DEF CurrentInv

LEMMA SaveQuiet ==
  ASSUME CurrentInv, NEW r \in Calls, SaveLog(r)
  PROVE  CurrentInv'
  <1> DEFINE l == job[r].log
             j == [log |-> job[r].log, left |-> 4]
             new == job[r].row
  <1>1. /\ at[r] = "save" /\ log' = [log EXCEPT ![l] = new] /\ answers' = answers
        /\ Go(r, "clear") /\ job' = [job EXCEPT ![r] = j]
    BY DEF SaveLog, Remember
  <1>2. AnswerShape'
    BY <1>1 DEF CurrentInv, AnswerShape, Go
  <1>3. ASSUME ~disturbed' PROVE Quiet'
    <2>1. Quiet /\ AnswerShape
      BY <1>1, <1>3, GoesAlone DEF CurrentInv
    <2>2. \A q \in Calls \ {r} : at[q] = "idle"
      BY <1>1, <1>3, <2>1, GoesAlone DEF Quiet
    <2>3. /\ at'[r] = "clear" /\ job'[r] = j
          /\ \A q \in Calls \ {r} : at'[q] = "idle"
      BY <2>1, <2>2, <1>1, <1>3, GoesAlone DEF AnswerShape
    <2>4. l \in Logs
      BY <2>1, <1>1 DEF Quiet, Prepared
    <2>5. \A q \in Calls : Prepared(at[q], job[q])'
      BY <2>3, <2>4 DEF Prepared
    <2>6. ASSUME NEW key \in Keys, key \notin ToClear(job'[r]) PROVE CurrentAt(key)'
      <3>1. CurrentAt(key)
        BY <1>1, <2>1, <2>2 DEF Quiet
      <3>2. job'[r].left = 4 /\ job'[r].log = l
        BY <2>3
      <3>3. key[1] # Missing /\ key[1] # OrgOf[l]
        BY <3>2, <2>6, FourPatterns DEF ToClear
      <3> HIDE DEF l, new
      <3>4. Items(key[1], key[2])' = Items(key[1], key[2])
        BY <1>1, <2>1, <2>4, <3>3, SavesElsewhere
      <3> QED
        BY <1>1, <3>1, <3>4 DEF CurrentAt, Figure
    <2>7. \A key \in Keys : CurrentAt(key)' \/ (at'[r] = "clear" /\ key \in ToClear(job'[r]))
      BY <2>3, <2>6
    <2>8. \A key : (key \in ToClear(job[r]))' <=> key \in ToClear(job'[r])
      BY DEF ToClear
    <2> QED
      BY <2>3, <2>5, <2>7, <2>8 DEF Quiet
  <1> QED
    BY <1>2, <1>3 DEF CurrentInv

LEMMA ClearQuiet ==
  ASSUME CurrentInv, NEW r \in Calls, Clear(r)
  PROVE  CurrentInv'
  <1> DEFINE l == job[r].log
             left == job[r].left
             doomed == Patterns(OrgOf[l])[left]
             j == [log |-> l, left |-> left - 1]
  <1>1. /\ at[r] = "clear" /\ log' = log
        /\ answers' = [key \in Keys |-> IF key \in doomed THEN Missing ELSE answers[key]]
        /\ \/ left = 1 /\ Go(r, "idle") /\ job' = [job EXCEPT ![r] = Missing]
           \/ left # 1 /\ Go(r, "clear") /\ job' = [job EXCEPT ![r] = j]
    BY DEF Clear, Done, Remember
  <1>2. AnswerShape'
    <2> HIDE DEF doomed
    <2> QED
      BY <1>1 DEF CurrentInv, AnswerShape, Go
  <1>3. ASSUME ~disturbed' PROVE Quiet'
    <2>1. Quiet /\ AnswerShape
      BY <1>1, <1>3, GoesAlone DEF CurrentInv
    <2>2. \A q \in Calls \ {r} : at[q] = "idle"
      BY <1>1, <2>1 DEF Quiet
    <2>3. /\ \/ left = 1 /\ at'[r] = "idle"
             \/ left # 1 /\ at'[r] = "clear" /\ job'[r] = j
          /\ \A q \in Calls \ {r} : at'[q] = "idle"
      BY <2>1, <2>2, <1>1, <1>3, GoesAlone DEF AnswerShape
    <2>4. l \in Logs /\ left \in 1 .. 4
      BY <2>1, <1>1 DEF Quiet, Prepared
    <2>5. \A q \in Calls : Prepared(at[q], job[q])'
      BY <2>3, <2>4 DEF Prepared
    <2>6. ASSUME NEW key \in Keys, ~(at'[r] = "clear" /\ key \in ToClear(job'[r]))
          PROVE  CurrentAt(key)'
      <3>1. CASE key \in doomed
        BY <3>1, <1>1 DEF CurrentAt
      <3>2. CASE key \notin doomed
        <4>1. key \notin ToClear(job[r])
          <5> SUFFICES ASSUME NEW i \in 1 .. left, key \in Patterns(OrgOf[l])[i] PROVE FALSE
            BY DEF ToClear
          <5>1. i # left
            BY <3>2
          <5>2. left # 1 /\ i \in 1 .. (left - 1)
            BY <5>1, <2>4
          <5>3. at'[r] = "clear" /\ job'[r].left = left - 1 /\ job'[r].log = l
            BY <2>3, <5>2
          <5> QED
            BY <2>6, <5>2, <5>3 DEF ToClear
        <4>2. CurrentAt(key)
          BY <4>1, <1>1, <2>1, <2>2 DEF Quiet
        <4>3. answers'[key] = answers[key]
          BY <3>2, <1>1
        <4> QED
          BY <1>1, <4>2, <4>3 DEF CurrentAt, Figure, Items, Matching
      <3> QED
        BY <3>1, <3>2
    <2>8. \A key : (key \in ToClear(job[r]))' <=> key \in ToClear(job'[r])
      BY DEF ToClear
    <2> QED
      BY <2>2, <2>3, <2>5, <2>6, <2>8 DEF Quiet
  <1> QED
    BY <1>2, <1>3 DEF CurrentInv

LEMMA FillQuiet ==
  ASSUME CurrentInv, NEW r \in Calls, Fill(r)
  PROVE  CurrentInv'
  <1> DEFINE key0 == <<job[r].ctx, job[r].query>>
  <1>1. /\ at[r] = "fill" /\ log' = log /\ answers' = [answers EXCEPT ![key0] = job[r].answer]
        /\ Go(r, "idle") /\ job' = [job EXCEPT ![r] = Missing]
    BY DEF Fill, Done, Remember
  <1>2. AnswerShape'
    BY <1>1 DEF CurrentInv, AnswerShape, Go
  <1>3. ASSUME ~disturbed' PROVE Quiet'
    <2>1. Quiet /\ AnswerShape
      BY <1>1, <1>3, GoesAlone DEF CurrentInv
    <2>2. \A q \in Calls \ {r} : at[q] = "idle"
      BY <1>1, <2>1 DEF Quiet
    <2>3. \A q \in Calls : at'[q] = "idle"
      BY <2>1, <2>2, <1>1, <1>3, GoesAlone DEF AnswerShape
    <2>4. Prepared("fill", job[r])
      BY <2>1, <1>1 DEF Quiet
    <2>5. key0 \in Keys /\ key0[1] = job[r].ctx /\ key0[2] = job[r].query
      BY <2>4 DEF Prepared
    <2>6. ASSUME NEW key \in Keys PROVE CurrentAt(key)'
      <3>1. CurrentAt(key)
        BY <1>1, <2>1, <2>2 DEF Quiet
      <3>2. key = key0 \/ answers'[key] = answers[key]
        BY <1>1, <2>1 DEF AnswerShape
      <3>3. key = key0 => answers'[key] = job[r].answer
        BY <1>1, <2>1 DEF AnswerShape
      <3> HIDE DEF key0
      <3> QED
        BY <1>1, <2>4, <2>5, <3>1, <3>2, <3>3 DEF CurrentAt, Prepared, Figure, Items, Matching
    <2>7. \A q \in Calls : Prepared(at[q], job[q])'
      BY <2>3 DEF Prepared
    <2> QED
      BY <2>3, <2>6, <2>7 DEF Quiet
  <1> QED
    BY <1>2, <1>3 DEF CurrentInv

LEMMA CurrentStep == CurrentInv /\ [NextAnswer]_answerVars => CurrentInv'
  <1> SUFFICES ASSUME CurrentInv, [NextAnswer]_answerVars PROVE CurrentInv'
    OBVIOUS
  <1>a. AnswerShape /\ (~disturbed => Quiet)
    BY DEF CurrentInv
  <1>1. ASSUME NEW key \in Keys, Lapse(key) PROVE CurrentInv'
    <2>1. answers' = [answers EXCEPT ![key] = Missing] /\ UNCHANGED <<log, at, job, disturbed>>
      BY <1>1 DEF Lapse
    <2>2. ASSUME NEW k \in Keys, CurrentAt(k) PROVE CurrentAt(k)'
      BY <1>a, <2>1, <2>2 DEF AnswerShape, CurrentAt, Figure, Items, Matching
    <2>3. \A q \in Calls : Prepared(at[q], job[q]) => Prepared(at[q], job[q])'
      BY <2>1 DEF Prepared, Figure, Items, Matching
    <2>4. \A k : (\E q \in Calls : at[q] = "clear" /\ k \in ToClear(job[q]))'
               <=> \E q \in Calls : at[q] = "clear" /\ k \in ToClear(job[q])
      BY <2>1 DEF ToClear
    <2>5. (~disturbed => Quiet)'
      BY <1>a, <2>1, <2>2, <2>3, <2>4 DEF Quiet
    <2> QED
      BY <1>a, <2>1, <2>5 DEF CurrentInv, AnswerShape
  <1>2. ASSUME NEW r \in Calls, NEW key \in Keys, Ask(r, key[1], key[2]) PROVE CurrentInv'
    <2> DEFINE j == [ctx |-> key[1], query |-> key[2]]
    <2>1. key = <<key[1], key[2]>>
      BY DEF Keys
    <2>2. Prepared("first", j)
      BY <2>1 DEF Prepared
    <2> QED
      BY <1>2, <2>2, MovesQuietly DEF Ask
  <1>3. ASSUME NEW r \in Calls, First(r) PROVE CurrentInv'
    <2> DEFINE ctx == job[r].ctx
               q == job[r].query
               half == IF q.kind = "report" THEN [figure |-> Figure(ctx, q), items |-> Nothing]
                       ELSE [figure |-> 0, items |-> Items(ctx, q)]
               j == [ctx |-> ctx, query |-> q, since |-> stored, half |-> half]
    <2>1. at[r] = "first" /\ Go(r, "second") /\ Remember(r, j) /\ UNCHANGED <<log, answers>>
      BY <1>3 DEF First
    <2>2. ~disturbed' => Prepared("second", j)
      <3>1. ~disturbed' => Prepared(at[r], job[r])
        BY <1>a, <2>1, GoesAlone DEF Quiet
      <3> QED
        BY <2>1, <3>1 DEF Prepared
    <2> HIDE DEF j
    <2> QED
      BY <2>1, <2>2, MovesQuietly
  <1>4. ASSUME NEW r \in Calls, Second(r) PROVE CurrentInv'
    <2> DEFINE ctx == job[r].ctx
               q == job[r].query
               half == job[r].half
               ans == [figure |-> IF q.kind = "report" THEN half.figure ELSE Figure(ctx, q),
                       items |-> IF q.kind = "report" THEN Items(ctx, q) ELSE half.items,
                       torn |-> job[r].since # stored]
               j == [ctx |-> ctx, query |-> q, answer |-> ans]
    <2>1. at[r] = "second" /\ Go(r, "fill") /\ Remember(r, j) /\ UNCHANGED <<log, answers>>
      BY <1>4 DEF Second
    <2>2. ~disturbed' => Prepared("fill", j)
      <3>1. ~disturbed' => Prepared(at[r], job[r])
        BY <1>a, <2>1, GoesAlone DEF Quiet
      <3> QED
        BY <2>1, <3>1 DEF Prepared
    <2> HIDE DEF j
    <2> QED
      BY <2>1, <2>2, MovesQuietly
  <1>5. ASSUME NEW r \in Calls, NEW l \in Logs, NEW new, Write(r, l, new)
        PROVE  CurrentInv'
    <2> DEFINE j == [log |-> l, row |-> new]
    <2>1. at[r] = "idle" /\ Go(r, "save") /\ Remember(r, j) /\ UNCHANGED <<log, answers>>
      BY <1>5 DEF Write
    <2>2. Prepared("save", j)
      BY DEF Prepared
    <2> HIDE DEF j
    <2> QED
      BY <2>1, <2>2, MovesQuietly
  <1>6. ASSUME NEW r \in Calls, NEW ctx \in Contexts, NEW l \in Logs, NEW new \in LogRow,
               Add(r, ctx, l, new) \/ Change(r, ctx, l, new)
        PROVE  CurrentInv'
    BY <1>5, <1>6 DEF Add, Change
  <1>7. ASSUME NEW r \in Calls, NEW ctx \in Contexts, NEW l \in Logs, Withdraw(r, ctx, l)
        PROVE  CurrentInv'
    BY <1>5, <1>7 DEF Withdraw
  <1>8. ASSUME NEW r \in Calls, Stop(r) PROVE CurrentInv'
    <2>1. /\ at' = [at EXCEPT ![r] = "idle"] /\ job' = [job EXCEPT ![r] = Missing]
          /\ log' = log /\ answers' = answers
      BY <1>8 DEF Stop, Remember
    <2>2. ~disturbed' => ~disturbed /\ at[r] # "clear"
      BY <1>8, Zenon DEF Stop
    <2>3. AnswerShape'
      BY <1>a, <2>1 DEF AnswerShape
    <2>4. ASSUME ~disturbed' PROVE Quiet'
      <3>1. Quiet /\ at[r] # "clear"
        BY <1>a, <2>2, <2>4
      <3>2. \A q \in Calls : at'[q] = "idle" \/ (at'[q] = at[q] /\ job'[q] = job[q] /\ q # r)
        BY <1>a, <2>1 DEF AnswerShape
      <3>3. ASSUME NEW a, NEW k, Prepared(a, k) PROVE Prepared(a, k)'
        BY <2>1, <3>3 DEF Prepared, Figure, Items, Matching
      <3>4. \A k : Prepared("idle", k)'
        BY DEF Prepared
      <3>5. \A q \in Calls : Prepared(at[q], job[q])'
        BY <3>1, <3>2, <3>3, <3>4 DEF Quiet
      <3>6. ASSUME NEW q \in Calls, at[q] = "clear" PROVE at'[q] = "clear" /\ job'[q] = job[q]
        BY <1>a, <2>1, <3>1, <3>6 DEF AnswerShape
      <3>7. \A k, q : (k \in ToClear(job[q]))' <=> k \in ToClear(job'[q])
        BY DEF ToClear
      <3>8. \A key \in Keys : CurrentAt(key) => CurrentAt(key)'
        BY <2>1 DEF CurrentAt, Figure, Items, Matching
      <3> QED
        BY <3>1, <3>2, <3>5, <3>6, <3>7, <3>8 DEF Quiet
    <2> QED
      BY <2>3, <2>4 DEF CurrentInv
  <1>9. CASE UNCHANGED answerVars
    <2>1. UNCHANGED <<log, answers, at, job, disturbed>>
      BY <1>9 DEF answerVars
    <2>2. Quiet => Quiet'
      BY <2>1 DEF Quiet, Prepared, CurrentAt, ToClear, Figure, Items, Matching
    <2> QED
      BY <1>a, <2>1, <2>2 DEF CurrentInv, AnswerShape
  <1> QED
    BY <1>1, <1>2, <1>3, <1>4, <1>6, <1>7, <1>8, <1>9, FillQuiet, SaveQuiet, ClearQuiet DEF NextAnswer

\* For any number of logs, queries and contexts: as long as requests have not
\* overlapped and no handler has died among its DELs, every cached report or list
\* is what the database would answer.  This is to say that the patterns that a
\* save clears reach every key the saved row is in.
THEOREM ReportsCurrent == SpecAnswers => []AnswersAreCurrent
  <1>1. CurrentInv => AnswersAreCurrent
    BY DEF CurrentInv, Quiet, CurrentAt, AnswersAreCurrent
  <1> QED
    BY CurrentInit, CurrentStep, <1>1, PTL DEF SpecAnswers

-----------------------------------------------------------------------------
(* The calendar of the reports                                              *)

\* Every set of numbers that is not empty has a least element: what the facts about
\* the recursive FirstDay are proved with.
LEMMA LeastNumber ==
  ASSUME NEW T, T \subseteq Nat, T # {}
  PROVE  \E x \in T : \A y \in T : x <= y
  <1>1. PICK R : R = OpToRel(<, Nat)
    OBVIOUS
  <1>2. R = {ss \in Nat \X Nat : ss[1] < ss[2]}
    BY <1>1 DEF OpToRel
  <1>3. IsWellFoundedOn(R, Nat)
    BY <1>1, NatLessThanWellFounded
  <1>4. PICK x \in T : \A y \in T : ~(<<y, x>> \in R)
    BY <1>3, WFMin
  <1>5. ASSUME NEW y \in T PROVE x <= y
    <2>1. ~(y < x)
      BY <1>2, <1>4
    <2> QED
      BY <2>1
  <1> QED
    BY <1>5

\* FirstDay is the function its definition describes.
LEMMA FirstDays ==
  FirstDay = [m \in 1 .. Len(Lengths) + 1 |-> IF m = 1 THEN 0 ELSE FirstDay[m - 1] + Lengths[m - 1]]
  <1> DEFINE N == Len(Lengths) + 1
             Solves(g, n) == g = [m \in 1 .. n |-> IF m = 1 THEN 0 ELSE g[m - 1] + Lengths[m - 1]]
             T == {n \in Nat : n > 0 /\ ~ \E g : Solves(g, n)}
  <1>1. N \in Nat \ {0}
    BY LengthsAssumption
  <1>2. T = {}
    <2> SUFFICES ASSUME T # {} PROVE FALSE
      OBVIOUS
    <2>1. PICK n \in T : \A k \in T : n <= k
      BY LeastNumber
    <2>2. CASE n = 1
      <3> DEFINE g == [m \in 1 .. 1 |-> 0]
      <3>1. Solves(g, 1)
        OBVIOUS
      <3> QED
        BY <2>1, <2>2, <3>1
    <2>3. CASE n # 1
      <3>0. n \in Nat /\ n > 1
        BY <2>1, <2>3
      <3>1. n - 1 \in Nat /\ n - 1 > 0 /\ n - 1 \notin T
        <4> HIDE DEF T
        <4> QED
          BY <2>1, <3>0
      <3>2. PICK f : Solves(f, n - 1)
        BY <3>1
      <3>3. PICK g : g = [m \in 1 .. n |-> IF m = n THEN f[n - 1] + Lengths[n - 1] ELSE f[m]]
        OBVIOUS
      <3>4. \A m \in 1 .. n - 1 : f[m] = IF m = 1 THEN 0 ELSE f[m - 1] + Lengths[m - 1]
        BY <3>2
      <3>5. \A m \in 1 .. n : m # n => m \in 1 .. n - 1 /\ g[m] = f[m]
        BY <3>0, <3>3
      <3>6. g[n] = f[n - 1] + Lengths[n - 1] /\ g[n - 1] = f[n - 1]
        BY <3>0, <3>3
      <3>7. ASSUME NEW m \in 1 .. n PROVE g[m] = IF m = 1 THEN 0 ELSE g[m - 1] + Lengths[m - 1]
        <4>1. CASE m = n
          BY <2>3, <3>6, <4>1
        <4>2. CASE m # n /\ m # 1
          <5>1. m - 1 \in 1 .. n /\ m - 1 # n
            BY <3>0, <4>2
          <5> QED
            BY <3>4, <3>5, <4>2, <5>1
        <4>3. CASE m # n /\ m = 1
          BY <3>4, <3>5, <4>3
        <4> QED
          BY <4>1, <4>2, <4>3
      <3>8. Solves(g, n)
        BY <3>3, <3>7
      <3> QED
        BY <2>1, <3>8
    <2> QED
      BY <2>2, <2>3
  <1>3. \E g : Solves(g, N)
    BY <1>1, <1>2
  <1> HIDE DEF T
  <1>4. FirstDay = CHOOSE g : Solves(g, N)
    BY DEF FirstDay
  <1> QED
    BY <1>3, <1>4

\* Each month starts where the one before it ends.
LEMMA DayOfMonth ==
  /\ FirstDay[1] = 0
  /\ \A m \in Months : FirstDay[m + 1] = FirstDay[m] + Lengths[m]
  <1>1. Len(Lengths) \in Nat /\ Len(Lengths) > 2
    BY LengthsAssumption
  <1>2. \A m \in 1 .. Len(Lengths) + 1 :
           FirstDay[m] = IF m = 1 THEN 0 ELSE FirstDay[m - 1] + Lengths[m - 1]
    BY FirstDays, Zenon
  <1>3. ASSUME NEW m \in Months PROVE FirstDay[m + 1] = FirstDay[m] + Lengths[m]
    <2>1. m + 1 \in 1 .. Len(Lengths) + 1 /\ m + 1 # 1 /\ (m + 1) - 1 = m
      BY <1>1 DEF Months
    <2> QED
      BY <1>2, <2>1
  <1> QED
    BY <1>1, <1>2, <1>3

\* Months follow one another.
LEMMA FirstDaysAscend ==
  /\ \A m \in 1 .. Len(Lengths) + 1 : FirstDay[m] \in Nat
  /\ \A m, k \in 1 .. Len(Lengths) + 1 : m < k => FirstDay[m] < FirstDay[k]
  <1>0. Len(Lengths) \in Nat
    BY LengthsAssumption
  <1>l. \A m \in Months : Lengths[m] \in 28 .. 31
    BY LengthsAssumption DEF Months
  <1> DEFINE T == {k \in 1 .. Len(Lengths) + 1 :
                     ~(FirstDay[k] \in Nat /\ \A m \in 1 .. k - 1 : FirstDay[m] < FirstDay[k])}
  <1>1. T = {}
    <2> SUFFICES ASSUME T # {} PROVE FALSE
      OBVIOUS
    <2>1. T \subseteq Nat
      BY <1>0
    <2>2. PICK k \in T : \A j \in T : k <= j
      BY <2>1, LeastNumber
    <2>3. k \in 1 .. Len(Lengths) + 1 /\ k \in Nat
      BY <1>0, <2>2
    <2>4. CASE k = 1
      BY <2>2, <2>4, DayOfMonth
    <2>5. CASE k # 1
      <3>1. k - 1 \in Months /\ k - 1 \in 1 .. Len(Lengths) + 1
        BY <1>0, <2>3, <2>5 DEF Months
      <3>2. k - 1 \notin T
        <4> HIDE DEF T
        <4> QED
          BY <2>2, <2>3, <2>5
      <3>3. FirstDay[k - 1] \in Nat /\ \A m \in 1 .. k - 2 : FirstDay[m] < FirstDay[k - 1]
        BY <1>0, <2>3, <2>5, <3>1, <3>2
      <3>4. FirstDay[k] = FirstDay[k - 1] + Lengths[k - 1]
        <4>1. \A m \in Months : FirstDay[m + 1] = FirstDay[m] + Lengths[m]
          BY DayOfMonth
        <4>2. (k - 1) + 1 = k
          BY <2>3
        <4> QED
          BY <3>1, <4>1, <4>2
      <3>5. FirstDay[k] \in Nat /\ FirstDay[k - 1] < FirstDay[k]
        BY <1>l, <3>1, <3>3, <3>4
      <3>6. ASSUME NEW m \in 1 .. k - 1 PROVE FirstDay[m] < FirstDay[k]
        <4>1. CASE m = k - 1
          BY <3>5, <4>1
        <4>2. CASE m # k - 1
          <5>1. m \in 1 .. k - 2 /\ m \in 1 .. Len(Lengths) + 1 /\ m < k
            BY <1>0, <2>3, <4>2
          <5>2. m \notin T
            <6> HIDE DEF T
            <6> QED
              BY <2>2, <2>3, <5>1
          <5>3. FirstDay[m] \in Nat /\ FirstDay[m] < FirstDay[k - 1]
            BY <3>3, <5>1, <5>2
          <5> QED
            BY <3>3, <3>5, <5>3
        <4> QED
          BY <4>1, <4>2
      <3> QED
        BY <2>2, <3>5, <3>6
    <2> QED
      BY <2>4, <2>5
  <1>2. ASSUME NEW k \in 1 .. Len(Lengths) + 1
        PROVE  FirstDay[k] \in Nat /\ \A m \in 1 .. k - 1 : FirstDay[m] < FirstDay[k]
    BY <1>1
  <1> HIDE DEF T
  <1>3. ASSUME NEW m \in 1 .. Len(Lengths) + 1, NEW k \in 1 .. Len(Lengths) + 1, m < k
        PROVE  FirstDay[m] < FirstDay[k]
    <2>1. m \in 1 .. k - 1
      BY <1>0, <1>3
    <2> QED
      BY <1>2, <2>1
  <1> QED
    BY <1>2, <1>3

\* A day between two firsts is in the month of the earlier one.
LEMMA MonthIs ==
  ASSUME NEW day \in Int, NEW m \in Months, FirstDay[m] <= day, day < FirstDay[m + 1]
  PROVE  Month(day) = m
  <1>0. Len(Lengths) \in Nat
    BY LengthsAssumption
  <1>1. ASSUME NEW k \in Months, FirstDay[k] <= day, day < FirstDay[k + 1] PROVE k = m
    <2>1. /\ k \in 1 .. Len(Lengths) + 1 /\ k + 1 \in 1 .. Len(Lengths) + 1
          /\ m \in 1 .. Len(Lengths) + 1 /\ m + 1 \in 1 .. Len(Lengths) + 1
      BY <1>0 DEF Months
    <2>2. CASE k < m
      <3>1. k + 1 = m \/ k + 1 < m
        BY <2>1, <2>2
      <3>2. FirstDay[k + 1] <= FirstDay[m]
        BY <2>1, <3>1, FirstDaysAscend
      <3> QED
        BY <1>1, <2>1, <3>2, FirstDaysAscend
    <2>3. CASE m < k
      <3>1. m + 1 = k \/ m + 1 < k
        BY <2>1, <2>3
      <3>2. FirstDay[m + 1] <= FirstDay[k]
        BY <2>1, <3>1, FirstDaysAscend
      <3> QED
        BY <1>1, <2>1, <3>2, FirstDaysAscend
    <2> QED
      BY <2>1, <2>2, <2>3
  <1> QED
    BY <1>1, Zenon DEF Month

\* Every day asked for is in a month, which is neither the first nor the last.
LEMMA AnchorsHaveMonths ==
  ASSUME NEW day \in Anchors
  PROVE  /\ day \in Int /\ Month(day) \in Months /\ Month(day) + 1 \in Months
         /\ FirstDay[Month(day)] <= day /\ day < FirstDay[Month(day) + 1]
         /\ FirstDay[Month(day)] \in Nat /\ FirstDay[Month(day) + 1] \in Nat
  <1>0. Len(Lengths) \in Nat /\ Len(Lengths) > 2
    BY LengthsAssumption
  <1>f. \A m \in 1 .. Len(Lengths) + 1 : FirstDay[m] \in Nat
    BY FirstDaysAscend
  <1>d. day \in Int /\ FirstDay[2] <= day /\ day < FirstDay[Len(Lengths)]
    BY <1>0, <1>f DEF Anchors
  <1> DEFINE T == {m \in 1 .. Len(Lengths) : day < FirstDay[m]}
  <1>1. T \subseteq Nat /\ Len(Lengths) \in T
    BY <1>0, <1>d
  <1>2. PICK k \in T : \A j \in T : k <= j
    BY <1>1, LeastNumber
  <1>3. k \in 1 .. Len(Lengths) /\ day < FirstDay[k]
    BY <1>2
  <1>4. k # 1
    BY <1>0, <1>3, <1>d, FirstDaysAscend
  <1>5. k - 1 \in Months /\ (k - 1) + 1 = k /\ k - 1 \in 1 .. Len(Lengths) /\ k \in Months
    BY <1>0, <1>3, <1>4 DEF Months
  <1>6. k - 1 \notin T
    <2> HIDE DEF T
    <2> QED
      BY <1>2, <1>3
  <1>7. FirstDay[k - 1] <= day
    BY <1>0, <1>5, <1>6, <1>d, <1>f
  <1>8. Month(day) = k - 1
    BY <1>3, <1>5, <1>7, <1>d, MonthIs
  <1> QED
    BY <1>0, <1>3, <1>5, <1>7, <1>8, <1>d, <1>f

\* A day is as many days after the Monday before it as daysSinceMonday says.
LEMMA BackToMonday ==
  ASSUME NEW day \in Nat
  PROVE  /\ daysSinceMonday(day) \in 0 .. 6
         /\ getUTCDay(day - daysSinceMonday(day)) = 1
  <1> DEFINE Weeks(n) == \E r \in 0 .. 6, k \in Nat : n = 7 * k + r
             T == {n \in Nat : ~Weeks(n)}
  <1>0. T = {}
    <2> SUFFICES ASSUME T # {} PROVE FALSE
      OBVIOUS
    <2>1. PICK n \in T : \A m \in T : n <= m
      BY LeastNumber
    <2>2. CASE n < 7
      <3>1. n \in 0 .. 6 /\ n = 7 * 0 + n
        BY <2>1, <2>2
      <3> QED
        BY <2>1, <3>1
    <2>3. CASE ~(n < 7)
      <3>1. n \in Nat /\ n - 7 \in Nat
        BY <2>1, <2>3
      <3>2. n - 7 \notin T
        <4> HIDE DEF T
        <4> QED
          BY <2>1, <3>1
      <3>3. PICK r \in 0 .. 6, k \in Nat : n - 7 = 7 * k + r
        BY <3>1, <3>2
      <3>4. k + 1 \in Nat /\ n = 7 * (k + 1) + r
        BY <3>1, <3>3
      <3> QED
        BY <2>1, <3>4
    <2> QED
      BY <2>2, <2>3
  <1>1. PICK r \in 0 .. 6, k \in Nat : day = 7 * k + r
    BY <1>0
  <1>2. daysSinceMonday(day) = r
    BY <1>1 DEF daysSinceMonday, getUTCDay
  <1> QED
    BY <1>1, <1>2 DEF getUTCDay

\* A report is kept with what it was asked for.
ReportInv == date \in Anchors /\ period \in Periods /\ range = getPeriodRange(period, date)


\* A report always answers the question it was kept with.
LEMMA ReportsKept == SpecReport => []ReportInv
  <1>1. InitReport => ReportInv
    <2>1. Len(Lengths) \in Nat /\ Len(Lengths) > 2
      BY LengthsAssumption
    <2>2. FirstDay[2] \in Nat /\ FirstDay[Len(Lengths)] \in Nat /\ FirstDay[2] < FirstDay[Len(Lengths)]
      BY <2>1, FirstDaysAscend
    <2>3. FirstDay[2] \in Anchors
      BY <2>2 DEF Anchors
    <2> QED
      BY <2>3 DEF InitReport, ReportInv, Periods
  <1>2. ReportInv /\ [NextReport]_reportVars => ReportInv'
    BY DEF ReportInv, NextReport, Report, reportVars
  <1> QED
    BY <1>1, <1>2, PTL DEF SpecReport

\* For every calendar whose months have 28 to 31 days: monthly reports cover every
\* day once, and a weekly one that does not start in the month before runs from
\* Monday to Sunday around the day asked for.
THEOREM CalendarKept == SpecReport => []PeriodsFitTheCalendar
  <1>1. ASSUME ReportInv, period = "monthly", range.endDate + 1 \in Anchors
        PROVE  getPeriodRange("monthly", range.endDate + 1).startDate = range.endDate + 1
    <2> DEFINE m == Month(date)
    <2>1. m \in Months /\ m + 1 \in Months /\ FirstDay[m + 1] \in Nat
      BY <1>1, AnchorsHaveMonths DEF ReportInv
    <2>2. range.endDate = FirstDay[m + 1] - 1
      BY <1>1, <2>1 DEF ReportInv, getPeriodRange, MonthlyRange, LastOfMonth, DaySet
    <2>3. range.endDate + 1 = FirstDay[m + 1]
      BY <2>1, <2>2
    <2>4. Month(FirstDay[m + 1]) = m + 1
      <3>1. FirstDay[m + 1] < FirstDay[(m + 1) + 1]
        BY <2>1, LengthsAssumption, FirstDaysAscend DEF Months
      <3> HIDE DEF m
      <3> QED
        BY <2>1, <3>1, MonthIs
    <2> HIDE DEF m
    <2> QED
      BY <2>1, <2>3, <2>4 DEF getPeriodRange, MonthlyRange, setUTCDate
  <1>2. ASSUME ReportInv, period = "weekly", Month(range.startDate) = Month(date)
        PROVE  /\ getUTCDay(range.startDate) = 1
               /\ range.endDate = range.startDate + 6
               /\ date \in range.startDate .. range.endDate
    <2> DEFINE f == FirstDay[Month(date)]
    <2>1. date \in Int /\ f \in Nat /\ f <= date
      BY <1>2, AnchorsHaveMonths DEF ReportInv
    <2>2. daysSinceMonday(date) \in 0 .. 6 /\ getUTCDay(date - daysSinceMonday(date)) = 1
      BY <2>1, BackToMonday
    <2>3. range.startDate = f + (date - f + 1 - daysSinceMonday(date)) - 1
          /\ range.endDate = f + (getUTCDate(range.startDate) + 6) - 1
      <3>1. range = WeeklyRange(date)
        BY <1>2 DEF ReportInv, getPeriodRange
      <3>2. PICK start : start = setUTCDate(date, getUTCDate(date) - daysSinceMonday(date))
        OBVIOUS
      <3>3. range = [startDate |-> start, endDate |-> setUTCDate(date, getUTCDate(start) + 6)]
        BY <3>1, <3>2 DEF WeeklyRange
      <3>4. range.startDate = start /\ range.endDate = setUTCDate(date, getUTCDate(start) + 6)
        BY <3>3
      <3>5. getUTCDate(date) = date - f + 1
        BY DEF getUTCDate
      <3>6. start = f + (getUTCDate(date) - daysSinceMonday(date)) - 1
        BY <3>2 DEF setUTCDate
      <3>7. range.endDate = f + (getUTCDate(start) + 6) - 1
        BY <3>4 DEF setUTCDate
      <3> HIDE DEF f
      <3> QED
        BY <2>1, <2>2, <3>4, <3>5, <3>6, <3>7
    <2>4. getUTCDate(range.startDate) = range.startDate - f + 1
      BY <1>2 DEF getUTCDate
    <2> HIDE DEF f
    <2>5. range.startDate = date - daysSinceMonday(date)
      BY <2>1, <2>2, <2>3
    <2>6. range.endDate = range.startDate + 6
      BY <2>1, <2>2, <2>3, <2>4, <2>5
    <2> QED
      BY <2>1, <2>2, <2>5, <2>6
  <1>3. ReportInv => PeriodsFitTheCalendar
    BY <1>1, <1>2 DEF PeriodsFitTheCalendar
  <1> QED
    BY <1>3, ReportsKept, PTL
=============================================================================
