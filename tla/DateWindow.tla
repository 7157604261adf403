----------------------------- MODULE DateWindow -----------------------------
(***************************************************************************)
(* The start and due date of a feature, task, subtask or issue, one        *)
(* request at a time.  validateDates compares what the DTO carries (Date   *)
(* objects) with what findOne returned: Date objects from PostgreSQL, but  *)
(* ISO strings from Redis, where the entity went through JSON.  In         *)
(* JavaScript a string that is no number is neither before nor after a     *)
(* Date, so a mixed pair always passes.                                    *)
(***************************************************************************)
EXTENDS Integers

CONSTANTS Days, None, Absent    \* the dates, null, and a field the DTO leaves out

ASSUME DaysAssumption ==
    /\ Days \subseteq Int
    /\ None \notin Days /\ Absent \notin Days /\ None # Absent

VARIABLES
    row,        \* the saved dates, or None before the row is created
    cached      \* the entity key holds the row (as JSON)

vars == <<row, cached>>

Dates == [start : Days \cup {None}, due : Days \cup {None}]
TypeOK == row \in Dates \cup {None} /\ cached \in BOOLEAN

Init == row = None /\ cached = FALSE

\* What an expression evaluates to: a Date, the text of one, or nothing.
Value(kind, day) == [kind |-> kind, day |-> day]
DateOf(day) == Value("Date", day)
Loaded(day) == Value(IF cached THEN "string" ELSE "Date", day)

\* updateDto.startDate || task.startDate: an absent or null field falls through.
Or(given, day) == IF given \in Days THEN DateOf(given) ELSE Loaded(day)

LaterByADay(a, b) == a.kind = b.kind /\ a.day > b.day + 1
\* a > b; strings of one format order as their dates do.
Later(a, b) == a.kind = b.kind /\ a.day > b.day

validateDates(start, due) == start.day # None /\ due.day # None => ~Later(start, due)

\* update assigns a field unless it is undefined; null clears it.
Assign(given, day) == IF given = Absent THEN day ELSE given

Create(start, due) ==
    /\ row = None
    /\ validateDates(DateOf(start), DateOf(due))
    /\ row' = [start |-> start, due |-> due]
    /\ UNCHANGED cached

FindOne ==
    /\ row # None
    /\ cached' = TRUE
    /\ UNCHANGED row

\* update clears the key; a refused one leaves it as findOne did.
Update(start, due) ==
    /\ row # None
    /\ IF validateDates(Or(start, row.start), Or(due, row.due))
       THEN /\ row' = [start |-> Assign(start, row.start), due |-> Assign(due, row.due)]
            /\ cached' = FALSE
       ELSE UNCHANGED row /\ cached' = TRUE

Expire == cached /\ cached' = FALSE /\ UNCHANGED row

Next ==
    \/ \E start, due \in Days \cup {None} : Create(start, due)
    \/ \E start, due \in Days \cup {None, Absent} : Update(start, due)
    \/ FindOne \/ Expire

Spec == Init /\ [][Next]_vars

-----------------------------------------------------------------------------
Ordered(dates) == dates.start \in Days /\ dates.due \in Days => dates.start <= dates.due

\* "Due date cannot be before start date" holds of every write but an update
\* that found its entity in the cache.
OrderedUnlessCached ==
    [][~cached /\ (row # None => Ordered(row)) => (row' # None => Ordered(row'))]_vars
=============================================================================
