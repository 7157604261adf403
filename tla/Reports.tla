------------------------------ MODULE Reports ------------------------------
(***************************************************************************)
(* Reports and lists of work logs in WorkLogsService: getReport and        *)
(* findAll, next to create, update and remove, which clear their keys.     *)
(*                                                                         *)
(* Both answer with the work logs that match a query and a figure over     *)
(* them, the sum of minutes or the number of logs.  Figure and logs come   *)
(* from two statements outside a transaction, a report's figure from the   *)
(* first and a list's from the second, and are cached together.  Pages     *)
(* are left out, and so are the columns that no filter and no sum reads.   *)
(*                                                                         *)
(* Who may write is the subject of Attachments, which days a period covers *)
(* that of WorkLogPeriod, and the keys of single work logs behave as those *)
(* of EntityCache.                                                         *)
(***************************************************************************)
EXTENDS Integers, FiniteSets, FiniteSetsExt

CONSTANTS
    Logs, OrgOf,               \* ids, and OrgOf[l]: the organization of the row
    Organizations, Workers, Minutes, LogDates,
    Calls, Missing,            \* requests to the service; an absent row, key or filter
    Contexts,                  \* subset of Organizations \cup {Missing}
    Queries,                   \* lists and reports that are asked for
    LogsToBegin,               \* LogsToBegin[l]: the row of l to begin with
    MaxWrites                   \* bound: writes begun

LogRow == [user : Workers, minutes : Minutes, date : LogDates, deleted : BOOLEAN]
Query == [kind : {"list", "report"}, user : Workers \cup {Missing}, from : LogDates, to : LogDates]

ASSUME ReportsAssumption ==
    /\ OrgOf \in [Logs -> Organizations]
    /\ Minutes \subseteq Nat /\ LogDates \subseteq Int
    /\ Contexts \subseteq Organizations \cup {Missing}
    /\ Queries \subseteq Query
    /\ LogsToBegin \in [Logs -> LogRow \cup {Missing}]
    /\ MaxWrites \in Nat

VARIABLES
    log,         \* work_logs, by id; Missing before the row exists
    answers,     \* answers[key]: the cached answer, or Missing
    at, job,     \* per request: its next await; what it works on
    writes,      \* writes begun
    stored,       \* saves so far
    disturbed    \* history: requests have overlapped, or a handler has died

answerVars == <<log, answers, at, job, writes, stored, disturbed>>

\* work-logs:list:<org>:<query> and work-logs:report:v2:<period>:<org>:<query>
Keys == Contexts \X Queries

InitAnswers ==
    /\ log = LogsToBegin
    /\ answers = [key \in Keys |-> Missing]
    /\ at = [r \in Calls |-> "idle"]
    /\ job = [r \in Calls |-> Missing]
    /\ writes = 0 /\ stored = 0
    /\ disturbed = FALSE

\* Another request is in progress.
Together(r) == \E q \in Calls \ {r} : at[q] # "idle"
Go(r, label) ==
    /\ at' = [at EXCEPT ![r] = label]
    /\ disturbed' = (disturbed \/ (label # "idle" /\ Together(r)))
Remember(r, l) == job' = [job EXCEPT ![r] = l]
Done(r) == Go(r, "idle") /\ Remember(r, Missing)

-----------------------------------------------------------------------------
(* getReport and findAll                                                   *)

\* The WHERE clause of all three statements.
Matching(ctx, q) ==
    {l \in Logs : /\ log[l] # Missing /\ ~log[l].deleted
                  /\ ctx # Missing => OrgOf[l] = ctx
                  /\ q.user # Missing => log[l].user = q.user
                  /\ log[l].date \in q.from .. q.to}

Nothing == [l \in {} |-> Missing]
Items(ctx, q) == [l \in Matching(ctx, q) |-> log[l]]
Sum(items) == MapThenSumSet(LAMBDA l : items[l].minutes, DOMAIN items)
FigureOf(kind, items) == IF kind = "report" THEN Sum(items) ELSE Cardinality(DOMAIN items)
FigureOfAllUsers(ctx, q) ==
    FigureOf(q.kind, Items(ctx, IF q.kind = "report" THEN [q EXCEPT !.user = Missing] ELSE q))
Figure(ctx, q) == FigureOf(q.kind, Items(ctx, q))

\* Nothing is cached under the key.
Ask(r, ctx, q) ==
    /\ at[r] = "idle" /\ answers[<<ctx, q>>] = Missing
    /\ Go(r, "first") /\ Remember(r, [ctx |-> ctx, query |-> q])
    /\ UNCHANGED <<log, answers, writes, stored>>

\* The figure of a report, the logs of a list; since counts what was stored.
First(r) ==
    LET ctx == job[r].ctx
        q == job[r].query
        half == IF q.kind = "report" THEN [figure |-> Figure(ctx, q), items |-> Nothing]
                ELSE [figure |-> 0, items |-> Items(ctx, q)]
    IN  /\ at[r] = "first"
        /\ Go(r, "second")
        /\ Remember(r, [ctx |-> ctx, query |-> q, since |-> stored, half |-> half])
        /\ UNCHANGED <<log, answers, writes, stored>>

\* The other half.  torn: a save came between the two statements.
Second(r) ==
    LET ctx == job[r].ctx
        q == job[r].query
        half == job[r].half
    IN  /\ at[r] = "second"
        /\ Go(r, "fill")
        /\ Remember(r, [ctx |-> ctx, query |-> q, answer |->
              [figure |-> IF q.kind = "report" THEN half.figure ELSE Figure(ctx, q),
               items |-> IF q.kind = "report" THEN Items(ctx, q) ELSE half.items,
               torn |-> job[r].since # stored]])
        /\ UNCHANGED <<log, answers, writes, stored>>

Fill(r) ==
    /\ at[r] = "fill"
    /\ answers' = [answers EXCEPT ![<<job[r].ctx, job[r].query>>] = job[r].answer]
    /\ Done(r)
    /\ UNCHANGED <<log, writes, stored>>

-----------------------------------------------------------------------------
(* create, update and remove                                               *)

Write(r, l, row) ==
    /\ at[r] = "idle" /\ writes < MaxWrites
    /\ writes' = writes + 1
    /\ Go(r, "save") /\ Remember(r, [log |-> l, row |-> row])
    /\ UNCHANGED <<log, answers, stored>>

\* Of an organization; the id is new.
Add(r, ctx, l, row) ==
    /\ ctx = OrgOf[l] /\ log[l] = Missing /\ ~row.deleted
    /\ \A q \in Calls : at[q] = "save" => job[q].log # l
    /\ Write(r, l, row)

\* loadWorkLog finds the row in the context of the request.
Loads(ctx, l) == log[l] # Missing /\ ~log[l].deleted /\ ctx \in {Missing, OrgOf[l]}

\* The DTO may carry any of user, minutes and date.
Change(r, ctx, l, row) ==
    /\ Loads(ctx, l) /\ ~row.deleted
    /\ Write(r, l, row)

Withdraw(r, ctx, l) ==
    /\ Loads(ctx, l)
    /\ Write(r, l, [log[l] EXCEPT !.deleted = TRUE])

SaveLog(r) ==
    /\ at[r] = "save"
    /\ log' = [log EXCEPT ![job[r].log] = job[r].row]
    /\ stored' = stored + 1
    /\ Go(r, "clear")
    /\ Remember(r, [log |-> job[r].log, left |-> 4])
    /\ UNCHANGED <<answers, writes>>

AnswersOf(kind, ctx) == {key \in Keys : key[2].kind = kind /\ key[1] = ctx}
PatternsWithoutAll(org) == <<{}, AnswersOf("report", org), {}, AnswersOf("list", org)>>
\* clearListAndReportCache, from its last delByPattern to its first.
Patterns(org) ==
    <<AnswersOf("report", Missing), AnswersOf("report", org),
      AnswersOf("list", Missing), AnswersOf("list", org)>>

Clear(r) ==
    LET l == job[r].log
        left == job[r].left
        doomed == Patterns(OrgOf[l])[left]
    IN  /\ at[r] = "clear"
        /\ answers' = [key \in Keys |-> IF key \in doomed THEN Missing ELSE answers[key]]
        /\ IF left = 1 THEN Done(r)
           ELSE Go(r, "clear") /\ Remember(r, [log |-> l, left |-> left - 1])
        /\ UNCHANGED <<log, writes, stored>>

-----------------------------------------------------------------------------
\* A check refuses, an awaited call throws or the process dies.
Stop(r) ==
    /\ at[r] # "idle"
    /\ at' = [at EXCEPT ![r] = "idle"] /\ Remember(r, Missing)
    /\ disturbed' = (disturbed \/ at[r] = "clear")
    /\ UNCHANGED <<log, answers, writes, stored>>

\* A key reaches its time to live.
Lapse(key) ==
    /\ answers[key] # Missing
    /\ answers' = [answers EXCEPT ![key] = Missing]
    /\ UNCHANGED <<log, at, job, writes, stored, disturbed>>

NextAnswer ==
    \/ \E key \in Keys : Lapse(key)
    \/ \E r \in Calls :
          \/ \E key \in Keys : Ask(r, key[1], key[2])
          \/ First(r) \/ Second(r) \/ Fill(r)
          \/ \E ctx \in Contexts, l \in Logs :
                \/ \E row \in LogRow : Add(r, ctx, l, row) \/ Change(r, ctx, l, row)
                \/ Withdraw(r, ctx, l)
          \/ SaveLog(r) \/ Clear(r) \/ Stop(r)

SpecAnswers == InitAnswers /\ [][NextAnswer]_answerVars

-----------------------------------------------------------------------------
(* Properties                                                              *)

\* A report's total is that of the logs it lists, and a list's that of its
\* rows, unless a save came between the two statements.
TotalsAddUp ==
    \A key \in Keys : answers[key] # Missing /\ ~answers[key].torn =>
        answers[key].figure = FigureOf(key[2].kind, answers[key].items)

\* Until requests overlap or a handler dies among its DELs, no cached answer of
\* any context differs from what the database would answer now.
AnswersAreCurrent ==
    ~disturbed /\ (\A r \in Calls : at[r] = "idle") =>
        \A key \in Keys : answers[key] # Missing =>
            /\ answers[key].items = Items(key[1], key[2])
            /\ answers[key].figure = Figure(key[1], key[2])
=============================================================================
