------------------------------- MODULE Lists -------------------------------
(***************************************************************************)
(* The paged lists of the domain services: findAll of DepartmentsService   *)
(* and its ten likes, a client that reads one page after the other, and    *)
(* the writes that clear the cached pages.                                 *)
(*                                                                         *)
(* What a row holds matters only for which conditions of the WHERE clause  *)
(* it fits, so a row is its organization and the set of these conditions.  *)
(* A search looks into the name and into other columns ("text").  The      *)
(* rows are in the order of their creation; lists run backwards through    *)
(* it (ORDER BY createdAt DESC, what all services but work logs default    *)
(* to).  isActive is only ever asked for with TRUE: the implicit           *)
(* conversion of the ValidationPipe makes TRUE of every text before the    *)
(* DTO sees it.  Rows are written as DateWindow, WorkItems, Tenancy,       *)
(* Staff... say; here a write is any that the service admits.              *)
(***************************************************************************)
EXTENDS Integers, FiniteSets, Sequences, SequencesExt

CONSTANTS
    Services,          \* the services whose lists are read
    Tenants, All,      \* organizations; the context of a request without one
    ListContexts,      \* the contexts that lists are read in
    Asked,             \* the filters the query carries
    Limit,             \* rows on a page
    Absent,            \* no page, no client
    MaxChanges         \* bound: writes

(* The filters of each service, in the order in which findAll adds them.   *)
DepartmentFilters == <<"search", "isActive">>
TeamFilters == <<"departmentId", "search", "isActive">>
UserFilters == <<"isActive", "search", "departmentId", "roleId", "teamId">>
OrganizationFilters == <<"search", "subscriptionType", "isSubscriptionTaken", "isActive">>
ProjectFilters == <<"status", "departmentId", "teamId", "memberId", "isActive", "search">>
FeatureFilters == <<"projectId", "status", "priority", "ownerId", "isActive", "search">>
TaskFilters ==
    <<"projectId", "featureId", "status", "priority", "assignedToId", "isActive", "search">>
SubTaskFilters == <<"projectId", "featureId", "taskId", "status", "priority", "assignedToId",
                    "isActive", "search">>
IssueFilters == <<"projectId", "featureId", "taskId", "subTaskId", "type", "status", "priority",
                  "severity", "assignedToId", "isActive", "search">>
CommentFilters == <<"targetType", "targetId", "projectId", "createdById">>
WorkLogFilters == <<"targetType", "targetId", "projectId", "featureId", "taskId", "subTaskId",
                    "issueId", "userId", "fromDate", "toDate">>

Filters ==
    [departments |-> DepartmentFilters, teams |-> TeamFilters, users |-> UserFilters,
     organizations |-> OrganizationFilters, projects |-> ProjectFilters,
     features |-> FeatureFilters, tasks |-> TaskFilters, subTasks |-> SubTaskFilters,
     issues |-> IssueFilters, comments |-> CommentFilters, workLogs |-> WorkLogFilters]

ASSUME ListsAssumption ==
    /\ Services \subseteq DOMAIN Filters
    /\ All \notin Tenants /\ ListContexts \subseteq Tenants \cup {All}
    /\ {Limit, MaxChanges} \subseteq Nat \ {0}

VARIABLES
    service, ctx,   \* whose lists are read, and in which context; never change
    table,          \* its rows, in the order of their creation
    pages,          \* pages[n]: the cached page n
    client,         \* who reads a list, or Absent
    writer,         \* the write in progress: "idle", or "clear" before its delByPattern
    changes,        \* writes so far
    \* History
    kept,           \* rows that have been in the client's list since it began
    slipped,        \* a row has left that list from a page the client has read
    mixed           \* a list and a write have overlapped, or a write has died,
                    \* and the pages have not been cleared since

listVars == <<service, ctx, table, pages, client, writer, changes, kept, slipped, mixed>>

Terms == ToSet(Filters[service]) \cap Asked
\* Users are deactivated, everything else has isDeleted.
Existing == IF service = "users" THEN "isActive" ELSE "notDeleted"
\* What the query begins with, whatever it was asked for.
Base == IF service = "users" THEN <<"isActive", "notSuperAdmin">> ELSE <<"notDeleted">>
\* The conditions on columns that the WHERE clause is made of.
Conditions == ToSet(Base) \cup (Terms \ {"search"})
              \cup (IF "search" \in Terms THEN {"name", "text"} ELSE {})

PageCount == (MaxChanges + Limit - 1) \div Limit
Pages == 1 .. PageCount

InitLists ==
    /\ service \in Services /\ ctx \in ListContexts
    /\ table = <<>>
    /\ pages = [p \in Pages |-> Absent]
    /\ client = Absent
    /\ writer = "idle" /\ changes = 0
    /\ kept = {} /\ slipped = FALSE /\ mixed = FALSE

-----------------------------------------------------------------------------
(* The WHERE clause                                                        *)

Fits(row, term) ==
    CASE term = "organization" -> row.org = ctx
      [] term = "search" -> {"name", "text"} \cap row.fits # {}
      [] OTHER -> term \in row.fits

\* The elements of a sequence that are in a set, in their order (SelectSeq).
Among(s, set) ==
    LET chosen[n \in 0 .. Len(s)] ==
            IF n = 0 THEN <<>>
            ELSE IF s[n] \in set THEN Append(chosen[n - 1], s[n]) ELSE chosen[n - 1]
    IN  chosen[Len(s)]

\* What andWhere chains together: the query's beginning, the organization of
\* the context, the filters that were asked for.
Chain ==
    Base \o (IF ctx = All THEN <<>> ELSE <<"organization">>)
         \o Among(Filters[service], Asked)

FitsAll(row, terms) == \A n \in DOMAIN terms : Fits(row, terms[n])

\* The OR of a search stands in parentheses, but not that of departments.
Parenthesized == service # "departments"

BareTeamSearch(row) ==
    IF "search" \in Terms
    THEN (FitsAll(row, Chain) \/ "text" \in row.fits) ELSE FitsAll(row, Chain)

\* AND binds tighter than OR: without parentheses everything before the search
\* goes with the name, and everything after it with the description.
Selected(row) ==
    LET terms == Chain
    IN  IF Parenthesized \/ "search" \notin Terms THEN FitsAll(row, terms)
        ELSE LET n == CHOOSE k \in DOMAIN terms : terms[k] = "search"
             IN  \/ FitsAll(row, SubSeq(terms, 1, n - 1)) /\ "name" \in row.fits
                 \/ "text" \in row.fits /\ FitsAll(row, SubSeq(terms, n + 1, Len(terms)))

\* The newest row first.
Listing(t) ==
    Reverse(Among([n \in 1 .. Len(t) |-> n], {n \in 1 .. Len(t) : Selected(t[n])}))

SkipOneMore(page) == page * Limit
Skip(page) == (page - 1) * Limit
PageOf(rows, page) == SubSeq(rows, Skip(page) + 1, Min({Skip(page) + Limit, Len(rows)}))
TotalPages(total) == (total + Limit - 1) \div Limit

-----------------------------------------------------------------------------
(* findAll, and its client                                                 *)

InFlight == client # Absent /\ client.stage \in {"items", "count", "fill"}

Walk ==
    /\ client = Absent
    /\ client' = [page |-> 1, stage |-> "ask", seen |-> {}, items |-> <<>>, total |-> 0]
    /\ kept' = ToSet(Listing(table)) /\ slipped' = FALSE
    /\ UNCHANGED <<service, ctx, table, pages, writer, changes, mixed>>

\* The client reads on as long as there are more pages than it has read.
Receive(items, total) ==
    client' = [client EXCEPT
        !.seen = client.seen \cup ToSet(items),
        !.stage = IF client.page < TotalPages(total) THEN "ask" ELSE "done",
        !.page = client.page + 1, !.items = <<>>, !.total = 0]

Reading == mixed' = (mixed \/ writer # "idle")

\* A page may have reached the end of its time to live.
Ask ==
    /\ client # Absent /\ client.stage = "ask"
    /\ \/ /\ pages[client.page] # Absent
          /\ Receive(pages[client.page].items, pages[client.page].total)
          /\ UNCHANGED pages
       \/ /\ client' = [client EXCEPT !.stage = "items"]
          /\ pages' = [pages EXCEPT ![client.page] = Absent]
    /\ Reading
    /\ UNCHANGED <<service, ctx, table, writer, changes, kept, slipped>>

\* getManyAndCount is two statements.
FindItems ==
    /\ client # Absent /\ client.stage = "items"
    /\ client' = [client EXCEPT !.stage = "count",
                                !.items = PageOf(Listing(table), client.page)]
    /\ UNCHANGED <<service, ctx, table, pages, writer, changes, kept, slipped, mixed>>

CountItems ==
    /\ client # Absent /\ client.stage = "count"
    /\ client' = [client EXCEPT !.stage = "fill", !.total = Len(Listing(table))]
    /\ UNCHANGED <<service, ctx, table, pages, writer, changes, kept, slipped, mixed>>

FillPage ==
    /\ client # Absent /\ client.stage = "fill"
    /\ pages' = [pages EXCEPT ![client.page] = [items |-> client.items, total |-> client.total]]
    /\ Receive(client.items, client.total)
    /\ UNCHANGED <<service, ctx, table, writer, changes, kept, slipped, mixed>>

Leave ==
    /\ client # Absent /\ client.stage = "done"
    /\ client' = Absent /\ kept' = {} /\ slipped' = FALSE
    /\ UNCHANGED <<service, ctx, table, pages, writer, changes, mixed>>

-----------------------------------------------------------------------------
(* Writes, and what the environment does                                   *)

\* The rows of a list that leave it when the table becomes t.
Leaving(t) == ToSet(Listing(table)) \ ToSet(Listing(t))

Write(t) ==
    /\ writer = "idle" /\ changes < MaxChanges
    /\ table' = t
    /\ writer' = "clear" /\ changes' = changes + 1
    /\ mixed' = (mixed \/ InFlight)
    /\ IF client = Absent THEN UNCHANGED <<kept, slipped>>
       ELSE LET rows == Listing(table)
                 passed == SubSeq(rows, 1, Min({Skip(client.page), Len(rows)}))
            IN  /\ kept' = kept \ Leaving(t)
                /\ slipped' = (slipped \/ ToSet(passed) \cap Leaving(t) # {})
    /\ UNCHANGED <<service, ctx, pages, client>>

\* An organization is a row of its own list, whose only context it is.
CreateRow(row) ==
    /\ Existing \in row.fits
    /\ service = "organizations" => \A n \in DOMAIN table : table[n].org # row.org
    /\ Write(Append(table, row))

\* Users are found although they are not active, and may become so again.
UpdateRow(n, fits) ==
    /\ service # "users" => "notDeleted" \in table[n].fits \cap fits
    /\ Write([table EXCEPT ![n].fits = fits])

RemoveRow(n) ==
    /\ service # "users" => "notDeleted" \in table[n].fits
    /\ Write([table EXCEPT ![n].fits = @ \ {Existing}])

\* delByPattern('...:list:*'); the pages of other contexts and queries go too.
ClearPages == pages' = [p \in Pages |-> Absent]
ClearLists ==
    /\ writer = "clear" /\ writer' = "idle"
    /\ ClearPages
    /\ mixed' = (client # Absent /\ (mixed \/ InFlight))
    /\ UNCHANGED <<service, ctx, table, client, changes, kept, slipped>>

\* The writer dies before it has cleared the lists.
WriterDies ==
    /\ writer = "clear" /\ writer' = "idle"
    /\ mixed' = TRUE
    /\ UNCHANGED <<service, ctx, table, pages, client, changes, kept, slipped>>

NextLists ==
    \/ Walk
    \/ Ask \/ FindItems \/ CountItems \/ FillPage \/ Leave
    \/ /\ writer = "idle" /\ changes < MaxChanges
       /\ \E fits \in SUBSET Conditions :
             \/ \E org \in Tenants : CreateRow([org |-> org, fits |-> fits])
             \/ \E n \in DOMAIN table : UpdateRow(n, fits)
    \/ \E n \in DOMAIN table : RemoveRow(n)
    \/ ClearLists \/ WriterDies

SpecLists == InitLists /\ [][NextLists]_listVars

-----------------------------------------------------------------------------
(* Properties                                                              *)

\* What was asked for, filter by filter.
Wanted(row) ==
    /\ ToSet(Base) \cup (Terms \ {"search"}) \subseteq row.fits
    /\ "search" \in Terms => "name" \in row.fits \/ "text" \in row.fits
    /\ ctx # All => row.org = ctx

\* Every cached page holds what was asked for and nothing else, in its place
\* and with the right total, as long as no list has overlapped with a write.
\* Searches for departments are the exception (OrgFilteringWorks).
ListsFitTheQuery ==
    ~mixed /\ writer = "idle" /\ (service = "departments" => "search" \notin Terms) =>
        \A p \in Pages : pages[p] # Absent =>
            LET wanted == {n \in DOMAIN table : Wanted(table[n])}
                newer(n) == Cardinality({k \in wanted : k > n})
            IN  /\ pages[p].total = Cardinality(wanted)
                /\ ToSet(pages[p].items) = {n \in wanted : newer(n) \div Limit = p - 1}

\* Whoever reads a list from the first page to the last sees every row that was
\* in it all the time, although rows are created, changed and removed between
\* the pages, some of which come from the cache: unless a row has left from a
\* page already read (the others then move up by one), or a list and a write
\* have overlapped.
NothingMissed ==
    client # Absent /\ client.stage = "done" /\ ~slipped /\ ~mixed => kept \subseteq client.seen

\* "The current per-service orgId filtering works" (fix.md:138): a list for an
\* organization holds rows of this organization.
OrgFilteringWorks ==
    ctx # All =>
        \A p \in Pages : pages[p] # Absent =>
            \A n \in ToSet(pages[p].items) : table[n].org = ctx
=============================================================================
