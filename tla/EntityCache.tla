---------------------------- MODULE EntityCache ----------------------------
(***************************************************************************)
(* One task row, the Redis keys that cache it, and the requests of         *)
(* TasksService that read and write both.  SubTasksService,                *)
(* FeaturesService, IssuesService, OrganizationService, DepartmentsService *)
(* and TeamsService are built alike; ProjectsService and UsersService load *)
(* the row they update from the database (throughCache = FALSE).           *)
(*                                                                         *)
(* A request runs under a context: the organization that owns the row,     *)
(* another one, or none (a SUPER_ADMIN without organization).  Each action *)
(* is the code between two awaits.  save(entity) makes every column of the *)
(* row equal to the entity's: it writes the loaded columns that differ.    *)
(***************************************************************************)
EXTENDS Integers, FiniteSets

CONSTANTS
    Requests,
    Columns, Values,       \* the columns an update may change, their values
    None,                  \* an absent key
    MaxWrites,             \* bound: updates and removals begun
    MaxAborts              \* bound: handlers that die between two awaits

Contexts == {"own", "all", "other"}
Row == [col : [Columns -> Values], deleted : BOOLEAN]

ASSUME ConstantsAssumption ==
    /\ None \notin Row
    /\ Values # {}
    /\ MaxWrites \in Nat
    /\ MaxAborts \in Nat

VARIABLES
    throughCache, \* the kind of service: its update and remove start from findOne
    row,         \* the row in PostgreSQL
    cache,       \* cache[key]: a copy of the row, or None
    pc, local,   \* per request: its next await; its operation, context and entity
    writes,      \* updates and removals begun
    aborts,      \* handlers that died
    past,        \* history: every row that was ever saved
    overlapped   \* history: two requests have been in progress at the same time

vars == <<throughCache, row, cache, pc, local, writes, aborts, past, overlapped>>

Operations == {"findOne", "findAll", "update", "remove"}
Labels == {"idle", "load", "fill", "save",
           "delEntity", "delEntityAll", "delLists", "delListsAll"}

\* task:<context>:<id>, and the cached lists of a context.  A list is kept as
\* the row it was computed from; a deleted row is a list without it.
Keys == {"entity", "list"} \X Contexts
Key(op, ctx) == <<IF op = "findAll" THEN "list" ELSE "entity", ctx>>

Local == [op : Operations, ctx : Contexts, entity : Row \cup {None}]
NoLocal == [op |-> "findOne", ctx |-> "own", entity |-> None]

StateOK ==
    /\ row \in Row
    /\ cache \in [Keys -> Row \cup {None}]
    /\ pc \in [Requests -> Labels]
    /\ local \in [Requests -> Local]
    /\ writes \in 0 .. MaxWrites
    /\ aborts \in 0 .. MaxAborts
    /\ past \subseteq Row

TypeOK == StateOK /\ overlapped \in BOOLEAN /\ throughCache \in BOOLEAN

Init ==
    /\ throughCache \in BOOLEAN
    /\ row \in {e \in Row : ~e.deleted}
    /\ cache = [k \in Keys |-> None]
    /\ pc = [r \in Requests |-> "idle"]
    /\ local = [r \in Requests |-> NoLocal]
    /\ writes = 0 /\ aborts = 0
    /\ past = {row}
    /\ overlapped = FALSE

\* Another request is in progress.
Overlaps(r) == \E q \in Requests \ {r} : pc[q] # "idle"
Goto(r, label) ==
    /\ pc' = [pc EXCEPT ![r] = label]
    /\ overlapped' = (overlapped \/ (label # "idle" /\ Overlaps(r)))
Remember(r, op, ctx, entity) ==
    local' = [local EXCEPT ![r] = [op |-> op, ctx |-> ctx, entity |-> entity]]
Finish(r) == Goto(r, "idle") /\ local' = [local EXCEPT ![r] = NoLocal]

\* update and remove are the operations that write.
Begin(op) ==
    /\ op \in {"update", "remove"} => writes < MaxWrites
    /\ writes' = IF op \in {"update", "remove"} THEN writes + 1 ELSE writes

FoundInAnyContext(ctx) == ~row.deleted
\* The WHERE clause of findOne: the id, not deleted, the context's organization.
Found(ctx) == ~row.deleted /\ ctx # "other"

\* With the entity in hand a read returns it, update and remove go on to save it.
Proceed(r, op, ctx, entity) ==
    \/ op \in {"findOne", "findAll"} /\ Finish(r)
    \/ op \in {"update", "remove"} /\ Goto(r, "save") /\ Remember(r, op, ctx, entity)

-----------------------------------------------------------------------------
(* findOne and findAll, also as the first part of update and remove        *)

Lookup(r, op, ctx) ==
    /\ pc[r] = "idle"
    /\ op = "findAll" => ctx # "other"      \* the lists of others never hold the row
    /\ op \in {"update", "remove"} => throughCache
    /\ Begin(op)
    /\ \/ /\ cache[Key(op, ctx)] # None
          /\ Proceed(r, op, ctx, cache[Key(op, ctx)])
       \/ /\ cache[Key(op, ctx)] = None
          /\ Goto(r, "load") /\ Remember(r, op, ctx, None)
    /\ UNCHANGED <<row, cache, aborts, past>>

Load(r) ==
    /\ pc[r] = "load"
    /\ \/ /\ local[r].op = "findAll" \/ Found(local[r].ctx)
          /\ Goto(r, "fill") /\ Remember(r, local[r].op, local[r].ctx, row)
       \/ local[r].op # "findAll" /\ ~Found(local[r].ctx) /\ Finish(r)
    /\ UNCHANGED <<row, cache, writes, aborts, past>>

Fill(r) ==
    /\ pc[r] = "fill"
    /\ cache' = [cache EXCEPT ![Key(local[r].op, local[r].ctx)] = local[r].entity]
    /\ Proceed(r, local[r].op, local[r].ctx, local[r].entity)
    /\ UNCHANGED <<row, writes, aborts, past>>

\* ProjectsService.update and remove: the entity comes from the database.
LoadDirectly(r, op, ctx) ==
    /\ pc[r] = "idle" /\ ~throughCache
    /\ op \in {"update", "remove"} /\ Begin(op) /\ Found(ctx)
    /\ Goto(r, "save") /\ Remember(r, op, ctx, row)
    /\ UNCHANGED <<row, cache, aborts, past>>

-----------------------------------------------------------------------------
(* update and remove                                                       *)

\* validateDates, ensureFeature, the duplicate title or ensureUser refuse.
Reject(r) ==
    /\ pc[r] = "save" /\ local[r].op = "update"
    /\ Finish(r)
    /\ UNCHANGED <<row, cache, writes, aborts, past>>

SaveRow(r, new) ==
    /\ pc[r] = "save"
    /\ row' = new
    /\ past' = past \cup {new}
    /\ Goto(r, "delEntity")
    /\ UNCHANGED <<cache, local, writes, aborts>>

\* update assigns the columns its DTO carries and saves the whole entity.
SaveUpdate(r) ==
    /\ local[r].op = "update"
    /\ \E c \in Columns, v \in Values : SaveRow(r, [local[r].entity EXCEPT !.col[c] = v])

SaveRemove(r) ==
    /\ local[r].op = "remove"
    /\ SaveRow(r, [local[r].entity EXCEPT !.deleted = TRUE])

\* clearCache: the DELs come one after the other, for the owner and for "all".
ClearNothing(key) == UNCHANGED cache
Clear(key) == cache' = [cache EXCEPT ![key] = None]

DelEntity(r) ==
    /\ pc[r] = "delEntity"
    /\ Clear(<<"entity", "own">>)
    /\ Goto(r, "delEntityAll")
    /\ UNCHANGED <<row, local, writes, aborts, past>>

DelEntityAll(r) ==
    /\ pc[r] = "delEntityAll"
    /\ Clear(<<"entity", "all">>)
    /\ Goto(r, "delLists")
    /\ UNCHANGED <<row, local, writes, aborts, past>>

DelListsForgotten(r) ==
    /\ pc[r] = "delLists"
    /\ Goto(r, "delListsAll")
    /\ UNCHANGED <<row, cache, local, writes, aborts, past>>

\* delByPattern scans and deletes; only the key of the modelled list matters.
DelLists(r) ==
    /\ pc[r] = "delLists"
    /\ Clear(<<"list", "own">>)
    /\ Goto(r, "delListsAll")
    /\ UNCHANGED <<row, local, writes, aborts, past>>

DelListsAll(r) ==
    /\ pc[r] = "delListsAll"
    /\ Clear(<<"list", "all">>)
    /\ Finish(r)
    /\ UNCHANGED <<row, writes, aborts, past>>

-----------------------------------------------------------------------------
EntityExpires(key) == cache[key] # None /\ key[1] = "entity"
\* Every SET of a copy passes a time to live.
Expires(key) == cache[key] # None

\* A key reaches its time to live.
Expire(key) ==
    /\ Expires(key)
    /\ cache' = [cache EXCEPT ![key] = None]
    /\ UNCHANGED <<throughCache, row, pc, local, writes, aborts, past, overlapped>>

\* The process dies, or an awaited call throws.
Abort(r) ==
    /\ pc[r] # "idle" /\ aborts < MaxAborts
    /\ aborts' = aborts + 1
    /\ Finish(r)
    /\ UNCHANGED <<row, cache, writes, past>>

Next ==
    \/ \E key \in Keys : Expire(key)
    \/ /\ UNCHANGED throughCache
       /\ \E r \in Requests :
            \/ \E op \in Operations, ctx \in Contexts : Lookup(r, op, ctx) \/ LoadDirectly(r, op, ctx)
            \/ Load(r) \/ Fill(r) \/ Reject(r)
            \/ SaveUpdate(r) \/ SaveRemove(r)
            \/ DelEntity(r) \/ DelEntityAll(r) \/ DelLists(r) \/ DelListsAll(r)
            \/ Abort(r)

Spec == Init /\ [][Next]_vars

\* Redis expires every key that stays set.
FairSpec == Spec /\ \A key \in Keys : WF_vars(Expire(key))

-----------------------------------------------------------------------------
(* Properties                                                              *)

Fresh(key) == cache[key] \in {None, row}
Resting == \A r \in Requests : pc[r] = "idle"

\* "Caching with invalidation": as long as requests have not overlapped and no
\* handler has died, every key shows the row whenever none is in progress.
CoherentAtRest ==
    ~overlapped /\ aborts = 0 /\ Resting => \A key \in Keys : Fresh(key)

\* The entity that a save starts from is the row.  A service that loads from
\* the cache needs coherent keys for that, one that loads directly does not.
Undisturbed == ~overlapped /\ (throughCache => aborts = 0)

\* A deleted task stays deleted, although an update saves isDeleted too.
DeletedStaysDeleted == [][Undisturbed /\ row.deleted => row'.deleted]_vars

\* Whatever races or crashes left in the cache, the time to live repairs it once
\* the writes have stopped (MaxWrites bounds them).
EventuallyCoherent == <>[](\A key \in Keys : Fresh(key))

\* The cache implements LaggingCopies: no key shows a row that was never saved,
\* and no key of another organization is ever filled.
Lagging == INSTANCE LaggingCopies
    WITH Versions <- Row, Places <- Keys, Hidden <- {<<"entity", "other">>, <<"list", "other">>},
         value <- row, copy <- cache
ImplementsLagging == Lagging!Spec

-----------------------------------------------------------------------------
(* Why it does: what every copy and every entity in hand was taken from    *)

Provenance ==
    /\ row \in past
    /\ \A k \in Keys : cache[k] \in past \cup {None} /\ (k[2] = "other" => cache[k] = None)
    /\ \A r \in Requests :
          /\ local[r].entity \in past \cup {None}
          /\ pc[r] \in {"fill", "save"} => local[r].entity # None /\ local[r].ctx # "other"
          /\ local[r].op = "findAll" => local[r].ctx # "other"

CacheInv == StateOK /\ Provenance
=============================================================================
