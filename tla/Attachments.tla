---------------------------- MODULE Attachments ----------------------------
(***************************************************************************)
(* Comments and work logs: rows that a user attaches to a work item.       *)
(* CommentsService and WorkLogsService are one program with two settings:  *)
(* a comment copies only the project of its target and keeps its author, a *)
(* work log copies every id above its target and can be given to another   *)
(* user.  All queries are restricted to the organization of the row, which *)
(* never changes, so one organization is modelled.                         *)
(*                                                                         *)
(* update and remove load the row from the database, check it, and save    *)
(* the whole entity some awaits later.  A property that is undefined in    *)
(* the saved entity is not written.                                        *)
(***************************************************************************)
EXTENDS Integers, FiniteSets

CONSTANTS
    Entries,                \* ids of comments, or of work logs
    Writers, Moderators,    \* MODERATOR_ROLES
    Callers,
    Targets, Kind,          \* work items, and Kind[t]: the target type
    Columns,                \* the ids a row copies from its target
    Ids,                    \* Ids[c]: what column c may hold
    Reassigns,              \* update may carry a userId (work logs)
    Null, Undefined,
    MaxMoves                \* bound: moves of the targets

TargetKinds == {"PROJECT", "FEATURE", "TASK", "SUB_TASK", "ISSUE"}
ColumnsOf(kind) ==
    CASE kind = "PROJECT" -> {"project"}
      [] kind = "FEATURE" -> {"project", "feature"}
      [] kind = "TASK" -> {"project", "feature", "task"}
      [] kind = "SUB_TASK" -> {"project", "feature", "task", "subTask"}
      [] kind = "ISSUE" -> {"project", "feature", "task", "subTask", "issue"}
Own(kind) ==
    CASE kind = "PROJECT" -> "project" [] kind = "FEATURE" -> "feature" [] kind = "TASK" -> "task"
      [] kind = "SUB_TASK" -> "subTask" [] kind = "ISSUE" -> "issue"

AllIds == UNION {Ids[c] : c \in Columns}

ASSUME AttachmentsAssumption ==
    /\ Moderators \subseteq Writers
    /\ Kind \in [Targets -> TargetKinds]
    /\ DOMAIN Ids = Columns
    /\ Reassigns \in BOOLEAN
    /\ MaxMoves \in Nat
    /\ {Null, Undefined} \cap (AllIds \cup Writers \cup Targets) = {} /\ Null # Undefined

\* The columns resolveTarget fills in for a target.
Named(t) == Columns \cap ColumnsOf(Kind[t])

\* Where a target may be.  An issue may be attached to its project only.
Places(t) ==
    {p \in [Named(t) -> AllIds \cup {Null}] : \A c \in Named(t) :
        IF c = Own(Kind[t]) THEN p[c] = t
        ELSE p[c] \in Ids[c] \cup (IF Kind[t] = "ISSUE" /\ c # "project" THEN {Null} ELSE {})}

EntryRow == [author : Writers, target : Targets, column : [Columns -> AllIds \cup {Null}], deleted : BOOLEAN]
Entity == [author : Writers, target : Targets,
           column : [Columns -> AllIds \cup {Null, Undefined}], deleted : BOOLEAN]
Plan == [entry : Entries, actor : Writers, entity : Entity, target : Targets \cup {Null}]

ASSUME NullAssumption == Null \notin EntryRow \cup Plan

VARIABLES
    entry,       \* comments or work_logs, by id; Null before the row exists
    place,       \* place[t]: the ids the row of target t holds
    gone,        \* soft-deleted targets
    step, plan,
    moves,       \* moves of the targets
    placesHeld,        \* history: placesHeld[t], every place target t has had
    joined       \* history: two requests have been in progress at the same time

entryVars == <<entry, place, gone, step, plan, moves, placesHeld, joined>>

EntriesOK ==
    /\ entry \in [Entries -> EntryRow \cup {Null}]
    /\ DOMAIN place = Targets /\ \A t \in Targets : place[t] \in Places(t)
    /\ gone \subseteq Targets
    /\ step \in [Callers -> {"idle", "resolve", "save"}]
    /\ plan \in [Callers -> Plan \cup {Null}]
    /\ moves \in 0 .. MaxMoves
    /\ DOMAIN placesHeld = Targets /\ \A t \in Targets : placesHeld[t] \subseteq Places(t)
    /\ joined \in BOOLEAN

InitEntries ==
    /\ entry = [e \in Entries |-> Null]
    /\ place \in {f \in [Targets -> UNION {Places(t) : t \in Targets}] :
                     \A t \in Targets : f[t] \in Places(t)}
    /\ gone = {}
    /\ step = [r \in Callers |-> "idle"]
    /\ plan = [r \in Callers |-> Null]
    /\ moves = 0
    /\ placesHeld = [t \in Targets |-> {place[t]}]
    /\ joined = FALSE

\* Another request is in progress.
Joined(r) == \E q \in Callers \ {r} : step[q] # "idle"
Reach(r, label) ==
    /\ step' = [step EXCEPT ![r] = label]
    /\ joined' = (joined \/ (label # "idle" /\ Joined(r)))
Complete(r) == Reach(r, "idle") /\ plan' = [plan EXCEPT ![r] = Null]
Launch(r, l) ==
    /\ step[r] = "idle"
    /\ Reach(r, IF l.target = Null THEN "save" ELSE "resolve")
    /\ plan' = [plan EXCEPT ![r] = l]
    /\ UNCHANGED <<entry, place, gone, moves, placesHeld>>

-----------------------------------------------------------------------------
ModifiesAnything(actor, row) == TRUE
\* ensureCanModify: the author of the row as it was loaded, or a moderator.
CanModify(actor, row) == actor = row.author \/ actor \in Moderators

\* ensureCanLogForUser
CanLogFor(actor, u) == actor = u \/ actor \in Moderators

\* A comment is its creator's; a work log may be created for somebody else.
Create(r, e, actor, u, t) ==
    /\ entry[e] = Null /\ \A q \in Callers : plan[q] # Null => plan[q].entry # e
    /\ IF Reassigns THEN CanLogFor(actor, u) ELSE u = actor
    /\ Launch(r, [entry |-> e, actor |-> actor, target |-> t,
                 entity |-> [author |-> u, target |-> t, deleted |-> FALSE,
                             column |-> [c \in Columns |-> Null]]])

\* The DTO may carry a target (t) and, for a work log, a user (u); the other
\* fields stand for no column that is modelled.
Update(r, e, actor, u, t) ==
    /\ entry[e] # Null /\ ~entry[e].deleted
    /\ CanModify(actor, entry[e])
    /\ u # Null => Reassigns /\ CanLogFor(actor, u)
    /\ Launch(r, [entry |-> e, actor |-> actor, target |-> t,
                 entity |-> [entry[e] EXCEPT !.author = IF u = Null THEN @ ELSE u]])

Remove(r, e, actor) ==
    /\ entry[e] # Null /\ ~entry[e].deleted
    /\ CanModify(actor, entry[e])
    /\ Launch(r, [entry |-> e, actor |-> actor, target |-> Null,
                 entity |-> [entry[e] EXCEPT !.deleted = TRUE]])

ResolvedProject(t, old) ==
    [c \in Columns |-> IF c = "project" THEN place[t][c] ELSE old[c]]
\* The ids of the target; the columns it does not have become undefined.
Resolved(t, old) ==
    [c \in Columns |-> IF c \in Named(t) THEN place[t][c] ELSE Undefined]

\* resolveTarget: the target is live.
Resolve(r) ==
    LET t == plan[r].target
        old == plan[r].entity
    IN  /\ step[r] = "resolve" /\ t \notin gone
        /\ plan' = [plan EXCEPT ![r].entity =
                        [old EXCEPT !.target = t, !.column = Resolved(t, old.column)]]
        /\ Reach(r, "save")
        /\ UNCHANGED <<entry, place, gone, moves, placesHeld>>

\* What the row holds after the save of an entity.
Saved(e, entity) ==
    LET old == IF entry[e] = Null THEN [c \in Columns |-> Null] ELSE entry[e].column
    IN  [entity EXCEPT !.column =
            [c \in Columns |-> IF entity.column[c] = Undefined THEN old[c] ELSE entity.column[c]]]

SaveEntry(r) ==
    /\ step[r] = "save"
    /\ entry' = [entry EXCEPT ![plan[r].entry] = Saved(plan[r].entry, plan[r].entity)]
    /\ Complete(r)
    /\ UNCHANGED <<place, gone, moves, placesHeld>>

\* The target or the user is not found, or an awaited call throws.
RefuseEntry(r) ==
    /\ step[r] # "idle"
    /\ Complete(r)
    /\ UNCHANGED <<entry, place, gone, moves, placesHeld>>

-----------------------------------------------------------------------------
(* What module WorkItems does to the targets                               *)

Move(t) ==
    /\ t \notin gone /\ moves < MaxMoves
    /\ moves' = moves + 1
    /\ \E p \in Places(t) \ {place[t]} :
                            /\ place' = [place EXCEPT ![t] = p]
                            /\ placesHeld' = [placesHeld EXCEPT ![t] = @ \cup {p}]
    /\ UNCHANGED <<entry, gone, step, plan, joined>>

Delete(t) ==
    /\ gone' = gone \cup {t}
    /\ UNCHANGED <<entry, place, step, plan, moves, placesHeld, joined>>

NextEntry ==
    \/ \E t \in Targets : Move(t) \/ Delete(t)
    \/ \E r \in Callers :
          \/ \E e \in Entries, actor \in Writers :
                \/ \E u \in Writers, t \in Targets : Create(r, e, actor, u, t)
                \/ \E u \in Writers \cup {Null}, t \in Targets \cup {Null} : Update(r, e, actor, u, t)
                \/ Remove(r, e, actor)
          \/ Resolve(r) \/ SaveEntry(r) \/ RefuseEntry(r)

SpecEntries == InitEntries /\ [][NextEntry]_entryVars

-----------------------------------------------------------------------------
(* Properties                                                              *)

\* The request whose save this step is.
Saves(r, e) == step[r] = "save" /\ step'[r] = "idle" /\ plan[r].entry = e

\* "You can only update or delete your own", "You can only add work logs for
\* yourself": who is no moderator neither creates a row for another user nor
\* gives one away, and changes only rows of his own, whoever had them when they
\* were loaded; rows that can be given away, as long as requests have not
\* overlapped.
OnlyOwnEntries ==
    [][\A e \in Entries : entry'[e] # entry[e] =>
          LET before == IF entry[e] = Null THEN Null ELSE entry[e].author
          IN  \E r \in Callers : Saves(r, e) /\
                \/ plan[r].actor \in Moderators
                \/ /\ entry'[e].author \in {before, plan[r].actor}
                   /\ before \in {Null, plan[r].actor} \/ (Reassigns /\ joined)]_entryVars

\* The ids a row copies from its target were the target's, all at one moment:
\* no race of saves and moves mixes two targets or two places.
TargetIdsWereTrue ==
    \A e \in Entries : entry[e] # Null =>
        \E p \in placesHeld[entry[e].target] :
            \A c \in Named(entry[e].target) : entry[e].column[c] = p[c]
=============================================================================
