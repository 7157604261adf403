# Verification of the Karmayog backend

Karmayog is a NestJS monolith: several tenants (organizations) plan projects,
log time and comment on their work; data is in PostgreSQL (TypeORM), and Redis
holds one-time passwords, counters and read caches. This directory holds TLA+
models of the parts that carry its logic, TLC runs that check them on small
instances, and TLAPS proofs of what matters most for every instance.

Paths below are relative to the repository (`src/modules/...`); in
`PROJECT.json` they carry the prefix under which the repository is mounted.

## 1. Inventory

The process is single-threaded, but every `await` is a point where another
request may run, and several processes may serve one database. A Redis command
and a single SQL statement are atomic; only `registerOrganization` opens a
transaction. This makes almost every handler a check-then-save sequence, and
that is what the models are about.

| Component | State | Operations | What is hard | What makes it correct |
|---|---|---|---|---|
| OTP login (`auth.service.ts`) | Redis `otp:<email>`, `otp_attempts:<email>` with TTL; `users.locked_until` | `requestOTP`, `resendOTP`, `verifyOTP` | overlapping guesses, TTLs, a crash between lock and DELs | a password logs in once; five guesses; a lock is earned and served |
| Sessions (`auth.service.ts`, strategies) | `users.hashed_refresh_token`, role, organization; the tokens clients hold | end of `verifyOTP`, `refreshTokens`, `switchOrganization`, `logout`; `UsersService.update/remove` on the same row | overlapping saves of one row, refresh against logout | token claims are ones the user had; logout ends the session |
| Caches (all domain services, `redis.service.ts`) | `<entity>:<org or all>:<id>`, `<entity>s:list:...` | `findOne`, `findAll`, `update`, `remove` | a late SET after a DEL, updates that start from a cached entity, crashes before a DEL | no foreign or invented data; at rest, and in the end, a cache that agrees with its row |
| Work hierarchy (`projects`, `features`, `tasks`, `subtasks`, `issues`) | rows with organization and copied ids of everything above | create, update, move, soft delete | parents that move or go during a request, stale entities | tenant isolation, consistent ids, unique titles |
| Dates (same services) | `startDate`, `dueDate` | `validateDates` | dates that come back from Redis as strings | due date not before start date |
| Saves of a row (`issues.service.ts`, every `repository.save`) | `status`, `resolvedAt` and the other columns | SELECT, then UPDATE of what differs | another save between the two statements; copies of any age | status and resolution date agree; a row is always some entity somebody saved |
| Comments, work logs | rows with author and copied ids of a target | create, update, remove | ownership checked on an old row, undefined columns, moving targets | only authors and moderators change a row; copied ids are those of the target |
| Paged lists (eleven services) | `<entity>s:list:<query>` | `findAll`, and the writes that clear it | a WHERE clause chained from text, two statements per page, pages of different ages, rows that move between pages | pages hold what was asked for; nobody who pages through misses a row |
| Work log reports and lists | cached answers | `getReport`, `findAll`, `getPeriodRange` | two statements per answer, a cache in four patterns, month boundaries | totals fit the logs, answers are current, periods cover the calendar |
| Organizations, registration | organizations, users, two caches | register, create, update, remove, list, `createUser` | invalidation before COMMIT, rollback, a saved relation array | owner in place, distinct e-mails, a list that shows what was registered |
| RBAC, `PermissionsGuard` | modules, permissions, roles, two join tables, `rbac:*`, `perm:roles:*` | create/update/delete, assign, grant, guard, menu | delete-all-then-insert without transaction, a cache nobody clears | a role holds what it was asked to hold; the guard sees sets that were granted; menus follow the tables |
| Departments, teams, staff, project staffing | rows and the user-team, project-team and project-member relations | create, update, move, remove, assign, `switchOrganization` | checks that depend on which fields a DTO has, look-ups some awaits before the save | teams follow departments, users and projects stay at home |
| Request guards | `perm:roles:*`, what tokens and rows say | `CompositeAuthGuard`, `RolesGuard`, `PermissionsGuard` | rights that live on in tokens and caches | access ends soon after the right to it |
| `resolveOrgId` of the controllers | none | choice between query, body and token | - | appears as the context of requests |
| Platform (`main.ts`, filters, interceptors, throttler, health, e-mail, seed) | none | - | - | not modelled: no state of its own |

Interactions: the services call each other only through the database and
Redis. `Session` continues where `OtpLogin` has accepted a password, and both
share `locked_until`. `WorkItems` and `Staff` read through the cache that
`EntityCache` models. `Attachments` depends on targets that `WorkItems` moves
and deletes. `PermissionsGuard` uses the roles in the claims of `Session`, and
`Access` puts the two together, with time. `Lists` selects from rows that the
other modules write. `switchOrganization` belongs to
`Session` by its tokens and to `Staff` by the row it moves.

Documentation of planned features without code (notifications in `GEMINI.md`)
is not modelled.

## 2. Modules

| Module | Models | State and actions against the code |
|---|---|---|
| `OtpLogin` | OTP login of one account | `otpCode/otpTtl`, `failures/failuresTtl` are the two Redis keys, `lockLeft` is `locked_until`, `pc[r]` the await at which request `r` stands. One action per section between two awaits; the DELs of a `Promise.all` are two actions in their order of issue. `SafeRedisGet` may return the absent value, as `safeRedisGet` does on an error. `Tick` ages keys and lock |
| `Session` | tokens and the `users` row | `account[u]` is the row, `held` the token pairs clients have, `local[r]` the loaded entity and payload, `at[r]` the await at which a handler stands. `Digest` models bcrypt by what it does to a refresh token: 72 bytes, which hold nothing but header and user |
| `EntityCache` | cache-aside of one row | `row`, `cache[key]` for the owner's context, `all`, and a foreign context. `throughCache`, chosen at the start, is TRUE for services whose update and remove start from `findOne` and FALSE for projects, users and work logs |
| `LaggingCopies` | abstract: what such a cache promises at least | a copy is some version that was stored, and some places never hold one |
| `Lists` | `findAll` of the eleven services, a client that pages, writes | `Filters` has each service's conditions in their order, `Chain` is what `andWhere` strings together, `Selected` what PostgreSQL makes of it; `FindItems` and `CountItems` are the two statements of `getManyAndCount`, `pages[n]` the cached pages. A row is its organization and the set of conditions it fits |
| `WorkItems` | the hierarchy | `item[i]` with `place`, the ids of the four levels above; `BeginCreate/Update/Remove`, then the look-ups `EnsureProject`, `EnsureParent`, `CheckTitle`, then `Save` |
| `DateWindow` | dates of one row | `Value` keeps whether an expression is a `Date` or a string; `validateDates`, `Or` (`\|\|`), `Assign` (`!== undefined`) are the code's expressions |
| `RowSaves` | one issue row and TypeORM's `save` | `stage[s]` is the statement a saver issues next; `differs[s]` what its SELECT found to be written. `base`, `asked`, `outdated` and `crossed` are history: which copy a saver loaded, what its DTO asked for, and what came in between |
| `Reports` | reports and lists of work logs | `answers[key]` is the cached answer of a context and a query, with a figure and the logs it is about; `First` and `Second` are the two statements, `Clear` the four `delByPattern` |
| `Access` | guards, token lives, key sets | lives count down with `Tick`, ages since a right was last held count up; `HandlerTime` bounds how long a handler or guard is on its way |
| `Attachments` | comments (`Reassigns = FALSE`, `Columns = {project}`) and work logs; the run has work logs, whose steps include those of comments | `place[t]` is where a target is; `Resolve` copies it, `Saved` models that TypeORM does not write undefined properties |
| `WorkLogPeriod` | `getPeriodRange`, as `getReport` calls it | `setUTCDate` and `setUTCMonth` over a calendar of months, with JavaScript's overflow |
| `Tenancy` | organizations and their users | what the registration transaction inserts stays in `local[r]` until `Commit`; `LoginReserved` is the uncommitted entry of the unique index; `Regroup` what saving an entity with its `users` array does |
| `Permissions` | RBAC tables, guard, menu | rows of `module_permissions` carry a fresh id per insertion, so that grants refer to rows and go by `Cascade` |
| `Staff` | departments, teams, the assignments of users and projects | `Following` gives the next look-up, in the order of the code; `Plain` is a request that looks up nothing; a `bare` entity was loaded without relations, so that its save leaves them alone (`Stored`) |
| `*Proofs` | theorems (section 5) | `LoginProofs` about `OtpLogin`, `Session` and `Lists`, `SavesProofs` about `DateWindow`, `RowSaves`, `Reports` and `WorkLogPeriod`, `RecordsProofs` about `Tenancy` and `Attachments`, the others about the module they are named after |
| `MC*` | constants and symmetry for TLC | `MCSession` (`Session`, `Lists`), `MCRecords` (`Tenancy`, `OtpLogin`, `Attachments`, `WorkLogPeriod`) and `MCSaves` (`DateWindow`, `RowSaves`, `Reports`) put modules that share no variable side by side, each moving while the others are in an initial state: the runs check several small questions, not their combination |

Abstractions that all modules share:

- `repository.save(entity)` is one step that makes every loaded column of the row
  equal to the entity's, except in `RowSaves`. There it is what TypeORM does, a
  SELECT and an UPDATE of the columns that differ, and `RowIsAnEntity` (proved)
  says that the row is still always one of the saved entities unless an UPDATE
  comes between the two statements of another save.
- A handler that throws without having changed anything is `Refuse`,
  `RefuseEntry` or `Reject` (or no action at all, where its request has no local
  state). `Abort`, `HandlerDies`, `Dies` and `WriterDies` are a handler that dies
  between two awaits, in the modules where what it leaves behind matters.
- Modules that one `MC` module extends together name things apart: `pc`, `at`
  and `step` are all the await a request stands at.
- Names, titles and e-mails are model values; only e-mails keep their case.
- History variables (`accepted`, `past`, `placesHeld`, `granted`, `asked`, `kept`, `overlapped`...) are
  written and never read by the actions' guards; in `WorkItems` `past` also is what a
  stale read may return (`StaleReads`).

Operators that no action uses (`TooManyOffByOne`, `ClearNothing`, ...) stand
directly before the definition they are a faulty variant of. They are the
mutants of `PROJECT.json`: each property is broken by at least one of them.

## 3. Runs

"Requests" is the number of requests that may be in flight.

| Run | Requests | Checks | Bounds and why they are enough |
|---|---|---|---|
| `otp_two` | 2 | an accepted password is consumed; a lock ends | 2 attempts, a password of one tick and a lock of two, one dying handler, one Redis fault: a lock takes few steps and may be renewed by the other request |
| `session` | 2 | claims, organizations; logout and deactivation until requests overlap | 2 token pairs: a login and its refresh or switch; two organizations, two roles; one dying handler |
| | 1 | lists: pages fit the query, no row is missed | teams, users and comments, the three shapes of clause: one with a search, one whose beginning differs, one without search; with a search and an id as filters; one row per page and three writes: up to three pages, one read, one being read, one to come |
| `cache` | 2 | implements `LaggingCopies`, coherent in the end; coherent at rest and no deletion undone until requests overlap | 2 writes and one dying handler give every order of load, save, DEL and SET; both kinds of service, as initial states |
| `items` | 2 | tenant isolation, copied ids were true | two organizations and requests without one; two projects, two features, a task and an issue that move between them; stale entities; 6 operations |
| `items_one` | 1 | titles, live parents | all five levels, two features and two tasks so that titles can meet by a move, two titles; 6 operations |
| `saves` | 2 | order of dates; status and date of issues, what a save loses; totals and answers | seven days, with null and absent fields, cached or not; two savers, all five statuses, two titles, 2 saves from any copy; two logs of two organizations and room for a write of each kind, a list and a report in two contexts, 2 writes |
| `access` | 2 | how long access outlives token, session and grant | access tokens and key sets of 2 ticks, refresh tokens of 3, handlers of 1: the least lives in which expiry, renewal and a late SET fall into different ticks; a route by role and a route by permission |
| `records` | 1 | every promise of the login | 5 attempts as in the code; password 2 ticks, lock 3: the ratio of 10 and 15 minutes, so that a key can age partly and the lock outlasts it; two dying handlers, one inside the lock sequence and one in what follows |
| | 2 | owners; list until requests overlap | two registrations that compete for one login, two spellings of one e-mail, one dying handler |
| | 2 | work logs: ownership, copied ids | author, another user, moderator; a task and a project as targets, one move |
| | - | ranges of reports | every day of 2024 and 2025 that has a month on either side, so a leap year and months of every length |
| `permissions` | 2 | what the guard decides on; grants and cached menus until requests overlap | one module, two permissions, a role and one yet to be created; two writes, one of which may die half-way |
| `staff` | 2 | teams follow departments, users and projects at home; teams that fit until requests overlap | two organizations with a department each and room for a third, two teams, a user, a project, SUPER_ADMIN requests, switches, stale copies; 4 operations: create two rows and have two requests race over them |
| `departments_search` | 1 | finding 1, a violation | departments, search and `isActive` as filters, the context of one organization and none |
| `rotation` | 1 | finding 2, a violation | three token pairs: one of a login, one that replaces it, and one for which the first is presented again |

Many promises of the code hold as long as requests do not overlap, and not
after. The history variable `overlapped` (set when a second request is in
progress, for ever) states exactly that in one run: a property of the form
`~overlapped => ...` says what the sequential logic gets right, and its
neighbours without the condition say what is right under every interleaving.
The login in `records` and `items_one` have one request instead. The dimension a
run leaves out is in another one: one run has the real limits and no overlap,
the other small limits and overlap.

### Findings

Two statements of the repository about its own behaviour do not hold. For each a
run checks the statement and TLC shows a behaviour of the code that breaks it.

1. `departments_search` (`OrgFilteringWorks`), `departments.service.ts:63`. The
   condition of a search is `d.name ILIKE :search OR d.description ILIKE :search`
   without parentheses, and `andWhere` puts it between others. AND binds tighter
   than OR, so a department whose description matches is listed if only it meets
   what is added after the search (`isActive`): of any organization, and deleted
   or not. `fix.md:138` says "The current per-service `orgId` filtering works."
   The searches of the other services have their parentheses.
2. `rotation` (`ReplacedTokensAreRefused`), `auth.service.ts:332`. `project.md:82`
   lists "refresh rotation + reuse detection". The digest is bcrypt's, which reads
   72 bytes; header and `sub` of a refresh token fill them, so that all refresh
   tokens of a user match one digest and a replaced one is accepted.

### What the code does not promise

Writing the properties showed where a stronger one fails. None of these is
checked as a property; the models contain the behaviour (but for the last row,
which is about display), and the condition in a property above is there because of it.

| Where | What happens |
|---|---|
| `auth.service.ts:185-200` | two overlapping verifications of one password both log in, hence `OneTimeUse` for one request at a time |
| `auth.service.ts:163-193` | overlapping wrong guesses write the same count, so more than `MAX_OTP_VERIFY_ATTEMPTS` (`project.md:82`: 5) are compared |
| `auth.service.ts:206` | a login in flight writes `lockedUntil: null` after another request has locked the account |
| `auth.service.ts:200` | its DEL is by key, and also deletes the password a resend has stored meanwhile |
| `auth.service.ts:359` | a refresh in flight stores its new digest after a logout; the session goes on (`auth.controller.ts:183` describes logout as ending it) |
| `tasks.service.ts:168`, `:215` | a late SET leaves an old copy until its time to live; a late save puts back all columns, `isDeleted` and, for users, `is_active` included |
| `tasks.service.ts:82` | two creations with one title both pass the check, which has no unique index behind it |
| `features.service.ts:209` | tasks do not follow a feature to its new project; `issues.service.ts:307` then refuses issues on them |
| `tasks.service.ts:251` | of a cached entity the dates are strings and no comparison with a `Date` is true |
| `work-logs.service.ts:428` | a week that begins in the month before the day asked for ends too late by the length of that month |
| `work-logs.service.ts:168-203` | a log that a moderator gives away during an update is still changed, and taken back, by its former owner |
| `work-logs.service.ts:190` | ids of the former target stay where those of the new one are undefined |
| `auth.service.ts:244` | registration compares organization e-mails as typed, `OrganizationService` in lower case |
| `auth.service.ts:290` | the list key is deleted before COMMIT; a `findAll` in between caches the old list |
| `organization.service.ts:182` | saving a cached organization with its `users` array takes users created since out of it |
| `rbac.service.ts:254` | an overlapping update makes a deleted permission active again |
| `permissions.guard.ts:77` | a deleted role still grants; only permissions are asked to be active |
| `auth.service.ts:403` | a SUPER_ADMIN who switches keeps department and teams of the former organization; an update that overlaps puts the former organization back |
| `teams.service.ts:182` | a team that a SUPER_ADMIN moves to a department of another organization stays with its users and projects |
| `projects.service.ts:224` | the teams of a project are not compared with its department, as those of users are |
| `issues.service.ts:249` | two saves whose statements interleave part `status` from `resolvedAt` |
| `work-logs.service.ts:265` | a log saved between the statements of a report is in its list and not in its total, for the life of the key |
| `auth.service.ts:343` | a refresh signs the old role again, so a role that was taken away lives on while it is refreshed |
| `users.service.ts:227` | a new department without new teams keeps the old teams |
| `teams.service.ts:164` | a team that moves without a new name is not compared with the teams there |
| `departments.service.ts:73` | pages are cached one by one: when a row leaves from a page already read, or a page was filled around a write, whoever pages on misses a row, hence the conditions of `NothingMissed` |
| `main.ts:56` | `enableImplicitConversion` makes `true` of the text `false`, so a list can be asked for what is active and not for what is not |
| `users.service.ts:113` | lists of users begin with `isActive = true`; an inactive user, who may be made active by id, is in none |
| `users.service.ts:136`, `projects.service.ts:120` | the `teamId` filter is on the joined teams, so that the entities listed show that team only |

Deadlock is checked in every run. Where all operations are bounded
(`MaxOperations`) a read request, which changes no row, remains possible; so it
is with `MaxChanges` and a client that pages.

### Fairness

- `OtpLogin!FairSpec`: weak fairness of `Tick`. Time passes whatever requests do.
  Nothing is assumed of the requests.
- `EntityCache!FairSpec`: weak fairness of the expiry of each key. Every `SET` of
  `RedisService` passes a TTL, and Redis removes what has expired. A handler
  may stop for ever in the middle.

## 4. Bounds

`MaxAborts` and `MaxDeaths` (dying handlers), `MaxRedisFaults`, `MaxTokens`,
`MaxWrites`, `MaxOperations`, `MaxMoves`, `MaxSaves` and `MaxChanges` are guards of the actions that would count without
end. All proofs hold for every value of them. `Limit`, the rows on a page, is a
parameter of the code (`limit` of the query), and one the least value with several pages. `HistoryCap` and `Long` saturate
history counters above the limits they are compared with. `HandlerTime` is no
bound of the model but an assumption about the environment: a handler or guard
that stalls for longer can open a route, or store a key set, that much later.

## 5. Proofs

Every safety invariant and action property of the passing runs is a theorem for
all values of the constants, as is the refinement of `LaggingCopies`. TLC checked
each property first.

### Under every interleaving

| Theorem | Statement | Argument |
|---|---|---|
| `LoginProofs!AcceptedConsumed` | `[]AcceptedOtpIsConsumed` | step by step from the type invariant: only the comparison makes `accepted` positive, and it leaves its handler before its DEL |
| `LoginProofs!TokensCarryGrantedClaims`, `HomeUnlessSuper` | `[]ClaimsWereGranted`, `[]ForeignOrgNeedsSuper` | `InHand`: the payload a handler is about to sign was in the row; what a switch will save is what it will sign; what an update writes back the row has had |
| `EntityCacheProofs!CacheLagsOnly` | `Spec` implements `LaggingCopies` | `Provenance`: every copy and every entity in hand was saved at some time, and no handler of a foreign context gets one; then each step is a `Write`, a `Keep` or a stutter |
| `WorkItemsProofs!Isolation` | `[]TenantIsolation` | `WorkInv`: all versions of a row belong to one organization and everything a prepared row names does too; two requests never create the same id |
| `WorkItemsProofs!PlacesWereTrue` | `[]PlaceWasTrue` | `TruthInv`: a prepared place is a copy of one version of one parent as soon as the parent was checked, or from the start when the item stays |
| `RecordsProofs!OwnersStay` | `[]OwnersBelong` | `TenancyInv`: every copy of an organization, cached or in hand, has its own owner among the members and no other (`Faithful`), so that a save that regroups the users leaves the owner where it is; two requests never insert the same id (`Unshared`) |
| `RecordsProofs!CopiedIdsWereTrue`, `RowsChangeByRight` | `[]TargetIdsWereTrue`, `OnlyOwnEntries` | `EntriesInv`: a prepared row names the columns of one place its target has had, and who is no moderator saves a row that is and stays his own (`Entitled`), where rows can be given away only as long as requests have not overlapped |
| `PermissionsProofs!GuardDecidesOnGrants` | `[]GuardKeysWereGranted` | `GuardInv`: the key set a role has now is among those it has had, and so are the set under `perm:roles:<role>` and the one a guard has read and is about to store |
| `StaffProofs!TeamsFollow`, `UsersStayAtHome` | `[]TeamFollowsDepartment`, `[]StaffAtHome`, however old the copies | `StaffInv`: a department never changes its organization, not even when a stale copy of it is saved, and two requests never create the same id; so what a request has found out about a department or a member stays true until it saves, unless the member has begun to switch |
| `SavesProofs!OrderedFromDatabase` | `OrderedUnlessCached` | each pair that `validateDates` sees consists of two `Date`s |
| `SavesProofs!ResolutionDated`, `SavedWhole` | `[]DatedWhileResolved`, `[]RowIsAnEntity`, copies of any age | `SavesInv`: every copy and every entity is consistent, and as long as nobody has crossed a saver's two statements the columns it will write are exactly those in which its entity differs from the row |
| `SavesProofs!LossNeedsOldCopy` | `LosesOnlyFromOldCopies` | `LossInv`: an entity differs from the copy it was made of only in the columns asked for, so a SELECT that finds that copy finds nothing else to write |
| `SavesProofs!FiguresFit` | `[]TotalsAddUp` | `TotalsInv`: while the number of writes is the one at the first statement, that statement's result is still what the database says, so the second adds to it what belongs to it |
| `AccessProofs!RevocationLag`, `LogoutLag` | `[]OpensOnRecentGrant`, `[]AccessEndsWithSession`, for all lifetimes | `TokensInv`, `KeysInv`, `VisitsInv`: remaining life and age of a lost right add up to at most the lifetime, plus what a handler in flight has waited |

### Requests that follow one another

These hold until requests overlap (`overlapped`, `joined`, `mixed`), most of them also
until a handler dies; section 3 has what happens afterwards. Their invariants have one shape: what is
true when nobody is in progress, and for each await at which the one request may
stand what is true there, so that the only places where a cache may be behind its
table are those between a write and the clearing that follows it in the same handler.

| Theorem | Statement | Argument |
|---|---|---|
| `LoginProofs!LoginOnce`, `GuessesBounded` | one request: `[]OneTimeUse` whatever reads fail, as long as no handler has died; without failed reads `GuessBudget`, and `CounterOutlivesOtp` until a handler dies | `SequentialInv`: counter and pending guess together account for every rejected guess, and the counter's time to live is at least the password's |
| `LoginProofs!LocksAreEarned`, `LocksRunOut`, `LocksCleanUp` | one request: `LockJustified`, `LockRunsItsTerm`, `CleanSlateAfterLock`; the last for `OtpExpiry <= LockDuration`, which are 10 and 15 minutes in the code | `LockInv`: the counter counts no more than the wrong guesses at the present password (`CounterEarned`); while the account is locked only the handler that locked it is in progress, and what it may leave behind runs out before the lock does (`LockAlone`) |
| `LoginProofs!SessionAfterSignIn`, `InactiveUntilAsked` | `[]SessionFollowsSignIn`, `DeactivationSticks`, for any users and entities from the cache | `Apart`: a stored session was signed in to, a refresh about to be stored is of such a session, and an entity about to be saved is inactive if its row is, unless its request asks for more |
| `LoginProofs!PagesFitTheQuery` | `[]ListsFitTheQuery`, all page sizes, all queries but a search for departments (finding 1) | `ListsInv` (`Current`): what is cached, and what a list has read of it, is what the table gives. `ChainIs` and `SelectedIsWanted`: for each service and set of terms the chained clause selects the rows that were wanted. The place of a row is the number of rows ahead of it, by a bijection between places and rows |
| `LoginProofs!WalksMissNothing` | `[]NothingMissed` | `Followed`: whoever has read up to a page has seen every row that stayed and stands before it. `NotMovedUp`: a write that takes none of the first n rows out moves no row up across the end of a page already read |
| `EntityCacheProofs!CoherentKeys`, `RemovedForGood` | `[]CoherentAtRest`, `DeletedStaysDeleted` | `Calm`: a key that does not show the row is one that the handler in progress has yet to delete (`Doomed`), so the DELs of the code cover what a save makes stale |
| `WorkItemsProofs!TitlesUnique`, `ParentsLive` | one request, no stale reads (which `CoherentKeys` justifies): `[]UniqueTitles`, `SavedUnderLiveParent` | `AloneInv`: what each look-up has established about the parent and about rows of the same title is still so when the row is saved |
| `RecordsProofs!RegisteredAreListed` | `[]NewOrgShowsUp` | `QuietInv`: before a COMMIT there is no list although it was cleared earlier, a list about to be stored has what was registered (`Shows`), and copies know whether their row is deleted (`AgreeBut`), so that no save from a copy hides one |
| `PermissionsProofs!GrantsKept`, `MenusCleared` | `[]GrantsAsAsked`, `[]MenusAreCurrent` | `CalmInv`: for each await what the request there has done to tables and caches (`Told`); a role is without rows only between its DELETE and its INSERT, and grants go by `Cascade` only where a module was reassigned |
| `StaffProofs!TeamsAsChosen` | `ChosenTeamsFit` | `InTurn`: a user's request takes no teams before it knows the department, and those it takes are in it; nobody moves a team meanwhile |
| `SavesProofs!ReportsCurrent` | `[]AnswersAreCurrent` | `CurrentInv`: an answer that is not current is under a pattern its handler has yet to delete; the four patterns match every key whose answer can change by the save |

### No interleaving

| Theorem | Statement | Argument |
|---|---|---|
| `SavesProofs!CalendarKept` | `[]PeriodsFitTheCalendar`, for every calendar of months with 28 to 31 days | `FirstDays`: the first days of the months follow one another by their lengths; `MonthIs`: a day is in the only month whose days include it; `BackToMonday`: `setUTCDate` goes to the Monday before, unless it leaves the month |
| `TypeCorrect`, `OtpTypeCorrect`, `SessionTypeCorrect`, `TenancyTypeCorrect`, `EntriesTypeCorrect` | the type invariants of `OtpLogin`, `Session`, `EntityCache`, `WorkItems`, `Tenancy`, `Attachments`, `DateWindow`, `Staff`, `Permissions`, `Access` | the typing part of the invariants above. `OtpTypeCorrect` includes that the counter stays within the limit (`SeenBelowLimit`: a verification past its check has seen fewer failures); the one of `Permissions` that grants refer to rows that are there and ids of new rows stay within the bound (`Numbered`: each assignment in progress has a batch left). Where a history flag is TRUE or FALSE is a step of its own, because it needs first-order reasoning about a truth value and the rest arithmetic and sets |

All rest on the named assumptions of the modules about constants (disjoint ids,
`None` outside the data, natural limits) and, where the statement says so, on
one request at a time. `WorkItems` with `StaleReads` lets `findOne` return any
earlier version of a row; `CacheLagsOnly` is the justification, for `Staff` too.

Two definitions are recursive functions, `FirstDay` of `WorkLogPeriod` and `Among` of
`Lists`. What they compute is proved by the least counterexample instead of an induction
theorem: if a claim fails for a number, it fails for a least one (`LeastNumber`, from the
well-foundedness of the natural numbers), and one unfolding of the function refutes that.

Only model-checked: liveness (`LockEnds`, `EventuallyCoherent`), which needs fairness
and so ENABLED, beyond the prover; and the two violations of section 3.

## 6. Not modelled

Assignees, owners, status and priority of work items (single look-ups without
consequences for other rows); sorting of lists by other columns and what they
join for display; renaming
in RBAC and its cached lists; users without an organization in `Staff`; the
throttler; e-mail content; configuration, logging, health checks and HTTP
plumbing.

## 7. Plan

Order of work, the most important behaviour first; all of these are done.

1. `OtpLogin` and its proofs. 2. `Session` and its proofs. 3. `EntityCache` against
`LaggingCopies`. 4. `WorkItems` and its proofs. 5. `DateWindow`, `WorkLogPeriod`.
6. `Tenancy`. 7. `Attachments`. 8. `Permissions`. 9. `RowSaves` and `Reports`.
10. `Access`: tokens, routes and key sets against time. 11. `Staff` with projects and
`switchOrganization`. 12. `Lists`: filters and paging.

Left for later:

- Assignees in `WorkItems`: users who leave the organization or are deactivated.
- Comments as a run of `Attachments` of its own, should they grow beyond work logs.
- Key sets, menus and lists as further implementations of `LaggingCopies`, which so far
  states what the cache of one row promises.
