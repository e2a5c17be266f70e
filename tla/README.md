# OpenBid in TLA+

Verification models of OpenBid: TLA+ modules translated from the Go sources,
TLC configurations that check them on small instances, and proofs checked by
TLAPS. Paths below are relative to the root of the repository.

To run: `tlc -config QueueCore.cfg MCJobQueue.tla` (each run's module and
configuration are in `PROJECT.json`), `tlapm JobQueueProofs.tla`.

## 1. Inventory of the system

OpenBid collects public tenders from procurement sites, stores them in one
SQLite database, extracts their documents and lets the members of tenants
search, bookmark and track them. Two processes share the database file:

* the **app** (`cmd/server`, `internal/app`): an HTTP server. It seeds the
  database when it starts and then serves requests concurrently;
* the **worker** (`cmd/worker`, `internal/worker`): one loop that checks due
  sources, cleans up old tenders and runs claimed jobs in a few goroutines.

They never call each other: every interaction is a row one of them wrote. Each
store method is one or more SQL statements; only a few of them (the claim of
jobs, the cleanup, the archive of jobs, the workflow and membership
replacements) are transactions. Most rows are JSON documents that are read,
changed in memory and written back whole. A third process, the extractor, is a
stateless HTTP service.

| component | state | operations | interacts through | what makes it hard |
|---|---|---|---|---|
| Extraction queue (`store/sqlitestore.go`, `worker/runner.go`, `app/workspace.go`) | `jobs`, `tenders`, `tender_filter_index`; the worker's claimed copies | queue, claim, extract, retry, skip, archive, requeue | rows of `jobs` and `tenders` written by both processes | stale copies written back whole, claims lost in a crash, rows in the way of a retry |
| Expired tender cleanup (`store/tender_cleanup.go`) | archive mark of tenders | list, archive, delete jobs | the queue, by deleting its rows | lists before its transaction |
| Source checks (`worker/runner.go`, `source/schedule.go`, `app/admin.go`) | `source_configs`, `source_health`, schedule settings | due, start, finish, manual request, pause, delete | health rows written whole by both processes | a request made during a check, a deletion during a check, restarts |
| Application start (`app/app.go`) | every seeded table | seed, startup sync | runs while the worker already polls | failures half way |
| Accounts (`app/actions.go`, `app/session_service.go`, `auth`) | users, session versions, MFA secrets and recovery codes, lockout counters | login, logout, MFA, password change, lock, unlock | whole user rows written by concurrent requests | lost updates of counters and one-time codes |
| Memberships and policy (`app/policy.go`, `app/admin.go`) | memberships of users in tenants | upsert, delete, tenant switch | concurrent administrators | the last owner of a tenant |
| Login rate limiter (`app/guardrails.go`) | attempts per key in memory | allow, add, reset | concurrent logins | check and count are separate |
| Operational alerts (`app/alerts.go`) | active alert set in memory | evaluate, notify, recover | health of the queue and the sources | restarts, failing deliveries |
| Smart alerts (`store/smart_keywords.go`) | switches, saved views, deliveries | save, trigger, test, deliver | a run for every tender the worker writes or a reprocess accepts | overlapping runs, mails without a record, records without a mail |
| Smart keywords (`store/smart_keywords.go`, `smartkeywords`) | groups, keywords, mode, matches | evaluate, reprocess, edit | runs inside every tender write | matches and tags stale after an edit |
| Keyword search (`store/keyword_search.go`) | keyword rows, match rows, refresh status of a user | save, delete, refresh, match a written tender | every writer of tenders, the cleanup | a refresh deletes and rewrites while others write |
| Tender store (`store/sqlitestore.go`, `store/tender_dedupe.go`) | tenders and their indexes | upsert, dedupe, filter | every writer of tenders | rows and indexes written separately |
| Schema migration (`store/sqlitestore.go`, `store/relational_helpers.go`) | schema version, tables, indexes, rows moved from JSON tables | open, migrate in one transaction | every process that opens the database, those that already serve | the version is read before the lock is taken |
| Workspace (`app/workspace.go`) | bookmarks, workflow, saved searches, caches | toggle, update, bulk actions | concurrent requests of one tenant | a cache emptied before the write, two statements for one change |
| Adapters, extractor, mail, templates, configuration | none | parsing, formatting, input and output | answers to the above | no state of their own |

What makes them correct, and where it can go wrong, is in `PROJECT.json` under
`hazards`, each at its line.

## 2. Plan

In this order, most important first:

1. `JobQueue` with `JobLifecycle` (its abstract specification) and
   `JobQueueProofs`: done.
2. `SourceCheck`, the health rows of sources under the worker and the admin
   handlers, with `SourceCheckProofs`; `Schedule` and `SourceSchedule`, the
   schedule in minutes: done.
3. `LoginRateLimiter` and `AlertMonitor`, the in-memory components of the app,
   with `LoginRateLimiterProofs` and `AlertMonitorProofs`: done.
4. `SmartAlerts` and `KeywordMatches`, two caches the tender writes keep up to
   date, with `SmartProofs`: done.
5. `Accounts`: users as rows written whole, lockout counter, one-time codes,
   session versions: done.
6. `Policy` and `Membership`: who gives which role to whom, owners of a tenant
   under concurrent administrators, the seeding and translation of roles, with
   `MembershipProofs`: done.
7. `Workspace`: bookmarks, workflows, saved searches and the cached home page:
   done.
8. `SmartEvaluation` and `SmartKeywords`: evaluation as a pure operator over
   groups, keywords and mode, reprocessing, seeds and the list of tenders: done.
9. `Migration`: the schema under processes of every release: done.
10. Proofs about the components of one run: `SettingsProofs` (2, 7, 8) and
    `RecordsProofs` (5, 9, and what the other modules prove of 3 and 6): done.

Duplicate merging was planned and is left out: `DeduplicateTenders` is called by
a test only. Every
invariant and every action property that a run checks is also a theorem; open is
only what the prover cannot express (end of section 6).

## 3. Modules

Every module says in its header what a step is. Definitions named `...` with a
comment "Mutant:" are plausible mistakes in the definition below them; nothing
uses them, and `PROJECT.json` says which property notices each.

### JobQueue, JobLifecycle

One step is one store call (one SQL statement or one transaction), made by the
loop of the worker (`Loop`), one of its job goroutines, the start of the app
(`Startup`) or a request handler. `pc` is the next call of each process and
`tid`, `ten`, `snap`, `claimed`, `held`, `outcome` are the copies it took from
earlier reads.

| state | code |
|---|---|
| `tenders`, `index` | `tenders` rows; `tender_filter_index`, written by a later statement of `UpsertTender` |
| `jobs` | `jobs` rows, with the unique index on tender and document (`Taken`) and the one maintenance job |
| `phase` | where the pass of `Runner.Run` is: sources, automatic cleanup, claim, jobs |
| `claimed`, `held`, `outcome` | the slice `ClaimDueJobs` returned, what each goroutine took from the channel and decided |
| `todo` | what the sources may list in this pass: any subset, in any order |
| `soonPassed`, `aged` | the two clocks the cleanup looks at |

Actions carry the names of the code (`UpsertRead`/`UpsertRow`/`UpsertIndex`,
`QueueJob`, `ClaimDueJobs`, `Start`, `Extract`, `Reload`, `UpdateJob`,
`UpdateStatus`, `ListDoomed`/`ArchiveDoomed`, `RequestExtraction`,
`RequestCleanup`, `MarkCleanup`, `RestartWorker`, `RestartApp`). With
`StoreMayFail` every call may also return an error and takes the error path.

`JobLifecycle` is what the queue promises about one job without tenders, copies
or processes. `JobQueue!LifecycleSpec` instantiates it: while the worker has a
copy of a job (`Stage`, `Tries`) the job is being processed, with the tries of the
copy, and otherwise it is what its row says.
Writing the refinement showed why the maintenance job needs `Drop` to leave a
queued job behind: `QueueExpiredTenderCleanup` overwrites a running one.

### Schedule, SourceSchedule

`Schedule` is package `internal/source`: the intervals, the backoff, the next
date and the status, as pure operators in minutes. `SourceSchedule` runs one
source through them: time passes, checks succeed or fail, administrators change
mode, interval, default and pause.

### SourceCheck

The same source as rows: `configs`, `health`, `paused`, read, changed in memory
and written back whole by the loop, the source goroutines, the start of the app
and the handlers (`CreateSource`, `UpdateSource`, `DeleteConfig`,
`UpdateSchedule`, `RequestChecks`). Dates are unset, to come or due, and of the
count of failures only whether there is one is kept (`SourceSchedule` has the
numbers). `Read` is what a reader gets of a row that is missing: the zero value,
which it may write back.

### LoginRateLimiter, AlertMonitor

`LoginRateLimiter` is the limiter of `guardrails.go` with the calls `Login`
makes around the check of a password. Times are ages in ticks, cut off beyond the
window, where the code does not tell them apart. Throttle events are kept in the
order they happened, as the code appends them under its mutex; what `pruneLocked`
filters out is therefore at the front (`Younger`). Which attempt fails is free, and
attempts overlap. `Snapshot` is the call of the alerts.

`AlertMonitor` extends it with `RunAlertMonitor` and `AlertNotifier`: the alerts
are evaluated one after the other while backups, extractor, job counts and
throttle events change, and then the two loops of `Sync` post what is new and
what is gone. A post is acknowledged, arrives without an answer (a timeout, an
error status) or is lost. `told` and `unsure` are history variables: what the
webhook knows and where the notifier cannot know it.

### SmartAlerts

The alerts of one tenant. A run is a call of `triggerSmartViewAlertsForTender` or
of `TestSmartViewAlert`; one step of it is one statement or one mail: it reads
the switches (`Trigger`, `ReadSwitches`), the views (`ReadViews`), and then for
each view and channel counts the rows of the dedup key (`Look`, `LookFails`),
mails (`Send`, `SendFails`) and inserts (`Insert`). The deliveries a run has to
make are a set of keys: which is first does not matter to any other run. As the
key holds the tags of the tender, a `Subject` is a tender with its tags; test
alerts are all about one subject. `SetSwitches`, `SaveView` and `DeleteView` are
the handlers, with the row they write as an input. `CutRun` is an end before the
end: the process stops, the request is given up, or the insertion fails, which
makes the code return. `promised`, `mailed` and `unsure` are history: what the
run is to deliver, who has mailed what, and which mails are sent but not
recorded.

### KeywordMatches

The search of one user. `RefreshKeywordMatches` is `SetRunning`, `ReadKeywords`,
`DeleteMatches`, `ListTenders`, a `WriteMatch` for each row and `FinishRefresh` or
`Fail`; it follows a change of a keyword (`SetKeyword`) or a request
(`AskRefresh`). A store of a tender is `UpsertTender`, `WriteTender`, `WriteIndex`,
`MatchTender`, `WriteMatch`, `WriteStats`. `Archive` is the transaction of the
cleanup. The page of the user joins the rows with the index of tenders: what it
lists (`Listed`) lacks the tenders that the index hides (`hidden`), which may not
be the archived ones when a store failed between the row and its index. A text is the set of words in it. The history says which rows are to be
exact: `stale` are operations whose copies have been outdated by somebody else's
change, `clean` is the refresh, if any, that has had no stale companion since it
deleted the rows, `doubt` are the tenders whose row is not known to be exact, and
`abandoned` the refreshes that were cut off.

`MCSmart` puts the two side by side: they share no state, and the first state
decides which of them moves, so that one run checks the sum of their states and
not the product.

### Accounts

One row of `user_records` and the sessions of its user. A handler reads the row
(`Keep` is the copy it goes on with), works, and stores it whole (`Store`), so
that the order of reads and writes of two requests is free. Passwords are
numbered in the order they are set, a session remembers the version and, as
history, the password it was issued for (`Pass`), and recovery codes are numbered
by the set they were made in. `Arrive`, `LoadUser` and `LoadMembership` are what
`RequireAuth` does for every page, the deletion of the session included and the
rewriting of secrets an old release stored unprotected (`Hydrate`). `undone` is
history: a copy was written over another password, or over other codes. The
properties hold until that happens; that it happens is section 7.

### Policy, Membership

`Policy` is the matrices of `policy.go` and who may manage whom, as operators.
`Membership` is the start of the app (`boot`: `seed`, the bootstrap tenant, its
owner, the translation of legacy roles user by user, all restartable anywhere)
and the handlers of administrators, each a sequence of reads (`MayAssign`,
`Existing`, `CheckOwners`, `FindId`) and one write. The id that a form may carry
can be one that the row of the member no longer has; no form of the templates does. The actor's roles are those
that `RequireAuth` read. `faults` is history: `blind`, an owner was removed on
an owner check that failed, was stale or was not made; `restored`, a role was
written back from an older copy.

### SmartEvaluation, SmartKeywords

`SmartEvaluation` is the evaluator on texts that are sets of words: standalone
keywords, groups with a minimum and an exclusion, tags. `SmartKeywords` is the
rows it reads and what is derived from them: `found` (matches), the tags in
`rows`, and `index`. The list of a tenant joins them (`Listed`) and computes
nothing. Writers store a tender in four statements, pages edit and then match or
reprocess, the seeds of a start are inserted row by row (`SeedGroup`,
`SeedKeyword`), the cleanup archives. `outdated`, `gone` and `doubtful` are
history: which operations hold what has changed since, and which parts of the
list they have written.

### Workspace

Bookmarks of persons, saved searches with the person they belong to, the workflow of
a tender and the end of its history. A search is stored by its id alone: with the id
of another person's row a save takes that row over, while only the owner can delete
it (`WriteSearch`). A request (`call`) is emptied of its rows one by one; a bulk form has
several tenders; a workflow and its event are two statements. `Arrive` empties
the cached page before the handler does anything, as `WithHomeCacheInvalidation`
does. The cache is one slot for everybody, computed by `Home` in one step from
the summary of the store.

### Migration

`Open`, `Begin` and `Commit` are `NewSQLiteStore` and `migrate`; between them a
transaction goes through the statements of its path: the aggregate one, from
before version 10, with deduplicated jobs (`Deduplicated`) and backfilled tables
(`Backfilled`), then versions 11 and 12. `Stop` is a failing statement or a kill
at any point. The rows of processes that serve meanwhile are added and deleted.

`Absent` declares `None` once for the modules that are checked together.
`MCRecords` puts `Accounts`, `Membership`, `Migration` and `LoginRateLimiter` side
by side, `MCSettings` `SourceSchedule`, `SmartKeywords` and `Workspace`, in the way
`MCSmart` does.

## 4. Runs

| run | instance | shows |
|---|---|---|
| `queue_core` | one document, two goroutines, two job identifiers, a handler, the startup sync | a processing row is always in the worker's hands; no document has two rows or is extracted twice at once, also when a copy is written back whose row the maintenance job has deleted and a request has queued anew; `JobQueue` implements `JobLifecycle` |
| `queue_faults` | two documents of one tender, one refused, kills and store errors everywhere | settled results stay, every pass ends (that tries are bounded is part of `JobLifecycle`) |
| `queue_settles` | one of each, fair worker, no faults | every queued job is settled or removed |
| `queue_requeue` | violation | a retry is answered "queued" and adds no job |
| `queue_stranded` | violation | a killed worker leaves a row in processing for ever |
| `settings` | intervals 10, 60, 180, ticks of 7 minutes, 7 failures; two keyword rows, a group, a tender with two texts, at most two operations at once; two persons, two tenders, two requests | dates follow settings, failures show, retries back off; the list of a tenant follows its keywords; the home page shows one's own changes, histories end with their workflow |
| `source_restarts` | empty database, startup sync, two goroutines, three kills | the running mark is owned, one check per source, checks go on |
| `source_errors` | one administrator, any call may fail | every row written back is consistent in itself |
| `source_stuck` | violation | a handler brings back a running mark and the source is not checked any more |
| `alerts` | a queue that is quiet or failing, posts that fail or half fail, throttle events of the limiter, one restart | the webhook is told every change once and, recoveries included, in the end |
| `smart` | two runs, one view, a mail and another channel, one unsure key; two requests, a writer, one tender, one word | mails are remembered, not repeated by a run and not made up, channels are not skipped; matches are exact outside `doubt`; "running" is true |
| `records` | two requests on an account with one change of password and two sets of codes; three users, three tenants of which two want one slug, two requests of administrators after a start on an empty or old database; two processes that migrate any release; two attempts to log in from two addresses, three failures in a window of two | sessions follow the password, codes work once, tenants keep owners, roles are translated and given by those who may, migrations are complete and bring nothing back, blocks follow failures |

Why the bounds are enough: all components are symmetric in tenders, documents,
sources and goroutines, and what their properties relate is a pair at most: two
rows of one document, two goroutines of one job, a copy and its row. Two
identifiers, two goroutines and one handler produce every such pair, and one
row already meets every interleaving of a stale copy. `MaxAttempts` is 2 instead
of 3 so that first, repeated and last try still differ. 7 failures are past the
point where the backoff reaches its limit (5 failures squared times 5 minutes is
125), and the ticks do not divide the intervals, so that dates are also passed
over. Window and limit of the limiter are such that a window's failures lie on
both sides of a restart of the window; the bound on the failures of a window in
`BlocksFollowFailures` is reached. In `smart` two runs meet at one key, and a run has a second key after
it; the rows of tenders and words do not depend on each other, and two requests
and a writer give every pair of operations that overlap on one row. What these
properties say of more is proved.

In `records` two requests on one row of a user give every pair of a read and a
write; the account moves no more once a copy was written over a change (`undone`),
for then the properties say nothing until the end. With one change of password
the exception of `SessionsFollowThePassword` is not needed yet: a version can only
come back after a second one, which the theorem covers. Three tenants, two of which
have one slug, let two administrators create the same one; an old database has all
old roles for three users in one tenant. Of processes that migrate two matter, one
that has the lock and one that has read before. In `settings` two operations on
smart keywords at once are one whose copies another makes stale; people either
keep bookmarks or edit workflows, which are different rows.

Fairness. The worker's loop, its goroutines and the seeding of the app go on
(weak fairness: they are goroutines that are never blocked for ever, and their
HTTP calls have timeouts); backoffs and dates elapse; a request that was begun is
carried on, but none has to be begun. The webhook needs strong fairness: a
webhook that is asked about a code again and again acknowledges some time. No
fairness is assumed of kills, of store errors, of changes of the world or of
administrators. `CHECK_DEADLOCK FALSE` is used in `records` only, where the requests
of administrators are a bounded number and a process that finds a newer database
does nothing: those parts stop.

## 5. What the violations show

* `queue_requeue`: `QueueJob` inserts with "on conflict do nothing". After a job
  of the document has settled, its row is in the way until it is archived, and a
  retry only changes the status of the tender. The test of the retry
  (`internal/app/app_test.go`) has no job row.
* `queue_stranded`: only the worker's memory leads a row out of processing.
  After a kill the row stays, and is in the way of a requeue as above.
* `source_stuck`: a handler that has read a running row writes it back after the
  check has ended. The mark excludes the source from checks until the worker or
  the app starts again.

## 6. Proofs

`JobQueueProofs`: the invariant `IInv` ties rows, copies and program counters
together. Neither `OneRowPerDocument` nor `ClaimsAreExclusive` is inductive: a
copy that is written back must be known to name the document of the row
(`SameDocument`), no two copies may name one document even when a row was deleted
and inserted again (`ClaimsApart`), no two goroutines may hold one copy
(`HandsApart`), and there are copies only while the pass runs its jobs (`Batch`).
`Locals` and `Hands` say what a process holds before each call. The effects of
the calls are lemmas over a row; one lemma per action shows that it keeps the
invariant. `NoRowIsStranded` needs the assumption that there are no kills and no
store errors: `queue_stranded` is what happens otherwise.

`QueueImplementsLifecycle` maps every step of the queue, those after kills and
store errors included, to a step of `JobLifecycle` or to none. Besides the invariant
it needs that the row of a job in the worker's hands, while it says processing,
counts the tries of its copy, and that only the row of the maintenance job can be
queued meanwhile (`Lockstep`). A step that writes one row is a `Move`
(`OneJobMoves`), a step that loses rows or copies of some jobs a `Drop` (`JobsGo`),
and a job that the worker lets go of without writing its row stays or goes
(`LetGo`).

`SourceCheckProofs`: `RowsInv` says that a process holds a row before each call
that writes one (`Locals`), that what a pass has still to take back or to check was
listed (`Lists`), and that goroutines and handlers work only while the loop waits
and the app serves (`Phases`); it holds whatever is killed or fails. The three
properties of the runs are each proved under the assumption that the code needs and
section 7 says why: a source is checked once at a time with at most one
administrator and a store that answers (`OneInv`: every key is stored once, and whoever
is about to store one has found it free); a status fits the failures unless the
first start checks the sources itself (`EveryCopyFits`: the copies have to fit too,
as any of them is written back); the running mark is owned when administrators leave
the rows alone and the store answers, which `source_stuck` is the counterexample to.
The runs use the same settings.

`SettingsProofs`, the schedule: both date functions give a date that fits the settings
they are called with (`InitialDateFits`, `NextDateFits`), and every action either
keeps date and settings or replaces the date. The backoff is monotone and within
its limits for every count of failures (`BackoffGrows`, `BackoffRange`).

`AlertMonitorProofs`: the message under way fits the loop (`PostFits`: a firing
message is about an inactive code, a resolution about an active one), and so the
active set is what the webhook was told, wherever posts fail.

`LoginRateLimiterProofs`: an entry counts the last failures of its address
(`Counts`): as many as it says are not older than its window, the ones before are
not younger than its start and belong to one window at most, and when the window is
over, its own failures are all that is left to remember. That is what an edge of a
window, a pruning or a restart of the count must keep (`OlderCounts`,
`PrunedCounts`, `FailureCounts`), and both halves of `BlocksFollowFailures` follow.
The list of throttle events and those of failures are in order, so that what is
forgotten is a front of them (`OlderFirst`), which needs a smallest element and
thus `WellFoundedInduction`. `AlertMonitorProofs` shows that the limiter under the
monitor makes no step it would not make alone (`LimiterIsAComponent`), and takes
its types from there.

`SmartProofs`, the alerts: what a run holds fits its next step (`Hands`), and a mail
that is recorded as sent, or is about to be, was sent (`OutcomeIsTrue`). That a run
does not repeat itself is not inductive: it follows from `MailIsRemembered`, said
of each run that has mailed a key. Steps of other runs disturb neither, which one
lemma says for all actions.

`SmartProofs`, the keyword search: `MatchesAreExact` needs to know what the copies that are
still to be written are worth. An operation that is not stale has read the
keywords and tenders as they are (`ReadersAgree`), and the rows a clean refresh has
written, with those it has still to write, are the exact ones for all tenders
(`CleanIsComplete`), whoever else wrote in between.

`SettingsProofs`, the smart keywords: a page whose rows nobody has changed meanwhile
holds what the rows say, and a writer the keywords they had when it read them
(`CopiesAgree`); the index of a tender is that of its row (`IndexIsRight`) and its
match what the evaluator says of it (`MatchIsRight`), unless they are `doubtful`.
The list joins the two, and so shows what the keywords accept. Proving it found an
action of an earlier version of the model that gave one history variable two values
and so never happened; saving the settings and the cleanup are in the runs since.

`RecordsProofs`, the accounts: versions count the changes of the password as long as nothing was
undone, and then version and password are one number in the row, in every copy of it
and in every session (`VersionIsPassword`); that no copy is ahead of the row's history
(`VersionsFit`) is needed for the step that counts on. Codes that have been accepted,
or are in a list, were made before (`CodesAreMade`), so that new ones are different.

`SettingsProofs`, the workspace: a request that is to write a row of a person, or to take
one over, has emptied the page when it arrived, and a page computed since knows of it
(`NothingLeft`), so that all others change nothing on it; the history of
a tender ends with its workflow unless an event is to be written (`Awaited`) or the
tender is `unsure`.

`MembershipProofs`: `MembersInv` says what a request holds at each of its steps
(`RequestFits`) and that this was checked against the actor (`GrantFits`); that
members are users (`MembersAreUsers`); how far the translation of old roles has got
(`TranslationGoesOn`), which visits users one by one and may be started again
anywhere; that the role a user would be translated to is the one last given
(`GivenIsDesired`), whose first membership is found by `WellFoundedInduction`; and
that a request which has found another owner still has one (`SureHasAnother`), which is
what the removal of an owner relies on. `GrantsAreOwned` is two action properties, of
rows (`RowsAreOwned`) and of super administrators (`SuperAdminsAreMade`).

`RecordsProofs`, the migration: a database that is not current is the first one, untouched
(`DbFits`). So whoever migrates has read the version of the first database
(`StagesFit`), even if another was faster, and the transaction has, stage by stage,
what the stages before it made (`TxFits`). Nothing was deleted when backfills run,
unless a process was late (`DeletedIsGone`). Deduplication keeps for each job one
that stands for it, which is transitive (`StandsForIsTransitive`).

Modules that are checked side by side (`MCRecords`, `MCSettings`, `MCSmart`) have
theorems that a behaviour of the whole is one of each component
(`RecordsAreComponents`, `SettingsAreComponents`, `PartsAreComponents`): what is
proved of a component holds in the run, bounds or not, and the types of the whole
follow from those of the parts.

The assumptions are the ASSUMEs of the modules: identifiers and processes are
apart, bounds are positive; in `Membership` also that the values of steps, users and
forms are not one another, and in `SourceCheck` the ones named above. TLC evaluates
them in every run.

Only model-checked are the four liveness properties, `JobsSettle`, `PassesEnd`,
`ChecksGoOn` and `AlertsArrive`: the prover has no rule for fairness. Every other
property of a passing run is a theorem.

## 7. Known to fail, without a run

These are in the models, and TLC finds them when the property is written down;
`PROJECT.json` lists each as a hazard with its reason:

* `UpsertTender` has four statements, and a cleanup in between is undone; row and
  filter index then disagree. The cleanup in turn writes back listed copies.
* A manual request that arrives between the listing of the sources and the start
  of the check is overwritten.
* Two administrators who create a source with one key at the same time both
  succeed, and the source is checked twice in parallel.
* The startup sync stores a failed first fetch as failed with no failures.
* A resolved alert whose answer was lost is not posted again when it comes back
  in the next round.
* Two runs for one tender that both count before either inserts send two mails.
* A delivery that failed or was skipped counts as a duplicate ever after, and one
  that is `pending_digest` is never taken up.
* A writer sets the status of a profile to "success" while a refresh of it is
  under way or has failed, with matches missing.

* A login or a page of a user writes back a row it read before somebody reset the
  password, locked the account or changed the role, and undoes that; a recovery
  code that two logins try at once lets both in.
* The rule of `docs/authorization-model.md`, that a tenant must retain at least one
  owner, does not hold: tenants lose their last owner when two administrators remove one each, when the
  list of owners cannot be read, or when a member becomes an owner between the
  check and the write.
* Two administrators who create a tenant with one slug both succeed.
* A process that read an old version and gets the lock after another has migrated
  replays the backfills: JSON rows of tables that have been emptied come back.
* An archived tender is listed again when a writer that read it before stores it.
* Keywords of the seed file that were deleted come back at the next start of the
  app, as the seeds are compared with what is there.
* A home page computed during a request of its person, or of one who saves over a
  search of that person, is cached with old counts.
* A saved search whose id is sent with another person's form changes its owner.

## 8. Not modelled

The adapters, the extractor, mail transport, templates, configuration and the
maintenance commands keep no state of their own: their answers are inputs of the
models. The merging of duplicates (`tender_dedupe.go`) has no caller but a test.
Queries, filters, pages and exports only read. In `Accounts` hashing, encryption
and one-time passwords are verdicts; in `Workspace` the event of `ResetWorkflow`
lacks the user, which no property looks at, and archived tenders in the counts of
the home page are left out; `SmartKeywords` has one tenant, as no statement touches
two. The audit log and the `sync_runs` log are written and never read back by the
components modelled.
