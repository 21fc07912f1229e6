# TLA+ specifications of pinejs

pinejs runs SBVR models as an OData API on a database: it parses and compiles
requests, runs them in database transactions with hooks around them, executes
migrations of its models, stores uploaded files, and executes tasks from a
queue in the database. Most of its faults that tests hardly reach lie where a
database transaction, a timer, a closed connection, a second process or a
crash meet. These modules specify those parts, TLC checks them on small
instances, and TLAPS proves some of their properties for instances of any size.

Paths are relative to the repository. Each definition that stands for code is
listed with its lines in `PROJECT.json` ("map").

## The system

| Component | Source | State | Operations | What is hard | What makes it correct |
|---|---|---|---|---|---|
| Transactions and pool | `src/database-layer/db.ts` | pool of `pg` clients, query queue of each, `Tx` objects with `closed`, listeners, `AutomaticClose` | `transaction`, `readTransaction`, `executeSql`, `end`, `rollback`, `asReadOnly`, `dropTable`, `getTxLevelLock` | the callback, the timer, a closed request and a broken socket end the same transaction at once; `release()` acts on whoever holds the client | a query travels only on its transaction's connection; listeners are told the truth; connections come back |
| Task queue | `src/tasks` | `task` table, `Worker.handlers`, `running`, `currentConcurrency` | `addTaskHandler`, `addCronTask`, POST / PATCH of tasks, `start`, `stop`, `poll` | several processes lock rows with `SKIP LOCKED`; clients PATCH rows being executed; a handler that throws ends the process | one executor per task, bounded attempts, jobs end, cron tasks recur until cancelled |
| Task scheduling | `src/tasks` | the scheduled time of a row | POST hook, poll, next task | two clocks and two roundings | an occurrence is executed once |
| Migrator | `src/migrator` | `migration` and `migration status` tables, advisory lock, timers of the runners | sync `run`, async `run`, runner, batch | a lock that lives in one transaction guards another; old and new releases run together; crashes between two commits | one batch at a time, sync parts run once, statuses are not overwritten, migrations go on until they are finalized |
| Request lifecycle | `src/sbvr-api/sbvr-utils.ts`, `control-flow.ts` | `transactions` of a request, `pendingAffectedIds` | `runODataRequest`, `runTransaction`, `runChangeSet`, `tryCancelRequest` | 'close' comes at any moment, after success too; parts of a batch run one after another or all at once | a part is all or nothing; side effects are undone if and only if the part is |
| Hooks | `src/sbvr-api/hooks.ts` | rollback functions of side-effect hooks | `runHooks`, `rollbackRequestHooks`, `registerRollback` | a rollback may run while its hook does | each rollback runs once, and for a failed part only |
| Web resources | `src/webresource-handler` | files at a provider, columns that refer to them | upload middleware, PRERUN and POSTRUN-ERROR hooks, deletion of replaced files | files are uploaded before the transaction and deleted after it | a row never refers to a deleted file; an unreferenced file is at last deleted |
| Multipart uploads | `src/webresource-handler/actions` | `multipart upload` table, uploads at the provider | `beginUpload`, `commitUpload`, `cancelUpload` | provider and database change one after the other; two actions find one upload pending; the trial PATCH takes a second connection | a record says what the provider did; an upload is completed together with its row |
| Permissions and login | `src/sbvr-api/permissions.ts`, `user.ts`, `src/passport-pinejs` | permissions of the guest and lookups, both memoized; sessions | lookups, checks, `canAccess()`, `addPermissions`, relationships that are rewritten | nested `and` / `or` with links that form circles; the guest's permissions are read by requests that need them | a request gets the rows that its permissions grant, no more and no less, in any version |
| URI parser | `src/sbvr-api/uri-parser.ts` | memoized queries | `parseOData`, `translateUri` | change sets that refer to earlier parts | parts run in the order of their references |
| Versions | `src/sbvr-api/translations.ts` | renames and definitions of each version | `translateAbstractSqlModel`, bound constrained tables | a definition reads a table of the next version, and others besides | permissions go down the chain with the table, whatever the version asked for |
| Config loader and execution of models | `src/config-loader`, `src/server-glue`, `executeModels`, `sync.ts` | rows of the `model` and `migration` tables, `cachedIsModelNew`, `pendingUnsetMigrations` | `init`, `loadConfig`, `executeModels`, `run` and `postRun`, `postExecuteModels` | instances start together, each in several transactions; what the first one reads and skips decides in the last one; nothing locks a new model | a migration is recorded if and only if the tables have it, and runs on tables that lack it; `initSql` runs when its model is new |
| Session store | `src/pinejs-session-store` | `session` table | get, set, touch, destroy | expiry against concurrent requests | an expired session is never used |
| Cached compile | `src/sbvr-api/cached-compile.ts` | cache in memory and in a file | `cachedCompile`, `clearCache`, save | a debounced save against a clear | a hit is what compiling gives |
| Others | `abstract-sql.ts`, `odata-response.ts`, `errors.ts`, `odata-metadata`, `bin` | none, or a library's | | | not modelled: pure functions over text, I/O |

How they interact: a request runs each of its parts in a `Tx`, puts listeners
on it, and rolls it back when the HTTP connection closes. Hooks run inside that
transaction; web resources hang their clean-up on its 'end' and 'rollback'.
Workers and migration runners hold a `Tx` as long as they work: the row lock
and the advisory lock are those of the transaction. Both send requests through
the API as well, in the same transaction (`passthrough.tx`).

The constrained tables of `permissions.ts` are those of the newest version, to
which `translations.ts` leads; the upload actions run a PATCH through the API,
with the hooks of the web resources, in the transaction of their action.

## Plan

The order is that of how much rests on a part.

1. `Tx` (refines `AtomicTx`), `TxProofs`.
2. `TaskQueue`, `TaskSchedule` and their proofs.
3. `AsyncMigration`, `AsyncMigrationProofs`.
4. `Request`: the parts of a batch, change sets, actions, side-effect hooks and
   `tryCancelRequest`; `RequestProofs`.
5. `WebResource`: files, rows and the two listeners; `MultipartUpload`: begin,
   commit and cancel; the proofs of both.
6. `PermissionFilters`, the algebra of checks and filters; `Translations`, the
   versions of a model; `Credentials`, the logins, requests and caches that a
   decision rests on, and `CredentialsProofs`; `Permissions`, which puts them
   together, against a reference semantics of what is granted.
7. `ModelExecution`, the start of instances on a database that is empty, or that
   an older release uses; `ModelExecutionProofs`.

All of these are done. What would come next, in this order: an abstract
specification that `Request` implements; the composition of `ModelExecution` and
`AsyncMigration`, whose setup begins where the former ends; nested transactions
on one pool, across workers, runners and requests.

## Modules

### Tx, AtomicTx

JavaScript runs one callback at a time, so an action of `Tx` is what the code
does between two awaits.

| Model | Code |
|---|---|
| `pc`, `client`, `closed`, `statements` | the callback of `createTransaction`, `PostgresTx.db`, `Tx.closed` of the transaction and of its read-only clone |
| `holder`, `queue` | the pool's clients, `client.queryQueue` with the active query first |
| `session`, `durable` | the server's transaction, the committed data |
| `Connect`, `ConnectFails` | `createTransaction`, `pool.connect()` |
| `Execute` | `executeSql`, `dropTable` |
| `End`, `PreCommitDone`, `SendCommit`, `ServeCommit`, `CommitRefused` | `end()` before and after its awaits, `_commit` |
| `Throw`, `Cancel`, `TimerFires`, `SendRollback`, `ServeRollback`, `RollbackTimeout` | `rollback()` by the callback, by another party, by `AutomaticClose`; `_rollback` |
| `Disconnect`, `Destroy` | the 'error' listener of `initPool`, `release(err)` |

`Closed`, `Usable` and `Release` are where the code's subtleties sit:
`closeTransaction` replaces the methods of one object, so a clone, a running
`end()` and `$executeSql` are not closed; `release()` frees the client for
whoever holds it now.

`AtomicTx` says what callers rely on: writes appear together or are lost, and
listeners learn which: 'rollback' listeners, which delete an uploaded file,
never run for writes that are committed, and 'end' listeners, which delete the
file it replaces, never for writes that are not. `AtomicSpec` is its
specification under the mapping `Stage`.

`SafeUse` names the combinations the code is safe for: preCommit listeners that
await and `dropTable` without a third party or timer that may roll back, and
`readTransaction` without a timeout. Outside of it `tx_hook_race` shows what
happens, and so does `tx_safe` with a reader in `Timed`.

Abstractions: a statement reads or writes, fails or not, and carries no data.
`disableAutomaticClose` is left out, and so are the replica pool, prepared
statements and the other engines.

### TaskQueue, TaskSchedule

`TaskQueue` has the rows, the pollers of each process, and the PATCHes that
wait for a row lock. A poller is `polling`, `sleeping`, `executing` (its
transaction holds the row lock from the SELECT to the COMMIT) or `severed` (the
connection is lost, the handler still runs). `Take`, `TakeNothing`, `Wake` and
`Finish` are the awaits of `poll()`; `Updated` and `Recurs` are `update()`;
`AddCron` and `UpdateCron` the two requests of `addCronTask`. A PATCH that
waited is applied by postgres to the row as it is then (`Unlocked`): it changes
a row that still matches, and never the one created meanwhile.

Times are abstract there: `unset`, `later`, or `due` when a poll's look-ahead
reaches them (`TimePasses`), which may be before they have come (`TimeComes`);
`past` has the order of those that have come, for `First`, the `ORDER BY` of the
poll. `TaskSchedule` has times as numbers: the POST hook, the look-ahead of the
poll with its rounding, the next occurrence, and the difference of the two
clocks (`Skew`, either way). A tick is half a second in its runs.

Abstractions: a cron task is the latest row of its handler, as the unique index
allows one that is queued; a handler returns one of `Outcomes`; parameter
validation fails like a handler that returns `failed`.

### AsyncMigration

`phase` is the setup of a process: it waits for the blocking lock, holds it
until its setup transaction ends, and is up. `runner[i][k]` is a runner: its
timer is set (`scheduled`), it holds the lock and runs a batch (`migrating`),
it has lost the lock and the batch still runs (`adrift`), or the batch is over
and the status is to be written (`recording`). `Begin` is `readMigrationStatus`
and the start of `migrationTx`; `BatchCommits` and `BatchFails` its end;
`Recorded` what the code makes of the status, `Record` the update and COMMIT of
the management transaction.

One advisory lock serves all models: `lockMigrations` hashes a constant.

Abstractions: postgres; the model was executed before, and the migration tables
exist (`ModelExecution` has the case where they do not). `error_count` counts modulo `errorThreshold`, all the code asks of it.
Ages 0, 1 and 2 stand for less than `delayMS`, less than `backoffDelayMS`, and
more. A timer that finds the migrator disabled, the lock taken or the last run
too recent changes nothing. What the setup does is applied when it commits. A
blocking request that waits gets the lock before one that does not. A crash
rolls back all the transactions of a process at once, and errors are instances
of `Error`.

### Request

`at` is where `runODataRequest` is with request `<<part, sub>>`: the parts of a
batch come one after another, and the requests of a change set are all prepared
before its transaction begins and then run one by one.

| Model | Code |
|---|---|
| `PreParsed`, `Parse`, `Prepare` and their failures | `runHooks('PREPARSE')`, `parseOData`, `prepareRequest` |
| `Begin`, `Enter` | `runTransaction` or `runAction`; `transactions.push(tx)` and the 'rollback' listener |
| `Query`, `Respond`, `RunFails` | `runRequest`: PRERUN hooks and the query, then POSTRUN and PRERESPOND hooks; a throw from any of them |
| `End`, `Commits`, `CommitFails`, `Unwind`, `RollsBack` | `createTransaction` around the callback |
| `Close` | 'close' of the request or of the response: `tryCancelRequest` |
| `hook`, `HasEffect`, `RollbackHook` | `SideEffectHook`, `registerRollback`, `rollbackRequestHooks` |
| `Resolve` | `mapTill`, or `settleMapSeries` for `odata.continue-on-error` |

A transaction is what `AtomicTx` says of its writes and its listeners. When
COMMIT fails the server may have committed all the same (`unheard`) or not
(`lost`); the code is told of an error either way. `stray`
hooks are those of a `Promise.all` of which another has thrown. `cutOff` records
the transactions that a close has found open.

Abstractions: a part's data, its SQL and its permissions; one side-effect hook
for each request; the rollback functions of one hook are called in a row; an
action is one query in its transaction; POSTRUN-ERROR hooks count as hooks of
the phase that failed.

### WebResource

A request that is multipart starts in `getUploaderMiddlware` (`at` is
`"upload"`): each of its files is `sending` until `handleFile` settles, and
`formOver` is busboy's 'finish'. It then runs in its transaction: `Begin` and
`Prerun` are the PRERUN hook until `getAffectedIds`, `Read` the hrefs it
replaces, `Write` the statement. Both `getAffectedIds` and the statement look
for the row with the WHERE of the request, its `$filter` and permissions: for
requests in `Filtered` each of them may or may not find it, whatever the other
did (`found`, `wrote`), since what the WHERE asks may be changed in between, in
this row or elsewhere. `Commits` and `RollsBack` run the listeners. `file` is the provider: a file is `condemned`
while there is a task to delete it, which `Remove` executes.

Abstractions: a PATCH or DELETE is for one row; a PATCH that is not multipart
sets its fields to null, all that clients may; uploads that are not valid are
not in the form; tasks are available (postgres).

### MultipartUpload

| Model | Code |
|---|---|
| `Connect`, `FakeTx`, `GivesUp` | `runAction`, the transaction of `runFakeDbPatch`, `connectionTimeoutMillis` |
| `FakePatch`, `FakeRollback`, `FakePatchFails` | the PATCH with `fake_patch`, always rolled back |
| `ProviderBegin`, `ProviderCommit`, `ProviderCancel`, `ProviderRefuses` | `multipartUpload.begin`, `commit`, `cancel` of the handler |
| `FindPending` | `getOngoingUpload` |
| `PatchStatus`, `PrepareRow`, `WriteRow` | the two PATCHes of `commitUpload`, side by side: `todo` has what is left of them |
| `MarkCancelled` | the PATCH of `cancelUpload`, before the provider is called |
| `Commit`, `CommitFails`, `RollsBack`, `Fails` | the end of the action's transaction, with the listeners of the row's hooks |

`rowLock` and `uploadLock` are the row locks of the two tables. `row` is the
field of one row; `Others` clear it or delete the row. `deleted` has the files
given to `deleteFiles`, whose tasks `WebResource` has. The provider is outside
the repository; it is taken to store or give up an upload that it has open, once.

Abstractions: `PrepareRow` merges the two reads of the PRERUN hook, which
`WebResource` has apart; payloads, parts and expiry are left out; and so is
a begin inside a transaction of its caller that has already written the row,
where the trial waits for a lock its own caller holds.

### Credentials, PermissionFilters, Translations, Permissions

`PermissionFilters` has the pure part of `permissions.ts`. A filter is a tree:
`Join` is what `nestedCheck` makes of the results of an `and` or an `or`,
`Lookup` is `getPermissionsLookup`, `Check` is `$checkPermissions` with the
scopes of a resource, `Expand` is `generateConstrainedAbstractSql` with its
`canAccessFunction`, and `Admits` gives a filter its meaning on rows.
`Parsed` is the tree of a condition's text: a plain condition, a `canAccess()`,
or an `and` and `or` of such. `Shortcut` is when `rewriteRelationship` leaves the
filter of an expanded resource out: when there is a `canAccess()` back to the
resource expanded from, anywhere in that tree and through any relationship.

`Translations` has the tables that a resource of an old version is read from:
`Base` follows `From`, which goes down with the check it was asked with
(`FromTable`), and `InnerTables` are those read in `Select` and `Where`, with
the permissions of a GET.

`Credentials` is the state machine around them: which permissions a request is
decided on. It leaves open what they come to (`AnswerOf`), and so can be reasoned
about without the trees of filters; `Permissions` gives that (`Decision`), with
the reference semantics to compare it with.

| Model | Code |
|---|---|
| `grants`, `Held`, `Revoke` | the tables of permissions and roles, `getUserPermissionsQuery`, `getApiKeyPermissionsQuery`; a grant that is deleted or expires |
| `CheckPassword`, `GetUserPermissions`, `Logout` | `checkPassword`, `getUserPermissions`, what passport puts in the session |
| `FindGuest`, `GuestFound`, `GetGuestPermissions`, `GuestFails` | `getGuestPermissions`: the user `guest`, its permissions, the promise that is kept |
| `FindKey`, `GetKeyPermissions` | `getApiKeyPermissionsAndActorId` and its two queries |
| `GetReqPermissions`, `LookupOf` | `getReqPermissions`, the memoized lookup |
| `Answer`, `Decision` | `addPermissions` and the query; the canAccess action; `checkPermissionsMiddleware` |

Every query that `permissions.ts` makes runs as `rootRead` through the same code
(`RootReads`), which is why requests wait for requests.

Abstractions: a plain condition is the set of rows that meet it; a `canAccess()`
is on a relationship of the resource itself, neither under a `not` nor inside an
`any` of the filter's own; the eviction of the lookups'
memo is left out, and so are the caches of user and key permissions, which are
off by default; fields are left out, and so is the SQL of a definition but for
the tables it reads. `FilterAssumption` has every row refer to a row of another
resource that it has a link to: with full access to that resource the code
makes the link true, for rows without one as well.

### ModelExecution

`phase` is the transaction that an instance is in: `setup` has the standard
models, then one `loadConfig` the migrations model and one the application, and
`postSetup` comes last. `at` is how far a model got in it.

| Model | Code |
|---|---|
| `Start`, `Commit`, `Exit` | `init`, the end of each of its transactions, `process.exit` or a crash |
| `Cache`, `IsNew` | `cachedIsModelNew`, `isModelNew` |
| `RunNothing`, `SkipMigrations` | `run` of a model without migrations, and of one that is new |
| `LockMigrations`, `ExecuteMigrations` | `lockMigrations` with what it finds recorded, `executeMigrations` and the update of the record |
| `CreateTables`, `PostRun` | the statements of `createSchema`; `postRun` and `updateModel` |
| `pending`, `PostExecute` | `pendingUnsetMigrations`, `postExecuteModels` |
| `shape`, `record`, `known` | the tables of a model, its row in `migration`, its rows in `model` |

A transaction reads what is committed and what it wrote itself (`Shape`,
`Record`, `Knows`). Who writes a row or a table that another transaction has
written waits for it; if postgres then reports a violated key or a deadlock, the
transaction fails and the process ends, which `Exit` allows at any step.

Abstractions: a scenario is what the database has at first and who starts on it;
the tables of a model are the set of migrations that they have, all
of them when they are made by `CREATE TABLE`; a model is listed by one row; a
migration that fails is an `Exit`; `loadConfig` of the tasks and of the web
resources go like that of the application, and so do custom server code and the
users of a config; asynchronous migrations are `AsyncMigration`'s; and a model
does not wait for the one that it translates to.

## What TLC checks

Runs that pass:

| Run | Properties | Instance |
|---|---|---|
| `tx_safe` | `OwnConnection`, `CleanPool`, `SettledIsAnnounced`, `AtomicSpec`, `ConnectionReturned` | three transactions (one timed that may hang, one hooked, a reader), two connections, a statement each, one fault |
| `task_safe` | `ExecutesAlone`, `AttemptsCounted`, `ExpressionKept`, `JobCancelled` | two processes, a job, a cron task, two attempts, one fault |
| `task_live` | `ExcessStops`, `TasksGoOn` | a process of two pollers, a job, a cron task, one fault, one `stop()` or change of the limit |
| `sched_once` | `NextIsCreated`, `OccurrenceOnce` | interval 1.5 s, which the poll rounds up to 2 s, period 3 s, postgres half a second ahead, 12 s |
| `mig_safe` | `OneBatch`, `SyncOnce`, `IntervalKept` | an old process and two new ones, two migrations of which the new ones finalize one and clients PATCH the other, a crash, a lost lock, a toggled migrator |
| `mig_live` | `RecordIsCurrent`, `ConvergedOnce`, `MigrationGoesOn` | two processes, a crash, two lost locks, two failures, a new row |
| `request` | `UndoneRightly`, `PartIsAtomic`, `AnswerIsTrue`, `CancelIsComplete` | a change set, a batch of two that continues on error, a batch with an action in front, an internal request with and without a transaction; a side effect for each request, two closes, one fault |
| `web` | `NoDangling`, `FilesAreCleared` | a PATCH of two files, with a filter, a PATCH to null and a DELETE of one row, a POST, one fault |
| `upload` | `TypeOK`, `NoDangling`, `StatusIsTrue`, `CompletedWithItsRow`, `ActionsEnd` | two uploads for one row, two commits, a cancel, a PATCH to null or a DELETE, a pool of two, one lost answer |
| `exec` | `TypeOK`, `FirstRunRecorded`, `RecordIsTrue`, `UpIsCurrent`, `AppliedOnce` | two instances that start on an empty database, or beside one of the release before and on its database, with a migration for the dev model and one of the application's, and a new model with an `initSql`; the standard models, the migrations model and two of the application; any of them ends and starts again at any step |
| `access` | `TypeOK`, `GuestsAgree`, `ShowsGranted`, `ExpandShowsReadable`, `PermissionsKnown` | two resources of three rows, linked both ways and one to itself, an older version of both; two relationships from one of them to the other, of which only one has permissions; a user with sets of plain, linked and compound permissions (an `or` and an `and` with a link), a key with a role, the guest with or without a permission; two requests of eight kinds, one revoked grant, one read of the guest's permissions that fails |

Every property is about at most two actors on one resource and one fault, and
the instances have one actor more than that, or one fault more: two connections
for a stale release to hit the wrong transaction, a second poller or process to
take what the first one lost, an old release beside new ones. `exec` has as many
faults as there are steps. Bounds
(`MaxStatements`, `MaxFaults`, `MaxMoves`, `Horizon`) are guards of the actions
they limit. `CHECK_DEADLOCK FALSE` stands where the system ends: transactions
that are all over, requests that are answered, and the horizon of the schedule.
`TasksGoOn` has no premise for jobs with a time: the poll takes the earliest
first, and a cron task that recurs comes behind them at last. A job without a
time comes last in that order, and nothing in the code keeps a cron task that is
always due from starving it; it is over at last if polls find no cron task again
and again. That is said of the polls, so the cron task may recur and be executed
all the while. `task_live` has no rows from before its start; those of
`task_safe` may be there. In `sched_once` the rounding adds half a second and
the clocks differ by another: an execution that is over within a second of its
poll does recur for the same occurrence, and every later one does not. Four requests meet on the row of `upload` besides the two that begin, on a
pool that all but two of them wait for. `access` evaluates its properties at
each answer, so that it compares the filters of the code with what is granted
for every set of permissions, with each state the caches can be in.

For each of these properties `PROJECT.json` names a fault of the code, written
as an operator beside the one it changes (`\* Fault: ...`), that breaks it.

`TypeOK` is checked where it is not proved, and for `MultipartUpload`, where it
says more than types: a request holds the connections that its place has.

A run that is to fail shows where the code does otherwise than its documents
say. `PROJECT.json` ("findings") quotes them.

| Run | Property | What happens |
|---|---|---|
| `tx_hook_race` | `OwnConnection` | `end()` resumes after a rollback and sends COMMIT on a released connection |

More were met while modelling and are stated by no run; the properties have
premises or exceptions for them:

* The PRERUN hook of a PATCH or DELETE with files finds its rows
  (`webresource-handler/index.ts:472`), and the statement finds them again. A row
  that stops to match in between is not written, but the 'end' listener deletes
  the files it still refers to (`index.ts:501`); one that begins to match is
  written with files that were deleted because the hook found none
  (`index.ts:480`), as when a POST commits it in between. `Torn` names exactly
  those files, and `NoDangling` is about all others.
* A `canAccess()` back to the resource an expand starts from drops the filter of
  the target as a whole (`permissions.ts:878`). The rows shown may be read by
  themselves if the relationship expanded is itself one that they may be read
  by: a condition of its own or an alternative of an `or`. Through another
  relationship of the two resources, or when the link is part of an `and`,
  others are shown as well. `DroppedWrongly` says when, and `ExpandShowsReadable`
  is about all other expands.
* A poll looks `queueIntervalMS` ahead, rounded up to seconds, by the clock of
  postgres (`worker.ts:232`), and the next occurrence is looked for from the end
  of the execution by the clock of the process: one that is over within the
  rounding and the difference of the clocks is executed for the same occurrence
  again. `OccurrenceOnce` has that exception and no other.
* A cron task that is cancelled while it is executed recurs: its new row is
  queued, and the PATCH that waited finds the old one finished
  (`worker.ts:169`). `JobCancelled` is about tasks that do not recur.
* When the connection that holds the migration lock is lost during a batch,
  neither 'rollback' nor 'end' of its transaction runs, and another runner starts
  a second batch beside the first (`async.ts:255`); `OneBatch` ends with the
  first connection lost.
* The lookup of a list of permissions is kept by that list alone
  (`permissions.ts:372`): who holds just what `rootRead` has is decided on
  without the permissions of the guest, if `rootRead` came first; `Ordinary`
  leaves such requests out.
* The migrations that the standard models skip on an empty database are recorded
  by the last transaction of the start (`sbvr-utils.ts:807`). An instance that
  starts, or starts again, between the migrations model and that transaction
  runs all of them on the new tables. `AppliedOnce` is about pine's own models
  from their second release on, and `FirstRunRecorded` about starts that do not
  end halfway.
* `cachedIsModelNew` is read in the first transaction of a process
  (`sbvr-utils.ts:419`). When another instance then commits a new model, this one
  takes it for new all the same and runs its `initSql` a second time:
  `UpIsCurrent` says that it has run, and not how often.

The models also behave as follows, where a reader of the code or its documents
may expect otherwise. The properties above are stated so as to allow it:

* The timer of `readTransaction` closes the transaction it was made for; the
  callback has a clone (`db.ts:780`) that goes on to query the released
  connection. `SafeUse` excludes it.
* A callback that swallows a failed statement and returns: COMMIT rolls back,
  and the 'end' listeners run (`db.ts:424`). `Lenient` names such callbacks.
  The one of `tx_safe` has no other statement whose write would be lost so;
  `ImplementsAtomicTx` is proved for any number of statements and excludes them.
* A COMMIT that the server refuses runs no listener (`db.ts:427`).
* A transaction created without `timeoutMS` has no timer (`db.ts:324`).
* `attempt_limit` counts the first attempt, other than the comment at
  `worker.ts:146` says.
* The PATCH of `addCronTask` that waits for a worker does not reach the task
  this worker creates, which keeps the old expression (`tasks/index.ts:257`).
* An expression that occurs more than twice per `queueIntervalMS` is refused by
  the POST hook (`tasks/index.ts:101`): `NextAlwaysCreated` needs its premise.
* After a crash between the commit of a batch and that of its status, or after
  a lost lock, the next batch follows at once (`async.ts:305`).
* A runner of an old release goes on after a new one has finalized its
  migration (`async.ts:207`).
* A PATCH of a migration's status made during a batch is undone (`utils.ts:387`).
* A batch that returns no integer, as the example at `docs/Migrations.md:113`
  does, is an error after its commit (`async.ts:262`).
* A close rolls back what the PREPARSE hooks did, also when it follows the
  response of a request that has succeeded (`sbvr-utils.ts:1302`).
* A close between two parts cancels neither those that committed nor those to
  come, and none cancels an action, whose transaction is not in `transactions`.
* After an action `req.tx` is its transaction (`actions.ts:94`), which has ended:
  the parts of the batch behind it fail.
* What POSTPARSE hooks did stays when a later request of the change set fails to
  prepare (`sbvr-utils.ts:1405`), or when no connection is to be had; and what
  hooks did stays when COMMIT fails, which runs no listener.
* An upload that fails after the form has ended is answered with an error, its
  files are cleared, and the request runs all the same with the other files,
  which are deleted (`webresource-handler/index.ts:245` and `:270`): `NoDangling`
  does not hold for requests in `Late`.
* Files stay at the provider when: two PATCHes of a row race (the one
  overwritten), a request is refused before its PRERUN hooks, a POST fails in
  its PRERESPOND hooks, COMMIT fails, an upload ends after another one failed,
  the task to delete them cannot be created, or a multipart upload was begun at
  the provider and its record never committed.
* `beginUpload` waits for a second connection while it holds one: as many of
  them as the pool has connections wait for each other until
  `connectionTimeoutMillis` (`ActionsEnd` rests on that timer).
* A link to a resource for which nothing is permitted refuses the whole
  resource, other conditions of an `or` included (`permissions.ts:499`).
* A circle of links that is entered from another resource is followed once less
  than its depth says (`permissions.ts:616`): an expand from its own resource
  may show rows that a request for them does not, those of a row that is read
  only because its circle is followed to the end. The last disjunct of
  `ExpandShowsReadable` names them.
* A part whose COMMIT has failed is reported as an error, although the server may
  have committed it (`db.ts:427`): `AnswerIsTrue` says that an error is never the
  answer for a transaction that was seen to commit or still may go on.
* A session has the permissions of the login until it ends; a grant that is
  revoked or expires changes API keys only.
* Two releases that start at once and both find a model new may record
  migrations that its tables lack: those of the slower release, on the tables of
  the faster one. `ReleasesAgree` excludes it.
* Without the migration tables `lockMigrations` does not call what it was given
  (`migrator/utils.ts:243`): an instance that starts between the first two
  transactions of another one skips the migrations of the standard models and
  never records them as pending, which the other does.
* `initSql` runs under the advisory lock, and `isModelNew` is asked before it is
  taken: the lock orders two executions and prevents neither.
* A resource of an old version without a translation definition does not take
  the modified name of its new one (`translations.ts:310`).

### Fairness

`FairSpec` of `Tx`: timers fire, as those of Node do; callbacks settle, but for
those in `Hanging`; `rollbackTimeout` fires. That the server answers is the
premise `ServerAnswers` of the first part of `ConnectionReturned`; the second
part does without it. Nothing is assumed of cancellation, faults or new
transactions.

`FairSpec` of `TaskQueue`: pollers go on, handlers settle, time passes and each
scheduled time comes. The premise `Deployed` of `TasksGoOn` adds that a
supervisor restarts each process, which registers its tasks and calls `start()`,
as the documentation asks applications to; `ExcessStops` does without.

`FairSpec` of `Request`: hooks and queries settle, the database answers a
ROLLBACK or is given up (as `ConnectionReturned` says), and rollback functions
settle. Nothing is assumed of closes, side effects or faults.

`FairSpec` of `WebResource`: uploads and requests settle, in success or not, and
delete tasks are retried until they succeed (their `attempt_limit` is the
largest there is). `FilesAreCleared` has the premise that no fault has occurred:
nothing retries the creation of a task.

`FairSpec` of `MultipartUpload`: statements and the provider answer, in success
or not, and the pool's `connectionTimeoutMillis` ends a wait for a connection.

`FairSpec` of `Credentials`: the queries that `permissions.ts` makes end, in
success or not. Nothing is assumed of clients, and nothing of the last step of a
request, since `PermissionsKnown` is about what comes before it.

`FairSpec` of `AsyncMigration`: processes are restarted, waiting lock requests
are granted (postgres queues them), timers fire, batches settle, time passes.
A try-lock may fail for ever when others hold the lock each time; nothing in
the code excludes that, and `mig_live` therefore has one migration.

## What is proved

TLAPS checks these for all values of the constants that satisfy the modules'
assumptions. These say what sets the constants belong to; those of
`ModelExecution` also that the models of pine itself are in every release and
have names that no model of an application has.

| Theorem | States | Assumes |
|---|---|---|
| `TxProofs!TypeCorrect` | `Spec => []TypeOK` | |
| `TxProofs!OnlyOwnConnection` | `Spec => []OwnConnection` | `SafeUse` |
| `TxProofs!PoolIsClean` | `Spec => []CleanPool` | `SafeUse` |
| `TxProofs!SettledAnnounced` | `Spec => []SettledIsAnnounced` | `SafeUse` |
| `TxProofs!ImplementsAtomicTx` | `Spec => AtomicSpec` | `SafeUse`, `Lenient = {}` |
| `TaskQueueProofs!ScheduleTypeCorrect` | `ScheduleSpec => []ScheduleTypeOK` | |
| `TaskQueueProofs!NextAlwaysCreated` | `ScheduleSpec => []NextIsCreated` | `Interval <= Period` |
| `TaskQueueProofs!EachOccurrenceOnce` | `ScheduleSpec => OccurrenceOnce` | `Interval <= Period` |
| `AsyncMigrationProofs!TypeCorrect` | `Spec => []TypeOK` | |
| `AsyncMigrationProofs!SyncRunsOnce` | `Spec => []SyncOnce` | |
| `AsyncMigrationProofs!OneBatchAtATime` | `Spec => []OneBatch` | |
| `AsyncMigrationProofs!ConvergesOnce` | `Spec => ConvergedOnce` | |
| `AsyncMigrationProofs!NoLostRecord` | `Spec => RecordIsCurrent` | |
| `AsyncMigrationProofs!BatchesKeepDistance` | `Spec => IntervalKept` | |
| `TaskQueueProofs!TypeCorrect` | `Spec => []TypeOK` | |
| `TaskQueueProofs!OneExecutor` | `Spec => []ExecutesAlone` | |
| `TaskQueueProofs!NewExpressionStays` | `Spec => ExpressionKept` | |
| `TaskQueueProofs!CancelledJobsStop` | `Spec => JobCancelled` | |
| `TaskQueueProofs!AttemptsAreCounted` | `Spec => []AttemptsCounted` | `"queued" \notin Outcomes` |
| `WebResourceProofs!WebTypeCorrect` | `Spec => []TypeOK` | `Prudent` |
| `WebResourceProofs!FilesStay` | `Spec => []NoDangling` | `Prudent` |
| `RequestProofs!RequestTypeCorrect` | `Spec => []TypeOK` | |
| `RequestProofs!RightlyUndone` | `Spec => []UndoneRightly` | |
| `RequestProofs!PartsAtomic` | `Spec => []PartIsAtomic` | |
| `RequestProofs!AnswersTrue` | `Spec => []AnswerIsTrue` | |
| `MultipartUploadProofs!UploadTypeCorrect` | `Spec => []TypeOK` | |
| `MultipartUploadProofs!RowNeverDangles` | `Spec => []NoDangling` | |
| `MultipartUploadProofs!RecordsAreTrue` | `Spec => []StatusIsTrue` | |
| `MultipartUploadProofs!CompletedTogether` | `Spec => CompletedWithItsRow` | |
| `CredentialsProofs!CredentialsTypeCorrect` | `Spec => []TypeOK` | |
| `CredentialsProofs!SameForEveryRequest` | `Spec => []GuestsAgree` | |
| `ModelExecutionProofs!TypeCorrect` | `Spec => []TypeOK` | |
| `ModelExecutionProofs!RecordsTrue` | `Spec => []RecordIsTrue` | |
| `ModelExecutionProofs!ServesCurrent` | `Spec => []UpIsCurrent` | |
| `ModelExecutionProofs!SkippedAreRecorded` | `Spec => []FirstRunRecorded` | |
| `ModelExecutionProofs!RunsOnTablesWithout` | `Spec => AppliedOnce` | |

Arguments:

* `TxProofs`. `OwnConnection` is not inductive: the invariant adds that a
  transaction whose handle is open, or whose `end()` may still send COMMIT,
  holds its connection; that START is the first query and a closing query the
  last one on a connection; and that a session is open only while somebody
  holds the connection. `SafeUse` is needed in the steps of `SendCommit`,
  `Execute` and `TimerFires`, where its two exceptions come from. For
  `SettledIsAnnounced` it adds that, while nothing breaks, a transaction that is
  open holds its connection, and one that is closed without having told anybody
  has the query that will tell on the way (`AllTell`): the answer, a timeout and
  a rejection all take that query off the connection, and announce it.
* `ImplementsAtomicTx`. While a transaction holds its connection nobody has been
  told of it, nothing of it is durable, and all that it wrote is in its session
  (`Undecided`); a COMMIT on the connection is awaited (`CommitWaits`); and after
  a statement failed none is sent (`AbortedEnds`), as no callback swallows the
  failure. So a COMMIT that is answered makes everything durable, and whatever
  else frees the connection loses everything: each step is one of `AtomicTx`, or
  none that it sees.
* The schedule, in `TaskQueueProofs`. A row that is executed was at most the look-ahead away
  when it was polled, by the clock of postgres, while the next time is at least
  `Interval` after the end of the execution. The look-ahead is `Interval` and what
  the rounding adds (`LooksAhead`, by `DividedBySecond`), so that an execution
  that outlasts the rounding and the difference of the clocks is followed by a
  later occurrence. The lemmas on `NextAfter` are the division algorithm.
* `AsyncMigrationProofs`. The lock has one holder. What its holder knows agrees
  with the tables: the executed migrations a setup has read are those in the
  table, and a migration that was synced is among them; a status that a runner
  has read has at least the convergence of the table, and all of it when no
  client writes. For `IntervalKept` it adds, while nothing crashes and no lock is
  lost, that a status never says that its last batch is longer ago than it is,
  except between a batch and the record of its end (`AgesKnown`), which the
  runner makes under the lock: the next `Begin` therefore finds the end of the
  last batch recorded, whether it succeeded or failed, and a migration without a
  status has had none. Statuses that clients write (`Operated`) are left out.
* `TaskQueueProofs`. A row lock has one holder (`Alone`), and the row of a poller
  that executes is what this poller has read: queued and due (`AsRead`). So who
  updates it overwrites nothing, and PATCHes that waited are applied to what it
  left. `Counted` follows the attempts: those recorded, and one more for the
  execution that is under way or was lost, are no fewer than the calls of the
  handler, less the faults. The type of handlers lets them return `"queued"`,
  which leaves the row to be executed once more after its last attempt; the
  premise excludes it.
* `WebResourceProofs`. A row shows only files that requests for it have uploaded
  to that field, and only once these are over (`ShowsItsOwn`); what a request is
  to delete at its end comes from its own row, in the fields that it sets, which
  its hook has found (`ReplacesItsOwn`); the row is locked by who has written it
  until the transaction ends (`Locks`); and what a request has uploaded stays
  until it is over, unless its hook has found no row (`Stays`). A request whose
  hook and statement both found the row therefore shows files that nobody
  deletes, and deletes files that nobody shows; of one that has only one of the
  two, `Torn` names the files. `Prudent` (`Late = {}`) is needed in the step of
  `UploadFails`; without it `NoDangling` does not hold, as described above.
* `RequestProofs`. A part resolves only when its transaction has ended, and only
  the part at hand has one that commits (`Theirs`, `Settled`); it gets there with
  all of its requests written (`Writes`). A hook is asked to roll back, or listed
  with a transaction, only for a part that has failed, whose transaction is
  rolled back, or that runs in the transaction of an action that is over
  (`Blames`, `Without`); and a hook that is rolled back has called all of its
  functions, the others none (`Counts`).
* `MultipartUploadProofs`. The provider stores an upload once, so that one commit
  of it gets past the provider, however many found it pending, and no cancel
  does. The row, its lock and the record follow from who that is.
* `CredentialsProofs`. A lookup that is kept has the permissions of the guest,
  which are known by then, unless it is that of `rootRead`'s list (`Looked`); only
  `rootRead` goes without, and it asks with its own list to the end (`Caller`).
  So the memo's key, which leaves the guest's permissions out, is enough for every
  other list; for that one it is not, as the finding says.
* `ModelExecutionProofs`. Two arguments meet. A model that was there before is
  protected by the advisory lock: its row and its tables agree, only who has the
  lock has written them, and what this instance has read is what is recorded
  (`Guarded`). A new model is not, as there is nothing to lock before it has
  tables; there every instance writes all the migrations of the model or none,
  and the same ones, since the releases agree (`Agreed`), so that it does not
  matter whose row or tables stay. In between stands `cachedIsModelNew`, which
  goes stale while others commit: it errs only by taking a known model for new
  (`CacheKnows`). For `FirstRunRecorded`, a new model that is not recorded is
  still among the `pendingUnsetMigrations` of an instance at work (`Remembered`).

Only model-checked: the liveness properties (`ConnectionReturned`, `ExcessStops`,
`TasksGoOn`, `MigrationGoesOn`, `CancelIsComplete`, `FilesAreCleared`,
`ActionsEnd`, `PermissionsKnown`), which are beyond the proof system; and
`ShowsGranted` and `ExpandShowsReadable`, which say what recursive operators
compute of filters of any depth: that takes an induction over data.

## Not modelled

`PROJECT.json` has the status of each part, with the reason in its note. Of the
parts that are modelled in part, these are left out:

* the compilation of a request: OData and SBVR become SQL in libraries, and
  `abstract-sql.ts` and `odata-response.ts` are pure functions around them;
* affected ids, which are read once for each request and kept, also when a hook
  changes the rows afterwards;
* the engines other than postgres;
* of a start, the users of a config, the reading of files, custom server code,
  and the models that exist in memory;
* a PATCH or DELETE of many rows with files;
* which hooks apply to a request;
* the text of filters and their binds, and with them the check that the guest's
  permissions have none (`permissions.ts:1719`), whose pattern has the `g` flag
  and keeps its place between calls.

Of the others, the URI parser is a grammar with a memo. The session store is a table with a request for
each operation; `SessionStore.get` does not look at the expiry, and `set` brings
a destroyed session back. The cache of compilations costs a compilation when a
save is lost. Metadata, client types and documents are formatting, and the
command line tools run once over files.
