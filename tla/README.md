# oCMS in TLA+

A verification development of oCMS (`olegiv/ocms-go`): TLA+ modules that model the parts of the
program that run concurrently, fail in the middle or depend on time, TLC configurations that
check them on small instances, and proofs that the TLA+ proof system checks for every value of
the constants.  Paths below are relative to the repository's root.

## 1. What the system consists of

oCMS is one Go process over one SQLite database (`PRAGMA foreign_keys` on,
`internal/store/database.go:60`).  HTTP requests are served concurrently; around them run
goroutines that the program starts in `cmd/ocms/main.go`.

| Component | State it keeps | Operations | What is hard about it |
|---|---|---|---|
| Webhook dispatcher and delivery (`internal/webhook/dispatcher.go`, `delivery.go`) | tables `webhooks`, `webhook_deliveries`; channel `queue`; `running`, `done` | `Dispatch`, workers with `processDelivery`, `processRetries`, `cleanupOldDeliveries`, `Start`, `Stop` | nothing claims a row, the outcome is written without a look at the row, the queue is bounded and lost in a crash |
| Webhook debouncer (`debouncer.go`) | map of pending events, their timers, a wait group | `Dispatch`, timer callbacks, `Flush`, `Stop` | timers that fire while they are reset, two limits of time, shutdown order |
| Webhook administration (`internal/handler/webhooks.go`) | the same tables | create, update, delete, test, retry a delivery | runs at any moment of the above |
| Scheduled tasks and registry (`internal/scheduler/task_executor.go`, `registry.go`, `internal/handler/scheduler.go`) | tables `scheduled_tasks`, `scheduler_overrides`, `scheduled_task_runs`; the cron instance; `taskEntries`; `Registry.jobs` | create, update, toggle, delete, override, reset, trigger, startup | four places that are changed one after another under three locks |
| Runs of tasks (`internal/scheduler/task_executor.go`) | table `scheduled_task_runs`, `triggerLimiters` | `executeTask`, `TriggerTask`, cleanup | a run outlives its task or the process; nobody looks for rows that were left behind |
| Scheduled publishing (`internal/scheduler/scheduler.go`) | table `pages` | `processScheduledPages`, `publishPage` | reads the due pages and publishes them later, tells no cache |
| Pages (`internal/handler/pages.go`, `internal/api/v2/pages`) | table `pages` | create, update, publish, delete, restore, translate | a row is read, checked and written in steps; invalidation follows the write |
| Caches (`internal/cache`) | entries with expiry and size, two keys per page, an index from pages to keys, one sitemap | read-through `Get...`, `Invalidate...`, `ClearAll` | a fill that races an invalidation, keys that change hands |
| Languages (`internal/handler/languages.go`, `internal/i18n`) | table `languages`, codes in other tables, active and default language of the process | create, update, delete, set the default, refresh | decisions on rows read earlier; two name spaces (codes and slugs) guarded from both sides; refreshes that overtake each other |
| Module registry (`internal/module/registry.go`, `cmd/ocms/main.go`) | tables `modules`, `module_migrations`; `activeStatus`, `sidebarStatus`, `initStatus` | `InitAll`, `SetActive`, `SetShowInSidebar`, `ShutdownAll`, migrations | unlocks while a module initialises; a migration is applied and then recorded |
| Everything else (other content handlers and API resources, import and export, media, themes, views, sessions and login protection, bundled modules) | tables and files | requests | mostly one statement or one transaction per request |

The parts interact as follows.  A content handler calls `Dispatcher.DispatchEvent`, which hands
the event to the debouncer; a goroutine of the debouncer calls `Dispatcher.Dispatch`, which
inserts delivery rows and queues them; a worker takes a delivery from the queue, reads its row,
sends the request and writes the outcome; the retry worker reads pending rows and queues them
again.  The scheduler's handlers write a task's row and then call the task executor, which calls
cron and the registry; the registry has its own handlers that change cron behind the executor.
Handlers of pages and the API write a row and then invalidate the page cache and the sitemap; the
publishing job writes rows and invalidates nothing.  Handlers of languages and of pages compare
codes with slugs, each looking at the other's table.  Every change of a language makes the process
read the table again.  `main` runs the registry's start before it serves administrators.

What makes them correct:

- *deliveries*: a row never claims a success nobody acknowledged, is not given up too early, is
  settled in the end, and belongs to a webhook;
- *debouncer*: while the system runs no event is lost but by a failed statement of its own dispatch,
  no entry is left behind, wait and memory are bounded;
- *scheduled tasks*: table, cron and registry agree whenever no handler is at work, and a start whose
  statements succeed makes them agree; overrides survive a restart;
- *runs of tasks*: a pending row has a goroutine that will settle it, and is not pending for ever;
- *scheduled publishing*: a page is published only if it is due, or was changed by someone since;
- *caches*: what is cached can be found again and is current, but for races that can be named;
- *languages*: there is one active default, no page is shadowed or without its language, and the
  process serves what the table says once a refresh has succeeded;
- *modules*: an active module is initialised and permitted; table and memory agree; a migration or an
  initialisation runs once.

## 2. Modules and plan

| Module | Models | State |
|---|---|---|
| `DeliveryContract` | abstract: what the webhook subsystem promises about a delivery | done |
| `WebhookDelivery` | dispatcher, workers, retry and cleanup worker, administrator, process | done, implements `DeliveryContract` |
| `MCWebhookDelivery` | instance of the above with symmetry of the workers | done |
| `WebhookDelivery_proofs`, `WebhookAttempts_proofs` | theorems about `WebhookDelivery`; the second one on the number of attempts | done |
| `EventContract` | abstract: what becomes of an event that is raised | done |
| `WebhookDebouncer`, `WebhookDebouncer_proofs` | debouncer with time, and its theorems | done, implements `EventContract` |
| `SchedulerTasks`, `SchedulerTasks_proofs` | tasks, overrides, cron entries, and theorems | done |
| `RunHistory` | abstract: the table of runs as an administrator reads it | done |
| `TaskRuns`, `TaskRuns_proofs` | runs of tasks, triggers, cleanup, process, and theorems | done, implements `RunHistory` |
| `PageCache` | the cache's two maps and its index | done |
| `SitePages`, `MCSitePages`, `SitePages_proofs` | composes `PageCache` with editors, the API, the publishing job, visitors and the sitemap | done |
| `SiteLanguages`, `MCSiteLanguages`, `SiteLanguages_proofs` | languages, codes in pages, prefixes, the process's state | done |
| `ModuleRegistry`, `MCModuleRegistry`, `ModuleRegistry_proofs` | start, migrations, status, activation | done |

The order follows the weight of what can go wrong: lost or false deliveries first, then the
scheduler, whose divergences stay until a restart, then what the public site shows, then the modules.
Still worth doing: the importer as one more writer of pages and languages; the redirect and menu
caches, which follow the pattern of `SitePages`; the bans of `sentinel`.  `WebhookDelivery` takes
events as they come, which covers every order a debouncer could produce, and `WebhookDebouncer` ends
where `Dispatch` has inserted the rows.

## 3. `WebhookDelivery`

State.  A delivery row is `status`, `owner`, `attempts`, `due`, `cause` at its id.  `due` stands for
`next_retry_at IS NULL OR next_retry_at <= now`, `cause` for `error_message`.  Ids come from
AUTOINCREMENT, so `nextId` only grows and the order of ids is the order of `created_at`.  `queue`
is the channel.  A worker is `pc`, `job` and what it remembers: `seen` (`record.Attempts`) and
`result`.  The retry worker is `retryPc` and `batch`; between reading the webhook and acting on it,
`retryPc` is what it has read.  A goroutine in `Dispatch` is `todo` and `created`.  `acked` and
`recorded` are history.

Steps.  A step is one SQL statement, one operation on the channel, or one HTTP request; whatever
else may happen can happen in between.  SQLite serialises statements, so one statement is atomic.
`WorkerLoad`, `WorkerPost` and `WorkerRecord` are the three parts of `processDelivery`;
`RetryFetch`, `RetryRead`, `RetryAct` those of `processRetries`; `DispatchBegin`, `DispatchCreate`,
`DispatchEnqueue` those of `Dispatch`.  `StopBegin`, `StopClose`, `WorkerExit`, `RetryExit` and
`StopReturns` are `Stop`.  `Crash` may happen at any time and leaves the tables only.  The cleanup
worker is a single statement and has no state.

Abstractions.  Payload, URL, secret, headers and signatures are left out.  The outcome of a request
is `ok`, `retry` or `reject`.  An insertion that fails for whatever reason (foreign key, database,
context) is one choice of `DispatchCreate`.  A worker whose context is cancelled behaves as after
a crash.  Processing one delivery takes no account of how long it lasts.

Properties.

- `DeliveredWasAcked`, `NoEarlyGiveUp`, `RowsHaveHook`: see their comments.  All three relate what a
  goroutine read to what the table says later; `IndInv` makes them inductive by stating what each
  goroutine may rely on about the ids and counts it holds.
- `AttemptsBounded`: the attempts of a row may exceed `MaxAttempts`, because two workers may hold
  one row, but only by `Overshoot`.  `AttemptsFit` is the argument (section 12).
- `ImplementsContract`: refinement to `DeliveryContract`.  The mapping hides queue, goroutines and
  process, and of a webhook whether it is switched on.
- `EveryDeliverySettles`, `StopCompletes`: liveness.

Fairness (`LiveSpec`).  Weak fairness for every goroutine step: the Go scheduler runs what can run,
and statements return.  Strong fairness for the exits of workers, because `select` picks one of
several ready cases at random and `done` stays ready.  Weak fairness for `BackoffElapses`: time
passes.  Weak fairness for `Start`: a process that went down is started again by its supervisor.
None for events, the administrator, or faults, and the faults of a behaviour are bounded; endless
faults would of course keep a delivery pending.

## 4. `WebhookDebouncer`

State.  `entry` maps a key (event type and entity id, `eventKey`) to its latest event, `age` is the
time since `firstSeen`, `left` what remains of the timer.  `firing` are callbacks that have started
and wait for the mutex: a `Reset` or `Stop` does not call them back.  `fate` follows every event
from `Debouncer.Dispatch` to the delivery table, `counted` is the wait group, `stage` is
`Dispatcher.Stop`.

Steps.  Everything done under the mutex is one step.  `Dispatch` has four cases: `UpdateEntry`,
`DispatchAtMaxWait`, `CreateEntry`, `Bypass`.  `Dispatcher.Dispatch` is `Admit` (it reads `running`)
and `Store` or `StoreFails` (its statements run under the debouncer's context).  `StoreFails` is a
failed `ListWebhooksForEvent`, a payload that cannot be marshalled, or a failed
`CreateWebhookDelivery` (dispatcher.go:299-341): the goroutine logs the error and ends
(debouncer.go:193), nobody tries again, and the event is missing for some webhooks or for all
(`failed`).  It may happen to any event at any time, without a bound.

Time.  `Tick` is one unit, and waits for expired timers and callbacks: delays of the Go runtime
count as no time.  Without that assumption no bound on the wait would hold.

Fairness: timers run off, callbacks get the mutex, goroutines run, time passes.

Properties.

- `EntriesLeaveInTime`: every entry of the map has a running timer or a callback that waits for the
  mutex, and is younger than `MaxWait + Interval`.
- `WithinCapacity`: entries and timers stay within `MaxPending`; `LostOnlyToFailures`: until the
  dispatcher is stopped an event is lost only to a failed statement of its own dispatch.  For each
  event, or for a later one of its key, the statements have run or are going to; a failure of one
  event costs no other, unless that other was superseded by it.
- `ImplementsEvents`: refinement to `EventContract`, which has no map, timers or goroutines.  The
  mapping (`Outside`) turns the fates of an event into what its sender may know: it waits, was handed
  over, or has ended as superseded, stored, failed or dropped.  The contract drops an event only after
  the stop, and lets it fail at any time once it was handed over.  `PendingAreEntries` is what the
  mapping rests on: an event that is pending is the entry of its key, so a raised event supersedes
  exactly the one that the contract says.
- `LatestGetsThrough`: liveness.  Of a key the latest event is dispatched in the end: its rows are
  stored, or one of its statements failed.

## 5. `SchedulerTasks`

State.  `row` and `spec` are a task's row, `override` its row in `scheduler_overrides`, `entries` the
cron instance, `taskEntry` is `TaskExecutor.taskEntries`, `job` is `Registry.jobs`.  A request in the
middle of a handler is `req`: its step, its task, what follows the removal (`then`), and what it
remembers.  A cron entry captures the task as the handler had it (`data`), which is why it matters
which entry survives.

Steps.  One statement, or what happens under one mutex.  `Registry.UpdateSchedule`,
`ResetSchedule`, `Register` and `Unregister` hold the registry's mutex from beginning to end and are
one step each, although they contain a statement: nobody else can see what they change in memory,
and the only other writers of the overrides hold the same mutex.  `Restart` is the end of the
process and `LoadAndScheduleAll` of the next, which runs before the server listens.

A start may fail in three ways, and goes on in each.  If the query for the active tasks fails
(task_executor.go:80-83), `main` logs it (main.go:1635) and the server runs with no task scheduled.
The override of each task is read twice, for cron (`scheduleTask`) and for the registry (`Register`),
and a read that fails counts as no override (registry.go:91-98, 107).  `Restart` chooses whether the
list is read and for which tasks either read succeeds; a task for which one of these failed is in
`failed`, as it would be after a failed statement of a handler.

Properties.

- `Agreement`: when no handler works on a task and none has overlapped with another on it since
  the start, table, cron and registry say the same of it, and cron runs the task with the URL and
  schedule in the table.  Tasks for which a statement failed, of the last start or since, are
  excepted.  A start whose own statements succeed for a task must therefore repair whatever was wrong
  with it (that is what makes `Restart` part of the property).
- `RegistryMatchesTable`: the same for the schedule alone, but without any exception for handlers
  that overlap.
- `OverridesSurvive`: docs/scheduler.md:147, for tasks no statement of that start fails for (and none
  had failed for before, which may have kept the override out of the table).

`clashed` and `failed` are history and exist for these exceptions only.

## 6. `TaskRuns`

State.  `run` is the table `scheduled_task_runs`, `exists` the tasks with a row, `worker` the
goroutines of cron and of triggers (`by`), each with its step, its task and its row.  `allowed` is
`triggerLimiters`.  `phase` is the process; `abandoned` is history: rows whose goroutine ended before
the verdict, or whose `UPDATE` failed.

Steps.  `Fire` is an entry of cron, which hands over the task as it was when it was added, so it may
be one whose row is gone.  `CreateRun`, `Answer` and `Settle` are the three parts of `executeTask`.
`DeleteTask` takes the rows along (`ON DELETE CASCADE`).  `Stop` waits for the jobs of cron, not for
goroutines of triggers; `Exit` and `Crash` end them.

Time.  `Tick` does not pass the timeout of a run: the request has one, and statements take no time.
`Timeout < Retention` is an assumption (at most 300 s against 30 days), without which the cleanup
could delete the row of a run that is under way.

Fairness: goroutines go on, time passes, `main` returns, the process is started again, and the
cleanup job runs (cron fires it daily).  None for new runs or for administrators.

Properties.  `RunsOwned` says what a pending row means.  `NothingPendingForever` depends on the
cleanup ignoring the status: it is what removes the rows that a killed process left pending.
`ImplementsHistory` is the refinement to `RunHistory`: the `UPDATE` of a verdict looks at neither the
status nor the age of its row, and yet a run gets one verdict at most and gets it within the timeout,
because a row belongs to one goroutine.

## 7. `PageCache` and `SitePages`

State.  Of a page's row only what decides its visibility and its address is kept; `ver` stands for the
rest and changes with every write.  `bySlug`, `byID` and `keysByPageID` are the fields of `PageCache`;
slugs and ids share one domain of names because a slug of digits and an id make the same key.  A
request is its step (`write`, `page`, `sitemap`), its page and what it remembers of the row.  A
visitor holds the copy it has read.  `run` holds the pages a run of the job has still to publish.
The remaining variables are history, and each names one excuse: `edited` (someone wrote the page
after the job read it), `late` and `pinned` (a copy read before an invalidation and stored after
it), `silent` and `unlisted` (a change or a failed query that tells no cache), `restored`.

Steps.  A handler reads, writes, invalidates the page cache, invalidates the sitemap: four steps.  The
methods of the cache are one step each, except that a lookup queries the database between two locks.
`Query` does not ask whether the key is missing at that moment, because it was missing earlier.  The
sitemap's lock is held over its queries, so `LoadSitemap` is one step.

Abstractions.  All publicly visible pages have an address; aliases, categories, tags, versions and
`noindex` are left out.  The admin form, the API and its PATCH are one `Update` with any form.
`Create` leaves out the validation before the insertion, which only makes it fail earlier.

## 8. `SiteLanguages`

State.  `lang` and `page` are the two tables, `i18n` the state of the process.  A request remembers
the row it read (`was`), the row it will write (`put`), whether its transaction looks at the
languages (`checks`), and what it has read for a refresh.  `overtaken`, `unchecked`, `strayed`,
`late` and `missed` are history and name the cause each property excepts.  `late` are the requests
that have read the languages for a refresh before another request's commit; `missed` says that,
since the last refresh that was in time and succeeded, a late one configured the process or one in
time failed.

Steps.  A transaction starts with a lock on the database (`_txlock=immediate`,
`internal/store/database.go`), so one transaction is one step, with everything the handler read before
it out of date.  A refresh is two queries and the configuration, each a step, and `RefreshFails`
ends it at either query: a database error, the 5 s timeout (languages.go:38-42), or no single default.
That is only logged (languages.go:143), and the process keeps the languages it had.  `UpdateRefused`
may happen without a reason, since the form may be invalid.

`ProcessUpToDate` does not except a state but its causes: as long as a refresh that has read nothing
old is under way the process may be behind, and afterwards only if `missed`.  A commit after which
nobody refreshes, or a refresh in time that configures something else than the table says, violates
it.

Codes are routable and pages have no aliases.  A code the process has no catalog for is among the
codes (`Supported`), because `ConfigureLanguages` then falls back.

## 9. `ModuleRegistry`

State.  `row`, `recorded` and `ran` are the database (`ran` counts how often `Up` ran); `status` holds
`activeStatus`, `sidebarStatus` and `initStatus`; `inits` counts the calls of `Init` by this process.
`phase` and `at` are where the start is.  `boot` is what the environment says of this process, chosen
anew at every start, so a module activated in development may meet a production start.

Steps.  The start is sequential; every module in a phase is a step at which the process may end.
`SetActive` is three steps, with the lock released in between.  `ProcessEnds` stands for an error of
the start, a refusal by the audit, a crash and a shutdown.  `Init` of a module is counted and
otherwise left out, as are its routes and hooks.

## 10. Runs

| Run | Bounds | Shows |
|---|---|---|
| `webhook_delivery` | 1 webhook, 2 workers, 1 sender, 1 delivery, 2 attempts, queue 2, 2 upsets | types, safety, refinement |
| `webhook_delivery_liveness` | 1 worker, 2 deliveries, queue 1, batch 1, 1 upset | settling, shutdown |
| `webhook_attempts` | no upsets | finding 1 (violated) |
| `debounce` | 2 keys, room for 1, interval 2, wait 3, 4 events | safety, refinement and liveness of the debouncer |
| `debounce_flush` | 1 key, 2 events | finding 2 (violated) |
| `debounce_max_wait` | interval 2, wait 10 (half seconds), 7 events | finding 3 (violated) |
| `scheduler_tasks` | 1 task, 2 requests, 2 schedules, 5 operations, 2 upsets | agreement and overrides |
| `scheduler_stop` | no upsets | finding 4 (violated) |
| `task_runs` | 2 tasks, 2 goroutines, 2 runs, timeout 1, retention 2, time up to 4, 2 upsets | ownership and end of pending rows, refinement |
| `site_pages` | 2 pages, 2 slugs (one reads like an id), 2 languages of visitors, 2 requests, 1 visitor, 1 run, 2 writes by requests, 2 lookups, 2 instants | caches and publishing |
| `site_languages` | 2 languages, 2 pages, 3 codes (one without catalog, one that is a translation's slug), 2 requests, 4 commits | defaults, prefixes, orphans, refresh |
| `module_registry` | 2 modules with 1 and 2 migrations, 2 administrators, 3 starts, 1 fault | start, activation, crash |

Why these bounds are enough.  The races of a delivery are about one row held by two workers, the
retry worker and the administrator: one delivery and two workers show them all, and two attempts
give a first, a last and a surplus attempt.  Two upsets allow a fault during the recovery from
another.  What needs two deliveries (a full queue, a batch that is cut short, the order of ids) is
in the liveness run.  In the debouncer two keys that compete for one place reach every branch, and
four events allow an update after a late callback.  Tasks do not share anything but the numbering of
cron entries, so one task is enough; two requests make every race of two handlers, five operations
allow create, override, update, toggle and another.  Two
runs of one task overlap, and a third adds nothing that two do not show; retention and timeout only
have to be far enough apart for a row to grow old.  For the pages, two writes give a change during
another request or during a run of the job, and the job's own writes are not counted; two lookups
give a copy that is stored late and one that is stored after it; two pages and two slugs let a slug
change hands.  For the languages, four commits give a new language, a change of the default, and two
conflicting writes. Three starts of the process give a crash during a migration, a repetition and a
crash of that.  The proofs have no bounds at all.

Deadlock is not checked: all deliveries may be settled, all events spent, all operations, writes,
starts or time used up.

Every property of a passing run is tested against a seeded fault in the model (`mutants` in
`PROJECT.json`; the operators marked "Seeded fault" in the modules): a dropped guard, a missing
cascade, a count taken twice, a timer that is not restarted, a context that ends too early.

## 11. Findings

1. *More attempts than documented.*  docs/webhooks.md:207 has "5 attempts (then marked as dead)".
   The retry worker queues a due row again although it is in the queue or in flight; two workers
   that hold it both send and both count.  `AttemptsBounded` says how far this can go.
2. *Flushed events are dropped.*  `Stop` clears `running` before it flushes the debouncer, so
   `Dispatch` ignores what is flushed, against debouncer.go:198-199.
3. *The wait exceeds the maximum.*  `MaxWait` is compared only when an event comes; an event just
   before 5 s restarts the timer.  `EntriesLeaveInTime` is what holds: less than
   `MaxWait + Interval`.
4. *A task that is switched off may run on.*  task_executor.go:103 has "RemoveTask stops and
   unregisters a task".  `TaskCreate` commits the row as active and calls `AddTask` afterwards.  A
   toggle-off in between writes `inactive` and calls `RemoveTask`, which finds the task neither in
   `taskEntries` nor in the registry; the create then records its entry.  Cron runs an inactive task
   until it is deleted or the next start; switching it on again adds a second entry, and the first
   is then known to nobody.

The following were met while modelling; no run is spent on them, and the properties named except or
permit them.

- `RestoreVersion` writes the row without `published_at` (and without `page_type` and
  `exclude_from_lists`), so a published page loses its date (`PublishedHasDate`).
- A statement of `Dispatch` that fails loses the event for some or all webhooks; it is only logged
  (`failed` in `WebhookDebouncer`).
- Two toggles of one task at once may add two cron entries, of which the executor and the registry
  know the last; the other runs until the next start (`clashed`).
- A start whose query for the tasks fails serves on with no task scheduled; one that fails to read an
  override runs the task on its default schedule until the next start or the next change of the task
  (`failed` in `SchedulerTasks`).
- The publishing job and the deletion of generated pages (`modules/developer/generator.go:1039`)
  invalidate neither the page cache nor the sitemap (`silent`, `unlisted`).  For a draft that the job
  publishes only the sitemap is affected.
- The job publishes by id whatever the row says by now, so moving or removing a date in the last
  moment has no effect (`edited`).
- A published page may carry a schedule; set back to draft through the API it is published again by
  the next run.
- A lookup that read a page before an invalidation and stores it afterwards leaves an old copy for as
  long as the page is not invalidated again: entries have no expiry (`pinned`).
- A sitemap whose query for pages failed is cached without pages for its hour.
- `Update` and `Delete` of a language act on `is_default` as read before their transaction; with
  `SetDefault` in between there are two defaults or none (`overtaken`).
- The page writes of the API look at the languages' prefixes outside their transaction, and
  translations and restored versions not at all (`unchecked`); the admin form looks again inside.
- Refreshes of the process's languages may overtake each other, and the older one stays; a refresh
  whose query fails or takes more than 5 s is only logged.  Either way the process serves old
  languages until the next refresh (`missed`).
- A module's `Init` may run twice in one process: by overlapping activations, after an activation
  whose `UPDATE` failed, and for `sentinel` after main.go:1606 has initialised it.  Its hooks are
  then registered twice.
- docs/custom-modules.md:336 says that migrations "only run once"; after a crash between `Up` and
  `recordMigration` one runs again.
- A task's timeout may be set up to 300 s, but the HTTP client ends every request after 30 s
  (task_executor.go:27).
- Rows of runs whose process was killed stay pending until the cleanup after 30 days.

## 12. Proofs

All proofs assume only the named assumptions on the constants (`DeliveryAssumption`,
`DebounceAssumption`, `SchedulerAssumption`, `UnsetAssumption`, `TaskRunsAssumption`,
`PageCacheAssumption`, `SitePagesAssumption`, `SiteLanguagesAssumption`,
`ModuleRegistryAssumption`), which TLC evaluates in the runs.

- `WebhookDelivery_proofs`.  `IndInv` is `TypeOK`, `RowInv` and `JobInv`.  `DeliveredWasAcked` is
  not inductive by itself: a worker with a 2xx in its hands is about to make it true or false, so
  `WorkersHonest` says that such a worker's delivery is in `acked`.  `NoEarlyGiveUp` needs that the
  count a worker has read is at most what was recorded since, which survives the administrator's
  reset of `attempts` because `recorded` is never reset.  `RowsHaveHook` needs that rows have
  owners and that a deleted webhook takes its rows along.  From `IndInv`, `Refinement` maps each
  action to an action of `DeliveryContract` or to a stutter.  `PendingIsNotLost` is then shown of
  the contract, where it takes a few lines, and holds of the detailed specification because that
  implements it.
- `WebhookAttempts_proofs`.  `AttemptsBounded` holds for any number `n` of workers, at least one, as
  `NewDispatcher` sees to.  It is not inductive: what counts is how much the goroutines of now may
  still add.  A worker that holds the row either read a count below the last attempt and may write
  `pending` again (`Reopeners`), or can only settle it (`Settlers`).  Each reopening uses one
  `Reopener` up and lets everyone who is free settle the row again, hence the quadratic
  `Reopenings`; a worker that reads the row once `attempts` is at `MaxAttempts - 1` is a `Settler`.
  `AttemptsFit` says that `attempts` and what may still come stay within the bound.  It is relative
  to `IndInv`; the arithmetic comes first, as lemmas about numbers.  `MemoryStaysBounded` bounds the
  queue and the batch.  The batch is a set of rows with fewer than `BatchSize` older due ones, so its
  newest member has all others before it (`FetchedAreOldest`).
- `WebhookDebouncer_proofs`.  `EntriesLeaveInTime` (`EntryHasWayOut` and `WaitBounded`) follows from
  `WaitPromised`: the age and what is left of
  the timer stay below `MaxWait + Interval`.  An entry whose callback is waiting does not age,
  since time waits for it.  `LostOnlyToFailures` follows by naming, for each event, the later one of
  its key that took its place (theorem `LossNeedsFailure`).  `Refinement` needs `PendingAreEntries`
  besides `IndInv`: an event is pending only while it is the entry of its key (`WaitingIsPending`).
  `EventsEndOnce` is shown of the contract: an end is final, only an event that was handed over
  fails, and none is dropped before the stop.
- `SchedulerTasks_proofs`.  `RegistryMatchesTable` is inductive with `TypeOK`: whoever changes the
  override of a task holds the registry's mutex and changes the job in the same step.
  `OverridesSurvive` is a consequence for the step `Restart`; what a start does to cron, the executor
  and the registry, whichever of its statements fail, is the lemma `RestartEffect`.

  `Agreement` needs a statement for every step of a handler about which of the four places are ahead
  of the others (`TaskInv`, one per task), and that cron ids are never reused (`IdInv`).

  `Agreement` excepts tasks with a failed statement.  What holds of those is proved apart:
  `StartRepairs` (from any reachable state a start brings the four places of a task to agree if its
  own statements succeed for it, and in any case leaves no entry that nobody knows of), and, for
  handlers that do not overlap, `EntriesAreHeld`, `OffIsOff` and `NoDoubleEntry`.  Their invariant
  `OwnInv` says nothing of what a task runs, only who holds the id of its entry at each step of a
  handler (`Stage`); what a failed statement leaves behind is a wrong schedule, an override nobody
  wants, or a row without an entry, never an entry nobody knows of.
- `TaskRuns_proofs`.  `IInv` adds to `RunsOwned` that a running goroutine's row is pending or gone, is
  of its task, and is younger than the timeout; with `Timeout < Retention` the cleanup then never
  takes the row of a running goroutine whose task exists.  The same invariant gives `Refinement` (a
  verdict is written to a row that is pending, or to none) and, through `RunHistory`, `VerdictsStand`.
- `SitePages_proofs`.  `EntriesIndexed` is inductive by itself once keys are typed.  `StaleOnlyByRace`
  needs `VisitorsSound`: the copy a visitor holds is current, excused, or the visitor is `late`;
  then each write either has a request that is still to invalidate, or is silent.  `PublishedWhenDue`
  follows from `RunDue` (what a run holds is due or was written by others), which needs that time
  only makes pages more due.  `PublishedHasDate` needs that an editor who remembers a published row
  remembers its date (`FormsDated`).  `NoCopyIsLeft` is what `EntriesIndexed` is for: right after an
  invalidation there is no copy of the page under any key.
- `SiteLanguages_proofs`.  `OneDefault` and `DefaultIsActive` are inductive together.
  `ShadowedOnlyUnchecked` needs that both sides look at the other table in the step that writes.
  `ProcessUpToDate` needs `RefreshInv`: late requests have read; a refresh that is not late has read
  what the table says now; a commit makes late whoever has read and leaves its own request refreshing.
- `ModuleRegistry_proofs`.  `MigrationInv` says how far each phase of the start has come;
  `PreparedInv` and `WriteInv` what an administrator's request may rely on when it writes;
  `OnceInv` pairs every initialisation unknown to `initStatus` with a request or a cause.
  `InOrder` follows from `MigrationInv`: a migration runs only when all before it, those of earlier
  modules included, are recorded; a crash between `Up` and `recordMigration` repeats one, but never
  lets a later one run first.  `DoneForGood` says that a recorded one does not run again.

The properties of `MemoryStaysBounded`, `StartRepairs`, `EntriesAreHeld`, `OffIsOff`,
`NoDoubleEntry`, `InOrder`, `DoneForGood`, `NoCopyIsLeft` and of the three theorems about the
contracts belong to no run; they are defined beside their proofs or in the contracts.

Every safety property of the passing runs is proved.  Only model-checked are the liveness properties
(`EveryDeliverySettles`, `StopCompletes`, `LatestGetsThrough`, `NothingPendingForever`), which are out
of the prover's reach.

## 13. Not modelled

- Webhooks: a change of URL or secret while a delivery is queued (the queue holds copies,
  dispatcher.go:350), which no property here tells apart; the order in which two events of one key are
  inserted.
- Scheduler: jobs of core and modules that are not tasks, which are registered once and never
  unregistered and otherwise behave as tasks do; a cron expression that does not parse (handlers and
  `UpdateSchedule` parse before they store, so registry.go:205-213 cannot be reached).
- Page cache: `InvalidateBySlug`, which nothing calls; `Invalidate` by `InvalidateContent` and
  `ClearAll`, which empties everything; the preload.  The caches of menus, themes, configuration,
  languages and translations, and the size accounting of the memory cache.
- Pages: aliases, versions, categories, tags, media; the importer, which writes pages and languages in
  one transaction.
- Languages: invalid and reserved codes, names and positions, other tables that carry codes, the
  cache of languages.
- Modules: `HookRegistry`, routes, translations, dependencies that are missing (a start that fails at
  once); what a particular module does.
- The rest of the program - views generated from templates, which are most of its lines, import and
  export, imaging, video, themes, search, sessions, login protection, rate limits - is sequential code
  over the database or the file system, generated code, or a library's state.  Each is listed in
  `PROJECT.json` with its reason.
