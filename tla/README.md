# JobFlow: a verification development

JobFlow is a job queue. An API server (Go) stores jobs in PostgreSQL and puts
their ids into Redis, worker processes pop the ids and run the jobs, a scheduler
goroutine of the API server promotes scheduled jobs and retries, and a browser
dashboard shows the result, refreshing on events. No transaction spans
PostgreSQL and Redis, no lock spans two calls, and every process may stop
between any two calls. This directory models that protocol, the event bridge,
the worker registry, the order of the queues, the dashboard's state, its job
composer with the saved drafts and its table and dialogs in TLA+, checks them
with TLC, and proves their safety properties with TLAPS for every size of the
instance: each invariant and each action property that a passing run checks is the
statement of a theorem.

## Inventory

| part | state it keeps | operations | talks to | hard behaviour |
|---|---|---|---|---|
| job repository (`internal/repository/job_repository.go`) | table `jobs`: status, attempts, max_attempts, queue_name, scheduled_at | Create, Cancel, MarkRunning, MarkCompleted, MarkFailed, Requeue, ReadyScheduled; reads List, Find, Stats | PostgreSQL | concurrent UPDATEs, some without a status filter; a claim that decides on a snapshot |
| redis queue (`internal/queue`) | sorted sets `queue:<name>`, sorted set `scheduled:retries`, list `queue:dead-letter` | Enqueue, EnqueueAfter, PromoteRetries, Dequeue, DeadLetter, Stats | Redis | at-most-once delivery, an id is one member whatever its history |
| job service and handlers (`internal/service/job_service.go`, `internal/handler/job_handler.go`) | none | Create, Cancel, Retry; reads | repository, queue, events | two stores written in sequence; a failure in between |
| scheduler (`cmd/api/main.go`, `PromoteScheduled`, `PromoteRetries`) | the batch it walks | one tick | repository, queue, events | enqueue before remove; an error ends the tick |
| worker pool (`internal/worker/pool.go`, `cmd/worker`) | the job in hand | loop, handle; heartbeats | queue, repository, registry, events | crash or SIGTERM with a job in hand; ignored errors |
| processor (`internal/worker/processor.go`) | none | Process | the outside world | timeouts |
| realtime (`internal/realtime/broker.go`) | connected clients and their buffers | Publish, SubscribeRedis, ServeHTTP | Redis pub/sub, browsers | lost events, clients that leave during a send |
| worker registry (`worker_repository.go`) | table `workers` | Heartbeat, IncrementProcessed, List | PostgreSQL | stale online rows, ids that are not UUIDs |
| auth (`auth_service.go`, `middleware/auth.go`) | table `users`; tokens | Register, Login, Token, Parse | PostgreSQL | normalisation that differs between the two |
| dashboard state (`web/src/hooks/useJobFlow.js`, `App.jsx`) | token, jobs, stats, selection, notice | refresh, authenticate, signOut, createJobs, retryJob, cancelJob | API, events | overlapping refreshes, partial batches |
| drafts (`useJobDrafts.js`, `JobDraftsPanel.jsx`) | a list per open composer, one localStorage for all tabs | save, delete, clear; the effect that writes | other tabs | the list is written as a whole, also when it is only mounted |
| composer (`JobComposer.jsx`, `jobTemplates.js`) | the fields of the form, imports and submissions under way | edit, template, draft, import, submit | drafts, API | a file's text arrives late; a batch is sent while the form changes |
| table, filters and dialogs (`JobTable.jsx`, `useJobFilters.js`, `ConfirmDialog.jsx`, `App.jsx`, `AuthScreen.jsx`) | filter and page, ticks, the dialog and its busy flag, the view | tick, filter, turn the page, bulk retry and cancel, confirm, sign in and out | dashboard state | actions run job by job on the jobs of an old render |
| the rest of `web/src`, configuration, migrations, deployment | none worth modelling | - | - | - |

What makes each part correct:

- repository, queue, service, scheduler and pool together: a job is executed by
  one worker at a time and no more often than allowed; its status follows the
  life cycle; a queued job is on its way to a worker, exactly once; a running
  job is in a worker's hands; backoff is respected; what a user settled stays
  settled; what changed is announced;
- queue order: age beats priority in the end, nobody is overtaken by a later
  job that is no more urgent, a retry comes neither late nor a second early;
- realtime: no send on a closed channel, a slow client cannot block the others,
  events arrive in order and are lost only where the code lets them;
- registry: a worker that is up is shown online, one that stopped cleanly
  offline, no outcome is counted twice;
- auth and dashboard: once all is quiet the page shows what the server has, or
  an answer or event is known to have been lost; the spinner stops; the page
  shows the jobs of the signed-in user, unless an answer came late;
- drafts and composer: the shared list is what the user saved and did not remove,
  until a tab that missed a change writes over it; a draft brings back the job it
  was saved from, and a file the job it describes; what is created is what was shown when the button was pressed;
- table and dialogs: the pages are a partition of the list and the page shown is
  one of them; a busy dialog ends and never outlives its session; ticks are
  cleared only for what was done.

## Modules

| module | models | proofs |
|---|---|---|
| `JobModel` | `internal/model`: ids and statuses | |
| `JobRepository` | the jobs table, one operator per statement | |
| `RedisQueue` | the Redis keys, one operator per command | |
| `JobFlow` | the composition: handlers, scheduler, workers, clocks, faults; the properties | `JobFlowProofs` |
| `JobLifecycle` | abstract specification: the state machine a job's status follows | refined by `JobFlow` |
| `QueueOrder` | scores, queue order and backoff in time | `QueueOrderProofs` |
| `Broker` | the pump, the fan-out and the streams of `internal/realtime` | `BrokerProofs` |
| `EventStream` | abstract specification: a lossy ordered stream of events to each client | refined by `Broker` |
| `WorkerRegistry` | the workers table, heartbeats and counters | `RegistryProofs` |
| `Accounts` | the users table, tokens, the auth middleware | with `Dashboard` |
| `Dashboard` | one browser tab against the API; extends `Accounts` | `DashboardProofs` |
| `Lists` | `Array.prototype.filter`, by the places that are kept | `SequenceLemmas` |
| `Drafts` | the saved drafts of several tabs over one localStorage; extends `Lists` | with `Composer` |
| `Composer` | the form that creates jobs; extends `Drafts` | `ComposerProofs` |
| `Console` | table, filters, pages, ticks, bulk actions, the dialog, signing in and out; extends `Lists` | `ConsoleProofs` |
| `SequenceLemmas` | what taking one element, or all but some, out of a sequence does | itself |
| `MC...` | instances for TLC | |

`JobFlow` composes repository and queue. The other components meet it at narrow
places and are modelled apart: `Broker` starts at the event `JobFlow` publishes,
`WorkerRegistry` is told that an outcome was recorded, `QueueOrder` refines what
`RedisQueue` calls waiting and due, and `Dashboard` sees the server as a count of
committed changes, each of them announced after its commit, which is what
`ChangesAreAnnounced` of `JobFlow` says. `Composer` knows the drafts as `Drafts`
writes them; `Composer` and `Console` take a refresh of the list and a call of the
API as one step each, for how refreshes and answers overtake each other is the
matter of `Dashboard`. No module repeats what another one checks.

### The protocol: state

`status`, `attempts`, `row` (queue name and attempt limit) and `due` are the
columns of `jobs`; `due` stands for `scheduled_at <= NOW()`. `ready`, `retries`
and `dlq` are the Redis keys: an id is a member of a sorted set at most once, so
sets and functions are exact; a score is abstracted to *waiting* (in the future)
or *due*. `hpc/hjob`, `wpc/wjob` and `spc/todo/sjob` are the program counters
and locals of request handlers, worker goroutines and the scheduler. Two
history variables serve the properties: `requeues` counts manual retries,
`unannounced` holds the jobs changed since an event last named them.
`faultsLeft` bounds the faults.

### The protocol: steps

One step is one call to PostgreSQL or Redis together with the code around it.

| action | code |
|---|---|
| `CreateJob`, `CancelJob`, `RetryJob` | the first statement of `JobService.Create/Cancel/Retry` |
| `HandlerEnqueue`, `HandlerPublish` | the rest of them |
| `SelectScheduled`, `ClaimBatch` | the inner SELECT and the UPDATE of `ReadyScheduled` |
| `EnqueueClaimed`, `PublishClaimed` | the loop of `PromoteScheduled` |
| `ScanRetries`, `PromoteRetry`, `RemovePromoted`, `EndTick` | `PromoteRetries`, call by call |
| `DequeueJob` | `Dequeue` in `Pool.loop` |
| `StartJob`, `SkipJob` | `MarkRunning`, with and without a row |
| `PublishRunning`, `CompleteJob`, `FailJob`, `BackOff`, `Bury`, `PublishOutcome` | the rest of `Pool.handle` |
| `ScheduleTick`, `BackoffTick` | time passes |
| `ApiRestart`, `WorkerRestart`, `RedisFlush` | processes stop, Redis loses its data |

`ReadyScheduled` is one SQL statement and two steps: PostgreSQL runs it at READ
COMMITTED, the inner SELECT has no `FOR UPDATE`, and a row that changes after the
statement's snapshot is updated in its new version, because `id IN (...)` is all
that is re-checked. All other statements re-check their status filter on the new
version and are atomic.

`Find` in `PromoteRetries` reads only columns that never change and rows are
never deleted, so it is one step with the `Enqueue` that follows.

### The protocol: faults

A faulty step needs its kind in `FaultKinds` and uses up one of `faultsLeft`.
`"postgres"`: a statement returns an error, before or after taking effect.
`"redis"`: the same for a command; for a handler this also stands for a client
that hangs up, since its context is the request's. `"api"`, `"worker"`: the API
process or a worker process stops at any step. SIGTERM is covered by `"worker"`: the signal
cancels the context that every call of `handle` uses and `Start` returns without
waiting. `"flush"`: Redis comes back empty (`docker-compose.yml` gives it no
volume). A fault that changes nothing and leaves the process where it was is not
a step.

### Queue order

A job has a place (none, ready, running, backoff), a row and a score. The code's
scores grow with the clock for ever; here a score is relative to the present, so
that time lowers the scores of waiting jobs instead of raising those of new
ones. It stops when only the order of the waiting jobs matters: `NextScore` keeps
them in order, upwards from `Floor`, and below every score to come, so the model
orders jobs exactly as the code does, with `Step` ticks for a level of priority
where the code has 10^9 ms and `Second` ticks where it has 1000 ms. `TakeJob`,
`NextQueue`, `Resume` and `DequeueFails` are `Dequeue`, one ZPOPMIN at a time;
`EnqueueAfter` and `Due` cut time off to seconds as `Unix()` does. A job that has
ended makes room for a new one, so jobs come for ever although the ids are few.

### The event bridge

An event is its number in the order of publication. `Publish`, `TakeMessage`,
`ReadLocked`, `Offer` and `EndFanOut` are the way of a message from Redis through
the pump to the client channels; `Connect`, `Register`, `ReceiveMessage`,
`FlushMessage`, `HangUp`, `Deregister` and `CloseChannel` are one `ServeHTTP`
goroutine. The lock is not a variable: `ReadLocked` says that the pump holds it,
and steps that need it for writing wait for that. `dropped` and `missed` are
history, so that `Accounted` can say which event may be absent. The go-redis
channel between the subscription and the pump is modelled without a bound; the
library holds 100 messages and drops one it cannot pass on for a minute, which
the pump, which never blocks, does not let happen (`FanOutEnds`).

### The worker registry

One process is `Pool.Start` (`Beat`, `Tick`, `Stop`), its outcomes (`FinishJob`,
`CountJob`), a signal and a crash. Errors of the database are ignored by the
code and so leave no trace but a missing count. A heartbeat whose context the
signal cancels may still be executed by the server: `LateBeat`. Processes may
share a configured id. An id that is no UUID has every statement rejected; that
branch is in the module, but not in the run, since then nothing changes at all.

### The dashboard

One step is the code between two awaits. A refresh is a record with the token of
the render it was made in, its two requests are answered one by one, and it
ends in `ApplyRefresh` or `FailRefresh`; operations (`StartOp` to `OpFails`) go
call by call and await a refresh. `RunEffects` is React running the effects that
depend on the token. Tokens are records: whose, and whether still live; expiry
(`TokenExpires`) touches every copy, for copies are the same string, and the
page does not notice. `stale` and `missed` are history: the page shows an
overtaken answer or one of another token; an event found no open stream or a
refresh failed. Notices,
errors, theme and the list of events are left out. A dialog covers the page
while it runs a cancellation, so nobody signs out in the middle of one. The
numbers of the statistics count the jobs of all users and so stand for the last
change of the system; the list stands for the last change of its user's jobs.

### Drafts and composer

A draft is known by its number, for drafts can be equal. React renders a click and
runs its effects before the next event, so `Save`, `Delete` and `Clear` change the
list of a tab and write it in one step (`Change`); the effect of the *first* render
is a step of its own (`FirstEffect`), and writes back what was read. `wanted`,
`behind` and `conflict` are history: the list the user has made in whatever tab, the
tabs that have missed a change, and that one of them has written. The composer of
`Here` has a form; the other tabs save what `FirstForm` holds.

A form has a type, a queue, a payload, `force_fail` and a batch count. `queue` stands
for queue and priority, which a template sets alike; max attempts and the schedule
are left out, since they are edited, saved, loaded and sent like the batch count; only
a file that names no max attempts leaves those of the render in which it was chosen,
as it does with the type. `Templates` has the types and one key that every object
inherits (`Inherited`), which an import takes for a type too; its queue is `NoQueue`. A
payload is a template's, empty, no JSON, or JSON with or without `force_fail`
(`FilledFrom`, `Imported` and `Body` say what is made of it). `PickFile` keeps the
type of its render until `ImportFile` has the text; `ImportFile` of a job whose
schedule is no text stops half way, as the code does. `loaded` is history: the draft,
or the job of a file (`FileJob`), that the form shows unchanged. `Submit` hands the form of its
render to a submission, and `Post` creates its jobs one by one.

### Table, filters and dialogs

A job is queued or dead, which is what a retry tells apart, and numbered in the
order of creation. `filters` has the status filter, the page and its size; the other
filters and orders change the list alike. `Page` is the page shown, `filters.page` the page
chosen. A run is a call of `bulkRetry` or of a confirmed cancellation: it keeps the
jobs of the render it was started in, and goes job by job through `Serve`,
`NextOfRun`, `RunSucceeds` and `RunFails`; a refusal and a lost reply both end it
with `RunFails`. A retry with the icon of a row is `JobChanges` and a `Refresh`.
Unmounting the table forgets its filters and ticks, and the runs under way have no
table to change any more (`mounted`). The dialog is one for the whole page:
`RequestConfirm` replaces what it asks, also while it is busy.

## Runs

| run | instance | question | result |
|---|---|---|---|
| `safety` | 2 jobs, 2 handlers, 2 workers, limits -1 and 2, 1 manual retry, no faults | does any interleaving lose, duplicate or hurry a job, miscount the dead-letter list, or leave a change unannounced? | no |
| `faults` | 1 job, 2 handlers, 2 workers, 2 manual retries, 3 faults of all kinds | what survives faults? | exclusion, the attempt budget, the settled statuses, the life cycle |
| `progress` | 2 jobs, 1 handler, 1 worker, 1 Redis error or loss or API restart | do jobs move on? | running and scheduled jobs do in any case, queued jobs and announcements as long as nothing fails |
| `lost_retry` | 1 job, no faults | are failed jobs retried? | not always, see below |
| `cancel_undone` | 1 job, no faults | is a cancel final? | no |
| `order` | 2 jobs, 2 queues, 2 priorities, 1 worker, 1 Redis error | does priority or queue order starve or overtake anyone, is backoff on time? | no, as long as the earlier queues run empty again and again; yes |
| `stream` | 2 streams, channels of 1, 3 events | can the bridge panic, block, reorder, or lose an event where it should not? | no |
| `heartbeats` | 2 processes with one id, 2 jobs per kind, 2 faults | are rows and counters right? | counters never count twice, a heartbeat repairs a row, a clean stop is shown |
| `sessions` | 2 users, 1 change, 2 refreshes at a time, 1 fault of any kind | is the page current when all is quiet? | yes, or an answer or event was lost or late |
| `ui_progress` | 1 user, 1 change, batches of 2, 2 refreshes at a time, 1 refused call, failed read or stream loss | does what a batch has created reach the page by itself, also if the batch ends early; does the shared spinner stop? | yes |
| `drafts` | 2 tabs, 2 types, 3 drafts in lists of 2, 5 files, 2 gestures, 2 submissions | are drafts, forms and batches what the user made them? | yes, or a tab wrote over a change it had missed |
| `console` | 2 jobs, pages of one or two rows, 2 views, 2 filters, 1 retry at a time | are the pages, the ticks and the busy dialog right while everything changes? | yes |

Bounds. Jobs do not interact except through the scheduler's batch and a
worker's choice, so two jobs show every interplay: a batch of two, a worker busy
with the other job, two jobs due at once. Exclusion and double delivery need two
workers and two handlers. A limit of 2 gives one retry, -1 is the limit that is
spent before the first attempt (the API accepts it), 0 becomes 3 before the
row exists. One manual retry brings a job back once after its budget is spent;
the `faults` run allows two. Three faults suffice for a duplicate delivery plus
a failed removal plus a restart; the theorems have no such bound. In `order`, a
second and a level of priority are two ticks, the fewest that have a fraction;
two attempts give the delay of one second, whatever the fraction it starts in.
A channel of one is the smallest that fills up, three events fill it while one
is being written; the theorems hold for any size. Two refreshes at a time are
enough for one to overtake another, and to share one spinner; the theorems have no such
bound. One change is enough for an answer from before it to be applied after one with
it; a second creation of a batch is then always a refused one. That a selected job is
pushed off the list by newer ones needs two changes: the runs have the selected job
replaced by an older answer only, and `PageCorrect` has any number. One operation
at a time is a bound of `Dashboard`: the composer and the retry buttons can be
pressed again while an operation is under way, but operations meet only in their
refreshes. In `drafts` a list of two overflows with the third draft; the second tab
is the one that misses a change; the five files are one that is no JSON, one that
names everything and asks for two failing jobs, one that names nothing, one that has a
number for a schedule, and one whose type is an inherited key; two gestures put an edit, a load or a template between the
choice of a file and its text or between a submission and its jobs; saving and
removing drafts, opening and closing are not counted. In `console` two jobs on
pages of one row give a page too many as soon as one job leaves the filter, and both
fit on one page of two; a bulk action over two jobs has a first call that succeeds and a second one that is refused;
the cancellation runs next to the retry. Views without a table are alike, so one is
enough.

Symmetry: jobs, handlers, workers and users are permuted where a run checks no
liveness.

Fairness. `JobFlow`: weak fairness of each handler in the middle of a request, of the
scheduler, of each worker and of the clock. Goroutines are scheduled by the Go
runtime, the ticker fires for ever, and `Process` returns at the latest when
`JOB_TIMEOUT_SECONDS` expires. No user has to do anything, and no fairness is
assumed about *which* waiting job a worker takes: `QueueOrder` decides that, and
shows what an endless supply of jobs does. `Broker`: the goroutines run, and a
lock that is free again and again is granted in the end, for a waiting writer
holds up new readers; that browsers read is an assumption of
`BufferedIsWritten` alone, and `FanOutEnds` and `LockIsGranted` do without it.
`WorkerRegistry`: the heartbeat loop runs. `Dashboard`: the server answers, and
answers, events and effects are handled. `fetch` has no timeout, so a server
that never answers keeps the spinner turning. At the bound on changes a creation waits
that is not refused, which the properties of `ui_progress` do not wait for. An event and the refresh after an
operation have strong fairness, since they may find all connections of the
browser busy.

### What the violation runs show

- `lost_retry`: `PromoteRetries` calls Enqueue, then ZREM. If a worker pops the
  id, runs it, fails and writes the next backoff entry before the ZREM, the ZREM
  removes that new entry. The row stays `retrying` and no key has its id.
- `cancel_undone`: a cancel that commits between snapshot and update of
  `ReadyScheduled` is overwritten with `queued`; the client has its 204.

`SettledStaysSettled` states what does hold of a cancel: this race is the only
way back. The abstract `JobLifecycle` has it as part of `Release`.
`CurrentUnlessOvertaken` and `PageInv` do so for what the page shows.

### Observed while modelling, without a run

- A worker that is stopped with a job in hand writes the outcome with the
  cancelled context (`pool.go:86`): the row stays `running`, and neither the
  scheduler nor the API moves a running job, although `docs/ARCHITECTURE.md:51`
  lists what running jobs become.
- A refresh under way at sign-out is answered afterwards and fills the cleared
  state again; the next user of the tab sees those jobs until a refresh of their
  own is answered (`useJobFlow.js:30`). `stale` records it, and `ShownIsOwn` says
  that this is the only way.
- The dashboard cancels with `DELETE /api/jobs/:id/cancel`
  (`useJobFlow.js:89`); the API routes `DELETE /api/jobs/:id` and
  `POST /api/jobs/:id/cancel` (`main.go:83-84`). In the models every cancel of
  the dashboard is refused (`Served`, `Accepted`): the confirmation stays open
  after it, and no error is shown (`App.jsx:51`), as none is for a bulk retry
  that is refused.
- A tick made while a bulk action runs is cleared at its end like those of the
  action (`JobTable.jsx:41`).
- The focus stays behind the dialog: with the keyboard another dialog can be asked
  for while one is busy, and the busy flag then belongs to both (`App.jsx:42`).
- When the list grows again after it had shrunk under the chosen page, the table
  jumps back to that page: `filters.page` is clamped for showing only
  (`useJobFilters.js:31`).
- An import sets type, queue and count before it looks at the schedule; a schedule
  that is no text leaves the form half filled (`JobComposer.jsx:82`). The type is
  that of the render in which the file was chosen, so a type picked meanwhile is
  reverted (`JobComposer.jsx:74`), and so are max attempts edited meanwhile (`:80`).
  `FormInv` says that nothing else of the old form gets into the jobs of the file.
- An import takes any key of `jobTemplates` for a type, `constructor` and other
  inherited ones too (`JobComposer.jsx:74`): the form has a type no option shows, and
  no queue if the file names none.
- `force_fail` inside an imported payload stays there when the box is unticked
  (`useJobFlow.js:63`).
- Two composers open in two tabs overwrite each other's drafts
  (`useJobDrafts.js:17`); `DraftsSurvive` says when, and that nothing else does.
- Opening the stream does not refresh (`useJobFlow.js:105`): what happens between
  the first answer and the stream, or while it reconnects, stays unseen until
  the next event. `missed` records it.
- The default worker id is host name and time (`pool.go:32`), the column is a
  UUID: every heartbeat of a default configuration fails and is ignored.
- A worker that crashes stays online for ever (`pool.go:50`), and an outcome
  counted before the first heartbeat is lost (`pool.go:42`); `OutcomesAccounted`
  says that nothing else is.
- `scheduled` is a status the API writes and returns, and `docs/API.md:147` does
  not list it.
- Registration trims and lower-cases the address, login does not
  (`auth_service.go:27` and `:52`): an address typed with capitals registers and
  then does not log in (`docs/TROUBLESHOOTING.md:88`). The model knows addresses
  as they are stored.
- A job for a queue that no worker listens to waits for ever, and a queue named
  `dead-letter` shares its key with the dead-letter list.

## Proofs

`JobFlowProofs` proves, for any sets of jobs, queues, handlers, workers and
processes, any integer attempt limits and any bound on faults and retries:

| theorem | says | assumes |
|---|---|---|
| `TypeCorrect` | types | |
| `SafetyCorrect` | the inductive invariant `SafetyInv` | |
| `MutualExclusion` | `OneWorkerPerJob` | |
| `BudgetRespected` | `AttemptsWithinBudget` | |
| `SettledCorrect` | `SettledStaysSettled` | |
| `LifecycleRefined` | `JobFlow` implements `JobLifecycle` | |
| `QueuedCorrect` | `QueuedIsDelivered` | no faults |
| `RunningCorrect` | `RunningIsExecuted` | no `"postgres"` and no `"worker"` fault |

Its second half proves, when no fault happens:

| theorem | says | assumes besides |
|---|---|---|
| `AnnouncedCorrect` | `ChangesAreAnnounced` | |
| `LedgerCorrect` | `DeadLetterLedger` | finitely many workers |
| `PlacesCorrect` | `PlacesInv`: an id is in one place at a time | |
| `DeliveredOnceCorrect` | `DeliveredOnce` | |
| `BackoffCorrect` | `BackoffRespected` | |

`BrokerProofs` proves, for any set of streams, any buffer size and any number of
events, with connections that break and streams that come and go:

| theorem | says |
|---|---|
| `BrokerCorrect` | the inductive invariant `BrokerInv` |
| `NoPanic` | `NoSendOnClosed` |
| `OrderCorrect` | `InOrder` |
| `StreamRefined` | `Broker` implements `EventStream` |
| `AccountedCorrect` | `Accounted` |

`QueueOrderProofs` proves, for any finite set of jobs and any queues, priorities,
workers and units of time:

| theorem | says |
|---|---|
| `ServedInOrder` | `FirstComeFirstServed` |
| `QueueOrderCorrect` | `OrderInv` |

`RegistryProofs` proves, for any processes, ids shared or not, outcomes and faults:

| theorem | says |
|---|---|
| `RegistryCorrect` | `RegistryInv` |

`DashboardProofs` proves, for any users, any number of changes, overlapping
refreshes and faults of all kinds:

| theorem | says |
|---|---|
| `DashboardCorrect` | the inductive invariant `DashboardInv` |
| `CurrentCorrect` | `CurrentUnlessOvertaken` |
| `PageCorrect` | `PageInv` |

`ComposerProofs` proves, for any tabs, drafts, forms and files:

| theorem | says |
|---|---|
| `DraftsKept` | `DraftsSurvive` |
| `FormCorrect` | `FormInv` |
| `SubmittedCorrect` | `SubmittedAsShown` |

`ConsoleProofs` proves, for any number of jobs, page sizes, views, filters and retries
under way:

| theorem | says |
|---|---|
| `ConsoleCorrect` | the inductive invariant `ConsoleInv` |
| `BusyCorrect` | `BusyMeansRunning` |
| `PagesCorrect` | `PagesCover` |
| `ClearedCorrect` | `ClearedMeansDone` |

The argument. Exclusion is not inductive by itself: MarkRunning admits a job by
its status only, so one needs that a job in a worker's hands *is* running
(`ExecutingIsRunning`), which in turn needs that nobody else takes a running row
away. Cancel and Requeue have status filters; MarkCompleted and MarkFailed have
none, but their worker is alone with the row (exclusion again); ReadyScheduled
has none in its UPDATE, and is harmless because what it selected was scheduled
and can since only have been cancelled (`SelectedIsUnspent`). The budget needs
that a queued or retrying row always has an execution left
(`RunnableHasBudget`), and this needs that jobs the scheduler queues have never
run (`FreshIsUnspent`). The conjunction `SafetyInv` is inductive; most steps
touch none of it and are covered by the lemma `SafetyFrame`. The refinement
follows from the same invariant: it is what tells an unfiltered UPDATE's move.

Deliveries. Without faults an id is in one place: in the hands of
one handler, one worker or the scheduler, in a ready queue, or in
`scheduled:retries` (`OnePlace`). That alone is not inductive, for `PromoteRetries`
puts an id into a ready queue before it takes it out of `scheduled:retries`: in
that window an entry that is about to be removed does not count as a place, and
whoever reads the key then finds the scheduler between the two calls (`AtRetries`,
`ScannedInv`). What else is needed: who brings a job into circulation finds it out
of circulation (`AtRestInv`), what the scheduler has selected is nowhere else
(`SelectedInv`), and an entry of a job that is not waiting for it any more is stale
and never delivers twice (`StaleInv`). `DeliveredOnce` and `BackoffRespected` are
then read off. The ledger counts the workers between MarkFailed and RPUSH, hence
the finite set; that no status is `failed` comes from the same step. A change is
announced because every return path of a handler, of the scheduler and of
`handle` that follows a change passes through Publish.

For the bridge, `BrokerInv` joins to the types: a client in the map is being
served or is about to leave and its channel is open (`Registered`), which is why
the send of `Offer` is safe, because `Deregister` waits for the loop and
`CloseChannel` comes after it; and whatever lies in Redis, in the pump, in a
channel and in a response is newer from each place to the one before
(`NotNewer`, `InOrder`), which makes order inductive across four places.
The refinement maps the write of an event (`FlushMessage`) to the abstract
delivery and `HangUp` to the end of a stream; the steps in between stutter.
`Accounted` speaks of the last event written only; `LossInv` says the same of
every event at every stage: what is later than an event in Redis or in the pump
is still in Redis or was missed (`BehindPump`), what is later than one a stream
has got is on its way to it, dropped or missed (`BehindStream`), and a stream that
has not joined has got nothing (`FreshStream`).

For the order of a queue, `RankInv` says that of two waiting jobs the older one has
the lower score unless it is less urgent. To add a job one needs that what has
waited for a tick scores lower than any new job of its priority (`AgeInv`); to let
time pass, that `NextScore` is strictly monotonic within a queue, also near
`Floor`, where a score is a count of the lower ones and the finite set of jobs
bounds that count.

For the backoff, `WaitInv` gives each waiting retry a balance (`BackingOff`): until its
delay is over, the ticks it still has to wait exceed those up to the second of its
entry by less than a second. `EnqueueAfter` opens the balance with the fraction that
`Unix()` cuts off, and a tick takes one from both sides. That a delay of `2^n` seconds
is positive comes from counting the subsets of `1..n`, since the provers do not know
powers. An entry belongs to a job that has an attempt left, which needs that a job in a
ready queue has one too.

For the registry, what is still to be counted is a set of tokens, one per outcome
(`ToCount`). A finished job adds one to the outcomes and a token; a count takes a token
and adds one to the counter of the row, to the early counts or to the lost ones, and to
one of them only (`CountJobEnds`). That the sets are finite has to be carried along
(`AccountInv`), or the cardinality would not change by one.

For the dashboard, `CaughtUp` says: when the session has heard every event, either
the newest refreshes under way are all fresh, that is, have read nothing or what
the server has now (`WillBeShown`), or what is shown is current or marked stale
and every refresh under way is fresh or overtaken (`IsShown`). A refresh that is
started makes the first case true whatever was there before; a fresh one that is
applied makes the second one true, because it marks all those before it; a failed
one means that something was missed. A commit makes the hypothesis false until its
event has started a refresh of its own, which is why a page that skipped events
while it is loading would not be current.

For the drafts, `DraftsInv` adds to `DraftsSurvive` that only a mounted composer has
an effect to run. A click does to the tab's list what it does to the user's, and the
two are equal as long as the tab has missed nothing.

For the composer, `ComposerInv` joins three parts: the lists of drafts are well-formed
and within the cap (`DraftTypes`), the form is well-formed and, while it shows a draft
or a file, makes the jobs of the form that was saved or of the file (`FieldsInv`), and what a submission has
created is the beginning of its batch (`SubmissionsInv`). `loadDraft` fills in what is
empty, so form and draft need not be equal; `FilledFromSame` says that the jobs made
from them are, and `ImportedSame` says so of a file, for an import sets every field anew
unless it stops half way. Submissions end in any order, and `RemoveAt` keeps the rest.

For the console, `RunInv` says of every action under way that what it has done and what
it has left are together its jobs, and that the head of the rest is done once its call
is accepted; so the last success finds all of them done. `ClearedMeansDone` speaks of
every position that could have been removed, and equal neighbours are as good as each
other (`RemoveAtEither`). `BusyInv` knows one cancellation if the dialog is busy, and
none otherwise: closing it and signing out are excluded while it is busy, and a dialog
that replaces a busy one inherits the flag together with the cancellation. The pages
are about ranks: `Keep` lists each matching job once (`KeepProperties`), a rank lies on
one page (`PageOfRank`), and the last page reaches the last rank while no page before it
does (`PageCountProperties`).

The assumptions on the constants are named in the modules: attempt limits are
integers, the batch limit is positive, `NoJob` is no job id, worker processes
consist of workers, channels have room for one event, the queues of a worker are a
sequence of names, priorities are integers, the lowest score has room for all jobs
below the scores of new ones, a page and a list have room for one job and the list of
drafts for one draft, the user may have a job, the first page size is one of those on
offer, views with a table are views, files are well-formed jobs or no JSON, bounds are
natural numbers.

`filter` is defined in `Lists` by the places it keeps, and not with `SelectSeq`: that is
recursive, and what a recursive definition does for every input is out of the proof
system's reach.

Model-checked only: the liveness properties (`QueuedIsPickedUp`, `RunningIsResolved`,
`ScheduledIsPromoted`, `ChangeIsPublished`, `FanOutEnds`, `LockIsGranted`,
`BufferedIsWritten`, `FirstQueueIsServed`, `LaterQueuesAreServed`, `ChangeIsFetched`,
`SpinnerStops`, `UpIsShownOnline`, `StoppedIsShownOffline`), which are out of the proof
system's reach like anything about `ENABLED`.

## Not modelled

- What becomes of the jobs that a failed call or a stopped process leaves behind.
  Nothing in the code puts such a row right, so there is nothing to state beyond
  what the theorems assume; `faults` and `progress` show what does survive.
- What the code lets happen for ever is a hypothesis of the property next to it.
  `RunningIsResolved` has no stopped worker, `LaterQueuesAreServed` has earlier queues
  that run empty again and again, `StoppedIsShownOffline` has no fault: a heartbeat that
  arrives after the last clean stop leaves the row online, and nobody corrects it.
- The spelling of addresses (see above): in `Accounts` a user is an address as it is
  stored.
- A second session of the same browser: sign-out in one tab leaves the other one
  signed in, with a token that stays valid. `Dashboard` is one tab; other tabs are
  `OthersChange`.
- The components that only show their props, the export, the search and the paging of
  the workers' view, the shortcuts that move the focus, theme and density.
- Configuration, migrations and deployment, which are read once: they are the
  constants, the initial state and the fault model.

Left out by abstraction: HTTP parsing and replies, JSON, password hashing and
signatures, what the job types do, rendering, and reads that change nothing.
Jobs belong to one user here: a statement of another user matches no row.
