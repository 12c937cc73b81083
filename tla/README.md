# A verification project for gonemaster

gonemaster is a DNS zone testing program: an engine that runs test cases
against the name servers of a zone, and a server that takes test requests over
HTTP, runs them on a pool of workers, stores the results in an SQL database and
re-runs whole cohorts of zones on a schedule. This directory holds TLA+ modules
for the parts in which concurrency, failures and restarts decide whether a test
is run, run twice, lost or misreported: the server's queue, workers, scheduler
and analysis snapshots, and the engine's run, recursor and query layer. TLC
configurations check them on small instances; TLAPS proofs establish the central
invariants of the server's modules, of the analysis controller, of the query layer
and of the engine run, and the steps of two refinements, for instances of any size.

Contents

1. The system
2. The modules and how they correspond to the code
3. What the runs check
4. Bounds, and why they are enough
5. Fairness
6. What is proved
7. Disagreements between the code and its documentation
8. What is not modelled
9. Plan

To repeat the checks, from this directory:

    tlc -workers 2 -config MCWorkerPool.cfg MCWorkerPool      # and so on
    tlapm WorkerPoolProofs.tla                                # and so on

`PROJECT.json` lists the runs, the mutants (a changed definition per property
that makes its run fail), the source lines behind every definition, the hazards
the properties are aimed at, and the theorems.

## 1. The system

### Components

| Component | Source | State it keeps | Operations |
|---|---|---|---|
| job queue | `server/queue.go` | two priority slices, `paused`, `closed`, a waiter count, the buffered channel `notify` | Enqueue, Dequeue, Remove, Reorder, Pause, Resume, Close |
| worker pool | `server/worker.go` | goroutines, a slice of cancel functions, the pool's context | Start, resizeWorkerPool, Stop, workerLoop |
| job lifecycle | `server/worker.go`, `handlers.go`, `handlers_batches.go` | the rows of `jobs` and `runs`, the cancel registry, a context per run | submit, runJob, cancel, remove from the queue, delete a batch |
| stuck-job reaper | `server/reaper.go` | the list of its sweep | list old running rows, compare with the registry, graduate |
| startup recovery | `server/recovery.go` | none of its own | fail what was running, re-enqueue what was queued |
| job store | `server/store.go`, `store_sql*.go` | jobs, runs, domains, tags, batches, settings | one transaction per call, retried on conflict |
| engine limiter | `server/limiter.go` | a buffered channel, replaced by every settings change | Acquire, Release |
| cohort scheduler | `server/scheduler.go`, `handlers_analysis_schedules.go` | the schedule rows | tick, claim, fire, record the outcome; PUT, DELETE |
| recurrence rules | `server/recurrence` | none | Next |
| metrics collector | `server/metrics*.go` | gauges, histograms, top lists | observe, export |
| analysis controller | `server/analysis/control.go` | catalogue rows, facts and projection states of runs, snapshots, their aggregates | project a run, capture, rebuild, clear, patch, rematerialize, retire, repair |
| name server hot cache | `server/nameserver_hot_cache.go` | base stores by profile key, least recently used first | lease, release, evict |
| rate limiter | `server/ratelimit.go` | time stamps per client | allow |
| engine run and test plan | `engine/engine.go`, `plan.go`, `All` of every test module | the request, the results so far | plan, run the modules, decide which cases follow |
| parallel runner, test case logger | `engine/internal/parallel`, `test/internal`, `logger` | tasks, workers, a kept panic; entries and entries to call back | run tasks, log, call back, merge |
| engine name server layer | `engine/nameserver` | query caches, inflight queries, concurrency caps, failure state of a run | QueryWithOptions |
| engine recursor | `engine/recursor` | results, inflight lookups, root referrals, claims | Recurse, Parent |
| scoring | `scoring/scoring.go` | none | score |
| programs, API views, MCP, web pages | `cmd`, `server`, `mcpbridge`, `ui*`, `site` | none of interest here | parse, format, serve |

The full list, with what is and is not modelled of each part, is the
`components` list of `PROJECT.json`.

### How the parts interact

A submitting handler creates a row with status `queued`, enqueues its id and
tells the metrics. A worker blocks in `Dequeue`; with an id it loads the row,
registers the cancel function of a new context in the registry, sets the row to
`running`, waits for a token of the engine limiter, runs the engine, and
*graduates* the job: one transaction removes the row from `jobs` and inserts
the record in `runs`. If that fails the row is *parked* as `failed`. Cancel,
queue removal and batch deletion reach a job through the queue, the registry
and the store, one call at a time, while workers act on it. The reaper
looks for rows that stay `running` although the registry does not know them.
After a restart recovery fails the rows that were running and re-enqueues the
queued ones. The scheduler wakes up once per tick, lists the due schedule rows,
claims each by compare-and-set on `next_run_at`, and submits a batch through
the same code as the handlers, unless the previous batch is still active.
Settings changes resize the pool, replace the limiter and turn the scheduler on
and off while all of this goes on.

A run of the engine goes through its test plan case by case. A case asks the
name servers of the zone through a pool of goroutines; each query passes the
query cache, the inflight table, the concurrency cap and the failure state of
the run. The recursor finds name servers and addresses through the same layer.
The server gives a run a snapshot of a base store that it leases from the hot
cache, so runs share query caches and caps. What a case logs reaches the server
through callbacks that count queries and report progress.

A worker that has graduated a run hands it to the analysis controller, which
stores its facts and updates the snapshot row of its batch. A loop looks for
snapshots whose batch is drained and projected, computes their aggregates and
captures them. Rebuild, clear, PATCH and retire requests change the same rows,
call by call, and a repair pass follows every restart.

### What is hard about it, and what makes each part correct

* *Queue.* Dequeue gives its mutex up between counting itself as a waiter and
  the select; a token can be stale, can go to a goroutine that leaves anyway,
  or can be dropped by a full channel. Correct: no worker sleeps beside a job
  nobody is coming for; no job is lost or duplicated; normal jobs go first.
* *Pool.* Contexts are cancelled outside the lock, on goroutines that are in
  any place. Correct: the slice is exactly the live workers; a shrink and a
  stop end the goroutines they mean to end.
* *Lifecycle.* Every actor acts on a status it read some calls ago; each call
  may fail; the process may crash between any two. Correct: a job is a row or
  a run and never both; the engine is started at most once; a queued row is on
  its way to a worker; what clients see of a job follows a contract; every job ends.
* *Registry, reaper.* The registry is the reaper's only evidence of life.
  Correct: it has every job being executed, and the reaper takes none of these.
* *Limiter.* A run outlives the limiter it took its token from. Correct:
  tokens match holders, nobody waits for ever, the cap is respected.
* *Scheduler.* Several servers act on stale copies of a row; a submission can
  fail half way; a process can end after the claim. Correct: an occurrence
  fires at most once, runs do not overlap, a due row does not stay due.

* *Recurrence.* A change of a zone's offset skips a time of day, repeats it, or
  pushes it over midnight. Correct: Next is the first documented occurrence that
  follows.
* *Snapshots.* Whole rows are written back from stale copies, by workers, the
  capture loop and administrators; a restart may fall between any two calls.
  Correct: what is captured has every run of its batch, what was projected is kept,
  and a snapshot that can be captured is.
* *Query layer.* Equal queries are coalesced, across jobs; the one that is out
  may be cancelled, panic or wait for room. Correct: one query at a time for a
  question, no lost slot, nobody waits for ever, and a cancelled query is not
  held against the server.
* *Recursor.* Lookups share results, referrals and claims while zones depend on
  each other in cycles. Correct: every lookup ends, with what the zones say.
* *Engine run.* Tasks of a case run and log in any order and may panic, and a
  run may be cut off at any step. Correct: a run that succeeds has the results of
  a sequential one, queries are counted exactly, and every run ends.

The list `hazards` in `PROJECT.json` names these, and the ones not covered yet,
at the lines where they bite.

## 2. The modules and how they correspond to the code

| Module | Models | Rests on |
|---|---|---|
| `QueueContract` | abstract: what the queue promises | |
| `JobQueue` | `InMemoryQueue` and the goroutines in `Dequeue` | |
| `WorkerPool` | Start, resize, Stop around `JobQueue` | extends `JobQueue`, implements `QueueContract` |
| `JobContract` | abstract: the statuses of a job a client may see | |
| `JobLifecycle` | runJob, handlers, batch delete, reaper, crash, recovery | implements `JobContract` |
| `EngineLimiter` | the limiter and its replacement | |
| `CohortScheduler` | scheduler, schedule requests, submitBatch | |
| `Recurrence` | the rules and their Next, without state | instantiated by `MCCohortScheduler` |
| `SnapshotController` | the analysis controller over its rows | |
| `NameserverQuery` | QueryWithOptions, hot cache, failure state | |
| `Recursor` | lookups of a run from the root down | |
| `EngineRun` | test plan, parallel tasks, log and callbacks of a run | |
| `*Proofs` | the theorems about the module of that name | extend it and TLAPS |
| `MC*` | values for TLC | extend the module |

Several definitions are preceded by one with the same name and a suffix
(`DequeueBatch_AnyTime`, `StartFails_Drops`...): a plausible mistake in the same
code, never used by a specification. Replacing the definition by it must make
the property named in `PROJECT.json` fail.

### JobQueue and WorkerPool

A step is one critical section of `InMemoryQueue.mu`, or one case of the select.
`pc[w]` says where a goroutine is: `check` (about to lock), `blocked` (in the
select), `woken`/`leaving` (out of the select, still counted), `running`
(in runJob), `off`. `notify` is the number of tokens in the channel,
`NotifyCap` its capacity; a send to a full channel is dropped, as in the code.
`owed` is a history variable: the ids accepted and neither taken nor removed.

`NotifyCap >= Cardinality(Workers)` is an assumption: the channel has 1024
places (`queue.go`) and the settings API accepts a `worker_count` of 1 to 1024
(`handlers_settings.go:103`). `settingsMu` (`handlers_settings.go:408`) keeps two
resizes apart, hence `Settled` in the guard of `Resize`. `Stop` runs before the
HTTP server is shut down (`cmd/gonemaster-server/main.go:618`), so requests
still arrive at a closed queue, and the model lets them.

`RepeatedIds` says whether a reorder request may list an id twice. The runs set
it to FALSE; see section 7.

`QueueContract` has no tokens, waiters or contexts. The refinement maps
`present` to the goroutines that may still take a job and every other variable
to itself. `Safety` is its specification without fairness; the proofs use it,
`ImplementsContract` checks all of it.

### JobLifecycle

A step is one call on the store, the queue or the registry; each is a
transaction or a critical section and nothing is held across two of them.

* `jobs[j]` and `runs[j]` are the status in the two tables. A row at `failed`
  is a *parked* one: its graduation failed and the status was written in place.
  `Get` looks in `jobs` and then in `runs`, as the store does.
* `cancels[j]` is the registry: the worker whose context the entry holds.
* `wpc`, `cpc`, `dpc`, `sweep`/`reaping` are the places of workers, handlers,
  the batch delete and the reaper; what they read earlier (`dlist`, `sweep`) is
  kept as they read it and may be stale.
* `row[w]` is the row a progress callback of worker `w` has read and not yet
  written back (`updateJobProgress`); other actors come between. There is one
  callback at a time per run (`progressTracker.mu`), and the run does not end
  during one. The percentage and the throttle are left out: any report may be
  the one that is written.
* A batch (`BatchJobs`) is submitted as `submitBatch` does it: job by job, and the
  row of the batch (`batch`) last; the request may end part way. The deletion of the
  batch may come at any moment of this, as soon as there is something of it to
  delete (`Exists`, the preview's). It cancels what it listed and waits until two
  counts, one of queued and one of running jobs, are zero; a list or count that
  fails (`"list"`) reads as empty, as `store.List` has it. `missed` is a history
  variable: the jobs that the deletion under way cannot have counted, because they
  came after its count of queued jobs or because a count failed.
* `putBack` is a history variable: the jobs whose update to `running` failed, which
  runJob put back into the queue.
* `Fault(kind)` is a store call that fails, of the kinds in `FaultKinds`, at
  most `MaxFaults` times. In `RecoverOrphan`, `"park"` stands for both calls
  of that function failing. `"panic"` is a panic in runJob outside the engine,
  which recovers its own.
* `Crash` clears everything except the two tables. The server is down until
  recovery has gone through the rows, and may crash again meanwhile.
* The queue is a set: `HoldsOwed` and `OneHolder` of `WorkerPool` justify
  that, and the order is irrelevant to these properties.
* How old a row must be for the reaper is left to the clock (`ReapList` lists
  any set of running rows).
* A job accepted while the server stops, whose Enqueue fails unnoticed, is the
  case of a crash between `Create` and `Enqueue`.
* `MaxCrashes = 0` is the in-memory store; with it nothing survives a crash.
* One process per database, as `reaper.go:32` requires.

`JobContract` is the status a client sees. `JobStatus` is the mapping; a job
that was deleted maps to `deleted`, a parked row to `parked`, `missed` to itself. The
status of a run never changes. A parked job is reported as failed and is not final: it
becomes a failed run at the next restart, or a canceled one if somebody who had seen it
active acts on it (`Settle`, section 7). A deletion takes no active job but those in
`missed`. The contract promises no progress; `EventuallyTerminal` is checked of the
lifecycle itself.

### EngineLimiter

`current` is the limiter in the atomic pointer, `lim[w]` the one a worker loaded
and will release. A capacity of 0 is the nil limiter, which holds nobody back.
Every settings change makes a new limiter, also when the cap stays the same.

### CohortScheduler

Each server has one scheduler loop; `pc[s]` is the place between its store
calls, `todo[s]` the rows it listed at the start of the tick, `cur[s]` the copy it
works on. A rule is the set of its occurrences; `RuleAssumption` says that a
rule with a later occurrence has a first one, which is what `recurrence.Next`
returns. `BreakRule` is a rule whose time zone disappears. `submitBatch` is
followed job by job (`CreateJob`, `CreateFails`, `Submitted`), since it can fail
between two jobs. `ProcessEnds` also stands for a panic in a tick. The order of
rows with the same `next_run_at` is left open. All servers read one clock. Of
the stored outcome only the batch id is kept: nothing reads the text back.
`epoch`, `gen`, `owner`, `fires`, `open`, `last` and `serial` are history.

### Recurrence

Instants are hours, a zone is an offset that changes once. `at` and `Next` are
the code's; `TimeDate` is Go's `time.Date`, external. `Occurrence` is the reference,
from the documentation and not from `time.Date`: the first instant that shows the time
of day, or, if it is skipped, the time moved forward by the gap. `MovedEarlier` names
the one kind of occurrence on which the code disagrees (section 7). The module has no state: it
justifies that `CohortScheduler` takes a rule for the set of its occurrences and
Next for the least later one. `MCCohortScheduler` instantiates it and checks that
as `NextIsFirst`, on every day its clock reaches.

### SnapshotController

One cohort. Every process (a worker, the capture loop, the administrator, the
repair pass) has a record of locals `l[p]`, whose `pc` is the next store call; what
it read, such as the row it will write back, is in the record. `facts`, `state`,
`snaps` and `cohort` are the tables. A count or an aggregate is the set of runs it
was computed from, so that a partial one shows. `Scenarios` says which workers
serve and which disturbances may come: a store call that fails, a crash, or an
administrator's request. A failing graduation (`GraduateFails`) parks the job, which is
then neither a run nor outstanding; a failing lookup of a snapshot row (`FindFails`)
reads as "there is none". A crash cuts a submission off (`sub`), and recovery graduates
running and parked jobs as failed. All jobs of a batch carry one profile. A snapshot row is
found by its batch and its aggregates by its id; ids are never given out twice, and
the rows there are at the start have ids of their own. `seen` is a history variable:
the runs that were ever projected.

`CapturedIsWhole` and `FactsKept` speak of the time until a second disturbance, and
leave out the requests that are meant to undo them. The first holds at every moment,
the second when no process is in the middle of anything: a rebuild deletes before it
puts back.

### NameserverQuery

A thread is a goroutine in QueryWithOptions; its `pc` follows the function from
the cache lookup over the skip decision, the inflight table (`join`, `wait`), the
cap (`acquire`, `capwait`) and the network to what the result teaches the run
(`observe`, `learn`, `store`) and the release of waiters and slot. `Cancel` and
`Panic` may come at any step. Base stores are numbered, and query caches,
inflight tables and caps are indexed by base store and address: this is how runs
share them after a lease, whatever becomes of the entry in the hot cache. Time is
not counted: what has a time to live may be gone whenever it is looked at. The
hot cache is `hot`, the base store of a key, and `older`, the order in which the
keys were used last: eviction keeps the `MaxHot` entries used last.

Failure state is kept per name server object and the query cache per address, and
two objects may share an address. `HealthyNotBlamed` is therefore about an address
and all objects on it: said of one object it is false, since another one on the
same address that used up its latency budget stores "no response" for both.

### Recursor

A name is the sequence of its labels, top-level one first. A thread has a stack:
a frame is a walk (`recurseOrdered` with its state) or the address lookup of a
lazily resolved name server; frames share `inProgress` and `glue` by reference,
which are therefore kept apart, in the thread's `maps`. A step is one query with
all that follows from its response. The zones and servers are external:
`Reply(world, ...)` is what a server answers and `Truth(world, ...)` what a lookup
may end with; `Move` lets a server move between two requests, after which its old
address is silent, refuses, or goes on to serve the old data; `Truth` then allows what
the old address says beside what is right (section 7). `Requests` are the
lookups a test case may make, `Plans` which of them the threads make. Walks are
ordered and query one server at a time: `recurseOrdered` with `parallel = 1`. The
profile that is shipped (`share/profile.json:25`) has `unordered` and `parallel = 8`,
so the walk itself is then `recurseUnordered`, which asks the servers of a zone at once
and takes the first usable response; it is not modelled. Everything around the walk (the
cache, coalescing, referrals and claims, the retry, CNAMEs and, as `unordered` turns
their parallel forms off, the lookups of addresses) is the same code in both modes.

### EngineRun

The run goes through `Order`, the cases in the order of the modules and of their
`All` functions; `at` is the place of its case there. `EngineAssumption` says that
no verdict has the tag of a query or of a failed callback, which only the engine logs.
`PlannedTestcases` is the selection, `Gate`, `SkipsBasic03` and
`CanContinue` the findings that decide about later cases. A case is its start, its
parallel tasks if `Width` gives it any, its verdict and its end. `Main` is the
goroutine of the run: `mpc` is its place, in RunOrdered that of the dispatcher;
`tpc` are the places of the workers. With `parallel = 1` the run does the tasks
itself. The task that asks a server is Delegation04's; the others have the same
form. `AddTo` and the callback steps are the protocol of `Logger.Add`:
`running` is `callbackRunning`, `cb[g]` the callback a goroutine is in, split into
the read and the write of the server's counter, which has no lock. Results are
kept without their time stamps, which only the merge of a case looks at. An entry is
stamped and appended in one step here; in the code another goroutine's entry may come
between the two, and the sort of `MergeExtras` puts them right. `cause` is why the
job's context is done: a cancellation or the job's timeout. What
there is to find is in `world`; after a cancellation a task or a case may find
nothing instead.

## 3. What the runs check

| Run | Configuration | What it shows |
|---|---|---|
| `pool_safety` | `MCWorkerPool.cfg` | `EnoughWakeups`: no lost wake-up. `HoldsOwed`, `OneHolder`: no job lost, duplicated or held twice. `SliceIsLive`: the cancel slice is the live workers. `PoolTypeOK`. |
| `pool_liveness` | `MCWorkerPoolLive.cfg` | `StopTerminates`, `ShrinkTerminates`, `EveryJobServed`, and `ImplementsContract`: the pool implements `QueueContract`, its fairness included. |
| `lifecycle_safety` | `MCJobLifecycle.cfg` | `ImplementsJobContract`: clients see the statuses move as `JobContract` allows, with a batch that is deleted while it is submitted, failing listings and graduations, the reaper and a crash. `LifecycleTypeOK`. |
| `lifecycle_registry` | `MCJobRegistry.cfg` | `RowXorRun`, `RegistryExact` and `ReapsOnlyAbandoned` with two handlers, panics and failing calls of every kind. |
| `lifecycle_liveness` | `MCJobLive.cfg` | `RunsAtMostOnce`, `QueuedIsReachable` with failing starts. `EventuallyTerminal`: every submitted job ends. |
| `limiter` | `MCEngineLimiter.cfg` | `TokensExact` and `NobodyStarves` across replacements. |
| `scheduler` | `MCCohortScheduler.cfg` | `FiresOnce`, `SerialRunsDoNotOverlap`, `DueIsHandled` with two servers, every kind of failing call, process exit, stop and a broken rule. `NextIsFirst`: what `recurrence.Next` computes is the first later occurrence of those the documentation promises, but for a time of day that is skipped behind UTC. |
| `snapshots` | `MCSnapshots.cfg` | `CapturedIsWhole`, `FactsKept`, `SettlesCaptured`: captured snapshots cover what their batch produced, projected runs stay projected through rebuilds and restarts, and a snapshot that can be captured is. `SnapshotTypeOK`. |
| `drained_batch_never_captured` | `MCSnapshotStuck.cfg` | violated: `DrainedIsCaptured` (section 7) |
| `engine_query` | `MCQuery.cfg` | `OneLeader`, `CapExact`: coalescing and cap across runs that share a base store. `HealthyNotBlamed`: cancellations and panics are not held against a server that answers. `QueriesReturn`: nobody waits for ever. `QueryTypeOK`. |
| `recursor` | `MCRecursor.cfg` | `Truthful`: a lookup ends with what the zones say, or the old servers of a zone that moved. `WaitsForTheLiving`: claims and waiters belong to walks that are under way. `LookupsReturn`: every lookup ends. `RecursorTypeOK`. |
| `engine_run` | `MCEngineRun.cfg` | `SucceededAsSequential`: a job that succeeded has what a sequential run finds, in its order. `QueriesCounted`: the unlocked counter is exact. `RunEnds`: runs end and leave no goroutine behind. |

`QueuedIsReachable` and `EventuallyTerminal` are checked without failures of
`Get` and of a cancel's graduation. Both leave a row at `queued` that no queue
holds, until the next restart: `store_sql.go` reports a failing query as "no
such job", and a cancel takes the id off the queue before it graduates. They
are item 6 of section 7. `SerialRunsDoNotOverlap` is stated for firings that read
what the one before them stored; without that condition it fails (section 7).
`WaitersExact`, the exact waiter count, is proved (section 6) and has no run.

`RegistryExact` and `ReapsOnlyAbandoned` make one exception, for a job that was put back
after its update to `running` had failed (item 3 of section 7): its registry entry may be
missing, though it is never another worker's. `CapturedIsWhole` speaks of the jobs that
graduated: one whose graduation failed is left out of the snapshot (section 7), and
without a failing call every job is in it.

`CapturedIsWhole` and `FactsKept` exclude the requests that undo them by intention
(clear, disable, purge), and the first also those that race with the capture loop as
section 7 says (rebuild, enable, rematerialize). Both are stated for one disturbance at a time:
after a failed projection a crash makes the repair pass rebuild, beside the capture
loop, as an administrator's rebuild would; and a rebuild that is cut off by a failing
call or a crash may leave what it has deleted. `HealthyNotBlamed` is about an address
that answers every query and on which no latency budget is used up.
`QueriesCounted` leaves out runs whose
callback failed: the logger then drops it on purpose. `Truthful` is about lookups
that were neither cancelled nor hit by a panic.

## 4. Bounds, and why they are enough

* `pool_safety`: three workers, one normal and two batch jobs, a pool of one to
  three. Three workers allow a stale token, a worker that leaves through its
  context and a third that is woken in its place; three jobs fill both tiers.
  The theorems of `WorkerPoolProofs` remove the bound for all five invariants.
* `pool_liveness`: two workers and one job per tier, which is enough for one
  worker to be cancelled in the place of the other and for priority to matter.
* `lifecycle_safety`: a batch of two jobs, one worker, one handler, one fault,
  one crash: two jobs let submission, batch delete and recovery be part way through,
  each beside the others.
* `lifecycle_registry`, `lifecycle_liveness`: one job, as what is said is about
  one job at a time, but with two workers, two faults and a crash, and two handlers in
  the first of them. The
  theorems of `JobLifecycleProofs` have none of these bounds.
* `limiter`: three workers, caps 0, 1 and 2, three limiters in a row, so that
  an old limiter can be drained while two newer ones fill.
* `scheduler`: two servers, one cohort, an occurrence at each of the times 1 to
  3 with the clock going to 2, two batches, one request, one fault of any kind.
  Schedules do not share state, so one cohort suffices. For the calendar: zones
  ahead of and behind UTC, changes by one, two and 24 hours at night and
  around midnight, months of 28, 31 and 30 days, rules of every kind at three
  times of day, in every hour of the three days around the change.
* `snapshots`: one batch of two runs, as snapshots of different batches share
  nothing but the catalogue row; two workers for the failing call, retirement
  and intent, one worker beside the capture loop and the administrator for the
  longer ones (crash, clear, disable, rematerialize, purge, rebuild, enable, the last two
  from a cohort that has a projected run). One disturbance per behaviour, and once a
  failure and a crash.
* `engine_query`: two goroutines of one run and one of another on a shared base
  store; an address that answers, under two names, one that refuses and one that
  does anything; three questions, one of them a plain SOA query and one a diagnostic probe; a
  cap of one, a threshold of two, a query cache of one entry, one address per
  run at most, one cancellation or panic. Six plans, each of which brings queries
  together in another way. A leader with several waiters is left to the theorem
  `QuestionHasOneLeader`: none of them is left behind when it ends.
* `recursor`: two goroutines, thirteen worlds of up to five zones (cycles of name
  servers, aliases and loops of them, lame, dead, refusing and misreferring servers,
  and a server that moved, with three kinds of old server), seven referrals instead of
  20, chains of two CNAMEs and a cache of one entry, so that every limit is reached.
* `engine_run`: three servers and two workers, so that the dispatcher can be at
  its channel with a task left while both workers are done with theirs; two
  faults of any kind for a case alone, one in a full run; a request for every
  module with gates and a world for every gate; one by one as well as in
  parallel; refused requests.

`CHECK_DEADLOCK FALSE` is used where ids, requests or times are finite and the
system may come to rest with everything done. The limiter runs check deadlock.
Symmetry is used in runs of invariants and action properties only.

## 5. Fairness

* `WorkerPool`: weak fairness for a worker's steps in Dequeue and for the steps
  of Start, resize and Stop: the Go scheduler runs every runnable goroutine and
  a `sync.Mutex` does not starve. Strong fairness for `SelectDone`, because
  select chooses among its ready cases at random. Strong fairness for `Finish`:
  a job's context has a deadline, runJob returns on every path, and a store that
  refuses the start of a job does not refuse it for ever.
* `JobLifecycle`: weak fairness for each worker, handler, the batch delete, the
  sweep and recovery. Strong fairness for a reaper listing that includes a
  given running row: the row grows old, and from then on every tick lists it.
  Strong fairness for the end of a run: it has a deadline, and its progress
  callbacks are finite in number, each with a higher percentage than the last
  (`prepareProgressPersist` drops the others).
* `EngineLimiter`: weak fairness for `Release` (runs end), strong for
  `Acquire`: Go's channels serve waiting senders in order.
* `SnapshotController`: weak fairness for the steps of every process that is under
  way and for the loop's ticker; a batch that is being submitted goes on.
* `NameserverQuery`, `Recursor`: weak fairness for every goroutine's steps: a
  network query has a timeout. In `Recursor` it is written out, with `Runnable` in
  the place of ENABLED, which is costly to evaluate on its stacks.
* `EngineRun`: weak fairness for the run and for every goroutine: queries return
  (`QueriesReturn`), and callbacks do not block.
* `CohortScheduler`: weak fairness for each scheduler loop (the ticker does not
  stop), and for the restart of a process that is stopping. `DueIsHandled`
  assumes that some server keeps its scheduler enabled.

No fairness is assumed of clients, faults, crashes, timeouts or clocks.

## 6. What is proved

TLAPS checks the following for every value of the constants that meets the
named assumptions.

Most are invariants. Each is the consequence of a stronger inductive one, which
the paragraph names: what has to be known besides, for a step from an arbitrary
state to preserve it.

**`WorkerPoolProofs`.** Of the queue, under any pool: `TypeCorrect`. `NoLostWakeup`:
`Spec => []EnoughWakeups`, with `WakeInv`, which adds `TypeOK` and `WaitersExact`: a
sender looks at the waiter count to decide whether to send, so the count must be known
to be the blocked and the leaving goroutines before one can say that a token was sent
for each. `NotifyCapAssumption` is what makes a dropped send harmless: a full channel
then already has a token for every blocked worker. `JobInOnePlace`: `HoldsOwed` and
`OneHolder`, with `HoldInv`. The two need each other, since Reenqueue appends the id a
worker holds and Dequeue gives a worker an id that is queued; and an id nobody has
submitted must be nowhere.

Of the pool: `PoolRefinesQueue`: every step of the pool is a step of
`JobQueue` or leaves its variables alone. `PoolNoLostWakeup` and
`PoolJobInOnePlace` follow. `PoolTypeCorrect`. `ResizeReachesAll`: `SliceIsLive`,
with `SliceInv`: a worker leaves by its own step only once its context is cancelled
or the queue is closed, and only Stop closes the queue. `PoolMeetsContract`: the
steps of the refinement of `QueueContract`. It needs `HoldInv` (so that what the pool
hands out is what the contract says is next) and `IdleHold` (a worker that runs
nothing holds nothing).

**`JobLifecycleProofs`.** `LifecycleTypeCorrect`. `TablesAreDisjoint`:
`RowXorRun`, with `StoreInv`, which adds that an id nobody has submitted has
neither row nor run, and that only submitted ids are deleted. `EngineStartsOnce`:
`RunsAtMostOnce`, with `OnceInv`: a job whose row is queued, that is in the
queue, that a worker is about to start or that a handler is about to enqueue,
has never been started; it is in one of these last three places only; the job
of a worker in the engine has been started, so that a progress callback never
holds a queued row; and a server that is down has an empty queue and idle
workers and handlers. `started <= 1` alone is not inductive: it does not say
that the job on the queue has not run yet.

`NoForgottenRow`: `QueuedIsReachable` is inductive beside these. `JobsMoveForward`:
`Spec => ImplementsJobContract`, all of the refinement, as the contract has no
fairness, with `OwnerInv`: a job that was started belongs to one worker until it is
graduated or parked, and meanwhile its row is running or gone; what the reaper and
recovery go after has been started; and `DeletesInactive`: a job that is queued after
the batch delete has counted the queued ones, or active when it deletes, is one of
`missed`. `RegistryIsExact` and `ReaperSparesTheLiving` (`RegistryExact` and the
action property `ReapsOnlyAbandoned`), with `RegistryInv`. `unregisterCancel` deletes
the entry of a job whoever made it, so one has to know who may still be on the way to
it: a worker that put its job back did so because the row is gone, and nobody starts
that job any more, or because the update failed, and then the job is in `putBack`.
Neither theorem excludes a fault.

**`EngineLimiterProofs`.** `TokensAreExact`: `TokensExact`, for any number of
workers, capacities and replacements, with `LimiterInv`.

**`CohortSchedulerProofs`.** `SchedTypeCorrect`. `OccurrenceClaimedOnce`:
`Spec => FiresOnce`, an action property, from `ClaimInv`: the last claim lies in
the row's present epoch or an earlier one and, if in the present one, before the
row's `next_run_at`. The compare-and-set and `Next(r, t) > t` (from
`RuleAssumption`) preserve it, for any number of servers. `SerialRunsTakeTurns`:
`SerialRunsDoNotOverlap`, with `SubmitInv` (what a submission knows of its batch) and
`SerialInv`: of a cohort whose claims were serial, at most one server is between its
claim and its answer; if none is, the stored last batch is the only one that may be
active, and a copy of the row that is still current says the same; if one is, that
server knows the batch, from the row it counted or because it made it.

**`NameserverQueryProofs`.** `QueryTypeCorrect`, which includes that a query cache
stays within its bound, with its order and data in step. `CapIsExact`: `CapExact`,
with `LeaseInv` (a run that asks has a base store, and there are never more of them
than runs that leased) and `CapInv`. `QuestionHasOneLeader`: `OneLeader`, with
`FlightInv`, which adds the converse: an inflight entry names a thread that leads
there. `WhoAnswersIsNotBlamed`: `HealthyNotBlamed`, with `HealthInv`: a thread at such an
address never comes to mark a skip, and past the network it has an answer or a
cancellation of its own.

**`SnapshotControllerProofs`.** For any number of batches, runs and workers, any
scenario and any interleaving of store calls. `SnapshotTypeCorrect`, with `PlaceInv`:
at which store calls a process of each kind may be, for which task, and what it then
holds; the locals are one record for all of them, so their type alone does not say
that a worker about to write a row has one. `ProjectedIsKept`: `FactsKept`, with
`JobInv` (a run is there once its job is done; a worker that ends a job has it for
itself) and `KeptInv`, as long as nobody cleared or disabled the cohort and there was
one disturbance at most. Catalogue rows are written back from copies of any age, so
`CopiesAgree` says that every copy agrees with the row on whether the cohort is
enabled; `CastInv`, who can be under way after which disturbance (a rebuild by the
repair pass would need a failure and a crash); `SeenInv`, that what was projected has
a graduated run and a stored batch; `MissingInv`, that whatever is missing of it is
what the administrator's rebuild deleted and is going to list, or has listed and not
reached. `CapturedCoversBatch`: `CapturedIsWhole`, with `WholeInv`, while nobody
rebuilt, re-enabled, rematerialized or purged either; `ParkInv`: only a failed call
parks a job. `RowsInv`: ids are unique, and rows belong to stored batches of which a
run was projected. `CallInv`: what each call of applySnapshotState,
materializeSnapshot and captureSnapshot has established of its batch (no job
outstanding, then no run unprojected, then counted, then aggregated), and that the row
a process has a copy of is still there under the same id: the row is written by its
batch, the aggregates under the id of the copy, and only this makes them belong
together. What is established stays so whatever the others do (`Grows`), since jobs
stay done or parked, runs stay projected and rows keep their ids; this is why two
counts that are not taken in one transaction suffice.

**`RecursorProofs`.** For any worlds, requests and limits; what servers answer is
left open (`Reply` is any operator of the world and the question). `RecursorTypeCorrect`:
`RecursorTypeOK`, with `RecursorInv`. A thread is a stack of frames of any depth, and
the invariant is one statement about the frames below the top (`Below`) and one about
the top (`TopOK`), which depends on where the thread is: a step pops, replaces or
pushes one frame, and the lemmas say for each helper of the model what becomes of the
rest. The count of referrals is bounded frame by frame, since a walk hands its count
on to address lookups and one that starts at a cached referral adds to it unseen
(section 7).
`NobodyWaitsForTheGone`: `WaitsForTheLiving`. What makes it inductive is `ClaimsOK`: the
owner of a claim is the walk on top of its thread, and this walk asks the root.
`awaitReferral` claims the top-level domain at the start of a walk, which must then give
it up before it calls a walk that may wait for the same domain. A CNAME and a referral
from the root release it before they are followed (`resolveCNAME`,
`processOrderedResponse`); the lookup of a name server's address does not, and `HeldBy`
says why it need not: until then the servers of the walk are root servers, whose
addresses are known, so no such lookup comes over it. `LeadersOK` and `WaitersOK`: an
entry of the inflight table names a thread that works on this very lookup, and whoever joined one
finds it there until it has a result, a panic of the leader included.

**`EngineRunProofs`.** `QueriesAreCounted`: `QueriesCounted`, with `CountInv`, for
any requests, worlds, widths and faults. Until a callback fails, one goroutine at a time
is in a callback, entries wait only while one is, a goroutine in a callback is at a place
that it does not leave before, and the counter, plus the query in a callback, plus
the queries that wait, is the number sent. That the read of the counter is still true
when it is written back follows from the first of these.

Some theorems have a hypothesis on a constant, and each is a case in which the code
does fail, as section 7 says: `RepeatedIds = FALSE` (item 11) for `JobInOnePlace` and what
follows from it; `"get"` and `"cancel"` not in `FaultKinds` (item 6) for
`NoForgottenRow`. The runs make the same choices.

Only model-checked:

* everything under fairness, the progress condition of `QueueContract` included: TLAPS
  proves neither liveness nor ENABLED;
* `Truthful`: it compares the result of a walk with what the zones say, through
  `Reply` and `Truth`, which are tables of the small worlds; for zones of any depth it
  would be an induction over the tree of names;
* `SucceededAsSequential`: it compares folds and filters over the sequence of results,
  about which the provers know nothing;
* `NextIsFirst`: a calendar, evaluated on a finite range of days.

No module has a RECURSIVE operator.

## 7. Disagreements between the code and its documentation

One is a run whose counterexample TLC finds: *a drained batch is never captured*
(`store_sql_analysis_snapshots.go:589`). A failed run is never projected but counts
as unprojected on every pass of the capture loop, so the snapshot of its batch
stays pending. `docs/server/operations.md:80`: the loop "captures the snapshots of
drained snapshot-intent batches".

The following were found by TLC on small instances of the modules, with a
property that states what is quoted, and are not kept as runs:

1. *A cancel takes a running row* (`handlers.go:852`). The handler reads
   `queued`, a worker starts the job, and the handler's graduation, which
   accepts a row of any status, ends it as canceled while the engine runs on.
   `docs/server/operations.md:136`: "A job only leaves `running` when the worker
   writes its result."
2. *The gauges drift* (`handlers.go:468`). The handler counts the job as queued
   after it has enqueued it; if the worker's decrement comes first it is floored
   at zero and the increment stays. "Current number of queued jobs."
   (`metrics_prometheus.go:187`). The in-flight gauge leaks in the same way after
   the race of item 1 (`operations.md:138`).
3. *The registry loses a running job* (`worker.go:227`). When the update to
   `running` fails, runJob re-enqueues the id and removes its registry entry
   afterwards; by then the entry may belong to the next worker. `reaper.go:30`:
   the registry "holds exactly the jobs this process is running". The reaper may
   then fail the job while it runs. `RegistryExact` and `ReapsOnlyAbandoned` have
   this exception and no other.
4. *The cap is not kept across a settings change* (`handlers_settings.go:262`).
   `docs/server/configuration.md:64`: "Maximum number of engine runs at once."
5. *Scheduled runs overlap* (`handlers.go:136`). A batch that fails part way is
   not recorded, so the next occurrence does not wait for its jobs.
   `docs/analysis/cohorts.md:201`: "Runs never overlap".
6. *A queued row without a queue entry.* `store_sql.go:286` reports a failing
   query as "no such job", and a cancel (`handlers.go:852`) takes the id off the
   queue before it graduates the row; if that fails the row stays at `queued`
   until the next restart.
7. *A failure of one run reaches another* (`nameserver.go:239`). A query that
   failed, or that the run's failure state made it skip, stores the marker for
   "no response" in the query cache, which the hot cache shares between jobs, and
   a leader's error goes to the waiters of other runs.
   `docs/architecture.md:278`: "derived failure state is never shared that way".
8. *A skipped time of day moves earlier* (`recurrence.go:321`). "A nonexistent wall
   clock is moved forward by time.Date", and `docs/analysis/cohorts.md:164`: it "moves
   forward by the length of the gap". Go's algorithm does so where the skipped wall
   clock, taken for UTC, lies after the change, which is the case ahead of UTC and what
   `recurrence_test.go:44` tests; behind UTC the time comes out earlier by the gap: 02:30
   at the change from -5 to -4 runs at 01:30. Without its exception `NextIsFirst` fails.
9. *A deletion takes an active job* (`handlers_batches.go:414`). DELETE needs a batch
   with something in it, not one that is complete. It counts the queued jobs, finds
   none, submitBatch creates the next one, the count of running jobs is zero too, and
   the transaction deletes a queued job whose id is in the queue; its worker then finds
   no row. No fault is needed. The same follows when a COUNT fails, as `store.List`
   returns a total of zero (`store_sql.go:444`). `docs/server/batch-deletion.md:93`:
   the server polls, "waiting for all jobs to leave the active queue before starting
   the delete transaction".
10. *A snapshot is captured without a job* (`worker.go:266`). A job whose graduation
   failed is parked, and `CountOutstandingJobsForBatch` leaves parked rows out on
   purpose (`store_sql_analysis_snapshots.go:567`), so the snapshot of its batch is
   captured without it. `docs/analysis/snapshots.md:41`: "every job has graduated".
11. *A lost job after a reorder* (`queue.go:176`). A list that repeats one id and
   leaves another out has the right length, is accepted, and loses the omitted
   job: with `RepeatedIds = TRUE`, `HoldsOwed` fails.

Met while modelling:

*Server*

* A worker cut off by a resize may take further jobs: Dequeue looks at the
  queue before the context. `ShrinkTerminates` says that it ends all the same.
* runJob re-enqueues a job whose row has been graduated meanwhile
  (`worker.go:226`); the next worker drops it.
* A PUT of a schedule that races with an occurrence can make it fire again, as
  `next_run_at` is computed before the row is stored. `FiresOnce` is stated
  between two writes of a row.
* `disableBrokenSchedule` (`scheduler.go:130`) writes back the row it listed: it
  undoes a PUT and recreates a deleted schedule.
* `docs/analysis` lets several servers share a database; `reaper.go:32` says
  that this is unsafe.
* A job parked as `failed` can become `canceled`: a cancel handler or a batch delete
  that saw it queued graduates the row it finds, of whatever status (`handlers.go:852`,
  `handlers_batches.go:366`). `JobContract` allows it.
* `latest_run_id` of a domain (`store_sql.go:613`) is the run that graduated
  last, not the one that finished last.

*Snapshots*

* A rebuild that races with the capture loop can leave a captured snapshot whose
  count and aggregates are partial, under its old id (`snapshots.md:41`); so can
  the rematerialization of a pending snapshot.
* A worker's stale upsert puts a captured snapshot back to pending, until the
  loop captures it again (`SettlesCaptured`); a stale catalogue row re-enables
  a disabled cohort and loses a pin (`cohorts.md:32`).
* A worker that stamps the catalogue row "ready" during a rebuild hides the
  rebuild from the repair pass: after a crash the deleted facts stay deleted
  (`handlers_analysis.go:303`).
* A run that graduates before submitBatch has stored the batch row is not
  projected; catch-up skips runs that finished no later than the stamp.

*Query layer and hot cache*

* A cancelled leader hands its context's error to waiters that are not
  cancelled; a cancelled query resets the fast-fail count.
* The skip path can overwrite an answer in the query cache with "no response".
* The hot cache's key is computed before the job's profile overrides are applied
  (`worker.go:410`), so jobs with different overrides share an entry
  (`performance.md:67`); after an expiry or an eviction two base stores live at
  once, each with caps of its own (`performance.md:32`).

*Recursor*

* A walk from a cached referral goes back to the root only if no server gave any
  response (`referral.go:182`, "when that yields nothing"). The old server of a zone that
  moved, if it answers REFUSED or SERVFAIL, or with old data, decides the lookup for as
  long as the referral is cached. `Truth` allows it.
* A cancelled walk may leave a SERVFAIL in the cache; a panic hands waiters an
  empty response.
* The CNAME count starts afresh for every name server whose address is looked up,
  and the referral count and `inProgress` at every CNAME, so nested lookups can
  follow more CNAMEs than `constants.go:35` says (`recurse.go:753`). They end all
  the same (`LookupsReturn`).
* A walk that starts at a cached referral counts it without a look at the limit
  (`referral.go:148`) and hands the count on to the address lookups it calls, so 20
  referrals may be passed by one for each walk under way; `RecursorTypeOK` has this bound.

*Engine run*

* PlannedTestcases lower-cases the names in a profile and ShouldRunTest compares
  them exactly: "Basic01" in a profile is planned and never run.
* Entries below the capture level are dropped before a case looks at them, so a
  profile that lowers a finding's level can change a verdict (`engine.go:61`).
* Progress reaches 100 at the start of the last planned case.
* A cancelled run may return without an error. Only runJob's look at the context
  keeps it from being stored as succeeded.

## 8. What is not modelled

* *The DNS test cases.* What a case decides from the answers it gets is a table
  of DNS facts, specified in prose case by case, in which nothing is concurrent
  and nothing is kept; they are about a quarter of the code. `EngineRun` has their
  order, their gates and the form they share. The packages they use for DNS data
  (packets, zones, keys, SPF, IDN) are conversions.
* *API views, reports, web pages, the MCP bridge, the command line programs.* They
  parse, query and format; a request is one store call. They are a larger part still.
* *The SQL text, dialects and migrations*; a store call is one transaction, as the
  code has it. Its retries on conflict repeat a transaction that had no effect.
* *Retention* deletes runs that no modelled step reads again.
* *Authentication, logging, external data providers.*
* Of the modelled parts: the percentage of a progress write and the other gauges;
  the recursor's unordered walk, which is the shipped default, and ordered walks that
  query several servers at once; fake delegations, transport and
  AXFR; a profile that is changed while a batch is submitted; log filters and
  capture levels. `JobPaused` is a status the code never sets.

The map covers the parts in which the order of steps matters. Most lines of the
repository are decisions and formats of the kinds above, and a TLA+ module of
them would be a transliteration, so the covered share stays small.

## 9. Plan

1. *Done:* all modules of section 2, their runs, and the theorems of section 6: every
   invariant of queue, pool, lifecycle, limiter, analysis controller and query layer,
   the refinement of `JobContract` and the steps of that of `QueueContract`, the
   claims and waiters of the recursor, and the counter of the engine run.
2. *Next:* the unordered walk of the recursor, store retries as an extension of
   `JobLifecycle`, the rate limiter against a sliding window, scoring against a
   reference.
