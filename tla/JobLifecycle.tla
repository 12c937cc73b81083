---------------------------- MODULE JobLifecycle ----------------------------
(***************************************************************************)
(* The life of a job, from the request that creates it to its run record:  *)
(* the workers (server/worker.go, runJob), the request handlers that       *)
(* submit, cancel and remove jobs (server/handlers.go), the batch delete   *)
(* (server/handlers_batches.go), the stuck-job reaper (server/reaper.go),  *)
(* and crash and restart (server/recovery.go), around the job store        *)
(* (server/store_sql.go, server/store.go) and the metrics gauges.          *)
(*                                                                         *)
(* A step is one call on the store, the queue or the cancel registry: each *)
(* of them is atomic (a transaction or a mutex) and nothing is held across *)
(* two of them.  The gauge update that follows a store call is taken with  *)
(* it, except in the submitting handler, where other actors can come       *)
(* between.  A Get that is only compared with the outcome of the Update or *)
(* GraduateJob after it is taken with that call: a row keeps its status    *)
(* until one of them changes it, and a row that is gone never returns.     *)
(* The queue is a set: JobQueue shows that an id is in it at most once.    *)
(***************************************************************************)
EXTENDS Naturals, FiniteSets

CONSTANTS
    Jobs,           \* job ids
    BatchJobs,      \* the ids submitted together as one batch
    Workers,        \* worker goroutines
    Clients,        \* concurrent handler goroutines that submit or cancel
    FaultKinds,     \* store calls that may fail: see Fault
    MaxFaults,      \* bound on failing calls
    MaxCrashes,     \* bound on crashes of the server process
    None            \* no job, no worker

ASSUME LifecycleAssumption ==
    /\ BatchJobs \subseteq Jobs /\ IsFiniteSet(Jobs)
    /\ None \notin Jobs /\ None \notin Workers
    /\ MaxFaults \in Nat /\ MaxCrashes \in Nat

VARIABLES
    jobs,           \* the status column of the jobs table; "none": no row
    batch,          \* is there a row for the batch in the batches table?
    runs,           \* the status of the run record; "none": no run
    queue,          \* ids in the in-memory queue
    cancels,        \* the cancel registry: the worker whose context it holds
    wpc, wjob,      \* where each worker is in runJob, and its job
    ctx,            \* the job context of each worker
    verdict,        \* the final status each worker is about to write
    row,            \* the status in the row a progress callback has read
    cpc, cjob,      \* where each handler is, and its job
    dpc, dlist, djob,   \* the batch delete: its place, its stale list, its job
    missed,         \* history: jobs the counts of the batch delete cannot have seen
    sweep, reaping, \* the reaper's stale list and the job it found abandoned
    inFlight, queueDepth,   \* the gauges of MetricsCollector
    up, orphans,    \* is the server serving?  rows recovery has yet to fail
    faults, crashes,
    fresh,          \* ids no client has submitted yet
    started,        \* history: how often the engine was started for each job
    deleted,        \* history: jobs removed with their batch
    putBack         \* history: jobs this process re-enqueued although they have a row

store == <<jobs, runs, batch>>
worker == <<wpc, wjob, ctx, verdict, row>>
client == <<cpc, cjob>>
deleter == <<dpc, dlist, djob, missed>>
reaper == <<sweep, reaping>>
gauges == <<inFlight, queueDepth>>
boot == <<up, orphans, crashes>>
history == <<fresh, started, deleted, putBack>>
vars == <<store, queue, cancels, worker, client, deleter, reaper, gauges,
          boot, faults, history>>

Terminal == {"succeeded", "failed", "canceled"}
Wpcs == {"idle", "load", "start", "requeue", "engine", "graduate", "park",
         "unregister", "panicked", "panicPark"}
Cpcs == {"idle", "enqueue", "submitted", "next", "cancelCtx", "remove", "lookup",
         "graduate"}
Dpcs == {"idle", "cancel", "graduate", "count", "countRunning", "purge"}

LifecycleTypeOK ==
    /\ jobs \in [Jobs -> {"none", "queued", "running", "failed"}]
    /\ runs \in [Jobs -> {"none"} \cup Terminal]
    /\ batch \in BOOLEAN
    /\ queue \subseteq Jobs
    /\ cancels \in [Jobs -> Workers \cup {None}]
    /\ wpc \in [Workers -> Wpcs] /\ wjob \in [Workers -> Jobs \cup {None}]
    /\ \A w \in Workers : wpc[w] # "idle" => wjob[w] \in Jobs
    /\ ctx \in [Workers -> {"live", "timeout", "canceled"}]
    /\ verdict \in [Workers -> {"none"} \cup Terminal]
    /\ \A w \in Workers : wpc[w] = "graduate" => verdict[w] \in Terminal
    /\ row \in [Workers -> {"none", "queued", "running", "failed"}]
    /\ cpc \in [Clients -> Cpcs] /\ cjob \in [Clients -> Jobs \cup {None}]
    /\ \A c \in Clients : cpc[c] # "idle" => cjob[c] \in Jobs
    /\ dpc \in Dpcs /\ djob \in Jobs \cup {None}
    /\ dpc = "graduate" => djob \in Jobs
    /\ dlist \in [Jobs -> {"none", "queued", "running"}]
    /\ missed \subseteq Jobs
    /\ sweep \subseteq Jobs /\ reaping \in Jobs \cup {None}
    /\ inFlight \in Nat /\ queueDepth \in Nat
    /\ up \in BOOLEAN /\ orphans \subseteq Jobs
    /\ faults \in 0 .. MaxFaults /\ crashes \in 0 .. MaxCrashes
    /\ fresh \subseteq Jobs /\ deleted \subseteq Jobs /\ putBack \subseteq Jobs
    /\ started \in [Jobs -> Nat]

-----------------------------------------------------------------------------
(* The store, the registry and the gauges.                                 *)

\* Get looks at the jobs table first and then at the runs.
Get(j) == IF jobs[j] # "none" THEN jobs[j] ELSE runs[j]

Rows(status) == {j \in Jobs : jobs[j] = status}

\* Update changes a row that exists and fails on any other id.
Update_Upserts(j, status) ==
    /\ jobs' = [jobs EXCEPT ![j] = status]
    /\ UNCHANGED <<runs, batch>>

Update(j, status) ==
    /\ jobs[j] # "none"
    /\ jobs' = [jobs EXCEPT ![j] = status]
    /\ UNCHANGED <<runs, batch>>

\* GraduateJob turns a row that exists into a run, in one transaction.
GraduateJob(j, status) ==
    /\ jobs[j] # "none"
    /\ jobs' = [jobs EXCEPT ![j] = "none"]
    /\ runs' = [runs EXCEPT ![j] = status]
    /\ batch' = batch

\* A call of this kind fails for a reason of its own (a lost connection, the
\* attempts of retryOnConflict used up) and leaves the tables as they were.
\* "start", "graduate", "park", "cancel": the store call of that step.
\* "get": the first Get of runJob, which reports an error as a missing job.
\* "list": a List of the batch delete, which reports an error as an empty list.
\* "panic": a panic in runJob outside the engine.
Fault(kind) ==
    /\ kind \in FaultKinds
    /\ faults < MaxFaults
    /\ faults' = faults + 1

\* The store call of a step that handles both a missing row and a failure.
Refused(j, kind) ==
    /\ \/ jobs[j] = "none" /\ faults' = faults
       \/ Fault(kind)
    /\ UNCHANGED store

Less_NoFloor(n) == n - 1

Less(n) == IF n > 0 THEN n - 1 ELSE 0

\* observeStatusTransitionLocked: "none" is the status of a job not seen before.
Observe(from, to) ==
    /\ inFlight' = IF from # "running" /\ to = "running" THEN inFlight + 1
                   ELSE IF from = "running" /\ to # "running" THEN Less(inFlight)
                   ELSE inFlight
    /\ queueDepth' = IF from # "queued" /\ to = "queued" THEN queueDepth + 1
                     ELSE IF from = "queued" /\ to # "queued" THEN Less(queueDepth)
                     ELSE queueDepth

\* cancelJob: cancelling a context that is already done changes nothing.  The
\* registry holds the cancel function of one run of one job, so a call that
\* comes after that run does not reach the worker's next job.
cancelJob(j) ==
    /\ cancels[j] # None
    /\ ctx' = IF ctx[cancels[j]] = "live"
              THEN [ctx EXCEPT ![cancels[j]] = "canceled"] ELSE ctx

-----------------------------------------------------------------------------
(* A worker: one pass through runJob.                                      *)

Goto(w, place) ==
    /\ wpc' = [wpc EXCEPT ![w] = place]
    /\ UNCHANGED <<wjob, ctx, verdict, row>>

\* runJob returns: its local variables are gone.
Return(w) ==
    /\ wpc' = [wpc EXCEPT ![w] = "idle"]
    /\ wjob' = [wjob EXCEPT ![w] = None]
    /\ ctx' = [ctx EXCEPT ![w] = "live"]
    /\ verdict' = [verdict EXCEPT ![w] = "none"]
    /\ row' = row

Dequeue(w) ==
    /\ up /\ wpc[w] = "idle"
    /\ \E j \in queue :
         /\ queue' = queue \ {j}
         /\ wjob' = [wjob EXCEPT ![w] = j]
    /\ wpc' = [wpc EXCEPT ![w] = "load"]
    /\ UNCHANGED <<store, cancels, ctx, verdict, row, client, deleter, reaper, gauges, boot, faults, history>>

\* runJob returns at once for a job that is missing or canceled.
Skip(w) ==
    /\ wpc[w] = "load"
    /\ \/ Get(wjob[w]) \in {"none", "canceled"} /\ faults' = faults
       \/ Fault("get")
    /\ Return(w)
    /\ UNCHANGED <<store, queue, cancels, client, deleter, reaper, gauges, boot, history>>

\* Otherwise it makes the job context and registers its cancel function.
Load(w) ==
    /\ wpc[w] = "load"
    /\ Get(wjob[w]) \notin {"none", "canceled"}
    /\ cancels' = [cancels EXCEPT ![wjob[w]] = w]
    /\ Goto(w, "start")
    /\ UNCHANGED <<store, queue, client, deleter, reaper, gauges, boot, faults, history>>

Start(w) ==
    /\ wpc[w] = "start"
    /\ Update(wjob[w], "running")
    /\ Observe(Get(wjob[w]), "running")
    /\ started' = [started EXCEPT ![wjob[w]] = @ + 1]
    /\ Goto(w, "engine")
    /\ UNCHANGED <<queue, cancels, client, deleter, reaper, boot, faults, fresh, deleted, putBack>>

StartFails_Drops(w) ==
    /\ wpc[w] = "start"
    /\ Refused(wjob[w], "start")
    /\ Goto(w, "unregister")
    /\ UNCHANGED <<queue, cancels, client, deleter, reaper, gauges, boot, history>>

StartFails(w) ==
    /\ wpc[w] = "start"
    /\ Refused(wjob[w], "start")
    /\ Goto(w, "requeue")
    /\ putBack' = IF jobs[wjob[w]] # "none" THEN putBack \cup {wjob[w]} ELSE putBack
    /\ UNCHANGED <<queue, cancels, client, deleter, reaper, gauges, boot, fresh, started, deleted>>

Requeue(w) ==
    /\ wpc[w] = "requeue"
    /\ queue' = queue \cup {wjob[w]}
    /\ Goto(w, "unregister")
    /\ UNCHANGED <<store, cancels, client, deleter, reaper, gauges, boot, faults, history>>

\* The deadline of newJobContext, if no cancellation came first.
Timeout(w) ==
    /\ wpc[w] = "engine" /\ ctx[w] = "live"
    /\ ctx' = [ctx EXCEPT ![w] = "timeout"]
    /\ UNCHANGED <<store, queue, cancels, wpc, wjob, verdict, row, client, deleter, reaper, gauges, boot, faults, history>>

\* updateJobProgress, called by the engine's log sink while the tests run, one
\* call at a time (progressTracker.mu) and as often as the throttle lets pass:
\* it reads the row, changes the percentage and writes the whole row back.
\* If it finds a run instead of a row, its Update fails and nothing changes.
ProgressRead(w) ==
    /\ wpc[w] = "engine" /\ row[w] = "none"
    /\ jobs[wjob[w]] # "none"
    /\ row' = [row EXCEPT ![w] = jobs[wjob[w]]]
    /\ UNCHANGED <<store, queue, cancels, wpc, wjob, ctx, verdict, client, deleter, reaper, gauges, boot, faults, history>>

\* The error of this Update is ignored.
ProgressWrite(w) ==
    /\ row[w] # "none"
    /\ \/ Update(wjob[w], row[w])
       \/ jobs[wjob[w]] = "none" /\ UNCHANGED store
    /\ row' = [row EXCEPT ![w] = "none"]
    /\ UNCHANGED <<queue, cancels, wpc, wjob, ctx, verdict, client, deleter, reaper, gauges, boot, faults, history>>

\* runEngineForJob returns and runJob settles the final status.
EngineEnd_Unregisters(w) ==
    /\ wpc[w] = "engine" /\ row[w] = "none"
    /\ \E result \in {"succeeded", "failed"} :
         verdict' = [verdict EXCEPT ![w] = CASE ctx[w] = "timeout"  -> "failed"
                                             [] ctx[w] = "canceled" -> "canceled"
                                             [] ctx[w] = "live"     -> result]
    /\ wpc' = [wpc EXCEPT ![w] = "graduate"]
    /\ cancels' = [cancels EXCEPT ![wjob[w]] = None]
    /\ UNCHANGED <<store, queue, wjob, ctx, row, client, deleter, reaper, gauges, boot, faults, history>>

EngineEnd(w) ==
    /\ wpc[w] = "engine" /\ row[w] = "none"
    /\ \E result \in {"succeeded", "failed"} :
         verdict' = [verdict EXCEPT ![w] = CASE ctx[w] = "timeout"  -> "failed"
                                             [] ctx[w] = "canceled" -> "canceled"
                                             [] ctx[w] = "live"     -> result]
    /\ wpc' = [wpc EXCEPT ![w] = "graduate"]
    /\ UNCHANGED <<store, queue, cancels, wjob, ctx, row, client, deleter, reaper, gauges, boot, faults, history>>

Graduate(w) ==
    /\ wpc[w] = "graduate"
    /\ GraduateJob(wjob[w], verdict[w])
    /\ Observe(Get(wjob[w]), verdict[w])
    /\ Goto(w, "unregister")
    /\ UNCHANGED <<queue, cancels, client, deleter, reaper, boot, faults, history>>

GraduateFails(w) ==
    /\ wpc[w] = "graduate"
    /\ Refused(wjob[w], "graduate")
    /\ Goto(w, "park")
    /\ UNCHANGED <<queue, cancels, client, deleter, reaper, gauges, boot, history>>

\* A panic on the way to the graduation: the deferred calls run in reverse
\* order, so the job leaves the registry before the recover handler parks it.
Panic(w) ==
    /\ wpc[w] = "graduate"
    /\ Fault("panic")
    /\ Goto(w, "panicked")
    /\ UNCHANGED <<store, queue, cancels, client, deleter, reaper, gauges, boot, history>>

\* failUngraduatedJob: "failed" in the jobs table, for want of a run.
Park(w) ==
    /\ wpc[w] \in {"park", "panicPark"}
    /\ \/ /\ Update(wjob[w], "failed")
          /\ Observe(Get(wjob[w]), "failed")
          /\ faults' = faults
       \/ Refused(wjob[w], "park") /\ UNCHANGED gauges
    /\ \/ wpc[w] = "park" /\ Goto(w, "unregister")
       \/ wpc[w] = "panicPark" /\ Return(w)
    /\ UNCHANGED <<queue, cancels, client, deleter, reaper, boot, history>>

\* The deferred unregisterCancel, which deletes the entry whoever made it.
Unregister(w) ==
    /\ wpc[w] \in {"unregister", "panicked"}
    /\ cancels' = [cancels EXCEPT ![wjob[w]] = None]
    /\ \/ wpc[w] = "panicked" /\ Goto(w, "panicPark")
       \/ wpc[w] = "unregister" /\ Return(w)
    /\ UNCHANGED <<store, queue, client, deleter, reaper, gauges, boot, faults, history>>

WorkerStep(w) ==
    \/ Dequeue(w) \/ Skip(w) \/ Load(w) \/ Start(w) \/ StartFails(w) \/ Requeue(w)
    \/ ProgressWrite(w) \/ EngineEnd(w) \/ Graduate(w) \/ GraduateFails(w) \/ Park(w)
    \/ Unregister(w)

-----------------------------------------------------------------------------
(* The request handlers.                                                   *)

At(c, place, j) ==
    /\ cpc' = [cpc EXCEPT ![c] = place]
    /\ cjob' = [cjob EXCEPT ![c] = j]

Reply(c) == At(c, "idle", None)

\* Submission: the row, then the queue, then the gauge.  submitBatch does so
\* for one domain after the other.
Create(c, j) ==
    /\ up /\ j \in fresh
    /\ \/ cpc[c] = "idle" /\ (j \in BatchJobs => BatchJobs \subseteq fresh)
       \/ cpc[c] = "next" /\ j \in BatchJobs
    /\ fresh' = fresh \ {j}
    /\ jobs' = [jobs EXCEPT ![j] = "queued"]
    /\ missed' = IF j \in BatchJobs /\ dpc \in {"countRunning", "purge"}
                 THEN missed \cup {j} ELSE missed
    /\ At(c, "enqueue", j)
    /\ UNCHANGED <<runs, batch, queue, cancels, worker, dpc, dlist, djob, reaper, gauges, boot, faults, started, deleted, putBack>>

Enqueue(c) ==
    /\ cpc[c] = "enqueue"
    /\ queue' = queue \cup {cjob[c]}
    /\ At(c, "submitted", cjob[c])
    /\ UNCHANGED <<store, cancels, worker, deleter, reaper, gauges, boot, faults, history>>

ObserveJobSubmitted(c) ==
    /\ cpc[c] = "submitted"
    /\ Observe("none", "queued")
    /\ IF cjob[c] \in BatchJobs THEN At(c, "next", cjob[c]) ELSE Reply(c)
    /\ UNCHANGED <<store, queue, cancels, worker, deleter, reaper, boot, faults, history>>

\* The batch row comes last, and an error of CreateBatch is dropped; a domain
\* that is refused or cannot be stored ends the request before that.
SubmitBatchEnd(c) ==
    /\ cpc[c] = "next"
    /\ \/ BatchJobs \cap fresh = {} /\ batch' = TRUE
       \/ batch' = batch
    /\ Reply(c)
    /\ UNCHANGED <<jobs, runs, queue, cancels, worker, deleter, reaper, gauges, boot, faults, history>>

\* handleCancelJob looks at the job and then acts on what it saw.
CancelGet(c, j) ==
    /\ up /\ cpc[c] = "idle"
    /\ \/ Get(j) = "running" /\ At(c, "cancelCtx", j)
       \/ Get(j) = "queued" /\ At(c, "remove", j)
    /\ UNCHANGED <<store, queue, cancels, worker, deleter, reaper, gauges, boot, faults, history>>

CancelCtx(c) ==
    /\ cpc[c] = "cancelCtx"
    /\ cancelJob(cjob[c]) \/ (cancels[cjob[c]] = None /\ ctx' = ctx)
    /\ Reply(c)
    /\ UNCHANGED <<store, queue, cancels, wpc, wjob, verdict, row, deleter, reaper, gauges, boot, faults, history>>

\* The error of queue.Remove, for a job a worker has already taken, is dropped.
CancelRemove(c) ==
    /\ cpc[c] = "remove"
    /\ queue' = queue \ {cjob[c]}
    /\ At(c, "graduate", cjob[c])
    /\ UNCHANGED <<store, cancels, worker, deleter, reaper, gauges, boot, faults, history>>

CancelGraduate(c) ==
    /\ cpc[c] = "graduate"
    /\ \/ /\ GraduateJob(cjob[c], "canceled")
          /\ Observe("queued", "canceled")
          /\ faults' = faults
       \/ Refused(cjob[c], "cancel") /\ UNCHANGED gauges
    /\ Reply(c)
    /\ UNCHANGED <<queue, cancels, worker, deleter, reaper, boot, history>>

\* handleQueueRemove takes the id off the queue before it looks at the job.
QueueRemove(c, j) ==
    /\ up /\ cpc[c] = "idle" /\ j \in queue
    /\ queue' = queue \ {j}
    /\ At(c, "lookup", j)
    /\ UNCHANGED <<store, cancels, worker, deleter, reaper, gauges, boot, faults, history>>

QueueRemoveLookup(c) ==
    /\ cpc[c] = "lookup"
    /\ IF Get(cjob[c]) = "queued" THEN At(c, "graduate", cjob[c]) ELSE Reply(c)
    /\ UNCHANGED <<store, queue, cancels, worker, deleter, reaper, gauges, boot, faults, history>>

ClientStep(c) ==
    \/ Enqueue(c) \/ ObserveJobSubmitted(c) \/ SubmitBatchEnd(c) \/ CancelCtx(c)
    \/ CancelRemove(c) \/ CancelGraduate(c) \/ QueueRemoveLookup(c)

Request(c) ==
    \E j \in Jobs : Create(c, j) \/ CancelGet(c, j) \/ QueueRemove(c, j)

-----------------------------------------------------------------------------
(* handleDeleteBatch: cancel the batch's jobs, wait for them, delete it.   *)

DeleterAt(place, unseen) ==
    /\ dpc' = place
    /\ missed' = unseen
    /\ UNCHANGED <<dlist, djob>>

DeleterDone ==
    /\ dpc' = "idle"
    /\ dlist' = [j \in Jobs |-> "none"]
    /\ djob' = None
    /\ missed' = {}

\* preview.Exists: the batch row, an active job or a run.  The submission may
\* still be under way.
Exists ==
    batch \/ \E j \in BatchJobs : jobs[j] \in {"queued", "running"} \/ runs[j] # "none"

DeleteList ==
    /\ up /\ dpc = "idle" /\ Exists
    /\ \/ /\ dlist' = [j \in Jobs |-> IF j \in BatchJobs /\ jobs[j] \in {"queued", "running"}
                                      THEN jobs[j] ELSE "none"]
          /\ faults' = faults
       \/ Fault("list") /\ dlist' = dlist
    /\ dpc' = "cancel"
    /\ UNCHANGED <<djob, missed, store, queue, cancels, worker, client, reaper, gauges, boot, history>>

DeleteQueued(j) ==
    /\ dpc = "cancel" /\ dlist[j] = "queued"
    /\ queue' = queue \ {j}
    /\ dpc' = "graduate" /\ djob' = j
    /\ UNCHANGED <<dlist, missed, store, cancels, worker, client, reaper, gauges, boot, faults, history>>

\* A running row without a registered cancel function counts as abandoned.
DeleteRunning(j) ==
    /\ dpc = "cancel" /\ dlist[j] = "running"
    /\ \/ /\ cancelJob(j)
          /\ dlist' = [dlist EXCEPT ![j] = "none"]
          /\ UNCHANGED <<dpc, djob>>
       \/ /\ cancels[j] = None
          /\ dpc' = "graduate" /\ djob' = j
          /\ UNCHANGED <<dlist, ctx>>
    /\ UNCHANGED <<missed, store, queue, cancels, wpc, wjob, verdict, row, client, reaper, gauges, boot, faults, history>>

\* An error here, a job that has finished by itself included, ends the request.
DeleteGraduate ==
    /\ dpc = "graduate"
    /\ \/ /\ GraduateJob(djob, "canceled")
          /\ Observe(dlist[djob], "canceled")
          /\ dlist' = [dlist EXCEPT ![djob] = "none"]
          /\ dpc' = "cancel" /\ djob' = None
          /\ UNCHANGED <<missed, faults>>
       \/ Refused(djob, "cancel") /\ DeleterDone /\ UNCHANGED gauges
    /\ UNCHANGED <<queue, cancels, worker, client, reaper, boot, history>>

\* waitForBatchJobsTerminal: countActiveBatchJobs lists the queued rows, then
\* the running ones, and the loop polls until both are none or gives up.  A
\* count that fails reads as none.
DeleteCount ==
    /\ \/ dpc = "cancel" /\ \A j \in Jobs : dlist[j] = "none"
       \/ dpc = "count"
    /\ \/ /\ Rows("queued") \cap BatchJobs = {}
          /\ DeleterAt("countRunning", {})
          /\ faults' = faults
       \/ /\ Rows("queued") \cap BatchJobs # {}
          /\ DeleterAt("count", {}) \/ DeleterDone
          /\ faults' = faults
       \/ Fault("list") /\ DeleterAt("countRunning", BatchJobs)
    /\ UNCHANGED <<store, queue, cancels, worker, client, reaper, gauges, boot, history>>

DeleteCountRunning_NoWait ==
    /\ dpc = "countRunning"
    /\ DeleterAt("purge", missed)
    /\ UNCHANGED <<store, queue, cancels, worker, client, reaper, gauges, boot, faults, history>>

DeleteCountRunning ==
    /\ dpc = "countRunning"
    /\ \/ /\ Rows("running") \cap BatchJobs = {}
          /\ DeleterAt("purge", missed)
          /\ faults' = faults
       \/ /\ Rows("running") \cap BatchJobs # {}
          /\ DeleterAt("count", {}) \/ DeleterDone
          /\ faults' = faults
       \/ Fault("list") /\ DeleterAt("purge", BatchJobs)
    /\ UNCHANGED <<store, queue, cancels, worker, client, reaper, gauges, boot, history>>

\* store.DeleteBatch: every row and run of the batch, in one transaction.
DeleteBatch ==
    /\ dpc = "purge"
    /\ jobs' = [j \in Jobs |-> IF j \in BatchJobs THEN "none" ELSE jobs[j]]
    /\ runs' = [j \in Jobs |-> IF j \in BatchJobs THEN "none" ELSE runs[j]]
    /\ batch' = FALSE
    /\ deleted' = deleted \cup (BatchJobs \ fresh)
    /\ DeleterDone
    /\ UNCHANGED <<queue, cancels, worker, client, reaper, gauges, boot, faults, fresh, started, putBack>>

DeleterStep ==
    \/ \E j \in Jobs : DeleteQueued(j) \/ DeleteRunning(j)
    \/ DeleteGraduate \/ DeleteCount \/ DeleteCountRunning \/ DeleteBatch

-----------------------------------------------------------------------------
(* The reaper: a list of old running rows, then each of them in turn.      *)

\* Which rows are old enough is up to the clock.
ReapList(old) ==
    /\ up /\ sweep = {} /\ reaping = None
    /\ old # {} /\ old \subseteq Rows("running")
    /\ sweep' = old
    /\ UNCHANGED <<reaping, store, queue, cancels, worker, client, deleter, gauges, boot, faults, history>>

ReapCheck_AnyRow(j) ==
    /\ j \in sweep /\ reaping = None
    /\ sweep' = sweep \ {j}
    /\ reaping' = j
    /\ UNCHANGED <<store, queue, cancels, worker, client, deleter, gauges, boot, faults, history>>

ReapCheck(j) ==
    /\ j \in sweep /\ reaping = None
    /\ sweep' = sweep \ {j}
    /\ reaping' = IF cancels[j] = None THEN j ELSE None
    /\ UNCHANGED <<store, queue, cancels, worker, client, deleter, gauges, boot, faults, history>>

ReapGraduate ==
    /\ reaping # None
    /\ \/ /\ GraduateJob(reaping, "failed")
          /\ Observe("running", "failed")
          /\ faults' = faults
       \/ Refused(reaping, "graduate") /\ UNCHANGED gauges
    /\ reaping' = None
    /\ UNCHANGED <<sweep, queue, cancels, worker, client, deleter, boot, history>>

ReaperStep == (\E j \in sweep : ReapCheck(j)) \/ ReapGraduate

-----------------------------------------------------------------------------
(* Crash and restart.                                                      *)

\* Only the store survives.  Its volatile part is as newServer makes it.
Crash ==
    /\ crashes < MaxCrashes
    /\ crashes' = crashes + 1
    /\ up' = FALSE
    /\ orphans' = {j \in Jobs : jobs[j] \notin {"none", "queued"}}
    /\ queue' = {}
    /\ cancels' = [j \in Jobs |-> None]
    /\ wpc' = [w \in Workers |-> "idle"] /\ wjob' = [w \in Workers |-> None]
    /\ ctx' = [w \in Workers |-> "live"] /\ verdict' = [w \in Workers |-> "none"]
    /\ row' = [w \in Workers |-> "none"]
    /\ cpc' = [c \in Clients |-> "idle"] /\ cjob' = [c \in Clients |-> None]
    /\ DeleterDone
    /\ sweep' = {} /\ reaping' = None
    /\ inFlight' = 0 /\ queueDepth' = 0
    /\ putBack' = {}
    /\ UNCHANGED <<store, faults, fresh, started, deleted>>

\* RecoverJobs fails every row that is not queued; if the graduation does not
\* commit it settles for an Update, which may fail as well.
RecoverOrphan_Retries(j) ==
    /\ ~up /\ j \in orphans
    /\ orphans' = orphans \ {j}
    /\ Update(j, "queued")
    /\ UNCHANGED <<queue, cancels, worker, client, deleter, reaper, gauges, up, crashes, faults, history>>

RecoverOrphan(j) ==
    /\ ~up /\ j \in orphans
    /\ orphans' = orphans \ {j}
    /\ \/ GraduateJob(j, "failed") /\ faults' = faults
       \/ Fault("graduate") /\ Update(j, "failed")
       \/ Fault("park") /\ UNCHANGED store
    /\ UNCHANGED <<queue, cancels, worker, client, deleter, reaper, gauges, up, crashes, history>>

\* Then it enqueues the queued rows, and the server starts.
RecoverQueued_Forgets ==
    /\ ~up /\ orphans = {}
    /\ up' = TRUE
    /\ UNCHANGED <<store, queue, cancels, worker, client, deleter, reaper, gauges, orphans, crashes, faults, history>>

RecoverQueued ==
    /\ ~up /\ orphans = {}
    /\ queue' = Rows("queued")
    /\ up' = TRUE
    /\ UNCHANGED <<store, cancels, worker, client, deleter, reaper, gauges, orphans, crashes, faults, history>>

RecoveryStep == (\E j \in orphans : RecoverOrphan(j)) \/ RecoverQueued

-----------------------------------------------------------------------------
Init ==
    /\ jobs = [j \in Jobs |-> "none"] /\ runs = [j \in Jobs |-> "none"]
    /\ batch = FALSE
    /\ queue = {}
    /\ cancels = [j \in Jobs |-> None]
    /\ wpc = [w \in Workers |-> "idle"] /\ wjob = [w \in Workers |-> None]
    /\ ctx = [w \in Workers |-> "live"] /\ verdict = [w \in Workers |-> "none"]
    /\ row = [w \in Workers |-> "none"]
    /\ cpc = [c \in Clients |-> "idle"] /\ cjob = [c \in Clients |-> None]
    /\ dpc = "idle" /\ dlist = [j \in Jobs |-> "none"] /\ djob = None
    /\ missed = {}
    /\ sweep = {} /\ reaping = None
    /\ inFlight = 0 /\ queueDepth = 0
    /\ up = TRUE /\ orphans = {} /\ crashes = 0 /\ faults = 0
    /\ fresh = Jobs /\ deleted = {} /\ putBack = {}
    /\ started = [j \in Jobs |-> 0]

Next ==
    \/ \E w \in Workers : WorkerStep(w) \/ ProgressRead(w) \/ Timeout(w) \/ Panic(w)
    \/ \E c \in Clients : ClientStep(c) \/ Request(c)
    \/ DeleteList \/ DeleterStep
    \/ \E old \in SUBSET Jobs : ReapList(old)
    \/ ReaperStep
    \/ Crash \/ RecoveryStep

Spec == Init /\ [][Next]_vars

\* Handlers, workers, the sweep and the restart each keep going.  The engine
\* returns because its context has a deadline, and progress callbacks do not
\* hold it up for ever: each reports a higher percentage than the one before.  A row that stays at running
\* grows old, and from then on every tick of the reaper lists it.
Fairness ==
    /\ \A w \in Workers : WF_vars(WorkerStep(w)) /\ SF_vars(EngineEnd(w))
    /\ \A c \in Clients : WF_vars(ClientStep(c))
    /\ WF_vars(DeleterStep)
    /\ WF_vars(ReaperStep)
    /\ \A j \in Jobs : SF_vars(\E old \in SUBSET Jobs : j \in old /\ ReapList(old))
    /\ WF_vars(RecoveryStep)

LiveSpec == Spec /\ Fairness

-----------------------------------------------------------------------------
(* Properties.                                                             *)

Active(j) == jobs[j] \in {"queued", "running"}
Executes(w, j) == wjob[w] = j /\ wpc[w] \in {"engine", "graduate", "park"}

\* A job is in the jobs table or it is a run, never both (GraduateJob moves
\* it, and no later Update, graduation or recovery brings the row back); a
\* job deleted with its batch is neither, although workers, handlers and the
\* reaper may still hold its id.
RowXorRun ==
    \A j \in Jobs : /\ jobs[j] = "none" \/ runs[j] = "none"
                    /\ j \in deleted => jobs[j] = "none" /\ runs[j] = "none"

\* The engine is started at most once for a job, whatever is re-enqueued by
\* runJob or RecoverJobs, and across crashes.
RunsAtMostOnce == \A j \in Jobs : started[j] <= 1

\* A job that the store has as queued is on its way while the server is up:
\* in the queue, with a worker that has not started it, or with a handler that
\* is about to enqueue it or to graduate it as canceled.
QueuedIsReachable ==
    up => \A j \in Rows("queued") :
            \/ j \in queue
            \/ \E w \in Workers : wjob[w] = j /\ wpc[w] \in {"load", "start", "requeue"}
            \/ \E c \in Clients : cjob[c] = j /\ cpc[c] \in {"enqueue", "lookup", "graduate"}
            \/ dpc = "graduate" /\ djob = j

\* The cancel registry has the worker of every job that this process is
\* running, which is what the reaper and the batch delete take it for
\* (reapStuckJobs).  The one exception is a job that runJob put back after a
\* failed update to running: the deferred unregisterCancel of its first worker
\* may take away the entry its next worker has made.  Even then the entry of
\* another worker is never in its place.
RegistryExact ==
    \A w \in Workers, j \in Jobs :
        Executes(w, j) => cancels[j] = w \/ (cancels[j] = None /\ j \in putBack)

\* The reaper never fails a job that a worker of this process is still on,
\* unless it is one that runJob put back after a failed update to running.
ReapsOnlyAbandoned ==
    [][\A j \in Jobs :
         reaping = j /\ runs[j] = "none" /\ runs'[j] = "failed" /\ j \notin putBack
           => \A w \in Workers : ~Executes(w, j)]_vars

\* Every submitted job ends, although store calls fail and the server crashes.
EventuallyTerminal ==
    \A j \in Jobs : j \notin fresh ~> (Get(j) \in Terminal \/ j \in deleted)

\* The job behind the tables, and the contract these steps implement.
JobStatus(j) ==
    IF j \in deleted THEN "deleted"
    ELSE IF jobs[j] = "failed" THEN "parked" ELSE Get(j)

Contract == INSTANCE JobContract WITH status <- [j \in Jobs |-> JobStatus(j)]

\* Clients see a job only move forward: queued, running, and a run whose
\* status no worker, handler, sweep or restart changes.  A row parked as failed
\* comes before the run: a restart settles it as failed, and a cancel or a
\* delete that looked at the job earlier makes it canceled.  A delete takes an
\* active job with it only if its counts cannot have seen that job: it was
\* created after the count of queued rows, or a count failed.
ImplementsJobContract == Contract!Spec
=============================================================================
