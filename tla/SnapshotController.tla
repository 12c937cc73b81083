------------------------- MODULE SnapshotController -------------------------
(***************************************************************************)
(* The analysis controller (server/analysis/control.go) of one cohort over *)
(* the rows it keeps in the store: the cohort's catalogue row, the runs'   *)
(* facts and projection states, the snapshot row of every batch and the    *)
(* aggregates of every snapshot.  The workers project the runs they        *)
(* finish, the capture loop captures snapshots, an administrator rebuilds, *)
(* clears, patches and retires, and a repair pass follows every restart.   *)
(*                                                                         *)
(* Every store call is a step of its own, so what a process read may be    *)
(* stale when it writes; catalogue and snapshot rows are written whole.    *)
(* A count or an aggregate is the set of runs it was computed from.  All   *)
(* jobs of a batch carry one profile, so a batch never mixes profiles.     *)
(***************************************************************************)
EXTENDS Integers, FiniteSets, Functions

CONSTANTS
    NoSnap,
    Workers,
    Runs, Batches, BatchOf,     \* the runs of the batches submitted
    Results,                    \* how a job may end
    Scenarios                   \* the workers that serve, and what may disturb

Loop == "capture loop"
Admin == "administrator"
Repair == "startup repair"
Procs == Workers \cup {Loop, Admin, Repair}

Disturbances == {"crash", "fault", "rebuild", "clear", "disable", "enable",
                 "rematerialize", "retire", "purge", "intent"}

RunsOf(b) == {r \in Runs : BatchOf[r] = b}

Row == [id: Nat, status: {"pending", "captured", "retired"},
        runs: SUBSET Runs]

Cohort == [enabled: BOOLEAN, mat: {"pending", "ready", "failed"}, stamp: Nat]

ASSUME SnapshotAssumption ==
    /\ BatchOf \in [Runs -> Batches] /\ IsFiniteSet(Batches)
    /\ \A b \in Batches : RunsOf(b) # {}
    /\ Results \subseteq {"succeeded", "failed"}
    /\ Scenarios \subseteq [pool: SUBSET Workers, enabled: BOOLEAN,
                         warm: SUBSET Runs, what: SUBSET Disturbances]
    /\ Workers \cap {Loop, Admin, Repair} = {}
    /\ NoSnap \notin Row \cup Cohort

VARIABLES
    sub,            \* submitBatch of a batch: creating jobs, cut short, done
    wanted,         \* batches.snapshot_intent
    job, run, fin,  \* jobs, runs and their finished_at
    clock,
    state, facts,   \* analysis_projection_state and the fact rows, by run
    cohort,         \* the catalogue row
    snaps,          \* analysis_cohort_snapshots: batch -> row or NoSnap
    overview, views,\* aggregates by snapshot id
    nextId,
    pool,           \* the workers that serve
    left, used,     \* disturbances that may still happen, that happened
    seen,           \* history: the runs that were ever projected
    l               \* the locals of a process

jobs == <<sub, wanted, job, run, fin, clock>>
rows == <<state, facts, seen, cohort, snaps, overview, views, nextId>>
scene == <<pool, left, used>>
vars == <<jobs, rows, scene, l>>

Item == [batch: Batches, snap: Row]

\* The next store call of a process: of a worker, of applySnapshotState and
\* materializeSnapshot, of captureSnapshot, the loop, RebuildCohort and
\* ClearCohort, the repair pass, the administrator.
Places == {"idle", "run", "graduate", "load", "project", "stamp",
           "find", "count", "upsert", "overview", "write overview", "views", "write views",
           "outstanding", "unprojected", "tally", "promote", "next",
           "lookup", "set pending", "clear state", "clear facts", "clear snapshots",
           "cleared", "list", "projecting", "apply", "capture", "rebuilt",
           "boot", "catchup", "caught", "patch", "rewrite", "purge"}

Local == [pc: Places,
          task: {"none", "worker", "loop", "rebuild", "clear", "catchup", "rematerialize",
                 "retire", "purge"},
          run: Runs \cup {NoSnap}, batch: Batches \cup {NoSnap},
          cohort: Cohort \cup {NoSnap}, snap: Row \cup {NoSnap}, held: SUBSET Runs,
          todo: SUBSET (Runs \cup Batches \cup Item), done: SUBSET Batches,
          latest: Nat, then: Places, after: Places \cup {"return"}]

Idle == [pc |-> "idle", task |-> "none", run |-> NoSnap, batch |-> NoSnap,
         cohort |-> NoSnap, snap |-> NoSnap, held |-> {}, todo |-> {},
         done |-> {}, latest |-> 0, then |-> "idle", after |-> "idle"]

SnapshotTypeOK ==
    /\ sub \in [Batches -> {"jobs", "cut", "done"}]
    /\ wanted \in [Batches -> BOOLEAN]
    /\ job \in [Runs -> {"none", "open", "running", "parked", "done"}]
    /\ run \in [Runs -> {"none", "succeeded", "failed"}]
    /\ fin \in [Runs -> Nat] /\ clock \in Nat
    /\ state \subseteq Runs /\ facts \subseteq Runs /\ seen \subseteq Runs
    /\ cohort \in Cohort
    /\ snaps \in [Batches -> Row \cup {NoSnap}] /\ nextId \in Nat
    /\ \A id \in DOMAIN overview : overview[id] \subseteq Runs
    /\ \A id \in DOMAIN views : views[id] \subseteq Runs
    /\ pool \subseteq Workers
    /\ left \subseteq Disturbances /\ used \subseteq Disturbances
    /\ l \in [Procs -> Local]

\* A behaviour starts with a batch that is yet to be submitted or, with runs
\* that are warm, with a submitted one whose warm runs have graduated, and are
\* projected and counted if the cohort is enabled.
InitScene(s) ==
    LET projected == IF s.enabled THEN s.warm ELSE {}
        cold == {b \in Batches : s.warm \cap RunsOf(b) = {}}
        counted == {b \in Batches : projected \cap RunsOf(b) # {}}
    IN  /\ pool = s.pool /\ left = s.what
        /\ sub = [b \in Batches |-> IF b \in cold THEN "jobs" ELSE "done"]
        /\ job = [r \in Runs |-> CASE r \in s.warm -> "done"
                                   [] BatchOf[r] \in cold -> "none"
                                   [] OTHER -> "open"]
        /\ run = [r \in Runs |-> IF r \in s.warm THEN "succeeded" ELSE "none"]
        /\ fin = [r \in Runs |-> IF r \in s.warm THEN 1 ELSE 0]
        /\ clock = IF s.warm = {} THEN 0 ELSE 1
        /\ state = projected /\ facts = projected /\ seen = projected
        /\ cohort = [enabled |-> s.enabled, stamp |-> IF projected = {} THEN 0 ELSE 1,
                     mat |-> IF s.enabled THEN "ready" ELSE "pending"]
        /\ \E ids \in Bijection(counted, 1 .. Cardinality(counted)) :
              snaps = [b \in Batches |->
                         IF b \notin counted THEN NoSnap
                         ELSE [id |-> ids[b], status |-> "pending",
                               runs |-> RunsOf(b) \cap projected]]
        /\ nextId = Cardinality(counted) + 1

Init ==
    /\ \E s \in Scenarios : InitScene(s)
    /\ wanted = [b \in Batches |-> TRUE]
    /\ overview = <<>> /\ views = <<>>
    /\ used = {}
    /\ l = [p \in Procs |-> Idle]

-----------------------------------------------------------------------------
(* The store.                                                              *)

HasBatch(b) == sub[b] = "done"

\* CountOutstandingJobsForBatch (a row parked as failed does not count),
\* CountUnprojectedSnapshotRuns (a run of any status counts) and
\* CountBatchSnapshotRuns.
Outstanding(b) == {r \in RunsOf(b) : job[r] \in {"open", "running"}}
Unprojected(b) == {r \in RunsOf(b) : run[r] # "none" /\ r \notin state}
Counted(b) == RunsOf(b) \cap facts

\* UpsertAnalysisCohortSnapshot finds the row by its batch, not by the id of
\* the caller's copy, and writes all of it; a row that is gone is inserted.
UpsertSnapshot(b, row) ==
    /\ snaps' = [snaps EXCEPT ![b] = [row EXCEPT
                    !.id = IF snaps[b] = NoSnap THEN nextId ELSE snaps[b].id]]
    /\ nextId' = IF snaps[b] = NoSnap THEN nextId + 1 ELSE nextId

UpsertCohort(copy, mat, stamp) ==
    cohort' = [copy EXCEPT !.mat = mat, !.stamp = stamp]

Goto(p, pc) == l' = [l EXCEPT ![p].pc = pc]

\* The end of applySnapshotState or captureSnapshot: back to its caller.
Return(p) == l' = [l EXCEPT ![p].pc = l[p].then, ![p].snap = NoSnap]

Finish(p) == l' = [l EXCEPT ![p] = Idle]

At(p, pc) == l[p].pc = pc

Disturb(d) ==
    /\ d \in left
    /\ left' = left \ {d}
    /\ used' = used \cup {d}
    /\ UNCHANGED pool

\* The three gates of ProjectRun; the copy is the catalogue row it loaded.
Succeeded(r) == run[r] = "succeeded"
Wanted(r) == HasBatch(BatchOf[r]) /\ wanted[BatchOf[r]]

-----------------------------------------------------------------------------
(* submitBatch: the jobs first, then the batch row.                        *)

CreateJob(r) ==
    /\ sub[BatchOf[r]] = "jobs" /\ job[r] = "none"
    /\ job' = [job EXCEPT ![r] = "open"]
    /\ UNCHANGED <<sub, wanted, run, fin, clock, rows, scene, l>>

CreateBatch(b) ==
    /\ sub[b] = "jobs" /\ \A r \in RunsOf(b) : job[r] # "none"
    /\ sub' = [sub EXCEPT ![b] = "done"]
    /\ UNCHANGED <<wanted, job, run, fin, clock, rows, scene, l>>

SubmitStep ==
    \/ \E r \in Runs : CreateJob(r)
    \/ \E b \in Batches : CreateBatch(b)

-----------------------------------------------------------------------------
(* A worker: the job, its graduation, and ProjectRun.                      *)

TakeJob(w, r) ==
    /\ w \in pool /\ At(w, "idle") /\ job[r] = "open"
    /\ job' = [job EXCEPT ![r] = "running"]
    /\ l' = [l EXCEPT ![w] = [Idle EXCEPT !.pc = "run", !.task = "worker",
                                          !.run = r, !.batch = BatchOf[r],
                                          !.then = "stamp"]]
    /\ UNCHANGED <<sub, wanted, run, fin, clock, rows, scene>>

EndJob(w) ==
    /\ At(w, "run")
    /\ clock' = clock + 1
    /\ fin' = [fin EXCEPT ![l[w].run] = clock + 1]
    /\ Goto(w, "graduate")
    /\ UNCHANGED <<sub, wanted, job, run, rows, scene>>

GraduateJob(w) ==
    /\ At(w, "graduate")
    /\ job' = [job EXCEPT ![l[w].run] = "done"]
    /\ \E res \in Results : run' = [run EXCEPT ![l[w].run] = res]
    /\ Goto(w, "load")
    /\ UNCHANGED <<sub, wanted, fin, clock, rows, scene>>

\* A graduation that fails: the row stays behind, parked as failed, without a
\* run, and is not projected.
GraduateFails(w) ==
    /\ At(w, "graduate") /\ Disturb("fault")
    /\ job' = [job EXCEPT ![l[w].run] = "parked"]
    /\ Finish(w)
    /\ UNCHANGED <<sub, wanted, run, fin, clock, rows>>

LoadRun(w) ==
    LET r == l[w].run IN
    /\ At(w, "load")
    /\ IF Succeeded(r) /\ Wanted(r) /\ cohort.enabled
         THEN l' = [l EXCEPT ![w].pc = "project", ![w].cohort = cohort]
         ELSE Finish(w)
    /\ UNCHANGED <<jobs, rows, scene>>

\* ProjectLoaded writes a run's facts and its projection state in one
\* transaction.
WriteFacts(r) ==
    /\ state' = state \cup {r}
    /\ facts' = facts \cup {r}
    /\ seen' = seen \cup {r}
    /\ UNCHANGED <<cohort, snaps, overview, views, nextId>>

ProjectLoaded(w) ==
    /\ At(w, "project")
    /\ WriteFacts(l[w].run)
    /\ Goto(w, "find")
    /\ UNCHANGED <<jobs, scene>>

\* The last write of ProjectRun: the catalogue row as it was when the run was
\* loaded, ready and stamped with the run's finished_at.
StampCohort(w) ==
    /\ At(w, "stamp")
    /\ UpsertCohort(l[w].cohort, "ready", fin[l[w].run])
    /\ Finish(w)
    /\ UNCHANGED <<jobs, state, facts, seen, snaps, overview, views, nextId, scene>>

WorkerStep(w) ==
    \/ \E r \in Runs : TakeJob(w, r)
    \/ EndJob(w) \/ GraduateJob(w) \/ LoadRun(w) \/ ProjectLoaded(w) \/ StampCohort(w)

-----------------------------------------------------------------------------
(* applySnapshotState and materializeSnapshot, called by every process.    *)

\* GetAnalysisCohortSnapshotByBatch.
FindSnapshot(p) ==
    /\ At(p, "find")
    /\ l' = [l EXCEPT ![p].pc = "count", ![p].snap = snaps[l[p].batch]]
    /\ UNCHANGED <<jobs, rows, scene>>

\* It reports a lookup that fails as a row that is not there.
FindFails(p) ==
    /\ At(p, "find") /\ Disturb("fault")
    /\ l' = [l EXCEPT ![p].pc = "count", ![p].snap = NoSnap]
    /\ UNCHANGED <<jobs, rows>>

NewSnapshot_NoStatus == [id |-> 0, status |-> "new", runs |-> {}]

NewSnapshot == [id |-> 0, status |-> "pending", runs |-> {}]

\* A row that was found keeps its status.
CountRuns(p) ==
    /\ At(p, "count")
    /\ l' = [l EXCEPT ![p].pc = "upsert",
                      ![p].snap = [(IF @ = NoSnap THEN NewSnapshot ELSE @)
                                     EXCEPT !.runs = Counted(l[p].batch)]]
    /\ UNCHANGED <<jobs, rows, scene>>

\* A snapshot that was captured when it was found is aggregated again.
StoreSnapshot(p) ==
    /\ At(p, "upsert")
    /\ UpsertSnapshot(l[p].batch, l[p].snap)
    /\ IF l[p].snap.status = "captured"
         THEN l' = [l EXCEPT ![p].pc = "overview", ![p].after = "return"]
         ELSE Return(p)
    /\ UNCHANGED <<jobs, state, facts, seen, cohort, overview, views, scene>>

ApplySnapshotState(p) == FindSnapshot(p) \/ CountRuns(p) \/ StoreSnapshot(p)

With(f, k, v) == [x \in DOMAIN f \cup {k} |-> IF x = k THEN v ELSE f[x]]

\* materializeSnapshot: an aggregate is computed, then replaced, in two calls.
Compute(p, from, to) ==
    /\ At(p, from)
    /\ l' = [l EXCEPT ![p].pc = to, ![p].held = Counted(l[p].batch)]
    /\ UNCHANGED <<jobs, rows, scene>>

ReplaceOverview(p) ==
    /\ At(p, "write overview")
    /\ overview' = With(overview, l[p].snap.id, l[p].held)
    /\ l' = [l EXCEPT ![p].pc = "views", ![p].held = {}]
    /\ UNCHANGED <<jobs, state, facts, seen, cohort, snaps, views, nextId, scene>>

ReplaceViews(p) ==
    /\ At(p, "write views")
    /\ views' = With(views, l[p].snap.id, l[p].held)
    /\ l' = [l EXCEPT ![p].held = {}, ![p].after = "idle",
                      ![p].pc = IF l[p].after = "return" THEN l[p].then ELSE l[p].after,
                      ![p].snap = IF l[p].after = "return" THEN NoSnap ELSE @]
    /\ UNCHANGED <<jobs, state, facts, seen, cohort, snaps, overview, nextId, scene>>

MaterializeSnapshot(p) ==
    \/ Compute(p, "overview", "write overview") \/ ReplaceOverview(p)
    \/ Compute(p, "views", "write views") \/ ReplaceViews(p)

-----------------------------------------------------------------------------
(* captureSnapshot, called by the capture loop and by a rebuild.           *)

Check(p, from, ok, to) ==
    /\ At(p, from)
    /\ IF ok THEN Goto(p, to) ELSE Return(p)
    /\ UNCHANGED <<jobs, rows, scene>>

CheckOutstanding(p) ==
    Check(p, "outstanding", Outstanding(l[p].batch) = {}, "unprojected")

CheckUnprojected(p) ==
    Check(p, "unprojected", Unprojected(l[p].batch) = {}, "tally")

TallyRuns_KeepsCount(p) ==
    /\ At(p, "tally")
    /\ IF Counted(l[p].batch) = {} THEN Return(p)
       ELSE l' = [l EXCEPT ![p].pc = "overview", ![p].after = "promote"]
    /\ UNCHANGED <<jobs, rows, scene>>

TallyRuns(p) ==
    LET n == Counted(l[p].batch) IN
    /\ At(p, "tally")
    /\ IF n = {} THEN Return(p)
                 ELSE l' = [l EXCEPT ![p].pc = "overview", ![p].after = "promote",
                                     ![p].snap.runs = n]
    /\ UNCHANGED <<jobs, rows, scene>>

\* The row as it was listed, with the new counts, becomes captured.
PromoteToCaptured(p) ==
    /\ At(p, "promote")
    /\ UpsertSnapshot(l[p].batch, [l[p].snap EXCEPT !.status = "captured"])
    /\ Return(p)
    /\ UNCHANGED <<jobs, state, facts, seen, cohort, overview, views, scene>>

CaptureSnapshot(p) ==
    \/ CheckOutstanding(p) \/ CheckUnprojected(p) \/ TallyRuns(p)
    \/ PromoteToCaptured(p)

-----------------------------------------------------------------------------
(* CaptureCompletedSnapshots, at startup and every 30 seconds.             *)

PendingSnapshots_Counted ==
    {[batch |-> b, snap |-> snaps[b]] :
        b \in {c \in Batches : /\ snaps[c] # NoSnap /\ snaps[c].status = "pending"
                              /\ snaps[c].runs = RunsOf(c)}}

PendingSnapshots ==
    {[batch |-> b, snap |-> snaps[b]] :
        b \in {c \in Batches : snaps[c] # NoSnap /\ snaps[c].status = "pending"}}

ListPending ==
    /\ At(Loop, "idle") /\ PendingSnapshots # {}
    /\ l' = [l EXCEPT ![Loop] = [Idle EXCEPT !.pc = "next", !.task = "loop",
                                    !.then = "next", !.todo = PendingSnapshots]]
    /\ UNCHANGED <<jobs, rows, scene>>

NextPending ==
    /\ At(Loop, "next")
    /\ IF l[Loop].todo = {} THEN Finish(Loop)
       ELSE \E i \in l[Loop].todo :
              /\ \A k \in l[Loop].todo : i.snap.id <= k.snap.id
              /\ l' = [l EXCEPT ![Loop].pc = "outstanding", ![Loop].batch = i.batch,
                                ![Loop].snap = i.snap, ![Loop].todo = @ \ {i}]
    /\ UNCHANGED <<jobs, rows, scene>>

-----------------------------------------------------------------------------
(* RebuildCohort and ClearCohort, of the administrator and of the repair.  *)

\* RebuildCohort of a cohort that is disabled is ClearCohort; else its first
\* write is the pending status.
LookupCohort(p) ==
    /\ At(p, "lookup")
    /\ l' = [l EXCEPT ![p].cohort = cohort,
                      ![p].task = IF cohort.enabled THEN @ ELSE "clear",
                      ![p].pc = IF l[p].task = "rebuild" /\ cohort.enabled
                                  THEN "set pending" ELSE "clear state"]
    /\ UNCHANGED <<jobs, rows, scene>>

SetPending(p) ==
    /\ At(p, "set pending")
    /\ UpsertCohort(l[p].cohort, "pending", 0)
    /\ Goto(p, "clear state")
    /\ UNCHANGED <<jobs, state, facts, seen, snaps, overview, views, nextId, scene>>

\* ClearAnalysisCohortMaterialization deletes table by table, the projection
\* states first.
ClearState(p) ==
    /\ At(p, "clear state")
    /\ state' = {}
    /\ Goto(p, "clear facts")
    /\ UNCHANGED <<jobs, facts, seen, cohort, snaps, overview, views, nextId, scene>>

ClearFacts(p) ==
    /\ At(p, "clear facts")
    /\ facts' = {}
    /\ Goto(p, "clear snapshots")
    /\ UNCHANGED <<jobs, state, seen, cohort, snaps, overview, views, nextId, scene>>

\* ClearAnalysisCohortSnapshots: the aggregates of the cohort's rows, the rows.
StoredIds == {snaps[b].id : b \in {c \in Batches : snaps[c] # NoSnap}}

Without(f, ids) == [i \in DOMAIN f \ ids |-> f[i]]

ClearSnapshots(p) ==
    /\ At(p, "clear snapshots")
    /\ overview' = Without(overview, StoredIds)
    /\ views' = Without(views, StoredIds)
    /\ snaps' = [b \in Batches |-> NoSnap]
    /\ Goto(p, IF l[p].task = "rebuild" THEN "list" ELSE "cleared")
    /\ UNCHANGED <<jobs, state, facts, seen, cohort, nextId, scene>>

\* The last write of ClearCohort: the catalogue row it looked up, pending.
EndClear(p) ==
    /\ At(p, "cleared")
    /\ UpsertCohort(l[p].cohort, "pending", 0)
    /\ Finish(p)
    /\ UNCHANGED <<jobs, state, facts, seen, snaps, overview, views, nextId, scene>>

ListRuns_SinceStamp(p) ==
    /\ At(p, "list")
    /\ l' = [l EXCEPT ![p].pc = "projecting",
                      ![p].todo = IF cohort.enabled
                                    THEN {r \in Runs : /\ run[r] # "none"
                                                       /\ fin[r] > l[p].cohort.stamp}
                                    ELSE {}]
    /\ UNCHANGED <<jobs, rows, scene>>

\* The runs there are; a cohort disabled since matches none of them.
ListRuns(p) ==
    /\ At(p, "list")
    /\ l' = [l EXCEPT ![p].pc = "projecting",
                      ![p].todo = IF cohort.enabled
                                    THEN {r \in Runs : run[r] # "none"} ELSE {}]
    /\ UNCHANGED <<jobs, rows, scene>>

\* projectRunForRebuild, in any order; then the batches it found, in order.
ProjectForRebuild(p) ==
    /\ At(p, "projecting")
    /\ IF l[p].todo = {}
         THEN /\ l' = [l EXCEPT ![p].pc = "apply", ![p].todo = l[p].done]
              /\ UNCHANGED rows
         ELSE \E r \in l[p].todo :
                IF Succeeded(r) /\ Wanted(r)
                  THEN /\ WriteFacts(r)
                       /\ l' = [l EXCEPT ![p].todo = @ \ {r},
                                         ![p].done = @ \cup {BatchOf[r]}]
                  ELSE /\ l' = [l EXCEPT ![p].todo = @ \ {r}]
                       /\ UNCHANGED rows
    /\ UNCHANGED <<jobs, scene>>

ApplyNext(p) ==
    /\ At(p, "apply")
    /\ IF l[p].todo = {}
         THEN l' = [l EXCEPT ![p].pc = "capture", ![p].todo = l[p].done]
         ELSE \E b \in l[p].todo :
                l' = [l EXCEPT ![p].pc = "find", ![p].batch = b, ![p].then = "apply",
                               ![p].todo = @ \ {b}]
    /\ UNCHANGED <<jobs, rows, scene>>

CaptureNext(p) ==
    /\ At(p, "capture")
    /\ IF l[p].todo = {} THEN Goto(p, "rebuilt")
       ELSE \E b \in l[p].todo :
              l' = [l EXCEPT ![p].pc = IF snaps[b] = NoSnap THEN @ ELSE "outstanding",
                             ![p].batch = b, ![p].snap = snaps[b],
                             ![p].then = "capture", ![p].todo = @ \ {b}]
    /\ UNCHANGED <<jobs, rows, scene>>

\* The last write of RebuildCohort: the catalogue row of its first step.
EndRebuild(p) ==
    /\ At(p, "rebuilt")
    /\ UpsertCohort(l[p].cohort, "ready", IF l[p].done = {} THEN 0 ELSE clock)
    /\ Finish(p)
    /\ UNCHANGED <<jobs, state, facts, seen, snaps, overview, views, nextId, scene>>

RebuildStep(p) ==
    \/ LookupCohort(p) \/ SetPending(p)
    \/ ClearState(p) \/ ClearFacts(p) \/ ClearSnapshots(p)
    \/ EndClear(p)
    \/ ListRuns(p) \/ ProjectForRebuild(p) \/ ApplyNext(p) \/ CaptureNext(p)
    \/ EndRebuild(p)

-----------------------------------------------------------------------------
(* RepairAllCohorts after a restart.                                       *)

BeginRepair ==
    /\ At(Repair, "boot")
    /\ l' = [l EXCEPT ![Repair] =
          IF cohort.enabled /\ cohort.mat = "ready"
            THEN [Idle EXCEPT !.pc = "catchup", !.task = "catchup", !.cohort = cohort,
                              !.then = "caught", !.latest = cohort.stamp,
                              !.todo = {r \in Runs : run[r] # "none"
                                                     /\ fin[r] > cohort.stamp}]
            ELSE [Idle EXCEPT !.pc = "lookup", !.task = "rebuild"]]
    /\ UNCHANGED <<jobs, rows, scene>>

\* projectAndAccumulate: the run is projected whatever its status.
CatchUpRun(r) ==
    /\ At(Repair, "catchup") /\ r \in l[Repair].todo
    /\ IF Wanted(r)
         THEN /\ WriteFacts(r)
              /\ l' = [l EXCEPT ![Repair].pc = "find", ![Repair].run = r,
                                ![Repair].batch = BatchOf[r],
                                ![Repair].todo = @ \ {r}]
         ELSE /\ l' = [l EXCEPT ![Repair].todo = @ \ {r}]
              /\ UNCHANGED rows
    /\ UNCHANGED <<jobs, scene>>

CaughtUp ==
    /\ At(Repair, "caught")
    /\ l' = [l EXCEPT ![Repair].pc = "catchup",
                      ![Repair].latest = IF fin[l[Repair].run] > @
                                           THEN fin[l[Repair].run] ELSE @,
                      ![Repair].done = @ \cup {l[Repair].batch}]
    /\ UNCHANGED <<jobs, rows, scene>>

EndCatchUp ==
    /\ At(Repair, "catchup") /\ l[Repair].todo = {}
    /\ IF l[Repair].done = {} THEN UNCHANGED cohort
       ELSE UpsertCohort(l[Repair].cohort, "ready", l[Repair].latest)
    /\ Finish(Repair)
    /\ UNCHANGED <<jobs, state, facts, seen, snaps, overview, views, nextId, scene>>

RepairStep ==
    \/ BeginRepair \/ (\E r \in Runs : CatchUpRun(r)) \/ CaughtUp \/ EndCatchUp

-----------------------------------------------------------------------------
(* The administrator's requests.                                           *)

\* POST rebuild runs in the background, POST clear in the request.
RequestRebuild ==
    /\ Disturb("rebuild") /\ At(Admin, "idle")
    /\ l' = [l EXCEPT ![Admin] = [Idle EXCEPT !.pc = "lookup", !.task = "rebuild"]]
    /\ UNCHANGED <<jobs, rows>>

RequestClear ==
    /\ Disturb("clear") /\ At(Admin, "idle")
    /\ l' = [l EXCEPT ![Admin] = [Idle EXCEPT !.pc = "lookup", !.task = "clear"]]
    /\ UNCHANGED <<jobs, rows>>

\* PATCH analysis_enabled: the row as the request read it, then the change of
\* ReconcileCohortChange.
RequestEnabled(d, on) ==
    /\ Disturb(d) /\ At(Admin, "idle") /\ cohort.enabled # on
    /\ l' = [l EXCEPT ![Admin] = [Idle EXCEPT !.pc = "patch", !.cohort = cohort,
                            !.task = IF on THEN "rebuild" ELSE "clear"]]
    /\ UNCHANGED <<jobs, rows>>

PatchCohort ==
    /\ At(Admin, "patch")
    /\ cohort' = [l[Admin].cohort EXCEPT !.enabled = (l[Admin].task = "rebuild")]
    /\ Goto(Admin, "lookup")
    /\ UNCHANGED <<jobs, state, facts, seen, snaps, overview, views, nextId, scene>>

\* Rematerialize computes the aggregates again and writes the row it read back.
RequestRematerialize(b) ==
    /\ Disturb("rematerialize") /\ At(Admin, "idle") /\ snaps[b] # NoSnap
    /\ l' = [l EXCEPT ![Admin] = [Idle EXCEPT !.pc = "overview", !.after = "rewrite",
                            !.task = "rematerialize", !.batch = b, !.snap = snaps[b]]]
    /\ UNCHANGED <<jobs, rows>>

RewriteRow ==
    /\ At(Admin, "rewrite")
    /\ UpsertSnapshot(l[Admin].batch, l[Admin].snap)
    /\ Finish(Admin)
    /\ UNCHANGED <<jobs, state, facts, seen, cohort, overview, views, scene>>

\* DELETE of a snapshot retires the row it read.
RequestRetire(b) ==
    /\ Disturb("retire") /\ At(Admin, "idle") /\ snaps[b] # NoSnap
    /\ l' = [l EXCEPT ![Admin] = [Idle EXCEPT !.pc = "rewrite", !.task = "retire",
                            !.batch = b, !.snap = [snaps[b] EXCEPT !.status = "retired"]]]
    /\ UNCHANGED <<jobs, rows>>

\* DELETE with ?purge deletes the aggregates and the row of the id it read.
RequestPurge(b) ==
    /\ Disturb("purge") /\ At(Admin, "idle") /\ snaps[b] # NoSnap
    /\ l' = [l EXCEPT ![Admin] = [Idle EXCEPT !.pc = "purge", !.task = "purge",
                            !.batch = b, !.snap = snaps[b]]]
    /\ UNCHANGED <<jobs, rows>>

PurgeRow ==
    LET id == l[Admin].snap.id IN
    /\ At(Admin, "purge")
    /\ overview' = Without(overview, {id})
    /\ views' = Without(views, {id})
    /\ snaps' = [b \in Batches |-> IF snaps[b] # NoSnap /\ snaps[b].id = id
                                     THEN NoSnap ELSE snaps[b]]
    /\ Finish(Admin)
    /\ UNCHANGED <<jobs, state, facts, seen, cohort, nextId, scene>>

\* PATCH snapshot_intent of a batch.
RequestIntent(b) ==
    /\ Disturb("intent") /\ HasBatch(b)
    /\ wanted' = [wanted EXCEPT ![b] = ~@]
    /\ UNCHANGED <<sub, job, run, fin, clock, rows, l>>

AdminStep ==
    \/ RequestRebuild \/ RequestClear
    \/ RequestEnabled("disable", FALSE) \/ RequestEnabled("enable", TRUE) \/ PatchCohort
    \/ \E b \in Batches : \/ RequestRematerialize(b) \/ RequestRetire(b)
                          \/ RequestPurge(b) \/ RequestIntent(b)
    \/ RewriteRow \/ PurgeRow

-----------------------------------------------------------------------------
(* Faults.                                                                 *)

\* A store call fails.  A worker only logs it, having marked the cohort failed
\* if its facts were not written; a rebuild and a catch-up mark the cohort
\* failed; the capture loop gives its pass up.
StoreFault(p) ==
    /\ Disturb("fault")
    /\ l[p].pc \in {"project", "count", "upsert", "overview", "write overview", "views",
                    "write views", "outstanding", "unprojected", "tally", "promote"}
    /\ cohort' = IF l[p].task \in {"rebuild", "catchup"} \/ At(p, "project")
                   THEN [l[p].cohort EXCEPT !.mat = "failed",
                           !.stamp = IF l[p].task = "catchup" THEN @ ELSE 0]
                   ELSE cohort
    /\ Finish(p)
    /\ UNCHANGED <<jobs, state, facts, seen, snaps, overview, views, nextId>>

\* The process ends and starts again: RecoverJobs graduates the running and the
\* parked rows as failed, the repair pass begins.  A submitBatch under way is
\* cut short: the batch keeps the jobs it has and never gets its row.
Crash ==
    LET orphans == {r \in Runs : job[r] \in {"running", "parked"}} IN
    /\ Disturb("crash")
    /\ clock' = clock + 1
    /\ sub' = [b \in Batches |-> IF sub[b] = "jobs" /\ \E r \in RunsOf(b) : job[r] # "none"
                                   THEN "cut" ELSE sub[b]]
    /\ job' = [r \in Runs |-> IF r \in orphans THEN "done" ELSE job[r]]
    /\ run' = [r \in Runs |-> IF r \in orphans THEN "failed" ELSE run[r]]
    /\ fin' = [r \in Runs |-> IF job[r] = "running" THEN clock + 1 ELSE fin[r]]
    /\ l' = [p \in Procs |-> IF p = Repair THEN [Idle EXCEPT !.pc = "boot"] ELSE Idle]
    /\ UNCHANGED <<wanted, rows>>

-----------------------------------------------------------------------------
Next ==
    \/ SubmitStep
    \/ \E w \in Workers : WorkerStep(w)
    \/ \E p \in Procs : ApplySnapshotState(p) \/ MaterializeSnapshot(p) \/ CaptureSnapshot(p)
    \/ ListPending \/ NextPending
    \/ \E p \in {Admin, Repair} : RebuildStep(p)
    \/ RepairStep \/ AdminStep
    \/ \E p \in Procs \ {Admin} : StoreFault(p) \/ FindFails(p)
    \/ \E w \in Workers : GraduateFails(w)
    \/ Crash

\* The steps of a running process; the loop's ticker never stops.
ProcStep(p) ==
    \/ ApplySnapshotState(p) \/ MaterializeSnapshot(p) \/ CaptureSnapshot(p)
    \/ p \in Workers /\ WorkerStep(p)
    \/ p = Loop /\ (ListPending \/ NextPending)
    \/ p \in {Admin, Repair} /\ RebuildStep(p)
    \/ p = Repair /\ RepairStep
    \/ p = Admin /\ (PatchCohort \/ RewriteRow \/ PurgeRow)

Spec == Init /\ [][Next]_vars /\ WF_vars(SubmitStep) /\ \A p \in Procs : WF_vars(ProcStep(p))

-----------------------------------------------------------------------------
(* Properties.                                                             *)

Quiet == \A p \in Procs : l[p] = Idle

Captured(b) == snaps[b] # NoSnap /\ snaps[b].status = "captured"

\* At most one disturbance so far, and it is none of ds.
Untouched(ds) == Cardinality(used) <= 1 /\ used \cap ds = {}

\* The jobs of a batch that have become runs.
Graduated(b) == {r \in RunsOf(b) : job[r] = "done"}

\* At any moment, whoever is in the middle of what, a captured snapshot covers
\* what its batch produced: no job is on its way, the jobs that graduated are
\* the runs it counts, all of them projected, and both aggregates were computed
\* from all of them.  Neither late projections, stale rows, a failed store call
\* nor a restart of captureSnapshot and ProjectRun undo that; a clear, a
\* rebuild, a rematerialization and a purge do.  A job parked because its
\* graduation failed is left out of the snapshot and does not hold it up;
\* without a failed call every job is in it.
CapturedIsWhole ==
    Untouched({"clear", "disable", "enable", "rebuild", "rematerialize", "purge"}) =>
        \A b \in Batches : Captured(b) =>
            /\ \A r \in RunsOf(b) : job[r] \in {"done", "parked"}
            /\ "fault" \notin used => Graduated(b) = RunsOf(b)
            /\ snaps[b].runs = Graduated(b) /\ Graduated(b) \subseteq facts \cap state
            /\ snaps[b].id \in DOMAIN overview \cap DOMAIN views
            /\ overview[snaps[b].id] = Graduated(b) /\ views[snaps[b].id] = Graduated(b)

\* A run that was ever projected is projected when all is quiet again after one
\* disturbance: what RebuildCohort deletes it puts back, runs that workers project
\* meanwhile included, and so does the repair pass after a crash.  A second
\* disturbance may keep a rebuild from putting back what it deleted.
FactsKept ==
    Quiet /\ Untouched({"clear", "disable"}) => seen \subseteq facts \cap state

Drained(b) == sub[b] = "done" /\ \A r \in RunsOf(b) : job[r] \in {"done", "parked"}

\* A snapshot whose batch is drained and projected for good does not stay
\* pending for good: stale rows that put a captured snapshot back to pending,
\* passes the capture loop gave up, a job parked as failed and a restart only
\* delay its capture.
SettlesCaptured ==
    \A b \in Batches :
        <>[](/\ Drained(b) /\ snaps[b] # NoSnap
             /\ Graduated(b) # {} /\ Graduated(b) \subseteq facts \cap state)
            => <>[](snaps[b] # NoSnap /\ snaps[b].status # "pending")

\* What docs/server/operations.md says of the capture loop: it "captures the
\* snapshots of drained snapshot-intent batches".
DrainedIsCaptured == \A b \in Batches : Drained(b) ~> Captured(b)
=============================================================================
